------------------------------ MODULE MCExecutor ------------------------------
(***************************************************************************)
(* Meshes, inputs and operations for TLC: two and three devices in a line  *)
(* and a square of four, one with its devices in another order.            *)
(***************************************************************************)
EXTENDS ShapeSolver

x == <<"x">>
w == <<"w">>
y == <<"y">>
z == <<"z">>
i == <<"i">>

MeshOf(n, m, ids) == [shape |-> [d \in MeshDims |-> IF d = 0 THEN n ELSE m], device_ids |-> ids]
MCMeshes == {MeshOf(2, 1, <<0, 1>>), MeshOf(3, 1, <<0, 1, 2>>), MeshOf(2, 2, <<1, 3, 0, 2>>)}

P2(a, b) == [d \in MeshDims |-> IF d = 0 THEN a ELSE b]
In(n, rows, cols, pl, ids) == [name |-> n, shape |-> Rows(rows, cols), pl |-> pl, device_ids |-> ids]

MCSetups == {
  <<In(x, 6, 6, P2("S0", "R"), {}), In(w, 6, 6, P2("R", "S1"), {})>>,
  <<In(x, 6, 6, P2("S1", "R"), {}), In(w, 6, 6, P2("S0", "R"), {})>>,
  <<In(x, 6, 6, P2("R", "R"), {}), In(w, 6, 6, P2("S1", "R"), {})>>,
  <<In(x, 4, 4, P2("S0", "S0"), {}), In(w, 4, 6, P2("S0", "P"), {})>>,
  <<In(x, 6, 4, P2("S0", "R"), {}), In(w, 4, 3, P2("R", "R"), {})>>,
  <<In(x, 6, 3, P2("R", "R"), {0}), In(x, 6, 3, P2("R", "R"), {1}),
    In(w, 6, 3, P2("P", "R"), {})>>}

P2P(kind, n, out, src, dst) == [kind |-> kind, ins |-> <<n>>, out |-> out, src |-> src, dst |-> dst]

MCMenu == {
  Op("MatMul", <<x, w>>, y),
  Op("MatMul", <<w, x>>, z),
  Op("Add", <<y, x>>, z),
  Op("Unary", <<x>>, y),
  Op("Unary", <<y>>, z),
  Op("Transpose", <<w>>, y),
  Op("AllReduce", <<y>>, y),
  Op("AllGather", <<x>>, x),
  Op("ReduceScatter", <<w>>, y),
  P2P("Send", x, y, 0, 1),
  P2P("Recv", y, z, 0, 1),
  P2P("SendAsync", y, x, 1, 0),
  P2P("RecvAsync", y, y, 0, 1),
  [kind |-> "Wait", ins |-> <<y>>, out |-> z],
  [kind |-> "WaitAll", ins |-> <<x, y>>, out |-> y, outs |-> <<y, z>>],
  Rotation(x, x, 3), Rotation(w, y, 2),
  [kind |-> "TopKGate", ins |-> <<x, w>>, out |-> y, indices_output |-> i, top_k |-> 2],
  [kind |-> "RingAttention", ins |-> <<x, w, w>>, out |-> z, ring_size |-> 3],
  [kind |-> "RingAttention", ins |-> <<x, w, w>>, out |-> z, ring_size |-> 2],
  [kind |-> "OverlapRegion", ins |-> <<x, w>>, out |-> z,
   compute_ops |-> <<Op("MatMul", <<x, w>>, y), Op("Unary", <<y>>, z)>>,
   comm_ops |-> <<Op("AllReduce", <<z>>, z)>>],
  [kind |-> "OverlapRegion", ins |-> <<x>>, out |-> y,
   compute_ops |-> <<Op("Unary", <<x>>, y)>>,
   comm_ops |-> <<P2P("SendAsync", w, z, 0, 1), Rotation(x, z, 2)>>]}
=============================================================================
