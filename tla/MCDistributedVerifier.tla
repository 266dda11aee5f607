------------------------ MODULE MCDistributedVerifier ------------------------
(***************************************************************************)
(* Menus of operations for TLC: a layer of a network and the collectives   *)
(* around it, with results in fresh tensors and in place.                  *)
(***************************************************************************)
EXTENDS DistributedVerifier

Op(kind, ins, out) ==
  [kind |-> kind, ins |-> ins, out |-> out, dim |-> 0, concat_dim |-> 0, mesh_dim |-> NoDim]

OnDim(o, dim) == [o EXCEPT !.dim = dim]

MCMenu == {
  Op("MatMul", <<"x", "w">>, "y"),
  Op("MatMul", <<"y", "w">>, "z"),
  Op("Add", <<"y", "x">>, "z"),
  Op("Add", <<"x", "y">>, "y"),
  Op("Add", <<"x", "x">>, "y"),
  Op("Multiply", <<"y", "x">>, "z"),
  Op("Unary", <<"y">>, "z"),
  Op("Unary", <<"x">>, "x"),
  Op("Unary", <<"w">>, "x"),
  Op("Transpose", <<"x">>, "y"),
  OnDim(Op("Norm", <<"y">>, "z"), 1),
  Op("FlashAttention", <<"x", "w", "y">>, "z"),
  Op("Embedding", <<"x", "w">>, "y"),
  OnDim(Op("CrossEntropyLoss", <<"y", "x">>, "z"), 1),
  Op("AllReduce", <<"y">>, "z"),
  Op("AllReduce", <<"y">>, "y"),
  Op("AllReduce", <<"z">>, "v"),
  Op("AllGather", <<"y">>, "z"),
  OnDim(Op("AllGather", <<"y">>, "z"), 1),
  OnDim(Op("AllGather", <<"z">>, "v"), 1),
  Op("AllGather", <<"z">>, "v"),
  Op("ReduceScatter", <<"y">>, "z"),
  [Op("AllToAll", <<"y">>, "z") EXCEPT !.concat_dim = 1],
  OnDim(Op("Scatter", <<"x">>, "y"), 1),
  Op("Broadcast", <<"y">>, "z")}

\* Two layers with an activation function between the products.
MCLayerMenu == {
  Op("MatMul", <<"x", "w">>, "y"),
  Op("Unary", <<"y">>, "z"),
  Op("MatMul", <<"z", "w">>, "v"),
  Op("AllReduce", <<"z">>, "u"),
  Op("AllReduce", <<"v">>, "u")}
=============================================================================
