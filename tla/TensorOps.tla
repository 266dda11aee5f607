------------------------------ MODULE TensorOps ------------------------------
(***************************************************************************)
(* What an operation does to the placement of its tensors: the apply       *)
(* methods of verifier/ir/compute.py, collective.py and shape.py over the  *)
(* placements of verifier/state/placement.py.                              *)
(*                                                                         *)
(* An operation is a record: its kind is its class, ins the names it reads,*)
(* out the name it writes, dim its gather_dim, scatter_dim, split_dim,     *)
(* norm_dim or vocab_dim, concat_dim that of an AllToAll, mesh_dim the mesh*)
(* dimension a collective is restricted to, NoDim if none.  Classes with   *)
(* the same rule share a kind: "Unary" is SiLU, GELU, ReLU and Dropout,    *)
(* "Norm" is LayerNorm, RMSNorm and Softmax, "AllReduce" is Reduce too if  *)
(* it has no mesh_dim, "AllGather" is Gather too.                          *)
(*                                                                         *)
(* Tensors are matrices whose sizes every mesh size divides, so a placement*)
(* shards dimension 0 or dimension 1 and shapes never clash.               *)
(***************************************************************************)
EXTENDS Integers, Sequences

CONSTANTS MeshNdim,   \* the number of dimensions of the mesh
          NoDim       \* None

MeshDims == 0 .. (MeshNdim - 1)

ASSUME MeshAssumption == MeshNdim \in Nat \ {0} /\ NoDim \notin MeshDims

\* Replicate, Shard(0), Shard(1), Partial.
PL == {"R", "S0", "S1", "P"}
Shard(dim) == IF dim = 0 THEN "S0" ELSE "S1"
Placements == [MeshDims -> PL]

IsPartial(x)    == \E d \in MeshDims : x[d] = "P"
ShardedOn(x, k) == \E d \in MeshDims : x[d] = Shard(k)

-----------------------------------------------------------------------------
MatMulPlacement(a, b) == IF a = "S1" /\ b = "S0" THEN "P"
                         ELSE IF b = "S1" THEN "S1" ELSE a

MergePlacement(a, b) == IF a = "R" THEN b ELSE a
Mergeable(a, b)      == a = "R" \/ b = "R" \/ a = b

\* Faulty: a transposed tensor is sharded like the tensor.
SamePlacement(x) == x

SwappedPlacement(x) == CASE x = "S0" -> "S1" [] x = "S1" -> "S0" [] x \in {"R", "P"} -> x

AttentionPlacement(q, k, d) ==
  IF k[d] = "S1" /\ ~ShardedOn(q, 1) THEN "P" ELSE q[d]

EmbeddingPlacement(weight, vocab_dim) == IF weight = Shard(vocab_dim) THEN "P" ELSE weight

LossPlacement(logits, vocab_dim) ==
  IF logits \in {Shard(vocab_dim), "P"} THEN "P" ELSE "R"

\* A collective changes the placements in from to the placement to, on its
\* mesh dimension or, if it has none, on every one.
Changed(o, x, from, to) ==
  [d \in MeshDims |-> IF o.mesh_dim \in {NoDim, d} /\ x[d] \in from THEN to ELSE x[d]]

\* ReduceScatter and Scatter without a mesh dimension change the first only.
FirstChanged(o, x, from, to) ==
  [d \in MeshDims |->
     IF /\ x[d] \in from
        /\ \/ o.mesh_dim = d
           \/ o.mesh_dim = NoDim /\ \A e \in MeshDims : e < d => x[e] \notin from
     THEN to ELSE x[d]]

-----------------------------------------------------------------------------
UnaryKinds  == {"Unary", "Norm", "Transpose", "AllReduce", "AllGather", "AllToAll",
                "ReduceScatter", "Scatter", "Broadcast"}
BinaryKinds == {"MatMul", "Add", "Multiply", "FlashAttention", "Embedding", "CrossEntropyLoss"}

\* apply raises an exception.
Raises(o, ins) ==
  \/ o.kind = "AllReduce" /\ ~IsPartial(ins[1])
  \/ o.kind = "Norm" /\ ShardedOn(ins[1], o.dim)
  \/ /\ o.kind \in {"Add", "Multiply"}
     /\ \E d \in MeshDims : ~Mergeable(ins[1][d], ins[2][d])
  \/ o.kind = "Multiply" /\ IsPartial(ins[1]) /\ IsPartial(ins[2])

\* The placements of the tensor that apply returns.
Apply(o, ins) ==
  LET x == ins[1]
  IN  CASE o.kind = "MatMul" ->
             [d \in MeshDims |-> MatMulPlacement(x[d], ins[2][d])]
        [] o.kind \in {"Add", "Multiply"} ->
             [d \in MeshDims |-> MergePlacement(x[d], ins[2][d])]
        [] o.kind \in {"Unary", "Norm"}   -> x
        [] o.kind = "Transpose" -> [d \in MeshDims |-> SwappedPlacement(x[d])]
        [] o.kind = "FlashAttention" ->
             [d \in MeshDims |-> AttentionPlacement(x, ins[2], d)]
        [] o.kind = "Embedding" ->
             [d \in MeshDims |-> EmbeddingPlacement(ins[2][d], o.dim)]
        [] o.kind = "CrossEntropyLoss" ->
             [d \in MeshDims |-> LossPlacement(x[d], o.dim)]
        [] o.kind = "AllReduce"     -> Changed(o, x, {"P"}, "R")
        [] o.kind = "AllGather"     -> Changed(o, x, {Shard(o.dim)}, "R")
        [] o.kind = "AllToAll"      -> Changed(o, x, {Shard(o.dim)}, Shard(o.concat_dim))
        [] o.kind = "ReduceScatter" -> FirstChanged(o, x, {"R", "P"}, Shard(o.dim))
        [] o.kind = "Scatter"       -> FirstChanged(o, x, {"R"}, Shard(o.dim))
        [] o.kind = "Broadcast"     -> [d \in MeshDims |-> "R"]
=============================================================================
