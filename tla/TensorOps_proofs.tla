-------------------------- MODULE TensorOps_proofs --------------------------
(***************************************************************************)
(* The types of the placement rules, and induction over the naturals in    *)
(* the form that the other proofs use.                                     *)
(***************************************************************************)
EXTENDS TensorOps, WellFoundedInduction, TLAPS

\* The order of the naturals is well-founded.
LEMMA LessThan == IsWellFoundedOn({p \in Nat \X Nat : p[1] < p[2]}, Nat)
BY NatLessThanWellFounded DEF OpToRel

\* A set that has 0 and with each number the next has every number.
LEMMA Induction ==
  ASSUME NEW S, 0 \in S, \A n \in Nat : n \in S => n + 1 \in S
  PROVE  Nat \subseteq S
<1> SUFFICES ASSUME Nat \ S # {} PROVE FALSE
  OBVIOUS
<1> DEFINE L == {p \in Nat \X Nat : p[1] < p[2]}
<1>1. IsWellFoundedOn(L, Nat)
  BY LessThan
<1> HIDE DEF L
<1>2. PICK n \in Nat \ S : \A m \in Nat \ S : ~ (<<m, n>> \in L)
  BY <1>1, WFMin
<1>3. n # 0 /\ n - 1 \in Nat /\ n - 1 < n
  BY <1>2
<1>4. n - 1 \in S
  BY <1>2, <1>3 DEF L
<1> QED BY <1>2, <1>3, <1>4

-----------------------------------------------------------------------------
Kinds == UnaryKinds \cup BinaryKinds

\* An operation as the classes make it.
IsOp(o) == /\ o.kind \in Kinds
           /\ 1 \in DOMAIN o.ins
           /\ o.kind \in BinaryKinds => 2 \in DOMAIN o.ins
           /\ o.mesh_dim \in MeshDims \cup {NoDim}

\* The placements that a rule computes are placements.
LEMMA ShardType == \A dim : Shard(dim) \in PL
BY DEF Shard, PL

\* So are those of a collective.
LEMMA ChangedType ==
  ASSUME NEW o, NEW x \in Placements, NEW from, NEW to \in PL
  PROVE  /\ Changed(o, x, from, to) \in Placements
         /\ FirstChanged(o, x, from, to) \in Placements
BY DEF Changed, FirstChanged, Placements

\* And those of the operations on one or two tensors.
LEMMA RuleTypes ==
  \A a \in PL : /\ SwappedPlacement(a) \in PL
                /\ \A b \in PL : MatMulPlacement(a, b) \in PL /\ MergePlacement(a, b) \in PL
BY DEF MatMulPlacement, MergePlacement, SwappedPlacement, PL

\* Every operation of the menu computes a placement from placements.
LEMMA ApplyType ==
  ASSUME NEW o, IsOp(o), NEW ins \in [DOMAIN o.ins -> Placements]
  PROVE  Apply(o, ins) \in Placements
<1> DEFINE x == ins[1]
<1>1. x \in Placements
  BY DEF IsOp
<1>2. \A d \in MeshDims : x[d] \in PL
  BY <1>1 DEF Placements
<1>3. CASE o.kind \in BinaryKinds
  <2>1. \A d \in MeshDims : ins[2][d] \in PL
    BY <1>3 DEF IsOp, Placements
  <2>2. CASE o.kind = "MatMul"
    <3>1. Apply(o, ins) = [d \in MeshDims |-> MatMulPlacement(x[d], ins[2][d])]
      BY <2>2 DEF Apply
    <3> QED BY <3>1, <1>2, <2>1, RuleTypes DEF Placements
  <2>3. CASE o.kind \in {"Add", "Multiply"}
    <3>1. Apply(o, ins) = [d \in MeshDims |-> MergePlacement(x[d], ins[2][d])]
      BY <2>3 DEF Apply
    <3> QED BY <3>1, <1>2, <2>1, RuleTypes DEF Placements
  <2>4. CASE o.kind = "FlashAttention"
    <3>1. Apply(o, ins) = [d \in MeshDims |-> AttentionPlacement(x, ins[2], d)]
      BY <2>4 DEF Apply
    <3>2. \A d \in MeshDims : AttentionPlacement(x, ins[2], d) \in PL
      BY <1>2 DEF AttentionPlacement, PL
    <3> QED BY <3>1, <3>2 DEF Placements
  <2>5. CASE o.kind = "Embedding"
    <3>1. Apply(o, ins) = [d \in MeshDims |-> EmbeddingPlacement(ins[2][d], o.dim)]
      BY <2>5 DEF Apply
    <3>2. \A d \in MeshDims : EmbeddingPlacement(ins[2][d], o.dim) \in PL
      BY <2>1 DEF EmbeddingPlacement, PL
    <3> QED BY <3>1, <3>2 DEF Placements
  <2>6. CASE o.kind = "CrossEntropyLoss"
    <3>1. Apply(o, ins) = [d \in MeshDims |-> LossPlacement(x[d], o.dim)]
      BY <2>6 DEF Apply
    <3>2. \A d \in MeshDims : LossPlacement(x[d], o.dim) \in PL
      BY DEF LossPlacement, PL
    <3> QED BY <3>1, <3>2 DEF Placements
  <2> QED BY <1>3, <2>2, <2>3, <2>4, <2>5, <2>6 DEF BinaryKinds
<1>4. CASE o.kind \in UnaryKinds
  <2>1. CASE o.kind \in {"Unary", "Norm"}
    <3>1. Apply(o, ins) = x
      BY <2>1 DEF Apply
    <3> QED BY <3>1, <1>1
  <2>2. CASE o.kind = "Transpose"
    <3>1. Apply(o, ins) = [d \in MeshDims |-> SwappedPlacement(x[d])]
      BY <2>2 DEF Apply
    <3> QED BY <3>1, <1>2, RuleTypes DEF Placements
  <2>3. CASE o.kind = "AllReduce"
    <3>1. Apply(o, ins) = Changed(o, x, {"P"}, "R")
      BY <2>3 DEF Apply
    <3> QED BY <3>1, <1>1, ChangedType DEF PL
  <2>4. CASE o.kind = "AllGather"
    <3>1. Apply(o, ins) = Changed(o, x, {Shard(o.dim)}, "R")
      BY <2>4 DEF Apply
    <3> QED BY <3>1, <1>1, ChangedType DEF PL
  <2>5. CASE o.kind = "AllToAll"
    <3>1. Apply(o, ins) = Changed(o, x, {Shard(o.dim)}, Shard(o.concat_dim))
      BY <2>5 DEF Apply
    <3> QED BY <3>1, <1>1, ChangedType, ShardType
  <2>6. CASE o.kind = "ReduceScatter"
    <3>1. Apply(o, ins) = FirstChanged(o, x, {"R", "P"}, Shard(o.dim))
      BY <2>6 DEF Apply
    <3> QED BY <3>1, <1>1, ChangedType, ShardType
  <2>7. CASE o.kind = "Scatter"
    <3>1. Apply(o, ins) = FirstChanged(o, x, {"R"}, Shard(o.dim))
      BY <2>7 DEF Apply
    <3> QED BY <3>1, <1>1, ChangedType, ShardType
  <2>8. CASE o.kind = "Broadcast"
    <3>1. Apply(o, ins) = [d \in MeshDims |-> "R"]
      BY <2>8 DEF Apply
    <3> QED BY <3>1 DEF Placements, PL
  <2> QED BY <1>4, <2>1, <2>2, <2>3, <2>4, <2>5, <2>6, <2>7, <2>8 DEF UnaryKinds
<1> QED BY <1>3, <1>4 DEF IsOp, Kinds
=============================================================================
