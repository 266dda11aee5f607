--------------------------- MODULE PlacementSolver ---------------------------
(***************************************************************************)
(* Z3PlacementSolver (verifier/solver.py), its placement level: one integer*)
(* variable per tensor and mesh dimension, one constraint per operation,   *)
(* queries for counterexamples.  Before it is encoded a program with       *)
(* in-place operations is renamed (_ssa_rename_program).                   *)
(*                                                                         *)
(* No constraint relates two mesh dimensions, so a model of the constraints*)
(* is a solution for each dimension, chosen independently: Models(d) is the*)
(* set of the solutions for dimension d.                                   *)
(***************************************************************************)
EXTENDS TensorOps, FiniteSets

VARIABLES ops,       \* Program.ops
          tensors    \* tensor states: the placements of each tensor computed so far

Indices == 1 .. Len(ops)
SeqSet(s) == {s[k] : k \in DOMAIN s}

ReadNames    == UNION {SeqSet(ops[i].ins) : i \in Indices}
WrittenNames == {ops[i].out : i \in Indices}

-----------------------------------------------------------------------------
(***************************************************************************)
(* _ssa_rename_program.  The first definition of a name keeps it, which is *)
(* also the name of a program input; later ones get versions 1, 2, ...     *)
(***************************************************************************)
HasInPlace == \E i \in Indices : ops[i].out \in SeqSet(ops[i].ins)

Definitions(n, i) == {j \in 1 .. i : ops[j].out = n}

\* Faulty: an operation reads the version that it defines.
CurrentAfterAll(n, i) ==
  <<n, IF ~HasInPlace \/ Definitions(n, Len(ops)) = {} THEN 0
       ELSE Cardinality(Definitions(n, Len(ops))) - 1>>

\* The version of the name after i operations.
Current(n, i) ==
  <<n, IF ~HasInPlace \/ Definitions(n, i) = {} THEN 0
       ELSE Cardinality(Definitions(n, i)) - 1>>

SsaIns(i) == [k \in DOMAIN ops[i].ins |-> Current(ops[i].ins[k], i - 1)]
SsaOut(i) == Current(ops[i].out, i)

SsaWritten == {SsaOut(i) : i \in Indices}
SsaRead    == UNION {SeqSet(SsaIns(i)) : i \in Indices}

-----------------------------------------------------------------------------
(***************************************************************************)
(* encode_program: the value it forces on the output, for one mesh         *)
(* dimension, and what it demands of the inputs.                           *)
(***************************************************************************)
\* Faulty: the operands are swapped, and rows that are sharded get lost.
EncodeMatMulSwapped(a, b) == IF a # "P" /\ b = "R" THEN b
                             ELSE IF a = "R" /\ b # "P" THEN a ELSE "P"

EncodeMatMul(a, b) == IF a # "P" /\ b = "R" THEN a
                      ELSE IF a = "R" /\ b # "P" THEN b ELSE "P"

\* The placement of a collective's output when it has a target placement.
Constrained(o, d, x, target) == IF o.mesh_dim \in MeshDims /\ o.mesh_dim # d THEN x ELSE target

EncodeGather(o, d, x) ==
  IF o.mesh_dim \in MeshDims
  THEN IF d = o.mesh_dim THEN "R" ELSE x
  ELSE IF x = Shard(o.dim) THEN "R" ELSE x

Encoded(o, d, x) ==
  CASE o.kind = "MatMul" -> EncodeMatMul(x[1], x[2])
    [] o.kind \in {"Add", "Multiply"} -> IF x[1] = "R" THEN x[2] ELSE x[1]
    [] o.kind \in {"Unary", "Norm", "Transpose", "FlashAttention"} -> x[1]
    [] o.kind = "Embedding" -> IF x[2] = "S0" THEN "P" ELSE x[2]
    [] o.kind = "CrossEntropyLoss" -> IF x[1] = "R" THEN "R" ELSE "P"
    [] o.kind = "AllReduce" -> Constrained(o, d, x[1], "R")
    [] o.kind = "AllGather" -> EncodeGather(o, d, x[1])
    [] o.kind = "AllToAll" -> Constrained(o, d, x[1], Shard(o.concat_dim))
    [] o.kind \in {"ReduceScatter", "Scatter"} -> Constrained(o, d, x[1], Shard(o.dim))
    [] o.kind = "Broadcast" -> "R"

\* Two partial operands, or a norm over a sharded dimension, have no solution.
Demands(o, x) ==
  /\ o.kind \in {"Add", "Multiply"} => ~(x[1] = "P" /\ x[2] = "P")
  /\ o.kind = "Norm" => x[1] # Shard(o.dim)

\* The placement of a tensor in a solution: inputs have that of their tensor.
Value(s, n, d) == IF n \in SsaWritten THEN s[n] ELSE tensors[n[1]][d]

Solves(s, i, d) ==
  LET x == [k \in DOMAIN ops[i].ins |-> Value(s, SsaIns(i)[k], d)]
  IN  s[SsaOut(i)] = Encoded(ops[i], d, x) /\ Demands(ops[i], x)

Models(d) == {s \in [SsaWritten -> PL] : \A i \in Indices : Solves(s, i, d)}

-----------------------------------------------------------------------------
(***************************************************************************)
(* The queries.  A query is answered unsat, and so proved, if no model of  *)
(* the constraints is a counterexample.                                    *)
(***************************************************************************)
Satisfiable == \A d \in MeshDims : Models(d) # {}

\* check_output_equivalence
ProvedReplicate(n) ==
  n \in SsaWritten \cup SsaRead =>
    \A d \in MeshDims : \A s \in Models(d) : Value(s, n, d) = "R"

\* check_collective_preconditions.  Broadcast, Scatter have none.
Required(o) ==
  CASE o.kind = "AllReduce" -> {"P"}
    [] o.kind \in {"AllGather", "AllToAll"} -> {Shard(o.dim)}
    [] o.kind = "ReduceScatter" -> {"R", "P"}
    [] o.kind \notin {"AllReduce", "AllGather", "AllToAll", "ReduceScatter"} -> PL

CheckedDim(o) == IF o.mesh_dim \in MeshDims THEN o.mesh_dim ELSE 0

ProvedPrecondition(i) ==
  LET d == CheckedDim(ops[i])
  IN  \A s \in Models(d) : Value(s, SsaIns(i)[1], d) \in Required(ops[i])

\* verify_placement_consistency, for the given outputs.  What
\* check_compute_preconditions asks is among the constraints (Demands).
PlacementConsistent(output_names) ==
  /\ Satisfiable
  /\ \A n \in output_names : ProvedReplicate(Current(n, Len(ops)))
  /\ \A i \in Indices : ProvedPrecondition(i)
=============================================================================
