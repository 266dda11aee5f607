------------------------------ MODULE Rewriting ------------------------------
(***************************************************************************)
(* The rewrite system of verifier/rewrite.py: what the analyzer says of a  *)
(* program and of the states of its tensors, the two rewrite rules, and the*)
(* cost model; with the symbolic run (verifier/executor.py) that gives the *)
(* states, at the level of placements, where all devices agree.            *)
(*                                                                         *)
(* A program is a sequence of the operations of TensorOps.  FreshName gives*)
(* the name of the reduced tensor (y_partial becomes y_reduced, ...).      *)
(***************************************************************************)
EXTENDS TensorOps, SequencesExt, FiniteSetsExt

CONSTANT FreshName

-----------------------------------------------------------------------------
Put(f, n, x) == [m \in DOMAIN f \cup {n} |-> IF m = n THEN x ELSE f[m]]

(***************************************************************************)
(* run_program.  An operation one of whose inputs is not there is skipped, *)
(* or raises an exception if the executor is strict.                       *)
(***************************************************************************)
RunOp(strict, r, o) ==
  LET ins == [k \in DOMAIN o.ins |-> r.tensors[o.ins[k]]]
  IN  IF r.raised THEN r
      ELSE IF ~(ToSet(o.ins) \subseteq DOMAIN r.tensors)
           THEN [r EXCEPT !.raised = strict]
      ELSE IF Raises(o, ins) THEN [r EXCEPT !.raised = TRUE]
      ELSE [r EXCEPT !.tensors = Put(@, o.out, Apply(o, ins))]

RunProgram(strict, p, inputs) ==
  LET run[i \in 0 .. Len(p)] == IF i = 0 THEN [tensors |-> inputs, raised |-> FALSE]
                                ELSE RunOp(strict, run[i - 1], p[i])
  IN  run[Len(p)]

-----------------------------------------------------------------------------
(***************************************************************************)
(* PlacementAnalyzer.analyze: the matrix products whose result is partial  *)
(* and that no later AllReduce reads, and the AllReduces of a tensor that  *)
(* is not partial.                                                         *)
(***************************************************************************)
KnownPartial(states, n) == n \in DOMAIN states /\ IsPartial(states[n])
KnownWhole(states, n)   == n \in DOMAIN states /\ ~IsPartial(states[n])

\* Faulty: an AllReduce anywhere in the program will do.
ReducedAnywhere(p, i, n) == \E j \in 1 .. Len(p) : p[j].kind = "AllReduce" /\ p[j].ins[1] = n

ReducedAfter(p, i, n) == \E j \in (i + 1) .. Len(p) : p[j].kind = "AllReduce" /\ p[j].ins[1] = n

PartialProducts(p, states) ==
  {i \in 1 .. Len(p) : p[i].kind = "MatMul" /\ KnownPartial(states, p[i].out)}

\* Faulty: the last operation is not looked at.
MissingBeforeLast(p, states) ==
  {i \in PartialProducts(p, states) : i < Len(p) /\ ~ReducedAfter(p, i, p[i].out)}

Missing(p, states) == {i \in PartialProducts(p, states) : ~ReducedAfter(p, i, p[i].out)}

\* Faulty: it looks at the state of the sum.
RedundantByOutput(p, states) ==
  {i \in 1 .. Len(p) : p[i].kind = "AllReduce" /\ KnownWhole(states, p[i].out)}

Redundant(p, states) ==
  {i \in 1 .. Len(p) : p[i].kind = "AllReduce" /\ KnownWhole(states, p[i].ins[1])}

AnalyzedCorrect(p, states) == Missing(p, states) = {} /\ Redundant(p, states) = {}

-----------------------------------------------------------------------------
AllReduceOp(x, y) ==
  [kind |-> "AllReduce", ins |-> <<x>>, out |-> y, dim |-> 0, concat_dim |-> 0, mesh_dim |-> NoDim]

\* clone_with_names: the operation reads new where it read old.
ReadInstead(o, old, new) ==
  [o EXCEPT !.ins = [k \in DOMAIN @ |-> IF @[k] = old THEN new ELSE @[k]]]

\* Faulty: before operation i.
InsertAllReduceBefore(p, i) ==
  LET n == p[i].out
  IN  SubSeq(p, 1, i - 1) \o <<AllReduceOp(n, FreshName[n])>>
        \o [j \in 1 .. (Len(p) - i + 1) |-> ReadInstead(p[i + j - 1], n, FreshName[n])]

\* InsertAllReduceRule.apply: after operation i, and what follows reads the sum.
InsertAllReduce(p, i) ==
  LET n == p[i].out
  IN  SubSeq(p, 1, i) \o <<AllReduceOp(n, FreshName[n])>>
        \o [j \in 1 .. (Len(p) - i) |-> ReadInstead(p[i + j], n, FreshName[n])]

\* RemoveRedundantAllReduceRule.apply: every other operation reads its input.
RemoveAllReduce(p, i) ==
  RemoveAt([j \in DOMAIN p |-> ReadInstead(p[j], p[i].out, p[i].ins[1])], i)

-----------------------------------------------------------------------------
\* ProgramCost: an AllReduce counts twice.
OpCost(o) == CASE o.kind = "AllReduce" -> 2
               [] o.kind \in {"AllGather", "ReduceScatter"} -> 1
               [] OTHER -> 0

Cost(p) == LET cost[i \in 0 .. Len(p)] == IF i = 0 THEN 0 ELSE cost[i - 1] + OpCost(p[i])
           IN  cost[Len(p)]

\* The elements of a set of positions of p, in order.
InOrder(S, p) ==
  LET found[i \in 0 .. Len(p)] == IF i = 0 THEN << >>
                                  ELSE IF i \in S THEN Append(found[i - 1], i) ELSE found[i - 1]
  IN  found[Len(p)]
=============================================================================
