------------------------------ MODULE Synthesis ------------------------------
(***************************************************************************)
(* SynthesisEngine.synthesize (verifier/synthesis.py): from a program      *)
(* without collectives, search the sets of AllReduce insertions, smallest  *)
(* sets first, for a program that runs to unpartial outputs; if there is   *)
(* none, fall back on ProgramOptimizer.optimize (verifier/rewrite.py).     *)
(* PatternSynthesizer.synthesize_from_spec runs the program and goes to the*)
(* optimizer at once; synthesize_parallel_program calls it first and then, *)
(* whatever it returned, the engine.                                       *)
(*                                                                         *)
(* One step is one candidate of _search_level, or one iteration of the     *)
(* optimizer.  Positions count from 1.                                     *)
(***************************************************************************)
EXTENDS Rewriting

CONSTANTS Programs,        \* the programs considered
          InputNames,      \* the names of their inputs
          InputSpecs,      \* the sharding specs given for some of them
          MaxDepth,        \* max_search_depth
          BeamWidth,       \* beam_width
          MaxRewrites      \* max_iterations of optimize

\* Programs are made of the operations of the classes, inputs of placements.
ASSUME ProgramsAssumption ==
  \A p \in Programs :
    /\ Len(p) \in Nat /\ p = [i \in 1 .. Len(p) |-> p[i]]
    /\ \A i \in 1 .. Len(p) :
         /\ {"kind", "ins", "out", "dim", "concat_dim", "mesh_dim"} \subseteq DOMAIN p[i]
         /\ p[i].kind \in UnaryKinds \cup BinaryKinds
         /\ 1 \in DOMAIN p[i].ins
         /\ p[i].kind \in BinaryKinds => 2 \in DOMAIN p[i].ins
         /\ p[i].mesh_dim \in MeshDims \cup {NoDim}
ASSUME InputSpecsAssumption ==
  \A specs \in InputSpecs : \A n \in DOMAIN specs : specs[n] \in Placements
ASSUME BoundsAssumption == /\ MaxDepth \in Nat \ {0}
                           /\ BeamWidth \in Nat \ {0}
                           /\ MaxRewrites \in Nat

VARIABLES
  base,       \* the program given
  inputs,     \* the placements of its inputs
  entry,      \* what was called: "synthesize", "from_spec" or "parallel"
  phase,      \* "start", "search", "optimize", "done", "raised"
  states,     \* the tensors after the first run
  tactics,    \* the insertions proposed
  depth,      \* how many are combined
  remaining,  \* the combinations still to be tried at this depth
  level,      \* the candidates of this depth
  best,       \* the best candidate
  current,    \* optimize: the program
  history     \* optimize: the rules applied

synthesisVars == <<base, inputs, entry, phase, states, tactics, depth, remaining, level, best,
                   current, history>>

searchVars   == <<tactics, depth, remaining, level>>
optimizeVars == <<current, history>>

ReadNames(p)         == UNION {ToSet(p[i].ins) : i \in DOMAIN p}
OutputNames(p, st)   == DOMAIN st \ ReadNames(p)
OutputsWhole(p, st)  == \A n \in OutputNames(p, st) : ~IsPartial(st[n])

NoCandidate == [program |-> << >>, size |-> 0, cost |-> 0, valid |-> FALSE]

\* An input without a sharding spec is replicated.
Placed(specs) ==
  [n \in InputNames |-> IF n \in DOMAIN specs THEN specs[n] ELSE [d \in MeshDims |-> "R"]]

SynthesisInit ==
  /\ base \in Programs
  /\ inputs \in {Placed(specs) : specs \in InputSpecs}
  /\ entry \in {"synthesize", "from_spec", "parallel"}
  /\ phase = "start"
  /\ states = << >>
  /\ tactics = << >> /\ depth = 0 /\ remaining = {} /\ level = << >>
  /\ best = NoCandidate
  /\ current = << >> /\ history = << >>

-----------------------------------------------------------------------------
(***************************************************************************)
(* TacticProposer.propose: an AllReduce right after each product that lacks*)
(* one and, as an alternative, at the end; then at the end for the partial *)
(* tensors that have no tactic yet.                                        *)
(***************************************************************************)
Tactic(i, n) == [at |-> i, name |-> n]

Proposed(p, st) ==
  LET covered  == {p[i].out : i \in Missing(p, st)}
      others   == InOrder({i \in PartialProducts(p, st) :
                             /\ p[i].out \notin covered
                             /\ \A j \in PartialProducts(p, st) : p[j].out = p[i].out => i <= j}, p)
      after(i) == IF i \notin Missing(p, st) THEN << >>
                  ELSE IF i = Len(p) THEN <<Tactic(i, p[i].out)>>
                  ELSE <<Tactic(i, p[i].out), Tactic(Len(p), p[i].out)>>
      all[i \in 0 .. Len(p)] == IF i = 0 THEN << >> ELSE all[i - 1] \o after(i)
  IN  all[Len(p)] \o [k \in DOMAIN others |-> Tactic(Len(p), p[others[k]].out)]

\* Tactic.apply: what follows the AllReduce reads the sum, until the tensor
\* is written again.
ApplyTactic(p, t) ==
  LET WrittenBetween(i) == \E j \in (t.at + 1) .. (i - 1) : p[j].out = t.name
  IN  SubSeq(p, 1, IF t.at < Len(p) THEN t.at ELSE Len(p))
        \o <<AllReduceOp(t.name, FreshName[t.name])>>
        \o [j \in 1 .. (Len(p) - t.at) |->
              LET o == p[t.at + j]
              IN  IF WrittenBetween(t.at + j) THEN o
                  ELSE ReadInstead(o, t.name, FreshName[t.name])]

\* The tactics of a combination are applied in their order, each at its
\* position in the program it was proposed for.
ApplyTactics(p, ts, combination) ==
  LET applied[k \in 0 .. Len(ts)] ==
        IF k = 0 THEN p
        ELSE IF k \in combination THEN ApplyTactic(applied[k - 1], ts[k]) ELSE applied[k - 1]
  IN  applied[Len(ts)]

-----------------------------------------------------------------------------
\* Faulty: the search begins with pairs.
FirstDepthTwo == 2

\* The search begins with single tactics.
FirstDepth == 1

Combinations(n, d) == kSubset(IF d < n THEN d ELSE n, 1 .. n)

\* itertools.combinations yields them in lexicographic order.
NextCombination ==
  CHOOSE c \in remaining :
    \A d \in remaining \ {c} : Min((c \cup d) \ (c \cap d)) \in c

(***************************************************************************)
(* synthesize: the program is run and analyzed.  A program that lacks      *)
(* nothing is returned as it is.                                           *)
(***************************************************************************)
Start ==
  /\ phase = "start" /\ entry = "synthesize"
  /\ LET r == RunProgram(FALSE, base, inputs)
         ts == Proposed(base, r.tensors)
     IN  /\ states' = r.tensors
         /\ IF r.raised
            THEN /\ phase' = "raised"
                 /\ UNCHANGED <<searchVars, best>>
            ELSE IF AnalyzedCorrect(base, r.tensors)
            THEN /\ phase' = "done"
                 /\ best' = [program |-> base, size |-> 0, cost |-> Cost(base), valid |-> TRUE]
                 /\ UNCHANGED searchVars
            ELSE /\ phase' = "search"
                 /\ tactics' = ts /\ depth' = FirstDepth
                 /\ remaining' = Combinations(Len(ts), FirstDepth)
                 /\ UNCHANGED <<level, best>>
  /\ UNCHANGED <<base, inputs, entry, optimizeVars>>

\* synthesize_from_spec: the program is run and goes to the optimizer.
StartFromSpec ==
  /\ phase = "start" /\ entry # "synthesize"
  /\ LET r == RunProgram(FALSE, base, inputs)
     IN  /\ states' = r.tensors
         /\ phase' = IF r.raised THEN "raised" ELSE "optimize"
         /\ current' = IF r.raised THEN current ELSE base
  /\ UNCHANGED <<base, inputs, entry, searchVars, best, history>>

\* One combination of _search_level.
TryCombination ==
  /\ phase = "search" /\ remaining # {}
  /\ LET p == ApplyTactics(base, tactics, NextCombination)
         r == RunProgram(FALSE, p, inputs)
         c == [program |-> p, size |-> Cardinality(NextCombination), cost |-> Cost(p),
               valid |-> AnalyzedCorrect(p, r.tensors) /\ OutputsWhole(p, r.tensors)]
     IN  IF r.raised
         THEN phase' = "raised" /\ UNCHANGED <<remaining, level>>
         ELSE /\ remaining' = remaining \ {NextCombination}
              /\ level' = IF best.valid /\ c.cost >= best.cost THEN level ELSE Append(level, c)
              /\ UNCHANGED phase
  /\ UNCHANGED <<base, inputs, entry, states, tactics, depth, best, optimizeVars>>

-----------------------------------------------------------------------------
\* Candidate.__lt__.
Before(c, d) ==
  \/ c.valid /\ ~d.valid
  \/ c.valid = d.valid /\ \/ c.cost < d.cost
                          \/ c.cost = d.cost /\ c.size < d.size

\* The level sorted and cut to the width of the beam; the sort is stable.
Rank(k) == Cardinality({j \in DOMAIN level : \/ Before(level[j], level[k])
                                             \/ j < k /\ ~Before(level[k], level[j])})
Beam    == {k \in DOMAIN level : Rank(k) < BeamWidth}
ValidInBeam == {k \in Beam : level[k].valid}

\* The first of the valid candidates of the beam that costs least.
BestOfBeam ==
  CHOOSE k \in ValidInBeam :
    \A j \in ValidInBeam : \/ level[k].cost < level[j].cost
                           \/ level[k].cost = level[j].cost /\ Rank(k) <= Rank(j)

\* A level has been searched.  One with a valid candidate is the last.
EndLevel ==
  /\ phase = "search" /\ remaining = {}
  /\ \/ /\ ValidInBeam # {}
        /\ phase' = "done" /\ best' = level[BestOfBeam]
        /\ UNCHANGED <<searchVars, current>>
     \/ /\ ValidInBeam = {} /\ depth < MaxDepth
        /\ depth' = depth + 1
        /\ remaining' = Combinations(Len(tactics), depth + 1)
        /\ level' = << >>
        /\ UNCHANGED <<phase, tactics, best, current>>
     \/ /\ ValidInBeam = {} /\ depth = MaxDepth
        /\ phase' = "optimize" /\ current' = base
        /\ UNCHANGED <<searchVars, best>>
  /\ UNCHANGED <<base, inputs, entry, states, history>>

-----------------------------------------------------------------------------
(***************************************************************************)
(* ProgramOptimizer.optimize.  The states are those of the program given,  *)
(* whatever the rules have made of it.                                     *)
(***************************************************************************)

\* Faulty: only the number of iterations ends the loop.
FixedAtLast == Len(history) = MaxRewrites

Fixed == \/ AnalyzedCorrect(current, states)
         \/ Len(history) = MaxRewrites

\* The first product that lacks an AllReduce gets one.
InsertRule ==
  /\ phase = "optimize" /\ ~Fixed /\ Missing(current, states) # {}
  /\ LET i == Min(Missing(current, states))
     IN  current' = InsertAllReduce(current, i)
  /\ history' = Append(history, "insert_allreduce")
  /\ UNCHANGED <<base, inputs, entry, phase, states, searchVars, best>>

\* None lacks one: the first redundant AllReduce goes.
RemoveRule ==
  /\ phase = "optimize" /\ ~Fixed
  /\ Missing(current, states) = {} /\ Redundant(current, states) # {}
  /\ LET i == Min(Redundant(current, states))
     IN  current' = RemoveAllReduce(current, i)
  /\ history' = Append(history, "remove_redundant_allreduce")
  /\ UNCHANGED <<base, inputs, entry, phase, states, searchVars, best>>

\* optimize returns to synthesize, which runs and analyzes what it returned
\* and takes it if nothing is missing or redundant.
EndFallback ==
  /\ phase = "optimize" /\ Fixed /\ entry = "synthesize"
  /\ LET r == RunProgram(FALSE, current, inputs)
         c == [program |-> current, size |-> Len(history), cost |-> Cost(current), valid |-> TRUE]
     IN  /\ phase' = IF r.raised THEN "raised" ELSE "done"
         /\ best' = IF ~r.raised /\ AnalyzedCorrect(current, r.tensors) THEN c ELSE best
  /\ UNCHANGED <<base, inputs, entry, states, searchVars, optimizeVars>>

\* optimize returns to synthesize_from_spec.
EndFromSpec ==
  /\ phase = "optimize" /\ Fixed /\ entry = "from_spec"
  /\ phase' = "done"
  /\ best' = [program |-> current, size |-> Len(history), cost |-> Cost(current), valid |-> TRUE]
  /\ UNCHANGED <<base, inputs, entry, states, searchVars, optimizeVars>>

\* synthesize_parallel_program has no use for the optimized program.
GoOnToEngine ==
  /\ phase = "optimize" /\ Fixed /\ entry = "parallel"
  /\ entry' = "synthesize" /\ phase' = "start"
  /\ states' = << >> /\ current' = << >> /\ history' = << >>
  /\ UNCHANGED <<base, inputs, searchVars, best>>

SynthesisNext ==
  \/ Start
  \/ StartFromSpec
  \/ TryCombination
  \/ EndLevel
  \/ InsertRule
  \/ RemoveRule
  \/ EndFallback
  \/ EndFromSpec
  \/ GoOnToEngine

\* Some action can be taken.
CanStep == \/ phase \in {"start", "search"}
           \/ /\ phase = "optimize"
              /\ Fixed \/ Missing(current, states) # {} \/ Redundant(current, states) # {}

\* The call goes on as long as it can: WF_synthesisVars(SynthesisNext) with
\* ENABLED SynthesisNext spelled out, which TLC evaluates faster.
SynthesisFairness == []<>~CanStep \/ []<><<SynthesisNext>>_synthesisVars

SynthesisSpec ==
  SynthesisInit /\ [][SynthesisNext]_synthesisVars /\ SynthesisFairness
-----------------------------------------------------------------------------
(***************************************************************************)
(* The programs the engine is made for: every name is written once, what is*)
(* read is an input or written before, and the names of the sums are new.  *)
(***************************************************************************)
WrittenNames(p) == {p[i].out : i \in DOMAIN p}

SingleAssignment(p) ==
  /\ \A i, j \in DOMAIN p : p[i].out = p[j].out => i = j
  /\ WrittenNames(p) \cap DOMAIN inputs = {}

ReadsEarlier(p) ==
  \A i \in DOMAIN p : \A n \in ToSet(p[i].ins) :
    n \in DOMAIN inputs \/ \E j \in 1 .. (i - 1) : p[j].out = n

SumsApart(p) ==
  \A n \in WrittenNames(p) :
    /\ FreshName[n] \notin WrittenNames(p) \cup DOMAIN inputs
    /\ \A m \in WrittenNames(p) : FreshName[m] = FreshName[n] => m = n

WellFormed == SingleAssignment(base) /\ ReadsEarlier(base) /\ SumsApart(base)

\* There are no collectives, only matrix products make a tensor partial, and no
\* input is partial.
ComputeOnly == /\ \A i \in DOMAIN base :
                     base[i].kind \notin {"Embedding", "CrossEntropyLoss", "FlashAttention",
                                         "AllReduce", "AllGather", "ReduceScatter"}
               /\ \A n \in DOMAIN inputs : ~IsPartial(inputs[n])

Succeeded == phase = "done" /\ entry = "synthesize" /\ best.valid

\* No output of a synthesized program is left partial.
SoundSynthesis ==
  Succeeded /\ WellFormed /\ ComputeOnly =>
    LET r == RunProgram(FALSE, best.program, inputs)
    IN  ~r.raised /\ OutputsWhole(best.program, r.tensors)

(***************************************************************************)
(* What a program computes on one device, where a collective changes       *)
(* nothing: the term of each name.                                         *)
(***************************************************************************)
TermOf(t, o) ==
  IF ~(ToSet(o.ins) \subseteq DOMAIN t) THEN t
  ELSE Put(t, o.out, IF o.kind = "AllReduce" THEN t[o.ins[1]]
                     ELSE <<o.kind, o.dim, [k \in DOMAIN o.ins |-> t[o.ins[k]]]>>)

Terms(p) == LET terms[i \in 0 .. Len(p)] == IF i = 0 THEN [n \in DOMAIN inputs |-> <<n>>]
                                            ELSE TermOf(terms[i - 1], p[i])
            IN  terms[Len(p)]

\* An output of the given program is computed by the synthesized one: the
\* same term, and whole, under its name or as the reduced tensor.
MeaningKept ==
  Succeeded /\ WellFormed /\ ComputeOnly =>
    \A n \in OutputNames(base, states) :
      \E m \in {n, FreshName[n]} :
        LET final == RunProgram(FALSE, best.program, inputs).tensors
            terms == Terms(best.program)
        IN  m \in DOMAIN final /\ ~IsPartial(final[m]) /\ terms[m] = Terms(base)[n]

\* The search stops at the first depth with a valid candidate, and its best
\* is the cheapest valid one of every depth.
CheapestOfAll ==
  Succeeded /\ history = << >> =>
    \A d \in 1 .. MaxDepth : \A c \in Combinations(Len(tactics), d) :
      LET p == ApplyTactics(base, tactics, c)
          r == RunProgram(FALSE, p, inputs)
      IN  (~r.raised /\ AnalyzedCorrect(p, r.tensors) /\ OutputsWhole(p, r.tensors))
            => Cost(best.program) <= Cost(p)

\* In a program that assigns each name once and reads it after that no AllReduce
\* is redundant, so the optimizer removes none.
NothingRemoved ==
  SingleAssignment(base) /\ ReadsEarlier(base) =>
    \A k \in DOMAIN history : history[k] = "insert_allreduce"

\* No partial product is made of a partial tensor.
IndependentProducts ==
  \A i \in PartialProducts(base, states) : \A n \in ToSet(base[i].ins) : KnownWhole(states, n)

\* What is reduced is the result of a product, and nothing is scattered.
SumsOfProducts ==
  \A i \in DOMAIN base :
    /\ base[i].kind # "Scatter"
    /\ base[i].kind = "AllReduce" =>
         \E j \in DOMAIN base : base[j].kind = "MatMul" /\ base[j].out = base[i].ins[1]

(***************************************************************************)
(* An optimized program runs, and computes all that the given one computed.*)
(* (The optimizer goes by the states of the program given, which its own   *)
(* insertions change.  If products depend on each other, or what is reduced*)
(* is made of a product, the AllReduce of a tensor that has become whole   *)
(* raises an exception; a Scatter changes a tensor where it is replicated.)*)
(***************************************************************************)
OptimizedIsRight ==
  /\ phase = "done" /\ entry = "from_spec"
  /\ WellFormed /\ IndependentProducts /\ SumsOfProducts
  => /\ ~RunProgram(TRUE, best.program, inputs).raised
     /\ \A n \in DOMAIN Terms(base) : /\ n \in DOMAIN Terms(best.program)
                                      /\ Terms(best.program)[n] = Terms(base)[n]

\* Every call ends.
Ends == <>(phase \in {"done", "raised"})
=============================================================================
