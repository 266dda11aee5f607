------------------------- MODULE DistributedVerifier -------------------------
(***************************************************************************)
(* DistributedVerifier.verify_all (verifier/solver.py) on a program that   *)
(* has been run symbolically: the program is built, its operations are     *)
(* applied to the placements of the tensors, and the verifier looks at the *)
(* program and at the final tensors.  Modelled: the postcondition, the     *)
(* legality of the collectives, placement consistency.                     *)
(***************************************************************************)
EXTENDS PlacementSolver

CONSTANTS Menu,     \* the operations programs are made of
          Inputs,   \* the names of the program's inputs
          MaxOps    \* the longest program considered

ASSUME MaxOpsAssumption == MaxOps \in Nat
ASSUME MenuAssumption ==
  \A o \in Menu : /\ o.kind \in UnaryKinds \cup BinaryKinds
                  /\ 1 \in DOMAIN o.ins
                  /\ o.kind \in BinaryKinds => 2 \in DOMAIN o.ins
                  /\ o.mesh_dim \in MeshDims \cup {NoDim}

VARIABLES history,  \* for each operation applied, the placements it read
          phase,    \* "build", "run", "raised", "walk", "verified"
          results,  \* the verifier's results, once there are any
          live,     \* verify_communication_legality: the live tensor states
          walked    \* and how many operations it has walked

verifierVars == <<ops, tensors, history, phase, results, live, walked>>

NoResults == [postcondition |-> FALSE, legality |-> FALSE, placement |-> FALSE]

VerifierInit == /\ ops = << >>
                /\ tensors \in [Inputs -> Placements]
                /\ history = << >>
                /\ phase = "build"
                /\ results = NoResults
                /\ live = << >>
                /\ walked = 0

\* Program.add: operations read inputs and what earlier operations wrote.
AddOp == /\ phase = "build" /\ Len(ops) < MaxOps
         /\ \E o \in Menu : /\ SeqSet(o.ins) \subseteq Inputs \cup WrittenNames
                            /\ ops' = Append(ops, o)
         /\ UNCHANGED <<tensors, history, phase, results, live, walked>>

\* Faulty: a tensor that is there already is kept.
ExecuteKeeps ==
  /\ phase \in {"build", "run"} /\ Len(history) < Len(ops)
  /\ LET o   == ops[Len(history) + 1]
         ins == [k \in DOMAIN o.ins |-> tensors[o.ins[k]]]
     IN  /\ ~Raises(o, ins)
         /\ phase' = "run"
         /\ tensors' = [n \in DOMAIN tensors \cup {o.out} |->
                          IF n \in DOMAIN tensors THEN tensors[n] ELSE Apply(o, ins)]
         /\ history' = Append(history, ins)
  /\ UNCHANGED <<ops, results, live, walked>>

\* The next operation is applied to the tensors, or raises.
Execute ==
  /\ phase \in {"build", "run"} /\ Len(history) < Len(ops)
  /\ LET o   == ops[Len(history) + 1]
         ins == [k \in DOMAIN o.ins |-> tensors[o.ins[k]]]
     IN  IF Raises(o, ins)
         THEN phase' = "raised" /\ UNCHANGED <<tensors, history>>
         ELSE /\ phase' = "run"
              /\ tensors' = [n \in DOMAIN tensors \cup {o.out} |->
                               IF n = o.out THEN Apply(o, ins) ELSE tensors[n]]
              /\ history' = Append(history, ins)
  /\ UNCHANGED <<ops, results, live, walked>>

-----------------------------------------------------------------------------
\* The tensors no operation reads; an input may be one of them.
OutputNames == DOMAIN tensors \ ReadNames

(***************************************************************************)
(* verify_communication_legality replays the program from the final states *)
(* of the tensors that no other operation produces, and asks of each       *)
(* collective what the placement of its input is then.                     *)
(***************************************************************************)
ProducedByOther == {ops[i].out : i \in {j \in Indices : ops[j].out \notin SeqSet(ops[j].ins)}}

\* verify_all begins: the postcondition, and the seed of the replay.
VerifyPostcondition ==
  /\ phase = "run" /\ Len(history) = Len(ops)
  /\ phase' = "walk"
  /\ results' = [results EXCEPT
                   !.postcondition = \A n \in OutputNames : ~IsPartial(tensors[n]),
                   !.legality = TRUE]
  /\ live' = [n \in DOMAIN tensors \ ProducedByOther |-> tensors[n]]
  /\ UNCHANGED <<ops, tensors, history, walked>>

\* What a collective needs of the placements of its input.
Needs(o, x) == /\ o.kind = "AllReduce" => IsPartial(x)
               /\ o.kind \in {"AllGather", "AllToAll"} => ShardedOn(x, o.dim)
               /\ o.kind = "ReduceScatter" => ~ShardedOn(x, o.dim)

Legal(o) == o.kind \in {"AllReduce", "AllGather", "AllToAll", "ReduceScatter"} =>
              o.ins[1] \in DOMAIN live /\ Needs(o, live[o.ins[1]])

\* Faulty: collectives are checked against the final states.
ReplayedFinal(o) == tensors

\* The code counts the entries of a dictionary of what is read, by name: an
\* operation that reads one name twice, Add(t, t), never has them all.
ReadsApart(o) == \A j, k \in DOMAIN o.ins : o.ins[j] = o.ins[k] => j = k

\* The live states after the operation: it is applied to the live states, or
\* the final state of what it writes stands for what it computes.
Replayed(o) ==
  LET ins == [k \in DOMAIN o.ins |-> live[o.ins[k]]]
      out == IF ReadsApart(o) /\ SeqSet(o.ins) \subseteq DOMAIN live /\ ~Raises(o, ins)
             THEN Apply(o, ins) ELSE tensors[o.out]
  IN  [n \in DOMAIN live \cup {o.out} |-> IF n = o.out THEN out ELSE live[n]]

\* One iteration of the loop over the operations.
VerifyLegality ==
  /\ phase = "walk" /\ walked < Len(ops)
  /\ walked' = walked + 1
  /\ results' = [results EXCEPT !.legality = @ /\ Legal(ops[walked + 1])]
  /\ live' = Replayed(ops[walked + 1])
  /\ UNCHANGED <<ops, tensors, history, phase>>

VerifyPlacement ==
  /\ phase = "walk" /\ walked = Len(ops)
  /\ phase' = "verified"
  /\ results' = [results EXCEPT !.placement = PlacementConsistent(OutputNames)]
  /\ UNCHANGED <<ops, tensors, history, live, walked>>

VerifierNext == \/ AddOp
                \/ Execute
                \/ VerifyPostcondition
                \/ VerifyLegality
                \/ VerifyPlacement

VerifierSpec == VerifierInit /\ [][VerifierNext]_verifierVars

Accepted == phase = "verified" /\ results.postcondition /\ results.legality /\ results.placement

-----------------------------------------------------------------------------
Readings == UNION {[DOMAIN o.ins -> Placements] : o \in Menu}

VerifierTypeOK ==
  /\ ops \in Seq(Menu) /\ Len(ops) <= MaxOps
  /\ DOMAIN tensors = Inputs \cup {ops[i].out : i \in 1 .. Len(history)}
  /\ \A n \in DOMAIN tensors : tensors[n] \in Placements
  /\ history \in Seq(Readings) /\ Len(history) <= Len(ops)
  /\ \A i \in 1 .. Len(history) : history[i] \in [DOMAIN ops[i].ins -> Placements]
  /\ phase \in {"build", "run", "raised", "walk", "verified"}
  /\ results \in [postcondition : BOOLEAN, legality : BOOLEAN, placement : BOOLEAN]
  /\ walked \in 0 .. Len(ops)

(***************************************************************************)
(* The books of the symbolic run: no operation raised, and what an         *)
(* operation reads, and what is there at the end, is what the last         *)
(* operation that wrote it computed.                                       *)
(***************************************************************************)
\* The j-th operation is the last of the first i that writes n.
LastWrite(n, i, j) == /\ j \in 1 .. i /\ ops[j].out = n
                      /\ \A m \in (j + 1) .. i : ops[m].out # n

NotWritten(n, i) == n \in Inputs /\ \A m \in 1 .. i : ops[m].out # n

\* No operation writes a tensor the program was given.
InputsKept == WrittenNames \cap Inputs = {}

\* No operation overwrites what an operation that the replay cannot apply has
\* written: the final state is then what that operation computed.
Replayable ==
  \A i, j \in Indices : i < j /\ ~ReadsApart(ops[i]) => ops[j].out # ops[i].out

ProgramInv ==
  \A i \in Indices : SeqSet(ops[i].ins) \subseteq Inputs \cup {ops[j].out : j \in 1 .. (i - 1)}

HistoryInv ==
  \A i \in 1 .. Len(history) :
    /\ ~Raises(ops[i], history[i])
    /\ \/ ops[i].out \in Inputs
       \/ \E j \in 1 .. i : ops[j].out = ops[i].out /\ ops[j].out \notin SeqSet(ops[j].ins)
    /\ \A k \in DOMAIN ops[i].ins :
         \/ /\ NotWritten(ops[i].ins[k], i - 1)
            /\ InputsKept => history[i][k] = tensors[ops[i].ins[k]]
         \/ \E j \in 1 .. (i - 1) : /\ LastWrite(ops[i].ins[k], i - 1, j)
                                    /\ history[i][k] = Apply(ops[j], history[j])

TensorsInv ==
  \A n \in DOMAIN tensors :
    \/ NotWritten(n, Len(history))
    \/ \E j \in 1 .. Len(history) : /\ LastWrite(n, Len(history), j)
                                    /\ tensors[n] = Apply(ops[j], history[j])

PhaseInv ==
  /\ phase = "build" => history = << >>
  /\ phase \in {"walk", "verified"} => Len(history) = Len(ops)
  /\ phase = "verified" => walked = Len(ops)
  /\ phase \notin {"walk", "verified"} => results = NoResults /\ walked = 0

\* The replay has what the run had after the same operations.
WalkInv ==
  phase \in {"walk", "verified"} /\ InputsKept /\ Replayable =>
    /\ DOMAIN live = Inputs \cup {ops[j].out : j \in 1 .. walked}
    /\ \A n \in DOMAIN live :
         \/ NotWritten(n, walked) /\ live[n] = tensors[n]
         \/ \E j \in 1 .. walked : /\ LastWrite(n, walked, j)
                                   /\ live[n] = Apply(ops[j], history[j])

\* The collectives walked so far read what they need when they were applied.
LegalInv ==
  phase \in {"walk", "verified"} /\ InputsKept /\ Replayable /\ results.legality =>
    \A i \in 1 .. walked : Needs(ops[i], history[i][1])

\* What a solution calls Replicate is replicated, or partial where the rule
\* of FlashAttention and its encoding differ.
SolutionInv ==
  /\ phase \in {"walk", "verified"} /\ InputsKept /\ Replayable
  /\ results.legality /\ MeshNdim = 1
  => \A s \in [SsaWritten -> PL] :
       (\A i \in 1 .. walked : /\ Solves(s, i, 0)
                               /\ Value(s, SsaIns(i)[1], 0) \in Required(ops[i]))
       => \A i \in 1 .. walked :
            s[SsaOut(i)] = "R" => Apply(ops[i], history[i])[0] \in {"R", "P"}

\* The results are those of the checks.
VerdictInv ==
  /\ phase \in {"walk", "verified"} /\ results.postcondition =>
       \A n \in OutputNames : ~IsPartial(tensors[n])
  /\ phase = "verified" /\ results.placement => PlacementConsistent(OutputNames)

RunInv == /\ VerifierTypeOK
          /\ ProgramInv
          /\ HistoryInv
          /\ TensorsInv
          /\ PhaseInv
          /\ WalkInv
          /\ LegalInv
          /\ SolutionInv
          /\ VerdictInv

-----------------------------------------------------------------------------
(***************************************************************************)
(* What the checks promise of the run.                                     *)
(***************************************************************************)
\* The replay of verify_communication_legality sees what the run saw: each
\* collective is judged by the placement its input had, not the final one, in
\* a program that keeps its inputs and what the replay cannot apply.
ReplayIsRun ==
  phase = "walk" /\ walked < Len(ops) /\ InputsKept /\ Replayable =>
    LET o == ops[walked + 1]
    IN  \A k \in DOMAIN o.ins : /\ o.ins[k] \in DOMAIN live
                                /\ live[o.ins[k]] = history[walked + 1][k]

\* Renaming a program with in-place operations changes its names only: a read
\* is renamed like the write it reads and like no other, and different writes
\* differently.
RenamedApart ==
  HasInPlace /\ InputsKept =>
    /\ \A i, j \in Indices : SsaOut(i) = SsaOut(j) => i = j
    /\ \A i, j \in Indices : \A k \in DOMAIN ops[i].ins :
         SsaIns(i)[k] = SsaOut(j) <=> LastWrite(ops[i].ins[k], i - 1, j)

Replicated(n) == \A d \in MeshDims : tensors[n][d] = "R"

\* What the solver proves is what the operations computed: on a mesh of one
\* dimension every output of an accepted program is Replicate, if the program
\* keeps its inputs and what the replay cannot apply.
OutputsReplicate ==
  Accepted /\ InputsKept /\ Replayable =>
    \A n \in OutputNames \cap WrittenNames : Replicated(n)
=============================================================================
