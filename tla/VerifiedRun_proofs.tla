-------------------------- MODULE VerifiedRun_proofs --------------------------
(***************************************************************************)
(* What verify_all proves is what the operations computed, and what they   *)
(* computed is what the program means.                                     *)
(*                                                                         *)
(* The verdict: on a mesh of one dimension, and for every menu of          *)
(* operations, what verify_placement_consistency proves of an accepted     *)
(* program's outputs is what the operations computed, provided the program *)
(* keeps its inputs and what the replay of the legality check cannot apply.*)
(*                                                                         *)
(* The run: the run of an accepted program on the devices computes the     *)
(* tensors of the run on one device, for every menu of operations, every   *)
(* size of the matrices and every data, wherever the placement rules the   *)
(* program uses are true of the data.                                      *)
(***************************************************************************)
EXTENDS VerifiedRun, TensorOps_proofs, SequenceTheorems, FiniteSetTheorems

-----------------------------------------------------------------------------
(***************************************************************************)
(* The symbolic run.                                                       *)
(***************************************************************************)
LEMMA MenuOps == \A o \in Menu : IsOp(o)
BY MenuAssumption DEF IsOp, Kinds

\* A sequence with one more element.
LEMMA Appended ==
  ASSUME NEW S, NEW s \in Seq(S), NEW e \in S
  PROVE  /\ Append(s, e) \in Seq(S)
         /\ Len(Append(s, e)) = Len(s) + 1
         /\ \A i \in 1 .. Len(s) : Append(s, e)[i] = s[i]
         /\ Append(s, e)[Len(s) + 1] = e
OBVIOUS

\* Nothing has been added or verified yet.
LEMMA InitInv == VerifierInit => RunInv
<1> SUFFICES ASSUME VerifierInit PROVE RunInv
  OBVIOUS
<1> USE DEF VerifierInit
<1>1. Len(ops) = 0 /\ Len(history) = 0 /\ 1 .. 0 = {}
  OBVIOUS
<1>2. VerifierTypeOK
  <2>1. ops \in Seq(Menu) /\ Len(ops) <= MaxOps
    BY MaxOpsAssumption
  <2>2. /\ DOMAIN tensors = Inputs
        /\ \A n \in DOMAIN tensors : tensors[n] \in Placements
    OBVIOUS
  <2>3. results \in [postcondition : BOOLEAN, legality : BOOLEAN, placement : BOOLEAN]
    BY DEF NoResults
  <2> QED BY <1>1, <2>1, <2>2, <2>3 DEF VerifierTypeOK
<1>3. ProgramInv /\ HistoryInv
  BY <1>1 DEF ProgramInv, HistoryInv, Indices
<1>4. TensorsInv
  BY <1>1 DEF TensorsInv, NotWritten
<1>5. PhaseInv /\ WalkInv /\ LegalInv /\ SolutionInv /\ VerdictInv
  BY DEF PhaseInv, WalkInv, LegalInv, SolutionInv, VerdictInv
<1> QED BY <1>2, <1>3, <1>4, <1>5 DEF RunInv

\* The program grows by one operation.
LEMMA AddOpInv == RunInv /\ AddOp => RunInv'
<1> SUFFICES ASSUME RunInv, AddOp PROVE RunInv'
  OBVIOUS
<1> USE DEF RunInv
<1>1. PICK o \in Menu : /\ SeqSet(o.ins) \subseteq Inputs \cup WrittenNames
                       /\ ops' = Append(ops, o)
  BY DEF AddOp
<1>2. /\ phase = "build" /\ Len(ops) < MaxOps
      /\ UNCHANGED <<tensors, history, phase, results, live, walked>>
  BY DEF AddOp
<1>3. history = << >> /\ Len(history) = 0 /\ 1 .. 0 = {}
  BY <1>2 DEF PhaseInv
<1>4. /\ ops' \in Seq(Menu) /\ Len(ops') = Len(ops) + 1
      /\ \A i \in 1 .. Len(ops) : ops'[i] = ops[i]
      /\ ops'[Len(ops) + 1] = o /\ Len(ops) \in Nat
  BY <1>1, Appended DEF VerifierTypeOK
<1>5. VerifierTypeOK'
  BY <1>2, <1>3, <1>4, MaxOpsAssumption DEF VerifierTypeOK
<1>6. ProgramInv'
  <2> SUFFICES ASSUME NEW i \in 1 .. (Len(ops) + 1)
               PROVE  SeqSet(ops'[i].ins) \subseteq Inputs \cup {ops'[j].out : j \in 1 .. (i - 1)}
    BY <1>4 DEF ProgramInv, Indices, SeqSet
  <2>1. \A j \in 1 .. (i - 1) : j \in 1 .. Len(ops) /\ ops'[j].out = ops[j].out
    BY <1>4
  <2>2. {ops'[j].out : j \in 1 .. (i - 1)} = {ops[j].out : j \in 1 .. (i - 1)}
    BY <2>1
  <2>3. CASE i \in 1 .. Len(ops)
    BY <2>2, <2>3, <1>4 DEF ProgramInv, Indices
  <2>4. CASE i = Len(ops) + 1
    <3>1. WrittenNames = {ops[j].out : j \in 1 .. (i - 1)}
      BY <2>4, <1>4 DEF WrittenNames, Indices
    <3> QED BY <3>1, <2>2, <2>4, <1>1, <1>4
  <2> QED BY <2>3, <2>4, <1>4
<1>7. HistoryInv'
  BY <1>2, <1>3 DEF HistoryInv
<1>8. TensorsInv'
  BY <1>2, <1>3 DEF TensorsInv, NotWritten, VerifierTypeOK
<1>9. PhaseInv' /\ WalkInv' /\ LegalInv' /\ SolutionInv' /\ VerdictInv'
  BY <1>2 DEF PhaseInv, WalkInv, LegalInv, SolutionInv, VerdictInv
<1> QED BY <1>5, <1>6, <1>7, <1>8, <1>9

\* The operations that have been executed.
LEMMA Executed ==
  ASSUME VerifierTypeOK
  PROVE  /\ Len(history) \in Nat /\ Len(ops) \in Nat
         /\ \A i \in 1 .. Len(history) : i \in Indices
         /\ \A i \in Indices : ops[i] \in Menu /\ IsOp(ops[i])
  BY MenuOps DEF VerifierTypeOK, Indices

\* The preconditions of the properties speak of the program only.
LEMMA KeptFrame ==
  ASSUME UNCHANGED ops
  PROVE  (InputsKept' <=> InputsKept) /\ (Replayable' <=> Replayable)
BY DEF InputsKept, WrittenNames, Replayable, ReadsApart, Indices

\* What only the program, its tensors and its history decide.
LEMMA RunFrame ==
  ASSUME ProgramInv, HistoryInv, TensorsInv, UNCHANGED <<ops, tensors, history>>
  PROVE  ProgramInv' /\ HistoryInv' /\ TensorsInv'
<1>1. ProgramInv'
  BY DEF ProgramInv, Indices
<1>2. InputsKept' <=> InputsKept
  BY KeptFrame
<1>3. HistoryInv'
  BY <1>2 DEF HistoryInv, NotWritten, LastWrite
<1>4. TensorsInv'
  BY DEF TensorsInv, NotWritten, LastWrite
<1> QED BY <1>1, <1>3, <1>4

\* Running the program infers placements, operation by operation.
LEMMA ExecuteInv == RunInv /\ Execute => RunInv'
<1> SUFFICES ASSUME RunInv, Execute PROVE RunInv'
  OBVIOUS
<1> USE DEF RunInv
<1> DEFINE len == Len(history)
           i   == len + 1
           o   == ops[i]
           ins == [k \in DOMAIN o.ins |-> tensors[o.ins[k]]]
<1>1. /\ phase \in {"build", "run"} /\ len < Len(ops)
      /\ UNCHANGED <<ops, results, live, walked>>
      /\ results = NoResults /\ walked = 0
  BY DEF Execute, PhaseInv
<1>2. /\ len \in Nat /\ Len(ops) \in Nat /\ i \in Indices
      /\ o \in Menu /\ IsOp(o)
  BY <1>1, Executed DEF Indices
<1>3. \A k \in DOMAIN o.ins : o.ins[k] \in DOMAIN tensors
  <2>1. SeqSet(o.ins) \subseteq Inputs \cup {ops[j].out : j \in 1 .. (i - 1)}
    BY <1>2 DEF ProgramInv
  <2> QED BY <2>1, <1>2 DEF SeqSet, VerifierTypeOK
<1>4. ins \in [DOMAIN o.ins -> Placements]
  BY <1>3 DEF VerifierTypeOK
<1>5. CASE Raises(o, ins)
  <2>1. phase' = "raised" /\ UNCHANGED <<tensors, history>>
    BY <1>5 DEF Execute
  <2> USE <2>1, <1>1
  <2>2. VerifierTypeOK'
    BY DEF VerifierTypeOK
  <2>3. ProgramInv' /\ HistoryInv' /\ TensorsInv'
    BY RunFrame
  <2>4. PhaseInv' /\ WalkInv' /\ LegalInv' /\ SolutionInv' /\ VerdictInv'
    BY DEF PhaseInv, WalkInv, LegalInv, SolutionInv, VerdictInv
  <2> QED BY <2>2, <2>3, <2>4
<1>6. CASE ~Raises(o, ins)
  <2>1. /\ phase' = "run"
        /\ tensors' = [n \in DOMAIN tensors \cup {o.out} |->
                         IF n = o.out THEN Apply(o, ins) ELSE tensors[n]]
        /\ history' = Append(history, ins)
    BY <1>6 DEF Execute
  <2>2. /\ history' \in Seq(Readings) /\ Len(history') = i
        /\ \A j \in 1 .. len : history'[j] = history[j]
        /\ history'[i] = ins
    <3>1. ins \in Readings
      BY <1>2, <1>4 DEF Readings
    <3> QED BY <3>1, <2>1, Appended DEF VerifierTypeOK
  <2>3. Apply(o, ins) \in Placements
    BY <1>2, <1>4, ApplyType
  <2>4. 1 .. i = (1 .. len) \cup {i} /\ i \notin 1 .. len /\ i - 1 = len
    BY <1>2
  <2> HIDE DEF i, o, ins, len
  <2>5. VerifierTypeOK'
    <3>1. DOMAIN tensors' = Inputs \cup {ops[j].out : j \in 1 .. i}
      BY <2>1, <2>4 DEF VerifierTypeOK, o, len
    <3>2. \A n \in DOMAIN tensors' : tensors'[n] \in Placements
      BY <2>1, <2>3 DEF VerifierTypeOK
    <3>3. \A j \in 1 .. i : history'[j] \in [DOMAIN ops[j].ins -> Placements]
      BY <2>2, <2>4, <1>4 DEF VerifierTypeOK, o, len
    <3>4. Len(history') <= Len(ops)
      BY <2>2, <1>1, <1>2 DEF i
    <3> QED BY <3>1, <3>2, <3>3, <3>4, <1>1, <2>1, <2>2 DEF VerifierTypeOK
  <2>6. ProgramInv'
    BY <1>1 DEF ProgramInv, Indices
  <2>7. InputsKept => \A n \in Inputs : tensors'[n] = tensors[n]
    BY <2>1, <1>2 DEF InputsKept, WrittenNames, VerifierTypeOK, o
  <2>8. HistoryInv'
    <3>1. ASSUME NEW j \in 1 .. i
          PROVE /\ ~Raises(ops[j], history'[j])
                /\ \/ ops[j].out \in Inputs
                   \/ \E m \in 1 .. j : ops[m].out = ops[j].out /\ ops[m].out \notin SeqSet(ops[m].ins)
      <4>1. CASE j \in 1 .. len
        BY <4>1, <2>2 DEF HistoryInv, len
      <4>2. CASE j = i
        <5>1. ~Raises(ops[j], history'[j])
          BY <4>2, <2>2, <1>6 DEF o
        <5>2. CASE o.out \notin SeqSet(o.ins)
          BY <5>1, <5>2, <4>2 DEF o
        <5>3. CASE o.out \in SeqSet(o.ins)
          <6>1. o.out \in DOMAIN tensors
            BY <5>3, <1>3 DEF SeqSet
          <6>2. CASE o.out \in Inputs
            BY <6>2, <5>1, <4>2 DEF o
          <6>3. CASE o.out \notin Inputs
            <7>1. PICK l \in 1 .. len : ops[l].out = o.out
              BY <6>1, <6>3 DEF VerifierTypeOK, len
            <7>2. PICK m \in 1 .. l : ops[m].out = ops[l].out /\ ops[m].out \notin SeqSet(ops[m].ins)
              BY <7>1, <6>3 DEF HistoryInv, len
            <7>3. m \in 1 .. j
              BY <7>1, <7>2, <4>2, <2>4, <1>2 DEF i
            <7> QED BY <7>1, <7>2, <7>3, <5>1, <4>2 DEF o
          <6> QED BY <6>2, <6>3
        <5> QED BY <5>2, <5>3
      <4> QED BY <4>1, <4>2, <2>4
    <3>2. ASSUME NEW j \in 1 .. i, NEW k \in DOMAIN ops[j].ins
          PROVE \/ /\ NotWritten(ops[j].ins[k], j - 1)
                   /\ InputsKept => history'[j][k] = tensors'[ops[j].ins[k]]
                \/ \E m \in 1 .. (j - 1) : /\ LastWrite(ops[j].ins[k], j - 1, m)
                                           /\ history'[j][k] = Apply(ops[m], history'[m])
      <4> DEFINE n == ops[j].ins[k]
      <4>1. CASE j \in 1 .. len
        <5>1. CASE NotWritten(n, j - 1) /\ (InputsKept => history[j][k] = tensors[n])
          BY <5>1, <4>1, <2>2, <2>7 DEF NotWritten
        <5>2. CASE \E m \in 1 .. (j - 1) : LastWrite(n, j - 1, m) /\ history[j][k] = Apply(ops[m], history[m])
          <6>1. PICK m \in 1 .. (j - 1) : LastWrite(n, j - 1, m) /\ history[j][k] = Apply(ops[m], history[m])
            BY <5>2
          <6>2. m \in 1 .. len
            BY <4>1, <1>2
          <6>3. history'[m] = history[m] /\ history'[j] = history[j]
            BY <6>2, <4>1, <2>2
          <6> QED BY <6>1, <6>3
        <5> QED BY <5>1, <5>2, <4>1 DEF HistoryInv, len
      <4>2. CASE j = i
        <5>1. history'[j][k] = tensors[n] /\ n \in DOMAIN tensors
          BY <4>2, <2>2, <1>3 DEF o, ins
        <5>2. CASE NotWritten(n, len)
          BY <5>1, <5>2, <4>2, <2>4, <2>7 DEF NotWritten
        <5>3. CASE \E m \in 1 .. len : LastWrite(n, len, m) /\ tensors[n] = Apply(ops[m], history[m])
          BY <5>1, <5>3, <4>2, <2>4, <2>2
        <5> QED BY <5>1, <5>2, <5>3 DEF TensorsInv, len
      <4> QED BY <4>1, <4>2, <2>4
    <3> HIDE DEF RunInv
    <3>3. InputsKept' <=> InputsKept
      BY <1>1, KeptFrame
    <3>4. /\ \A n, m : NotWritten(n, m)' <=> NotWritten(n, m)
          /\ \A n, m, j : LastWrite(n, m, j)' <=> LastWrite(n, m, j)
      BY <1>1 DEF NotWritten, LastWrite
    <3>5. ops' = ops /\ Len(history') = i
      BY <1>1, <2>2
    <3> QED BY <3>1, <3>2, <3>3, <3>4, <3>5 DEF HistoryInv
  <2>9. TensorsInv'
    <3> SUFFICES ASSUME NEW n \in DOMAIN tensors'
                 PROVE  \/ NotWritten(n, i)
                        \/ \E m \in 1 .. i : /\ LastWrite(n, i, m)
                                             /\ tensors'[n] = Apply(ops[m], history'[m])
      BY <2>2, <1>1 DEF TensorsInv, NotWritten, LastWrite
    <3>1. CASE n = o.out
      <4>1. LastWrite(n, i, i)
        BY <3>1, <1>2 DEF LastWrite, Indices, i, o
      <4>2. tensors'[n] = Apply(ops[i], history'[i])
        BY <3>1, <2>1, <2>2 DEF o
      <4> QED BY <4>1, <4>2 DEF LastWrite
    <3>2. CASE n # o.out
      <4>1. n \in DOMAIN tensors /\ tensors'[n] = tensors[n]
        BY <3>2, <2>1
      <4>2. CASE NotWritten(n, len)
        BY <4>2, <3>2, <2>4 DEF NotWritten, o
      <4>3. CASE \E m \in 1 .. len : LastWrite(n, len, m) /\ tensors[n] = Apply(ops[m], history[m])
        <5>1. PICK m \in 1 .. len : LastWrite(n, len, m) /\ tensors[n] = Apply(ops[m], history[m])
          BY <4>3
        <5>2. LastWrite(n, i, m)
          BY <5>1, <3>2, <2>4, <1>2 DEF LastWrite, o, i
        <5> QED BY <5>1, <5>2, <4>1, <2>2, <2>4
      <4> QED BY <4>1, <4>2, <4>3 DEF TensorsInv, len
    <3> QED BY <3>1, <3>2
  <2>10. PhaseInv' /\ WalkInv' /\ LegalInv' /\ SolutionInv' /\ VerdictInv'
    BY <2>1, <1>1 DEF PhaseInv, WalkInv, LegalInv, SolutionInv, VerdictInv
  <2> QED BY <2>5, <2>6, <2>8, <2>9, <2>10
<1> QED BY <1>5, <1>6

-----------------------------------------------------------------------------
(***************************************************************************)
(* The replay.                                                             *)
(***************************************************************************)
LEMMA LastWriteUnique ==
  ASSUME NEW n, NEW i \in Nat, NEW j, NEW m, LastWrite(n, i, j), LastWrite(n, i, m)
  PROVE  j = m
BY DEF LastWrite

\* What verify_communication_legality takes for the placements an operation
\* reads is what the operation read when it was applied.
LEMMA ReplayLemma == RunInv => ReplayIsRun
<1> SUFFICES ASSUME RunInv, phase = "walk", walked < Len(ops), InputsKept, Replayable,
                    NEW k \in DOMAIN ops[walked + 1].ins
             PROVE  /\ ops[walked + 1].ins[k] \in DOMAIN live
                    /\ live[ops[walked + 1].ins[k]] = history[walked + 1][k]
  BY DEF ReplayIsRun
<1> DEFINE i == walked + 1
           n == ops[i].ins[k]
<1>1. /\ walked \in Nat /\ i \in Indices /\ i \in 1 .. Len(history) /\ i - 1 = walked
  BY Executed DEF RunInv, VerifierTypeOK, PhaseInv, Indices
<1>2. /\ DOMAIN live = Inputs \cup {ops[j].out : j \in 1 .. walked}
      /\ \A c \in DOMAIN live :
           \/ NotWritten(c, walked) /\ live[c] = tensors[c]
           \/ \E j \in 1 .. walked : LastWrite(c, walked, j) /\ live[c] = Apply(ops[j], history[j])
  BY DEF RunInv, WalkInv
<1>3. n \in DOMAIN live
  <2>1. SeqSet(ops[i].ins) \subseteq Inputs \cup {ops[j].out : j \in 1 .. (i - 1)}
    BY <1>1 DEF RunInv, ProgramInv
  <2> QED BY <2>1, <1>1, <1>2 DEF SeqSet
<1>4. \/ NotWritten(n, walked) /\ history[i][k] = tensors[n]
      \/ \E m \in 1 .. walked : LastWrite(n, walked, m) /\ history[i][k] = Apply(ops[m], history[m])
  BY <1>1 DEF RunInv, HistoryInv
<1>5. ~(NotWritten(n, walked) /\ \E m \in 1 .. walked : LastWrite(n, walked, m))
  BY DEF NotWritten, LastWrite
<1>6. CASE NotWritten(n, walked)
  BY <1>2, <1>3, <1>4, <1>5, <1>6
<1>7. CASE ~NotWritten(n, walked)
  <2>1. PICK m \in 1 .. walked : LastWrite(n, walked, m) /\ history[i][k] = Apply(ops[m], history[m])
    BY <1>4, <1>7
  <2>2. PICK j \in 1 .. walked : LastWrite(n, walked, j) /\ live[n] = Apply(ops[j], history[j])
    BY <1>2, <1>3, <1>7
  <2>3. j = m
    BY <2>1, <2>2, <1>1, LastWriteUnique
  <2> QED BY <2>1, <2>2, <2>3, <1>3
<1> QED BY <1>6, <1>7

\* The postcondition is asked of the placements inferred.
LEMMA PostconditionInv == RunInv /\ VerifyPostcondition => RunInv'
<1> SUFFICES ASSUME RunInv, VerifyPostcondition PROVE RunInv'
  OBVIOUS
<1> USE DEF RunInv
<1>1. /\ phase = "run" /\ phase' = "walk" /\ Len(history) = Len(ops) /\ walked = 0
      /\ UNCHANGED <<ops, tensors, history, walked>>
      /\ results' = [results EXCEPT
                       !.postcondition = \A n \in OutputNames : ~IsPartial(tensors[n]),
                       !.legality = TRUE]
      /\ live' = [n \in DOMAIN tensors \ ProducedByOther |-> tensors[n]]
  BY DEF VerifyPostcondition, PhaseInv
<1>2. VerifierTypeOK'
  <2>1. results' \in [postcondition : BOOLEAN, legality : BOOLEAN, placement : BOOLEAN]
    BY <1>1 DEF VerifierTypeOK
  <2> QED BY <1>1, <2>1 DEF VerifierTypeOK
<1>3. ProgramInv' /\ HistoryInv' /\ TensorsInv'
  BY <1>1, RunFrame
<1>4. WalkInv'
  <2> SUFFICES ASSUME InputsKept'
               PROVE  /\ DOMAIN live' = Inputs \cup {ops[j].out : j \in 1 .. 0}
                      /\ \A n \in DOMAIN live' : NotWritten(n, 0) /\ live'[n] = tensors[n]
    BY <1>1 DEF WalkInv, NotWritten
  <2>1. \A i \in Indices : ops[i].out \notin Inputs
    BY <1>1 DEF InputsKept, WrittenNames, Indices
  <2>2. \A n \in Inputs : n \in DOMAIN tensors /\ n \notin ProducedByOther
    BY <2>1 DEF ProducedByOther, VerifierTypeOK
  <2>3. ASSUME NEW n \in DOMAIN tensors, n \notin Inputs PROVE n \in ProducedByOther
    <3>1. PICK i \in 1 .. Len(history) : ops[i].out = n
      BY <2>3 DEF VerifierTypeOK
    <3>2. PICK j \in 1 .. i : ops[j].out = n /\ ops[j].out \notin SeqSet(ops[j].ins)
      BY <3>1, <2>3 DEF HistoryInv
    <3>3. j \in Indices
      BY <3>1, <3>2, <1>1, Executed DEF Indices
    <3> QED BY <3>2, <3>3 DEF ProducedByOther
  <2>4. DOMAIN live' = Inputs
    BY <2>2, <2>3, <1>1
  <2> QED BY <2>4, <1>1 DEF NotWritten
<1>5. PhaseInv'
  BY <1>1 DEF PhaseInv
<1>6. LegalInv' /\ SolutionInv'
  BY <1>1 DEF LegalInv, SolutionInv
<1>7. VerdictInv'
  BY <1>1 DEF VerdictInv, OutputNames, ReadNames, Indices, VerifierTypeOK
<1> QED BY <1>2, <1>3, <1>4, <1>5, <1>6, <1>7

-----------------------------------------------------------------------------
(***************************************************************************)
(* The encoding.                                                           *)
(***************************************************************************)
\* If what a solution x calls Replicate is replicated or partial in ins, the
\* same is true of what the encoding forces and what the operation computes.
LEMMA RuleLemma ==
  ASSUME MeshNdim = 1, NEW o, IsOp(o), NEW ins \in [DOMAIN o.ins -> Placements],
         NEW x, \A k \in DOMAIN o.ins : x[k] = "R" => ins[k][0] \in {"R", "P"},
         ~Raises(o, ins), x[1] \in Required(o),
         o.kind = "AllGather" => ShardedOn(ins[1], o.dim),
         Encoded(o, 0, x) = "R"
  PROVE  Apply(o, ins)[0] \in {"R", "P"}
<1>1. MeshDims = {0}
  BY DEF MeshDims
<1>2. CASE o.kind \in BinaryKinds
  <2>1. CASE o.kind = "MatMul"
    <3>1. EncodeMatMul(x[1], x[2]) = "R"
      BY <2>1 DEF Encoded
    <3>2. Apply(o, ins)[0] = MatMulPlacement(ins[1][0], ins[2][0])
      BY <2>1, <1>1 DEF Apply
    <3> QED BY <3>1, <3>2, <1>2 DEF EncodeMatMul, MatMulPlacement, IsOp
  <2>2. CASE o.kind \in {"Add", "Multiply"}
    <3>1. (IF x[1] = "R" THEN x[2] ELSE x[1]) = "R"
      BY <2>2 DEF Encoded
    <3>2. Apply(o, ins)[0] = MergePlacement(ins[1][0], ins[2][0])
      BY <2>2, <1>1 DEF Apply
    <3> QED BY <3>1, <3>2, <1>2 DEF MergePlacement, IsOp
  <2>3. CASE o.kind = "FlashAttention"
    <3>1. x[1] = "R"
      BY <2>3 DEF Encoded
    <3>2. Apply(o, ins)[0] = AttentionPlacement(ins[1], ins[2], 0)
      BY <2>3, <1>1 DEF Apply
    <3> QED BY <3>1, <3>2 DEF AttentionPlacement, IsOp
  <2>4. CASE o.kind = "Embedding"
    <3>1. (IF x[2] = "S0" THEN "P" ELSE x[2]) = "R"
      BY <2>4 DEF Encoded
    <3>2. Apply(o, ins)[0] = EmbeddingPlacement(ins[2][0], o.dim)
      BY <2>4, <1>1 DEF Apply
    <3>3. ins[2][0] \in {"R", "P"}
      BY <3>1, <1>2 DEF IsOp
    <3> QED BY <3>2, <3>3 DEF EmbeddingPlacement
  <2>5. CASE o.kind = "CrossEntropyLoss"
    <3>1. Apply(o, ins)[0] = LossPlacement(ins[1][0], o.dim)
      BY <2>5, <1>1 DEF Apply
    <3> QED BY <3>1 DEF LossPlacement
  <2> QED BY <1>2, <2>1, <2>2, <2>3, <2>4, <2>5 DEF BinaryKinds
<1>3. CASE o.kind \in UnaryKinds
  <2>1. CASE o.kind \in {"Unary", "Norm"}
    <3>1. x[1] = "R" /\ Apply(o, ins) = ins[1]
      BY <2>1 DEF Encoded, Apply
    <3> QED BY <3>1 DEF IsOp
  <2>2. CASE o.kind = "Transpose"
    <3>1. x[1] = "R" /\ Apply(o, ins)[0] = SwappedPlacement(ins[1][0])
      BY <2>2, <1>1 DEF Encoded, Apply
    <3>2. ins[1][0] \in {"R", "P"}
      BY <3>1 DEF IsOp
    <3> QED BY <3>1, <3>2 DEF SwappedPlacement
  <2>3. CASE o.kind = "AllReduce"
    <3>1. Apply(o, ins) = Changed(o, ins[1], {"P"}, "R")
      BY <2>3 DEF Apply
    <3>2. IsPartial(ins[1])
      BY <2>3 DEF Raises
    <3>3. ins[1][0] = "P"
      BY <3>2, <1>1 DEF IsPartial
    <3> QED BY <3>1, <3>3, <1>1 DEF Changed, IsOp
  <2>4. CASE o.kind = "AllGather"
    <3>1. Apply(o, ins) = Changed(o, ins[1], {Shard(o.dim)}, "R")
      BY <2>4 DEF Apply
    <3>2. ins[1][0] = Shard(o.dim)
      BY <2>4, <1>1 DEF ShardedOn
    <3> QED BY <3>1, <3>2, <1>1 DEF Changed, IsOp
  <2>5. CASE o.kind = "AllToAll"
    <3>1. Constrained(o, 0, x[1], Shard(o.concat_dim)) = "R"
      BY <2>5 DEF Encoded
    <3>2. Constrained(o, 0, x[1], Shard(o.concat_dim)) = Shard(o.concat_dim)
      BY <1>1 DEF Constrained
    <3> QED BY <3>1, <3>2 DEF Shard
  <2>6. CASE o.kind \in {"ReduceScatter", "Scatter"}
    <3>1. Constrained(o, 0, x[1], Shard(o.dim)) = "R"
      BY <2>6 DEF Encoded
    <3>2. Constrained(o, 0, x[1], Shard(o.dim)) = Shard(o.dim)
      BY <1>1 DEF Constrained
    <3> QED BY <3>1, <3>2 DEF Shard
  <2>7. CASE o.kind = "Broadcast"
    <3>1. Apply(o, ins) = [d \in MeshDims |-> "R"]
      BY <2>7 DEF Apply
    <3> QED BY <3>1, <1>1
  <2> QED BY <1>3, <2>1, <2>2, <2>3, <2>4, <2>5, <2>6, <2>7 DEF UnaryKinds
<1> QED BY <1>2, <1>3 DEF IsOp, Kinds

\* A read is renamed like the last write before it.
LEMMA RenamedRead ==
  ASSUME NEW n, NEW i \in Nat, NEW j, LastWrite(n, i, j)
  PROVE  Current(n, i) = SsaOut(j)
<1>1. Definitions(n, i) = Definitions(n, j)
  BY DEF Definitions, LastWrite
<1>2. ops[j].out = n
  BY DEF LastWrite
<1> QED BY <1>1, <1>2 DEF Current, SsaOut

\* Where a solution says Replicate, the operation read R or P.
LEMMA ReadLemma ==
  ASSUME RunInv, InputsKept, NEW s, NEW i \in 1 .. Len(history),
         \A j \in 1 .. (i - 1) : s[SsaOut(j)] = "R" => Apply(ops[j], history[j])[0] \in {"R", "P"},
         NEW k \in DOMAIN ops[i].ins,
         Value(s, SsaIns(i)[k], 0) = "R"
  PROVE  history[i][k][0] \in {"R", "P"}
<1> DEFINE n == ops[i].ins[k]
<1>1. i \in Indices /\ i - 1 \in Nat
  BY Executed DEF RunInv
<1>2. SsaIns(i)[k] = Current(n, i - 1)
  BY DEF SsaIns
<1>3. CASE NotWritten(n, i - 1) /\ history[i][k] = tensors[n]
  <2>1. n \notin WrittenNames
    BY <1>3 DEF NotWritten, InputsKept
  <2>2. PICK v : Current(n, i - 1) = <<n, v>>
    BY DEF Current
  <2>3. <<n, v>> \notin SsaWritten
    BY <2>1 DEF SsaWritten, SsaOut, Current, WrittenNames
  <2>4. Value(s, <<n, v>>, 0) = tensors[n][0]
    BY <2>3 DEF Value
  <2> QED BY <2>2, <2>4, <1>2, <1>3
<1>4. CASE \E j \in 1 .. (i - 1) : LastWrite(n, i - 1, j) /\ history[i][k] = Apply(ops[j], history[j])
  <2>1. PICK j \in 1 .. (i - 1) : LastWrite(n, i - 1, j) /\ history[i][k] = Apply(ops[j], history[j])
    BY <1>4
  <2>2. Current(n, i - 1) = SsaOut(j)
    BY <2>1, <1>1, RenamedRead
  <2>3. SsaOut(j) \in SsaWritten
    BY <2>1, <1>1 DEF SsaWritten, Indices
  <2>4. s[SsaOut(j)] = "R"
    BY <2>2, <2>3, <1>2 DEF Value
  <2> QED BY <2>1, <2>4
<1> QED BY <1>3, <1>4 DEF RunInv, HistoryInv

\* What the solver is asked about depends on the program and the tensors.
LEMMA SolverFrame ==
  ASSUME UNCHANGED <<ops, tensors>>
  PROVE  /\ SsaWritten' = SsaWritten
         /\ \A i : SsaIns(i)' = SsaIns(i) /\ SsaOut(i)' = SsaOut(i)
         /\ \A s, n, d : Value(s, n, d)' = Value(s, n, d)
         /\ \A s, i, d : Solves(s, i, d)' <=> Solves(s, i, d)
<1>1. HasInPlace' <=> HasInPlace
  BY DEF HasInPlace, Indices
<1>2. \A n, i : Definitions(n, i)' = Definitions(n, i)
  BY DEF Definitions
<1>3. \A i : SsaIns(i)' = SsaIns(i) /\ SsaOut(i)' = SsaOut(i)
  BY <1>1, <1>2 DEF SsaIns, SsaOut, Current, Definitions, HasInPlace, Indices
<1>4. SsaWritten' = SsaWritten
  BY <1>3 DEF SsaWritten, SsaOut, Current, Definitions, HasInPlace, Indices
<1>5. \A s, n, d : Value(s, n, d)' = Value(s, n, d)
  BY <1>4 DEF Value
<1>6. \A s, i, d : Solves(s, i, d)' <=> Solves(s, i, d)
  BY <1>3, <1>4 DEF Solves, Value, SsaIns, SsaOut, SsaWritten, Current, Definitions, HasInPlace, Indices
<1> QED BY <1>3, <1>4, <1>5, <1>6

\* The placement query has one answer as long as the program is the same.
LEMMA QueryFrame ==
  ASSUME UNCHANGED <<ops, tensors>>, OutputNames' = OutputNames
  PROVE  PlacementConsistent(OutputNames)' = PlacementConsistent(OutputNames)
<1>1. Indices' = Indices /\ MeshDims' = MeshDims
  BY DEF Indices
<1>2. \A d : Models(d)' = Models(d)
  BY SolverFrame, <1>1 DEF Models
<1>3. Satisfiable' <=> Satisfiable
  BY <1>2 DEF Satisfiable
<1>4. SsaRead' = SsaRead
  BY SolverFrame, <1>1 DEF SsaRead
<1>5. \A n : ProvedReplicate(n)' <=> ProvedReplicate(n)
  BY <1>2, <1>4, SolverFrame DEF ProvedReplicate
<1>6. \A i : ProvedPrecondition(i)' <=> ProvedPrecondition(i)
  BY <1>2, SolverFrame DEF ProvedPrecondition
<1>7. \A n : Current(n, Len(ops))' = Current(n, Len(ops))
  BY DEF Current, Definitions, HasInPlace, Indices
<1> QED BY <1>1, <1>3, <1>5, <1>6, <1>7 DEF PlacementConsistent

\* A verdict that comes later leaves the solver's verdict as it was.
LEMMA SolutionFrame ==
  ASSUME SolutionInv, UNCHANGED <<ops, tensors, history, walked>>,
         phase \in {"walk", "verified"}, results'.legality => results.legality
  PROVE  SolutionInv'
<1> SUFFICES ASSUME InputsKept', Replayable', results'.legality, MeshNdim = 1,
                    NEW s \in [SsaWritten' -> PL],
                    \A j \in 1 .. walked : /\ Solves(s, j, 0)'
                                           /\ Value(s, SsaIns(j)[1], 0)' \in Required(ops[j])
             PROVE  \A j \in 1 .. walked :
                      s[SsaOut(j)'] = "R" => Apply(ops[j], history[j])[0] \in {"R", "P"}
  BY DEF SolutionInv
<1>1. InputsKept /\ Replayable
  BY KeptFrame
<1>2. s \in [SsaWritten -> PL]
  BY SolverFrame
<1>3. \A j \in 1 .. walked : /\ Solves(s, j, 0)
                             /\ Value(s, SsaIns(j)[1], 0) \in Required(ops[j])
  BY SolverFrame
<1>4. \A j \in 1 .. walked : s[SsaOut(j)] = "R" => Apply(ops[j], history[j])[0] \in {"R", "P"}
  BY <1>1, <1>2, <1>3 DEF SolutionInv
<1> QED BY <1>4, SolverFrame

\* The final state of what an operation that the replay cannot apply writes is
\* what that operation computed.
LEMMA FinalIsComputed ==
  ASSUME VerifierTypeOK, TensorsInv, Replayable, Len(history) = Len(ops),
         NEW i \in Indices, ~ReadsApart(ops[i])
  PROVE  tensors[ops[i].out] = Apply(ops[i], history[i])
<1> DEFINE n == ops[i].out
<1>1. Indices = 1 .. Len(history) /\ Len(history) \in Nat
  BY Executed DEF Indices
<1>2. n \in DOMAIN tensors /\ ~NotWritten(n, Len(history))
  BY <1>1 DEF VerifierTypeOK, NotWritten
<1>3. PICK j \in 1 .. Len(history) : /\ LastWrite(n, Len(history), j)
                                     /\ tensors[n] = Apply(ops[j], history[j])
  BY <1>2 DEF TensorsInv
<1>4. ~(i < j)
  BY <1>1, <1>3 DEF Replayable, LastWrite
<1>5. ~(j < i)
  BY <1>1, <1>3 DEF LastWrite
<1>6. i = j
  BY <1>1, <1>4, <1>5
<1> QED BY <1>3, <1>6

\* The legality check replays the history.
LEMMA LegalityInv == RunInv /\ VerifyLegality => RunInv'
<1> SUFFICES ASSUME RunInv, VerifyLegality PROVE RunInv'
  OBVIOUS
<1> DEFINE i == walked + 1
           o == ops[i]
<1>1. /\ phase = "walk" /\ walked < Len(ops) /\ walked' = i
      /\ results' = [results EXCEPT !.legality = @ /\ Legal(o)]
      /\ live' = Replayed(o)
      /\ UNCHANGED <<ops, tensors, history, phase>>
  BY DEF VerifyLegality
<1>2. /\ walked \in Nat /\ i \in Indices /\ i \in 1 .. Len(history) /\ i - 1 = walked
      /\ IsOp(o) /\ o \in Menu
      /\ 1 .. i = (1 .. walked) \cup {i}
  BY <1>1, Executed DEF RunInv, VerifierTypeOK, PhaseInv, Indices
<1>3. /\ results.legality \in BOOLEAN
      /\ results' \in [postcondition : BOOLEAN, legality : BOOLEAN, placement : BOOLEAN]
      /\ results'.legality => results.legality /\ Legal(o)
  <2>1. Legal(o) \in BOOLEAN
    BY DEF Legal
  <2> QED BY <2>1, <1>1 DEF RunInv, VerifierTypeOK
<1>4. VerifierTypeOK'
  BY <1>1, <1>2, <1>3 DEF RunInv, VerifierTypeOK
<1>5. ProgramInv' /\ HistoryInv' /\ TensorsInv'
  BY <1>1, RunFrame DEF RunInv
<1>6. PhaseInv'
  BY <1>1 DEF RunInv, PhaseInv
<1>7. /\ history[i] \in [DOMAIN o.ins -> Placements]
      /\ ~Raises(o, history[i])
  BY <1>2 DEF RunInv, VerifierTypeOK, HistoryInv
<1>8. ASSUME InputsKept, Replayable
      PROVE  \A k \in DOMAIN o.ins : o.ins[k] \in DOMAIN live /\ live[o.ins[k]] = history[i][k]
  BY <1>1, <1>8, ReplayLemma DEF ReplayIsRun
<1>9. WalkInv'
  <2> SUFFICES ASSUME InputsKept, Replayable
               PROVE  /\ DOMAIN live' = Inputs \cup {ops[j].out : j \in 1 .. i}
                      /\ \A n \in DOMAIN live' :
                           \/ NotWritten(n, i) /\ live'[n] = tensors[n]
                           \/ \E j \in 1 .. i : LastWrite(n, i, j) /\ live'[n] = Apply(ops[j], history[j])
    BY <1>1, KeptFrame DEF WalkInv, NotWritten, LastWrite
  <2>1. [k \in DOMAIN o.ins |-> live[o.ins[k]]] = history[i]
    BY <1>7, <1>8
  <2>2. SeqSet(o.ins) \subseteq DOMAIN live
    BY <1>8 DEF SeqSet
  <2>3. live' = [n \in DOMAIN live \cup {o.out} |->
                  IF n = o.out THEN Apply(o, history[i]) ELSE live[n]]
    <3>1. CASE ReadsApart(o)
      BY <3>1, <2>1, <2>2, <1>1, <1>7 DEF Replayed
    <3>2. CASE ~ReadsApart(o)
      <4>1. tensors[o.out] = Apply(o, history[i])
        BY <3>2, <1>1, <1>2, FinalIsComputed DEF RunInv, PhaseInv
      <4> QED BY <3>2, <4>1, <1>1 DEF Replayed
    <3> QED BY <3>1, <3>2
  <2>4. /\ DOMAIN live = Inputs \cup {ops[j].out : j \in 1 .. walked}
        /\ \A n \in DOMAIN live :
             \/ NotWritten(n, walked) /\ live[n] = tensors[n]
             \/ \E j \in 1 .. walked : LastWrite(n, walked, j) /\ live[n] = Apply(ops[j], history[j])
    BY <1>1 DEF RunInv, WalkInv
  <2>5. DOMAIN live' = Inputs \cup {ops[j].out : j \in 1 .. i}
    BY <2>3, <2>4, <1>2
  <2>6. ASSUME NEW n \in DOMAIN live'
        PROVE  \/ NotWritten(n, i) /\ live'[n] = tensors[n]
               \/ \E j \in 1 .. i : LastWrite(n, i, j) /\ live'[n] = Apply(ops[j], history[j])
    <3>1. CASE n = o.out
      <4>1. LastWrite(n, i, i)
        BY <3>1, <1>2 DEF LastWrite
      <4> QED BY <3>1, <4>1, <2>3, <1>2
    <3>2. CASE n # o.out
      <4>1. n \in DOMAIN live /\ live'[n] = live[n]
        BY <3>2, <2>3
      <4>2. CASE NotWritten(n, walked) /\ live[n] = tensors[n]
        BY <4>1, <4>2, <3>2, <1>2 DEF NotWritten
      <4>3. CASE \E j \in 1 .. walked : LastWrite(n, walked, j) /\ live[n] = Apply(ops[j], history[j])
        <5>1. PICK j \in 1 .. walked : LastWrite(n, walked, j) /\ live[n] = Apply(ops[j], history[j])
          BY <4>3
        <5>2. LastWrite(n, i, j)
          BY <5>1, <3>2, <1>2 DEF LastWrite
        <5> QED BY <5>1, <5>2, <4>1, <1>2
      <4> QED BY <4>1, <4>2, <4>3, <2>4
    <3> QED BY <3>1, <3>2
  <2> QED BY <2>5, <2>6
<1>10. SolutionInv'
  <2> SUFFICES ASSUME InputsKept, Replayable, results'.legality, MeshNdim = 1,
                      NEW s \in [SsaWritten -> PL],
                      \A j \in 1 .. i : /\ Solves(s, j, 0)
                                        /\ Value(s, SsaIns(j)[1], 0) \in Required(ops[j])
               PROVE  \A j \in 1 .. i :
                        s[SsaOut(j)] = "R" => Apply(ops[j], history[j])[0] \in {"R", "P"}
    <3>1. (InputsKept' => InputsKept) /\ (Replayable' => Replayable)
      BY <1>1, KeptFrame
    <3> QED BY <3>1, <1>1, SolverFrame DEF SolutionInv
  <2>1. results.legality /\ Legal(o)
    BY <1>3
  <2>2. \A j \in 1 .. walked :
          s[SsaOut(j)] = "R" => Apply(ops[j], history[j])[0] \in {"R", "P"}
    BY <2>1, <1>1, <1>2 DEF RunInv, SolutionInv
  <2>3. ASSUME s[SsaOut(i)] = "R" PROVE Apply(o, history[i])[0] \in {"R", "P"}
    <3> DEFINE x == [k \in DOMAIN o.ins |-> Value(s, SsaIns(i)[k], 0)]
    <3>1. Encoded(o, 0, x) = "R"
      BY <2>3, <1>2 DEF Solves
    <3>2. x[1] \in Required(o)
      BY <1>2 DEF IsOp
    <3>3. \A k \in DOMAIN o.ins : x[k] = "R" => history[i][k][0] \in {"R", "P"}
      BY <2>2, <1>2, ReadLemma
    <3>4. o.kind = "AllGather" => ShardedOn(history[i][1], o.dim)
      BY <2>1, <1>2, <1>8 DEF Legal, Needs, IsOp
    <3> HIDE DEF x
    <3> QED BY <3>1, <3>2, <3>3, <3>4, <1>2, <1>7, RuleLemma
  <2> QED BY <2>2, <2>3, <1>2
<1>11. VerdictInv'
  BY <1>1 DEF RunInv, VerdictInv, OutputNames, ReadNames, Indices, VerifierTypeOK
<1>12. LegalInv'
  <2> SUFFICES ASSUME InputsKept, Replayable, results'.legality, NEW j \in 1 .. i
               PROVE  Needs(ops[j], history[j][1])
    BY <1>1, KeptFrame DEF LegalInv
  <2>1. results.legality /\ Legal(o)
    BY <1>3
  <2>2. CASE j \in 1 .. walked
    BY <2>1, <2>2, <1>1 DEF RunInv, LegalInv
  <2>3. CASE j = i
    BY <2>1, <2>3, <1>2, <1>8 DEF Legal, Needs, IsOp
  <2> QED BY <2>2, <2>3, <1>2
<1> QED BY <1>4, <1>5, <1>6, <1>9, <1>10, <1>11, <1>12 DEF RunInv

\* The placement check asks the solver of the output's names.
LEMMA PlacementInv == RunInv /\ VerifyPlacement => RunInv'
<1> SUFFICES ASSUME RunInv, VerifyPlacement PROVE RunInv'
  OBVIOUS
<1> USE DEF RunInv
<1>1. /\ phase = "walk" /\ phase' = "verified" /\ walked = Len(ops)
      /\ results' = [results EXCEPT !.placement = PlacementConsistent(OutputNames)]
      /\ UNCHANGED <<ops, tensors, history, live, walked>>
  BY DEF VerifyPlacement
<1>2. /\ results' \in [postcondition : BOOLEAN, legality : BOOLEAN, placement : BOOLEAN]
      /\ results'.legality = results.legality
  <2>1. PlacementConsistent(OutputNames) \in BOOLEAN
    BY DEF PlacementConsistent
  <2> QED BY <2>1, <1>1 DEF VerifierTypeOK
<1>3. VerifierTypeOK'
  BY <1>1, <1>2 DEF VerifierTypeOK
<1>4. ProgramInv' /\ HistoryInv' /\ TensorsInv'
  BY <1>1, RunFrame
<1>5. PhaseInv'
  BY <1>1 DEF PhaseInv
<1>6. WalkInv'
  BY <1>1, KeptFrame DEF WalkInv, NotWritten, LastWrite
<1>9. LegalInv'
  BY <1>1, <1>2, KeptFrame DEF LegalInv
<1>7. SolutionInv'
  BY <1>1, <1>2, SolutionFrame
<1>8. VerdictInv'
  <2>1. OutputNames' = OutputNames
    BY <1>1 DEF OutputNames, ReadNames, Indices
  <2>2. results'.postcondition = results.postcondition
    BY <1>1 DEF VerifierTypeOK
  <2>3. results'.placement = PlacementConsistent(OutputNames)
    BY <1>1 DEF VerifierTypeOK
  <2>4. PlacementConsistent(OutputNames)' = PlacementConsistent(OutputNames)
    BY <1>1, <2>1, QueryFrame
  <2> QED BY <2>1, <2>2, <2>3, <2>4, <1>1 DEF VerdictInv
<1> QED BY <1>3, <1>4, <1>5, <1>6, <1>7, <1>8, <1>9

\* Nothing changes when nothing happens.
LEMMA StutterInv == RunInv /\ UNCHANGED verifierVars => RunInv'
<1> SUFFICES ASSUME RunInv, UNCHANGED verifierVars PROVE RunInv'
  OBVIOUS
<1> USE DEF RunInv, verifierVars
<1>1. VerifierTypeOK' /\ PhaseInv'
  BY DEF VerifierTypeOK, PhaseInv
<1>2. ProgramInv' /\ HistoryInv' /\ TensorsInv'
  BY RunFrame
<1>5. WalkInv' /\ LegalInv'
  BY KeptFrame DEF WalkInv, LegalInv, NotWritten, LastWrite
<1>3. SolutionInv'
  <2>1. CASE phase \in {"walk", "verified"}
    BY <2>1, SolutionFrame
  <2>2. CASE phase \notin {"walk", "verified"}
    BY <2>2 DEF SolutionInv
  <2> QED BY <2>1, <2>2
<1>4. VerdictInv'
  <2>1. OutputNames' = OutputNames
    BY DEF OutputNames, ReadNames, Indices
  <2>2. PlacementConsistent(OutputNames)' = PlacementConsistent(OutputNames)
    BY <2>1, QueryFrame
  <2> QED BY <2>1, <2>2 DEF VerdictInv
<1> QED BY <1>1, <1>2, <1>3, <1>4, <1>5

-----------------------------------------------------------------------------
(***************************************************************************)
(* The renaming.                                                           *)
(***************************************************************************)
\* The number of definitions of a name grows with each of them.
LEMMA MoreDefinitions ==
  ASSUME NEW n, NEW i \in Nat, NEW j \in Nat, i <= j
  PROVE  /\ Cardinality(Definitions(n, i)) \in Nat
         /\ Cardinality(Definitions(n, i)) = Cardinality(Definitions(n, j))
            <=> \A m \in (i + 1) .. j : ops[m].out # n
<1>1. IsFiniteSet(1 .. j)
  BY FS_Interval
<1>2. Definitions(n, i) \subseteq Definitions(n, j) /\ Definitions(n, j) \subseteq 1 .. j
  BY DEF Definitions
<1>3. IsFiniteSet(Definitions(n, j)) /\ IsFiniteSet(Definitions(n, i))
  BY <1>1, <1>2, FS_Subset
<1>4. Cardinality(Definitions(n, i)) \in Nat
  BY <1>3, FS_CardinalityType
<1>5. Cardinality(Definitions(n, i)) = Cardinality(Definitions(n, j))
      <=> Definitions(n, i) = Definitions(n, j)
  BY <1>2, <1>3, FS_Subset
<1>6. Definitions(n, i) = Definitions(n, j) <=> \A m \in (i + 1) .. j : ops[m].out # n
  BY DEF Definitions
<1> QED BY <1>4, <1>5, <1>6

\* The version that a write defines.
LEMMA Version ==
  ASSUME HasInPlace, NEW n, NEW i \in Nat, NEW m \in 1 .. i, ops[m].out = n
  PROVE  Current(n, i) = <<n, Cardinality(Definitions(n, i)) - 1>>
<1>1. Definitions(n, i) # {}
  BY DEF Definitions
<1> QED BY <1>1 DEF Current

\* Renaming makes different writes different, and a read like the write it reads.
LEMMA RenamingLemma == VerifierTypeOK /\ ProgramInv => RenamedApart
<1> SUFFICES ASSUME VerifierTypeOK, ProgramInv, HasInPlace, InputsKept PROVE
      /\ \A i, j \in Indices : SsaOut(i) = SsaOut(j) => i = j
      /\ \A i, j \in Indices : \A k \in DOMAIN ops[i].ins :
           SsaIns(i)[k] = SsaOut(j) <=> LastWrite(ops[i].ins[k], i - 1, j)
  BY DEF RenamedApart
<1>1. \A i \in Indices : i \in Nat /\ i \in 1 .. i /\ i - 1 \in Nat
  BY Executed DEF Indices
<1>2. \A i \in Indices : SsaOut(i) = <<ops[i].out, Cardinality(Definitions(ops[i].out, i)) - 1>>
  BY <1>1, Version DEF SsaOut
<1>3. ASSUME NEW i \in Indices, NEW j \in Indices, i < j PROVE SsaOut(i) # SsaOut(j)
  <2> SUFFICES ASSUME ops[i].out = ops[j].out
               PROVE  Cardinality(Definitions(ops[j].out, i)) # Cardinality(Definitions(ops[j].out, j))
                      /\ Cardinality(Definitions(ops[j].out, i)) \in Nat
                      /\ Cardinality(Definitions(ops[j].out, j)) \in Nat
    BY <1>2
  <2>1. j \in (i + 1) .. j
    BY <1>1, <1>3
  <2> QED BY <2>1, <1>1, <1>3, MoreDefinitions
<1>4. \A i, j \in Indices : SsaOut(i) = SsaOut(j) => i = j
  BY <1>1, <1>3
<1>5. ASSUME NEW i \in Indices, NEW j \in Indices, NEW k \in DOMAIN ops[i].ins,
             SsaIns(i)[k] = SsaOut(j)
      PROVE  LastWrite(ops[i].ins[k], i - 1, j)
  <2> DEFINE n == ops[i].ins[k]
  <2>1. Current(n, i - 1) = SsaOut(j)
    BY <1>5 DEF SsaIns
  <2>2. ops[j].out = n
    BY <2>1 DEF Current, SsaOut
  <2>3. PICK m \in 1 .. (i - 1) : ops[m].out = n
    <3>1. n \notin Inputs
      BY <2>2 DEF InputsKept, WrittenNames
    <3>2. SeqSet(ops[i].ins) \subseteq Inputs \cup {ops[l].out : l \in 1 .. (i - 1)}
      BY DEF ProgramInv
    <3> QED BY <3>1, <3>2 DEF SeqSet
  <2>4. Current(n, i - 1) = <<n, Cardinality(Definitions(n, i - 1)) - 1>>
    BY <2>3, <1>1, Version
  <2>5. /\ Cardinality(Definitions(n, i - 1)) \in Nat
        /\ Cardinality(Definitions(n, j)) \in Nat
    BY <1>1, MoreDefinitions
  <2>6. Cardinality(Definitions(n, i - 1)) = Cardinality(Definitions(n, j))
    BY <2>1, <2>2, <2>4, <2>5, <1>2
  <2>7. CASE j <= i - 1
    BY <2>2, <2>6, <2>7, <1>1, MoreDefinitions DEF LastWrite
  <2>8. CASE i - 1 < j
    <3>1. j \in (i - 1 + 1) .. j
      BY <2>8, <1>1
    <3> QED BY <3>1, <2>2, <2>6, <2>8, <1>1, MoreDefinitions
  <2> QED BY <2>7, <2>8, <1>1
<1>6. ASSUME NEW i \in Indices, NEW j \in Indices, NEW k \in DOMAIN ops[i].ins,
             LastWrite(ops[i].ins[k], i - 1, j)
      PROVE  SsaIns(i)[k] = SsaOut(j)
  BY <1>1, <1>6, RenamedRead DEF SsaIns
<1> QED BY <1>4, <1>5, <1>6

-----------------------------------------------------------------------------
(***************************************************************************)
(* The theorems.                                                           *)
(***************************************************************************)
\* The books of the symbolic run and of the replay of verify_all are kept, for
\* every menu of operations, every mesh and programs of any length.
THEOREM RunInvariance == VerifierSpec => []RunInv
<1>1. RunInv /\ [VerifierNext]_verifierVars => RunInv'
  BY AddOpInv, ExecuteInv, PostconditionInv, LegalityInv, PlacementInv, StutterInv DEF VerifierNext
<1> QED BY InitInv, <1>1, PTL DEF VerifierSpec

\* verify_communication_legality judges every collective by the placements
\* that its inputs had when it was applied, in every program that keeps its
\* inputs and what the replay cannot apply.
THEOREM Replay == VerifierSpec => []ReplayIsRun
BY RunInvariance, ReplayLemma, PTL

\* _ssa_rename_program gives every write a name of its own, and every read the
\* name of the write that it reads, in programs that keep their inputs.
THEOREM Renaming == VerifierSpec => []RenamedApart
<1>1. RunInv => RenamedApart
  BY RenamingLemma DEF RunInv
<1> QED BY RunInvariance, <1>1, PTL

\* In the invariant's states the outputs of an accepted program that keeps its
\* inputs and what the replay cannot apply are Replicate.
LEMMA OutputsLemma == MeshNdim = 1 /\ RunInv => OutputsReplicate
<1> SUFFICES ASSUME MeshNdim = 1, RunInv, Accepted, InputsKept, Replayable,
                    NEW n \in OutputNames, n \in WrittenNames,
                    NEW d \in MeshDims
             PROVE  tensors[n][d] = "R"
  BY DEF OutputsReplicate, Replicated
<1>1. d = 0 /\ 0 \in MeshDims /\ MeshDims = {0}
  BY DEF MeshDims
<1>2. /\ phase = "verified" /\ walked = Len(ops) /\ Len(history) = Len(ops)
      /\ results.postcondition /\ results.legality /\ results.placement
  BY DEF Accepted, RunInv, PhaseInv
<1>3. /\ ~IsPartial(tensors[n])
      /\ PlacementConsistent(OutputNames)
  BY <1>2 DEF RunInv, VerdictInv
<1>4. PICK s \in Models(0) : TRUE
  BY <1>1, <1>3 DEF PlacementConsistent, Satisfiable
<1>5. s \in [SsaWritten -> PL] /\ \A i \in Indices : Solves(s, i, 0)
  BY <1>4 DEF Models
<1>6. \A i \in Indices : Value(s, SsaIns(i)[1], 0) \in Required(ops[i])
  <2>1. \A i \in Indices : CheckedDim(ops[i]) = 0
    BY <1>1 DEF CheckedDim
  <2> QED BY <1>3, <1>4, <2>1 DEF PlacementConsistent, ProvedPrecondition
<1>7. \A i \in Indices : s[SsaOut(i)] = "R" => Apply(ops[i], history[i])[0] \in {"R", "P"}
  BY <1>2, <1>5, <1>6 DEF RunInv, SolutionInv, Indices
<1>8. PICK j \in Indices : /\ LastWrite(n, Len(ops), j)
                          /\ tensors[n] = Apply(ops[j], history[j])
  <2>1. n \in DOMAIN tensors /\ ~NotWritten(n, Len(ops))
    BY DEF OutputNames, NotWritten, WrittenNames, Indices
  <2> QED BY <2>1, <1>2 DEF RunInv, TensorsInv, Indices
<1>9. Current(n, Len(ops)) = SsaOut(j) /\ SsaOut(j) \in SsaWritten
  BY <1>8, RenamedRead, Executed DEF RunInv, SsaWritten
<1>10. s[SsaOut(j)] = "R"
  <2>1. ProvedReplicate(Current(n, Len(ops)))
    BY <1>3 DEF PlacementConsistent
  <2> QED BY <2>1, <1>1, <1>4, <1>9 DEF ProvedReplicate, Value
<1>11. tensors[n][0] \in {"R", "P"}
  BY <1>7, <1>8, <1>10
<1>12. tensors[n][0] # "P"
  BY <1>1, <1>3 DEF IsPartial
<1> QED BY <1>1, <1>11, <1>12

\* Soundness of verify_placement_consistency on a mesh of one dimension: the
\* outputs of an accepted program that keeps its inputs and what the replay of
\* the legality check cannot apply are Replicate.
THEOREM PlacementSoundness == MeshNdim = 1 /\ VerifierSpec => []OutputsReplicate
<1> SUFFICES ASSUME MeshNdim = 1 PROVE VerifierSpec => []OutputsReplicate
  OBVIOUS
<1> QED BY RunInvariance, OutputsLemma, PTL

-----------------------------------------------------------------------------
(***************************************************************************)
(* Sums.  The recursive function of SumOver satisfies its equation; a sum  *)
(* over no device is 0 and one device more adds its term, and the rest     *)
(* follows from these two, one device at a time.                           *)
(***************************************************************************)
\* u[k] is the sum over the members of S below k.
Sums(S, f, u) ==
  u = [k \in 0 .. Size |->
         IF k = 0 THEN 0 ELSE u[k - 1] + (IF k - 1 \in S THEN f[k - 1] ELSE 0)]

\* A sum is the last value of a function that satisfies its equation.
LEMMA SumSteps ==
  ASSUME NEW S, NEW f
  PROVE  \E u : Sums(S, f, u) /\ SumOver(S, f) = u[Size]
<1> DEFINE term(k) == IF k \in S THEN f[k] ELSE 0
           upto(n, u) == u = [k \in 0 .. n |-> IF k = 0 THEN 0 ELSE u[k - 1] + term(k - 1)]
           T == {n \in Nat : \E u : upto(n, u)}
<1>1. 0 \in T
  <2>1. upto(0, [k \in 0 .. 0 |-> 0])
    OBVIOUS
  <2> QED BY <2>1
<1>2. ASSUME NEW n \in Nat, n \in T PROVE n + 1 \in T
  <2>1. PICK u : upto(n, u)
    BY <1>2
  <2> HIDE DEF term
  <2> DEFINE w == [k \in 0 .. (n + 1) |-> IF k = n + 1 THEN u[n] + term(n) ELSE u[k]]
  <2>2. ASSUME NEW k \in 0 .. (n + 1)
        PROVE  w[k] = IF k = 0 THEN 0 ELSE w[k - 1] + term(k - 1)
    <3>1. CASE k = n + 1
      BY <3>1
    <3>2. CASE k # n + 1
      <4>1. k \in 0 .. n /\ w[k] = u[k] /\ (k # 0 => k - 1 \in 0 .. n /\ w[k - 1] = u[k - 1])
        BY <3>2
      <4> QED BY <4>1, <2>1
    <3> QED BY <3>1, <3>2
  <2>3. upto(n + 1, w)
    BY <2>2
  <2>4. n + 1 \in Nat
    OBVIOUS
  <2> HIDE DEF w, upto
  <2> QED BY <2>3, <2>4
<1>3. PICK u : upto(Size, u)
  <2> HIDE DEF T
  <2>1. Nat \subseteq T
    BY <1>1, <1>2, Induction
  <2>2. Size \in T
    BY <2>1, SizeAssumption
  <2> QED BY <2>2 DEF T
<1> DEFINE sums == CHOOSE v : Sums(S, f, v)
<1>4. Sums(S, f, u)
  BY <1>3 DEF Sums
<1>5. Sums(S, f, sums)
  BY <1>4
<1>6. SumOver(S, f) = sums[Size]
  BY DEF SumOver, Sums
<1> QED BY <1>5, <1>6

\* What the equation says of the sum at each step.
LEMMA SumUnfold ==
  ASSUME NEW S, NEW f, NEW u, Sums(S, f, u)
  PROVE  /\ u[0] = 0
         /\ \A k \in 0 .. (Size - 1) : u[k + 1] = u[k] + (IF k \in S THEN f[k] ELSE 0)
<1>1. Size \in Nat /\ 0 \in 0 .. Size
  BY SizeAssumption
<1>2. u[0] = 0
  BY <1>1 DEF Sums
<1>3. ASSUME NEW k \in 0 .. (Size - 1)
      PROVE  u[k + 1] = u[k] + (IF k \in S THEN f[k] ELSE 0)
  <2>1. k + 1 \in 0 .. Size /\ k + 1 # 0 /\ (k + 1) - 1 = k
    BY <1>1
  <2> QED BY <2>1 DEF Sums
<1> QED BY <1>2, <1>3

\* A sum over no device is 0.
LEMMA SumNone == ASSUME NEW f PROVE SumOver({}, f) = 0
<1>1. PICK u : Sums({}, f, u) /\ SumOver({}, f) = u[Size]
  BY SumSteps
<1>2. u[0] = 0 /\ \A k \in 0 .. (Size - 1) : u[k + 1] = u[k] + 0
  BY <1>1, SumUnfold
<1> DEFINE T == {n \in Nat : n <= Size => u[n] = 0}
<1>3. Size \in Nat
  BY SizeAssumption
<1>4. 0 \in T
  BY <1>2
<1>5. ASSUME NEW n \in Nat, n \in T PROVE n + 1 \in T
  BY <1>2, <1>3, <1>5
<1> HIDE DEF T
<1>6. Nat \subseteq T
  BY <1>4, <1>5, Induction
<1>7. u[Size] = 0
  BY <1>3, <1>6 DEF T
<1> QED BY <1>1, <1>7

\* One device more adds its term.
LEMMA SumMore ==
  ASSUME NEW S \in SUBSET Range0, NEW e \in Range0, e \notin S,
         NEW f, \A k \in S \cup {e} : f[k] \in Int
  PROVE  /\ SumOver(S, f) \in Int
         /\ SumOver(S \cup {e}, f) = SumOver(S, f) + f[e]
<1>1. PICK u : Sums(S, f, u) /\ SumOver(S, f) = u[Size]
  BY SumSteps
<1>2. PICK w : Sums(S \cup {e}, f, w) /\ SumOver(S \cup {e}, f) = w[Size]
  BY SumSteps
<1>3. u[0] = 0 /\ \A k \in 0 .. (Size - 1) : u[k + 1] = u[k] + (IF k \in S THEN f[k] ELSE 0)
  BY <1>1, SumUnfold
<1>4. /\ w[0] = 0
      /\ \A k \in 0 .. (Size - 1) : w[k + 1] = w[k] + (IF k \in S \cup {e} THEN f[k] ELSE 0)
  BY <1>2, SumUnfold
<1> DEFINE T == {n \in Nat : n <= Size => /\ u[n] \in Int
                                          /\ w[n] = u[n] + (IF e < n THEN f[e] ELSE 0)}
<1>5. Size \in Nat /\ e \in 0 .. (Size - 1)
  BY SizeAssumption DEF Range0
<1>6. 0 \in T
  BY <1>3, <1>4, <1>5
<1>7. ASSUME NEW n \in Nat, n \in T PROVE n + 1 \in T
  <2> SUFFICES ASSUME n + 1 <= Size
               PROVE  /\ u[n + 1] \in Int
                      /\ w[n + 1] = u[n + 1] + (IF e < n + 1 THEN f[e] ELSE 0)
    OBVIOUS
  <2>1. n \in 0 .. (Size - 1) /\ u[n] \in Int /\ w[n] = u[n] + (IF e < n THEN f[e] ELSE 0)
    BY <1>5, <1>7
  <2>2. u[n + 1] = u[n] + (IF n \in S THEN f[n] ELSE 0)
    BY <2>1, <1>3
  <2>3. w[n + 1] = w[n] + (IF n \in S \cup {e} THEN f[n] ELSE 0)
    BY <2>1, <1>4
  <2>4. (n \in S => f[n] \in Int) /\ f[e] \in Int
    OBVIOUS
  <2>5. CASE n = e
    BY <2>1, <2>2, <2>3, <2>4, <2>5
  <2>6. CASE n # e
    <3>1. (IF e < n + 1 THEN f[e] ELSE 0) = (IF e < n THEN f[e] ELSE 0)
      BY <2>6, <1>5
    <3>2. n \in S \cup {e} <=> n \in S
      BY <2>6
    <3> QED BY <3>1, <3>2, <2>1, <2>2, <2>3, <2>4
  <2> QED BY <2>5, <2>6
<1> HIDE DEF T
<1>8. Nat \subseteq T
  BY <1>6, <1>7, Induction
<1>9. u[Size] \in Int /\ w[Size] = u[Size] + f[e]
  BY <1>5, <1>8 DEF T
<1> QED BY <1>1, <1>2, <1>9

\* Induction over the sets of devices, for a set of them instead of a predicate.
LEMMA SubsetInduction ==
  ASSUME NEW T, {} \in T,
         \A S \in SUBSET Range0 : \A e \in Range0 \ S : S \in T => S \cup {e} \in T
  PROVE  SUBSET Range0 \subseteq T
<1> SUFFICES ASSUME NEW S \in SUBSET Range0 PROVE S \in T
  OBVIOUS
<1> DEFINE Cut(n) == {k \in S : k < n}
           N == {n \in Nat : Cut(n) \in T}
<1>1. Size \in Nat /\ \A k \in S : k \in Nat /\ 0 <= k /\ k < Size /\ k \in Range0
  BY SizeAssumption DEF Range0
<1>2. 0 \in N
  <2>1. Cut(0) = {}
    BY <1>1
  <2> QED BY <2>1
<1>3. ASSUME NEW n \in Nat, n \in N PROVE n + 1 \in N
  <2>1. CASE n \in S
    <3>5. n \in Range0
      BY <2>1
    <3>6. n \notin Cut(n)
      OBVIOUS
    <3>7. Cut(n) \in SUBSET Range0
      OBVIOUS
    <3>1. n \in Range0 \ Cut(n)
      BY <3>5, <3>6
    <3>8. \A k \in S : k < n + 1 <=> k < n \/ k = n
      BY <1>1
    <3>3. Cut(n + 1) = Cut(n) \cup {n}
      BY <2>1, <3>8
    <3>2. Cut(n) \in T
      BY <1>3
    <3> HIDE DEF Cut
    <3>4. Cut(n + 1) \in T
      BY <3>1, <3>2, <3>3, <3>7
    <3> QED BY <3>4
  <2>2. CASE n \notin S
    <3>1. Cut(n + 1) = Cut(n)
      BY <1>1, <2>2
    <3>2. Cut(n) \in T
      BY <1>3
    <3> HIDE DEF Cut
    <3>3. Cut(n + 1) \in T
      BY <3>1, <3>2
    <3> QED BY <3>3
  <2> QED BY <2>1, <2>2
<1>4. Cut(Size) = S
  BY <1>1
<1> HIDE DEF N
<1>5. Nat \subseteq N
  BY <1>2, <1>3, Induction
<1>6. Cut(Size) \in T
  BY <1>1, <1>5 DEF N
<1> QED BY <1>4, <1>6

\* A sum of integers is an integer.
LEMMA SumType ==
  ASSUME NEW S \in SUBSET Range0, NEW f, \A k \in S : f[k] \in Int
  PROVE  SumOver(S, f) \in Int
<1>1. CASE S = {}
  BY <1>1, SumNone
<1>2. CASE S # {}
  <2>1. PICK e \in S : TRUE
    BY <1>2
  <2>2. /\ S \ {e} \in SUBSET Range0 /\ e \in Range0 /\ e \notin S \ {e}
        /\ (S \ {e}) \cup {e} = S
    BY <2>1
  <2>3. /\ SumOver(S \ {e}, f) \in Int
        /\ SumOver((S \ {e}) \cup {e}, f) = SumOver(S \ {e}, f) + f[e]
    <3>1. \A k \in (S \ {e}) \cup {e} : f[k] \in Int
      BY <2>2
    <3> QED BY <3>1, <2>2, SumMore
  <2>4. SumOver((S \ {e}) \cup {e}, f) = SumOver(S, f)
    BY <2>2, Zenon
  <2>5. SumOver(S, f) = SumOver(S \ {e}, f) + f[e] /\ f[e] \in Int
    BY <2>1, <2>3, <2>4
  <2> QED BY <2>3, <2>5
<1> QED BY <1>1, <1>2

\* A sum over one device is its term.
LEMMA SumOne ==
  ASSUME NEW e \in Range0, NEW f, f[e] \in Int
  PROVE  SumOver({e}, f) = f[e]
<1>1. SumOver({} \cup {e}, f) = SumOver({}, f) + f[e]
  BY SumMore
<1>2. SumOver({}, f) = 0 /\ {} \cup {e} = {e}
  BY SumNone
<1> QED BY <1>1, <1>2

\* Sums with the same terms are equal.
LEMMA SumSame ==
  ASSUME NEW S \in SUBSET Range0, NEW f, NEW g, \A k \in S : f[k] \in Int /\ f[k] = g[k]
  PROVE  SumOver(S, f) = SumOver(S, g)
<1> DEFINE T == {R \in SUBSET Range0 : R \subseteq S => SumOver(R, f) = SumOver(R, g)}
<1>1. {} \in T
  <2>1. SumOver({}, f) = 0 /\ SumOver({}, g) = 0
    BY SumNone
  <2> QED BY <2>1
<1>2. ASSUME NEW R \in SUBSET Range0, NEW e \in Range0 \ R, R \in T
      PROVE  R \cup {e} \in T
  <2> SUFFICES ASSUME R \cup {e} \subseteq S
               PROVE  SumOver(R \cup {e}, f) = SumOver(R \cup {e}, g)
    OBVIOUS
  <2>1. SumOver(R \cup {e}, f) = SumOver(R, f) + f[e]
    BY SumMore
  <2>2. SumOver(R \cup {e}, g) = SumOver(R, g) + g[e]
    BY SumMore
  <2> QED BY <2>1, <2>2, <1>2
<1> HIDE DEF T
<1>3. S \in T
  BY <1>1, <1>2, SubsetInduction
<1> QED BY <1>3 DEF T

\* A sum of sums, term by term, is the sum of the sums.
LEMMA SumPlus ==
  ASSUME NEW S \in SUBSET Range0, NEW f \in [Range0 -> Int], NEW g \in [Range0 -> Int]
  PROVE  SumOver(S, [k \in Range0 |-> f[k] + g[k]]) = SumOver(S, f) + SumOver(S, g)
<1> DEFINE h == [k \in Range0 |-> f[k] + g[k]]
           T == {R \in SUBSET Range0 : SumOver(R, h) = SumOver(R, f) + SumOver(R, g)}
<1>1. {} \in T
  <2>1. SumOver({}, f) = 0 /\ SumOver({}, g) = 0 /\ SumOver({}, h) = 0
    BY SumNone
  <2> QED BY <2>1
<1>2. ASSUME NEW R \in SUBSET Range0, NEW e \in Range0 \ R, R \in T
      PROVE  R \cup {e} \in T
  <2>1. \A k \in R \cup {e} : f[k] \in Int /\ g[k] \in Int /\ h[k] \in Int
    OBVIOUS
  <2>2. h[e] = f[e] + g[e] /\ f[e] \in Int /\ g[e] \in Int
    OBVIOUS
  <2> HIDE DEF h
  <2>3. SumOver(R, f) \in Int /\ SumOver(R \cup {e}, f) = SumOver(R, f) + f[e]
    BY <2>1, SumMore
  <2>4. SumOver(R, g) \in Int /\ SumOver(R \cup {e}, g) = SumOver(R, g) + g[e]
    BY <2>1, SumMore
  <2>5. SumOver(R \cup {e}, h) = SumOver(R, h) + h[e]
    BY <2>1, SumMore
  <2>6. SumOver(R, h) = SumOver(R, f) + SumOver(R, g)
    BY <1>2
  <2>7. SumOver(R \cup {e}, h) = SumOver(R \cup {e}, f) + SumOver(R \cup {e}, g)
    BY <2>2, <2>3, <2>4, <2>5, <2>6
  <2> QED BY <2>7
<1> HIDE DEF T
<1>3. S \in T
  BY <1>1, <1>2, SubsetInduction
<1> QED BY <1>3 DEF T

\* A factor can be taken out of a sum.
LEMMA SumTimes ==
  ASSUME NEW S \in SUBSET Range0, NEW f \in [Range0 -> Int], NEW c \in Int
  PROVE  SumOver(S, [k \in Range0 |-> f[k] * c]) = SumOver(S, f) * c
<1> DEFINE h == [k \in Range0 |-> f[k] * c]
           T == {R \in SUBSET Range0 : SumOver(R, h) = SumOver(R, f) * c}
<1>1. {} \in T
  <2>1. SumOver({}, f) = 0 /\ SumOver({}, h) = 0
    BY SumNone
  <2> QED BY <2>1
<1>2. ASSUME NEW R \in SUBSET Range0, NEW e \in Range0 \ R, R \in T
      PROVE  R \cup {e} \in T
  <2>1. \A k \in R \cup {e} : f[k] \in Int /\ h[k] \in Int
    OBVIOUS
  <2>2. h[e] = f[e] * c /\ f[e] \in Int
    OBVIOUS
  <2> HIDE DEF h
  <2>3. SumOver(R, f) \in Int /\ SumOver(R \cup {e}, f) = SumOver(R, f) + f[e]
    BY <2>1, SumMore
  <2>4. SumOver(R \cup {e}, h) = SumOver(R, h) + h[e]
    BY <2>1, SumMore
  <2>5. SumOver(R, h) = SumOver(R, f) * c
    BY <1>2
  <2>6. \A a, b \in Int : (a + b) * c = a * c + b * c
    OBVIOUS
  <2>7. SumOver(R \cup {e}, h) = SumOver(R \cup {e}, f) * c
    BY <2>2, <2>3, <2>4, <2>5, <2>6
  <2> QED BY <2>7
<1> HIDE DEF T
<1>3. S \in T
  BY <1>1, <1>2, SubsetInduction
<1> QED BY <1>3 DEF T

\* The sum of the sums of the rows is the sum of the sums of the columns.
LEMMA SumSwap ==
  ASSUME NEW S \in SUBSET Range0, NEW F \in [Range0 -> [Range0 -> Int]]
  PROVE  SumOver(S, [i \in Range0 |-> SumOver(Range0, F[i])])
           = SumOver(Range0, [j \in Range0 |-> SumOver(S, [i \in Range0 |-> F[i][j]])])
<1> DEFINE rows == [i \in Range0 |-> SumOver(Range0, F[i])]
           col(j) == [i \in Range0 |-> F[i][j]]
           cols(R) == [j \in Range0 |-> SumOver(R, col(j))]
           T == {R \in SUBSET Range0 : SumOver(R, rows) = SumOver(Range0, cols(R))}
<1>1. \A i \in Range0 : F[i] \in [Range0 -> Int] /\ rows[i] \in Int
  BY SumType
<1>2. \A j \in Range0 : col(j) \in [Range0 -> Int]
  OBVIOUS
<1>3. \A R \in SUBSET Range0 : cols(R) \in [Range0 -> Int]
  <2> HIDE DEF col
  <2> QED BY <1>2, SumType
<1>4. {} \in T
  <2>1. SumOver({}, rows) = 0
    BY SumNone
  <2>2. \A j \in Range0 : cols({})[j] = 0
    BY SumNone
  <2>3. SumOver(Range0, cols({})) = SumOver({}, rows) * 0
    <3>1. \A j \in Range0 : cols({})[j] = [k \in Range0 |-> F[k][k] * 0][j]
      BY <2>2
    <3> DEFINE diag == [k \in Range0 |-> F[k][k]]
    <3>2. diag \in [Range0 -> Int] /\ 0 \in Int
      OBVIOUS
    <3>3. SumOver(Range0, [k \in Range0 |-> diag[k] * 0]) = SumOver(Range0, diag) * 0
      <4> HIDE DEF diag
      <4> QED BY <3>2, SumTimes
    <3>4. SumOver(Range0, diag) \in Int
      <4> HIDE DEF diag
      <4> QED BY <3>2, SumType
    <3>5. \A j \in Range0 : cols({})[j] \in Int /\ cols({})[j] = [k \in Range0 |-> diag[k] * 0][j]
      BY <2>2, <3>1
    <3> HIDE DEF cols, diag
    <3>6. SumOver(Range0, cols({})) = SumOver(Range0, [k \in Range0 |-> diag[k] * 0])
      BY <3>5, SumSame
    <3> QED BY <3>3, <3>4, <3>6, <2>1
  <2> HIDE DEF rows, cols
  <2> QED BY <2>1, <2>3
<1>5. ASSUME NEW R \in SUBSET Range0, NEW e \in Range0 \ R, R \in T
      PROVE  R \cup {e} \in T
  <2>1. SumOver(R \cup {e}, rows) = SumOver(R, rows) + rows[e]
    <3> HIDE DEF rows
    <3> QED BY <1>1, SumMore
  <2>2. SumOver(R, rows) = SumOver(Range0, cols(R))
    BY <1>5
  <2>3. \A j \in Range0 : cols(R \cup {e})[j] = cols(R)[j] + F[e][j]
    <3> SUFFICES ASSUME NEW j \in Range0
                 PROVE  SumOver(R \cup {e}, col(j)) = SumOver(R, col(j)) + F[e][j]
      OBVIOUS
    <3>1. col(j)[e] = F[e][j] /\ \A k \in R \cup {e} : col(j)[k] \in Int
      OBVIOUS
    <3> HIDE DEF col
    <3> QED BY <3>1, SumMore
  <2>4. cols(R \cup {e}) = [j \in Range0 |-> cols(R)[j] + F[e][j]]
    BY <2>3
  <2>5. rows[e] = SumOver(Range0, F[e])
    OBVIOUS
  <2> HIDE DEF rows, cols
  <2>6. SumOver(Range0, [j \in Range0 |-> cols(R)[j] + F[e][j]])
          = SumOver(Range0, cols(R)) + SumOver(Range0, F[e])
    BY <1>1, <1>3, SumPlus
  <2>7. SumOver(R \cup {e}, rows) = SumOver(Range0, cols(R \cup {e}))
    BY <2>1, <2>2, <2>4, <2>5, <2>6
  <2> QED BY <2>7
<1> HIDE DEF T
<1>6. S \in T
  BY <1>4, <1>5, SubsetInduction
<1> QED BY <1>6 DEF T

\* The sum over all devices, the first one apart.
LEMMA SumFirst ==
  ASSUME NEW f, \A k \in Range0 : f[k] \in Int
  PROVE  SumOver(Range0, f) = SumOver(Range0 \ {0}, f) + f[0]
<1>1. 0 \in Range0 /\ (Range0 \ {0}) \cup {0} = Range0
  BY SizeAssumption DEF Range0
<1>2. SumOver((Range0 \ {0}) \cup {0}, f) = SumOver(Range0 \ {0}, f) + f[0]
  BY <1>1, SumMore
<1> QED BY <1>1, <1>2

-----------------------------------------------------------------------------
(***************************************************************************)
(* The rules are true of the data: what the devices compute from tensors   *)
(* distributed by the placements of the operands is distributed by the     *)
(* placement that apply computes.                                          *)
(***************************************************************************)
Values == [Pairs -> Int]

Rect(v, rows, cols) == [p \in rows \X cols |-> v[p]]

\* There is a first device.
LEMMA Zero == 0 \in Devices /\ Devices # {} /\ Devices = Range0 /\ Devices \in SUBSET Range0
BY SizeAssumption DEF Devices, Range0

\* The parts of a tensor are rectangles of its entries.
LEMMA Rects ==
  ASSUME NEW v \in Values, NEW dev \in Devices
  PROVE  /\ v = Rect(v, Range0, Range0)
         /\ Part(v, 0, dev) = Rect(v, {dev}, Range0)
         /\ Part(v, 1, dev) = Rect(v, Range0, {dev})
<1>1. v = Rect(v, Range0, Range0)
  BY DEF Rect, Values, Pairs
<1>2. {q \in DOMAIN v : q[0 + 1] = dev} = {dev} \X Range0
  BY DEF Values, Pairs, Devices
<1>3. {q \in DOMAIN v : q[1 + 1] = dev} = Range0 \X {dev}
  BY DEF Values, Pairs, Devices
<1> QED BY <1>1, <1>2, <1>3 DEF Part, Rect

\* What a device holds of a tensor that is not partial.
RowsOf(placement, dev) == IF placement = "S0" THEN {dev} ELSE Range0
ColsOf(placement, dev) == IF placement = "S1" THEN {dev} ELSE Range0

\* What a device holds of a tensor that is not partial is a rectangle.
LEMMA HeldRect ==
  ASSUME NEW v \in Values, NEW x, NEW placement \in {"R", "S0", "S1"}
  PROVE  Represents(x, v, placement) <=>
           \A dev \in Devices : x[dev] = Rect(v, RowsOf(placement, dev), ColsOf(placement, dev))
BY Rects DEF Represents, RowsOf, ColsOf

\* The terms of the sum that is an entry of a product.
Terms(a, b, p) == [k \in Range0 |-> a[<<p[1], k>>] * b[<<k, p[2]>>]]

\* The terms of a product are integers, and so is their sum.
LEMMA TermsType ==
  ASSUME NEW a \in Values, NEW b \in Values, NEW p \in Pairs
  PROVE  Terms(a, b, p) \in [Range0 -> Int] /\ SumOver(Range0, Terms(a, b, p)) \in Int
<1>1. \A k \in Range0 : <<p[1], k>> \in Pairs /\ <<k, p[2]>> \in Pairs
  BY DEF Pairs
<1>2. \A k \in Range0 : a[<<p[1], k>>] \in Int /\ b[<<k, p[2]>>] \in Int
  BY <1>1 DEF Values
<1>3. Terms(a, b, p) \in [Range0 -> Int]
  BY <1>2 DEF Terms
<1> QED BY <1>3, SumType

\* A side of a rectangle.
IsSide(R) == R \in SUBSET Range0 /\ R # {}

\* All rows, or columns, are a side, and so is a single one.
LEMMA AllSides == IsSide(Range0) /\ \A dev \in Devices : IsSide({dev})
BY Zero DEF IsSide

\* A rectangle has the sides it is made of.
LEMMA Sides ==
  ASSUME NEW R, NEW K, IsSide(R), IsSide(K)
  PROVE  {p[1] : p \in R \X K} = R /\ {p[2] : p \in R \X K} = K
<1>1. PICK r \in R, k \in K : TRUE
  BY DEF IsSide
<1>2. \A s \in R : <<s, k>> \in R \X K /\ <<s, k>>[1] = s
  OBVIOUS
<1>3. \A l \in K : <<r, l>> \in R \X K /\ <<r, l>>[2] = l
  OBVIOUS
<1> QED BY <1>2, <1>3

\* z has the entries of the product of a and b with row in R, column in C, as
\* far as the terms in M go.
PartOfProduct(z, a, b, R, C, M) == z = [p \in R \X C |-> SumOver(M, Terms(a, b, p))]

\* A product of rectangles is a part of the product.
LEMMA ProductRect ==
  ASSUME NEW a \in Values, NEW b \in Values, NEW R, NEW K, NEW L, NEW C,
         IsSide(R), IsSide(K), IsSide(L), IsSide(C)
  PROVE  PartOfProduct(Product(Rect(a, R, K), Rect(b, L, C)), a, b, R, C, K \cap L)
<1> DEFINE f == Rect(a, R, K)
           g == Rect(b, L, C)
<1>1. DOMAIN f = R \X K /\ DOMAIN g = L \X C
  BY DEF Rect
<1>2. {p[1] : p \in R \X K} = R /\ {p[2] : p \in R \X K} = K
  BY Sides
<1>3. {p[1] : p \in L \X C} = L /\ {p[2] : p \in L \X C} = C
  BY Sides
<1>4. ASSUME NEW p \in R \X C
      PROVE  SumOver(K \cap L, [k \in K \cap L |-> f[<<p[1], k>>] * g[<<k, p[2]>>]])
               = SumOver(K \cap L, Terms(a, b, p))
  <2> DEFINE h == [k \in K \cap L |-> f[<<p[1], k>>] * g[<<k, p[2]>>]]
  <2>1. p \in Pairs
    BY DEF Pairs, IsSide
  <2>2. ASSUME NEW k \in K \cap L PROVE h[k] \in Int /\ h[k] = Terms(a, b, p)[k]
    <3>1. <<p[1], k>> \in R \X K /\ <<k, p[2]>> \in L \X C /\ k \in Range0
      BY DEF IsSide
    <3>2. f[<<p[1], k>>] = a[<<p[1], k>>] /\ g[<<k, p[2]>>] = b[<<k, p[2]>>]
      BY <3>1 DEF Rect
    <3>3. h[k] = Terms(a, b, p)[k]
      BY <3>1, <3>2 DEF Terms
    <3>4. Terms(a, b, p)[k] \in Int
      BY <2>1, <3>1, TermsType
    <3> QED BY <3>3, <3>4
  <2>3. K \cap L \in SUBSET Range0
    BY DEF IsSide
  <2> HIDE DEF h
  <2>4. SumOver(K \cap L, h) = SumOver(K \cap L, Terms(a, b, p))
    BY <2>2, <2>3, SumSame
  <2> QED BY <2>4 DEF h
<1> HIDE DEF f, g
<1>5. Product(f, g) =
        [p \in R \X C |-> SumOver(K \cap L, [k \in K \cap L |-> f[<<p[1], k>>] * g[<<k, p[2]>>]])]
  BY <1>1, <1>2, <1>3 DEF Product
<1> QED BY <1>4, <1>5 DEF f, g, PartOfProduct

\* The product of two whole matrices.
LEMMA ProductWhole ==
  ASSUME NEW a \in Values, NEW b \in Values
  PROVE  /\ Product(a, b) = [p \in Pairs |-> SumOver(Range0, Terms(a, b, p))]
         /\ Product(a, b) \in Values
<1>1. a = Rect(a, Range0, Range0) /\ b = Rect(b, Range0, Range0)
  BY Zero, Rects
<1>2. PartOfProduct(Product(Rect(a, Range0, Range0), Rect(b, Range0, Range0)), a, b,
                    Range0, Range0, Range0 \cap Range0)
  BY AllSides, ProductRect
<1>3. Range0 \cap Range0 = Range0
  OBVIOUS
<1>4. PartOfProduct(Product(a, b), a, b, Range0, Range0, Range0)
  BY <1>1, <1>2, <1>3, Zenon
<1>5. Product(a, b) = [p \in Pairs |-> SumOver(Range0, Terms(a, b, p))]
  BY <1>4 DEF PartOfProduct, Pairs
<1> QED BY <1>5, TermsType DEF Values

\* The product, where RuleHolds allows it.
LEMMA MatMulRule ==
  ASSUME NEW a \in Values, NEW b \in Values, NEW x, NEW y, NEW z, NEW pa, NEW pb,
         Represents(x, a, pa), Represents(y, b, pb),
         <<pa, pb>> \in {<<"R", "R">>, <<"S0", "R">>, <<"R", "S1">>, <<"S1", "S0">>, <<"P", "R">>},
         \A dev \in Devices : z[dev] = Product(x[dev], y[dev])
  PROVE  Represents(z, Product(a, b), MatMulPlacement(pa, pb))
<1> DEFINE ab == Product(a, b)
<1>1. ab \in Values /\ ab = [p \in Pairs |-> SumOver(Range0, Terms(a, b, p))]
  BY ProductWhole
<1>2. /\ Range0 # {} /\ Range0 \in SUBSET Range0
      /\ \A dev \in Devices : {dev} # {} /\ {dev} \in SUBSET Range0
  BY Zero
<1>3. Range0 \cap Range0 = Range0 /\ \A dev \in Devices : {dev} \cap {dev} = {dev}
  OBVIOUS
<1>4. CASE pa = "R" /\ pb = "R"
  BY <1>4 DEF Represents, MatMulPlacement
<1>5. CASE pa = "S0" /\ pb = "R"
  <2> SUFFICES ASSUME NEW dev \in Devices PROVE z[dev] = Rect(ab, {dev}, Range0)
    BY <1>1, <1>5, HeldRect DEF MatMulPlacement, RowsOf, ColsOf
  <2>1. x[dev] = Rect(a, {dev}, Range0) /\ y[dev] = Rect(b, Range0, Range0)
    BY <1>5, HeldRect DEF RowsOf, ColsOf
  <2>2. z[dev] = Product(Rect(a, {dev}, Range0), Rect(b, Range0, Range0))
    BY <2>1
  <2>3. z[dev] = [p \in {dev} \X Range0 |-> SumOver(Range0, Terms(a, b, p))]
    <3>1. PartOfProduct(Product(Rect(a, {dev}, Range0), Rect(b, Range0, Range0)), a, b,
                        {dev}, Range0, Range0 \cap Range0)
      BY AllSides, ProductRect
    <3>2. PartOfProduct(z[dev], a, b, {dev}, Range0, Range0)
      BY <2>2, <3>1, <1>3, Zenon
    <3> QED BY <3>2 DEF PartOfProduct
  <2>4. \A p \in {dev} \X Range0 : p \in Pairs
    BY <1>2 DEF Pairs
  <2> QED BY <2>3, <2>4, <1>1 DEF Rect
<1>6. CASE pa = "R" /\ pb = "S1"
  <2> SUFFICES ASSUME NEW dev \in Devices PROVE z[dev] = Rect(ab, Range0, {dev})
    BY <1>1, <1>6, HeldRect DEF MatMulPlacement, RowsOf, ColsOf
  <2>1. x[dev] = Rect(a, Range0, Range0) /\ y[dev] = Rect(b, Range0, {dev})
    BY <1>6, HeldRect DEF RowsOf, ColsOf
  <2>2. z[dev] = Product(Rect(a, Range0, Range0), Rect(b, Range0, {dev}))
    BY <2>1
  <2>3. z[dev] = [p \in Range0 \X {dev} |-> SumOver(Range0, Terms(a, b, p))]
    <3>1. PartOfProduct(Product(Rect(a, Range0, Range0), Rect(b, Range0, {dev})), a, b,
                        Range0, {dev}, Range0 \cap Range0)
      BY AllSides, ProductRect
    <3>2. PartOfProduct(z[dev], a, b, Range0, {dev}, Range0)
      BY <2>2, <3>1, <1>3, Zenon
    <3> QED BY <3>2 DEF PartOfProduct
  <2>4. \A p \in Range0 \X {dev} : p \in Pairs
    BY <1>2 DEF Pairs
  <2> QED BY <2>3, <2>4, <1>1 DEF Rect
<1>7. CASE pa = "S1" /\ pb = "S0"
  <2>1. ASSUME NEW dev \in Devices
        PROVE  z[dev] \in Values /\ \A p \in Pairs : z[dev][p] = Terms(a, b, p)[dev]
    <3>1. x[dev] = Rect(a, Range0, {dev}) /\ y[dev] = Rect(b, {dev}, Range0)
      BY <1>7, HeldRect DEF RowsOf, ColsOf
    <3>2. z[dev] = Product(Rect(a, Range0, {dev}), Rect(b, {dev}, Range0))
      BY <3>1
    <3>3. z[dev] = [p \in Pairs |-> SumOver({dev}, Terms(a, b, p))]
      <4>1. PartOfProduct(Product(Rect(a, Range0, {dev}), Rect(b, {dev}, Range0)), a, b,
                          Range0, Range0, {dev} \cap {dev})
        BY AllSides, ProductRect
      <4>2. PartOfProduct(z[dev], a, b, Range0, Range0, {dev})
        BY <3>2, <4>1, <1>3, Zenon
      <4> QED BY <4>2 DEF PartOfProduct, Pairs
    <3>4. \A p \in Pairs : Terms(a, b, p)[dev] \in Int
      BY TermsType, Zero
    <3>5. \A p \in Pairs : SumOver({dev}, Terms(a, b, p)) = Terms(a, b, p)[dev]
      BY <3>4, Zero, SumOne
    <3> QED BY <3>3, <3>4, <3>5 DEF Values
  <2>2. ASSUME NEW p \in Pairs
        PROVE  ab[p] = SumOver(Devices, [dev \in Devices |-> z[dev][p]])
    <3>1. \A k \in Range0 : Terms(a, b, p)[k] \in Int /\
                            Terms(a, b, p)[k] = [dev \in Devices |-> z[dev][p]][k]
      BY <2>1, TermsType, Zero
    <3>2. SumOver(Range0, Terms(a, b, p)) = SumOver(Range0, [dev \in Devices |-> z[dev][p]])
      BY <3>1, SumSame
    <3> QED BY <3>2, <1>1, Zero
  <2>3. MatMulPlacement(pa, pb) = "P"
    BY <1>7 DEF MatMulPlacement
  <2> QED BY <2>1, <2>2, <2>3 DEF Represents, Values
<1>8. CASE pa = "P" /\ pb = "R"
  <2>1. /\ \A dev \in Devices : x[dev] \in Values /\ y[dev] = b
        /\ \A p \in Pairs : a[p] = SumOver(Devices, [dev \in Devices |-> x[dev][p]])
    BY <1>8 DEF Represents, Values
  <2>2. ASSUME NEW dev \in Devices
        PROVE  /\ z[dev] \in Values
               /\ z[dev] = [p \in Pairs |-> SumOver(Range0, Terms(x[dev], b, p))]
    <3>1. z[dev] = Product(x[dev], b)
      BY <2>1
    <3> QED BY <3>1, <2>1, ProductWhole
  <2>3. ASSUME NEW p \in Pairs
        PROVE  ab[p] = SumOver(Devices, [dev \in Devices |-> z[dev][p]])
    <3> DEFINE F == [dev \in Range0 |-> Terms(x[dev], b, p)]
               col(k) == [dev \in Range0 |-> F[dev][k]]
    <3>1. F \in [Range0 -> [Range0 -> Int]]
      BY <2>1, TermsType, Zero
    <3>2. [dev \in Devices |-> z[dev][p]] = [dev \in Range0 |-> SumOver(Range0, F[dev])]
      BY <2>2 DEF Devices
    <3>3. ASSUME NEW k \in Range0 PROVE SumOver(Range0, col(k)) = Terms(a, b, p)[k]
      <4> DEFINE q == <<p[1], k>>
                 c == b[<<k, p[2]>>]
                 share == [dev \in Range0 |-> x[dev][q]]
      <4>1. q \in Pairs /\ <<k, p[2]>> \in Pairs
        BY DEF Pairs
      <4>2. c \in Int /\ share \in [Range0 -> Int]
        BY <4>1, <2>1, Zero DEF Values
      <4>3. col(k) = [dev \in Range0 |-> share[dev] * c]
        BY DEF Terms
      <4>4. a[q] = SumOver(Range0, share)
        BY <4>1, <2>1, Zero
      <4>5. Terms(a, b, p)[k] = a[q] * c
        BY DEF Terms
      <4> HIDE DEF col, share, c, q
      <4>6. SumOver(Range0, [dev \in Range0 |-> share[dev] * c]) = SumOver(Range0, share) * c
        BY <4>2, SumTimes
      <4> QED BY <4>3, <4>4, <4>5, <4>6
    <3>4. SumOver(Range0, [dev \in Range0 |-> SumOver(Range0, F[dev])])
            = SumOver(Range0, [k \in Range0 |-> SumOver(Range0, [dev \in Range0 |-> F[dev][k]])])
      <4> HIDE DEF F
      <4> QED BY <3>1, SumSwap
        <3>5. SumOver(Range0, Terms(a, b, p)) =
             SumOver(Range0, [k \in Range0 |-> SumOver(Range0, col(k))])
      <4>1. Terms(a, b, p) \in [Range0 -> Int]
        BY TermsType
      <4> HIDE DEF col
      <4>2. \A k \in Range0 : /\ Terms(a, b, p)[k] \in Int
                              /\ Terms(a, b, p)[k] = [j \in Range0 |-> SumOver(Range0, col(j))][k]
        BY <4>1, <3>3
      <4> QED BY <4>2, SumSame
    <3> HIDE DEF F
    <3>6. ab[p] = SumOver(Range0, [dev \in Range0 |-> SumOver(Range0, F[dev])])
      BY <3>4, <3>5, <1>1
    <3> QED BY <3>2, <3>6, Zero
  <2>4. MatMulPlacement(pa, pb) = "P"
    BY <1>8 DEF MatMulPlacement
  <2> QED BY <2>2, <2>3, <2>4 DEF Represents, Values
<1> QED BY <1>4, <1>5, <1>6, <1>7, <1>8

-----------------------------------------------------------------------------
(***************************************************************************)
(* Entry by entry: sums, products and functions.                           *)
(***************************************************************************)
Cells(placement, dev) == RowsOf(placement, dev) \X ColsOf(placement, dev)

\* The cells of a rectangle.
LEMMA HeldCells ==
  ASSUME NEW v \in Values, NEW x, NEW placement \in {"R", "S0", "S1"},
         Represents(x, v, placement), NEW dev \in Devices
  PROVE  x[dev] = [p \in Cells(placement, dev) |-> v[p]]
<1>1. x[dev] = Rect(v, RowsOf(placement, dev), ColsOf(placement, dev))
  BY HeldRect
<1> QED BY <1>1 DEF Rect, Cells

\* Two operands meet where the merged placement says.
LEMMA Meet ==
  ASSUME NEW pa \in {"R", "S0", "S1"}, NEW pb \in {"R", "S0", "S1"}, Mergeable(pa, pb),
         NEW dev \in Devices
  PROVE  /\ MergePlacement(pa, pb) \in {"R", "S0", "S1"}
         /\ Cells(pa, dev) \cap Cells(pb, dev) = Cells(MergePlacement(pa, pb), dev)
         /\ Cells(pa, dev) \subseteq Pairs
<1>1. MergePlacement(pa, pb) \in {"R", "S0", "S1"}
  BY DEF MergePlacement
<1>2. dev \in Range0
  BY Zero
<1>3. Cells(pa, dev) \cap Cells(pb, dev) = Cells(MergePlacement(pa, pb), dev)
  <2>1. CASE pa = "R"
    BY <2>1, <1>2 DEF Cells, RowsOf, ColsOf, MergePlacement
  <2>2. CASE pb = "R" /\ pa # "R"
    BY <2>2, <1>2 DEF Cells, RowsOf, ColsOf, MergePlacement
  <2>3. CASE pa = pb /\ pa # "R"
    BY <2>3 DEF Cells, RowsOf, ColsOf, MergePlacement
  <2> QED BY <2>1, <2>2, <2>3 DEF Mergeable
<1>4. Cells(pa, dev) \subseteq Pairs
  BY <1>2 DEF Cells, RowsOf, ColsOf, Pairs
<1> QED BY <1>1, <1>3, <1>4

\* z is what an operation computes of x, or of x and y.
IsSumOf(z, x, y)   == z = [p \in DOMAIN x \cap DOMAIN y |-> x[p] + y[p]]
IsTimesOf(z, x, y) == z = [p \in DOMAIN x \cap DOMAIN y |-> x[p] * y[p]]
IsUnary(z, x)      == z = [p \in DOMAIN x |-> IF x[p] > 0 THEN x[p] ELSE 0]
IsTransposed(z, x) ==
  z = [p \in {<<q[2], q[1]>> : q \in DOMAIN x} |-> x[<<p[2], p[1]>>]]

\* A sum of tensors neither of which is partial, or of two partial ones.
LEMMA AddRule ==
  ASSUME NEW a \in Values, NEW b \in Values, NEW x, NEW y, NEW z,
         NEW pa \in PL, NEW pb \in PL, Mergeable(pa, pb), pa = "P" <=> pb = "P",
         Represents(x, a, pa), Represents(y, b, pb), NEW ab,
         IsSumOf(ab, a, b), \A dev \in Devices : IsSumOf(z[dev], x[dev], y[dev])
  PROVE  ab \in Values /\ Represents(z, ab, MergePlacement(pa, pb))
<1> USE DEF IsSumOf
<1>1. ab \in Values /\ ab = [p \in Pairs |-> a[p] + b[p]]
  BY DEF Values
<1>2. CASE pa # "P"
  <2>1. pa \in {"R", "S0", "S1"} /\ pb \in {"R", "S0", "S1"}
    BY <1>2 DEF PL
  <2>2. MergePlacement(pa, pb) \in {"R", "S0", "S1"}
    BY <2>1 DEF MergePlacement
  <2>3. ASSUME NEW dev \in Devices
        PROVE  z[dev] = Rect(ab, RowsOf(MergePlacement(pa, pb), dev),
                                 ColsOf(MergePlacement(pa, pb), dev))
    <3>1. x[dev] = [p \in Cells(pa, dev) |-> a[p]]
      BY <2>1, HeldCells
    <3>5. y[dev] = [p \in Cells(pb, dev) |-> b[p]]
      BY <2>1, HeldCells
    <3>2. /\ Cells(pa, dev) \cap Cells(pb, dev) = Cells(MergePlacement(pa, pb), dev)
          /\ Cells(pa, dev) \subseteq Pairs
      BY <2>1, Meet
    <3>3. z[dev] = [p \in Cells(pa, dev) \cap Cells(pb, dev) |-> ab[p]]
      BY <3>1, <3>2, <3>5, <1>1
    <3>4. z[dev] = [p \in Cells(MergePlacement(pa, pb), dev) |-> ab[p]]
      BY <3>2, <3>3, Zenon
    <3> QED BY <3>4 DEF Rect, Cells
  <2> QED BY <1>1, <2>2, <2>3, HeldRect
<1>3. CASE pa = "P"
  <2>1. pb = "P" /\ MergePlacement(pa, pb) = "P"
    BY <1>3 DEF MergePlacement
  <2>2. \A dev \in Devices : x[dev] \in Values /\ y[dev] \in Values
    BY <1>3, <2>1 DEF Represents, Values
  <2>3. ASSUME NEW dev \in Devices
        PROVE  z[dev] \in Values /\ \A p \in Pairs : z[dev][p] = x[dev][p] + y[dev][p]
    <3>1. x[dev] \in Values /\ y[dev] \in Values
      BY <2>2
    <3>2. z[dev] = [p \in Pairs |-> x[dev][p] + y[dev][p]]
      BY <3>1 DEF Values
    <3> QED BY <3>1, <3>2 DEF Values
  <2>4. ASSUME NEW p \in Pairs
        PROVE  ab[p] = SumOver(Devices, [dev \in Devices |-> z[dev][p]])
    <3> DEFINE f == [dev \in Range0 |-> x[dev][p]]
               g == [dev \in Range0 |-> y[dev][p]]
    <3>1. f \in [Range0 -> Int] /\ g \in [Range0 -> Int]
      BY <2>2 DEF Values, Devices
    <3>2. a[p] = SumOver(Range0, f) /\ b[p] = SumOver(Range0, g)
      BY <1>3, <2>1 DEF Represents, Devices
    <3>3. [dev \in Devices |-> z[dev][p]] = [k \in Range0 |-> f[k] + g[k]]
      <4>1. \A k \in Range0 : z[k][p] = f[k] + g[k]
        BY <2>3 DEF Devices
      <4> HIDE DEF f, g
      <4> QED BY <4>1 DEF Devices
    <3> HIDE DEF f, g
    <3>4. SumOver(Range0, [k \in Range0 |-> f[k] + g[k]]) = SumOver(Range0, f) + SumOver(Range0, g)
      BY <3>1, Zero, SumPlus
    <3> QED BY <3>2, <3>3, <3>4, <1>1 DEF Devices
  <2> QED BY <1>1, <2>1, <2>3, <2>4 DEF Represents, Values
<1> QED BY <1>2, <1>3

\* Partial times replicated: each device's share of the product.
IsTimes(ab, a, b) == \A p \in Pairs : ab[p] = a[p] * b[p]

\* The sum of the shares, each times the replicated factor, is the product.
LEMMA ShareTimes ==
  ASSUME NEW a \in Values, NEW b \in Values, NEW x, NEW z, Represents(x, a, "P"), NEW ab,
         IsTimes(ab, a, b), \A dev \in Devices : z[dev] \in Values /\ IsTimes(z[dev], x[dev], b)
  PROVE  Represents(z, ab, "P")
<1>1. \A dev \in Devices : x[dev] \in Values
  BY DEF Represents, Values
<1>3. ASSUME NEW p \in Pairs
      PROVE  ab[p] = SumOver(Devices, [dev \in Devices |-> z[dev][p]])
  <2> USE DEF IsTimes
  <2> DEFINE f == [dev \in Range0 |-> x[dev][p]]
             c == b[p]
  <2>1. f \in [Range0 -> Int] /\ c \in Int
    BY <1>1 DEF Values, Devices
  <2>2. a[p] = SumOver(Range0, f)
    BY DEF Represents, Devices
  <2>3. [dev \in Devices |-> z[dev][p]] = [k \in Range0 |-> f[k] * c]
    BY DEF Devices
  <2>5. ab[p] = a[p] * c
    OBVIOUS
  <2> HIDE DEF f, c
  <2>4. SumOver(Range0, [k \in Range0 |-> f[k] * c]) = SumOver(Range0, f) * c
    BY <2>1, Zero, SumTimes
  <2> QED BY <2>2, <2>3, <2>4, <2>5 DEF Devices
<1> QED BY <1>3 DEF Represents, Values

\* The product entry by entry: of parts, or of one partial tensor.
LEMMA MultiplyRule ==
  ASSUME NEW a \in Values, NEW b \in Values, NEW x, NEW y, NEW z,
         NEW pa \in PL, NEW pb \in PL, Mergeable(pa, pb), ~(pa = "P" /\ pb = "P"),
         Represents(x, a, pa), Represents(y, b, pb), NEW ab,
         IsTimesOf(ab, a, b), \A dev \in Devices : IsTimesOf(z[dev], x[dev], y[dev])
  PROVE  ab \in Values /\ Represents(z, ab, MergePlacement(pa, pb))
<1> USE DEF IsTimesOf
<1>1. ab \in Values /\ ab = [p \in Pairs |-> a[p] * b[p]]
  BY DEF Values
<1>2. CASE pa # "P" /\ pb # "P"
  <2>1. pa \in {"R", "S0", "S1"} /\ pb \in {"R", "S0", "S1"}
    BY <1>2 DEF PL
  <2>2. MergePlacement(pa, pb) \in {"R", "S0", "S1"}
    BY <2>1 DEF MergePlacement
  <2>3. ASSUME NEW dev \in Devices
        PROVE  z[dev] = Rect(ab, RowsOf(MergePlacement(pa, pb), dev),
                                 ColsOf(MergePlacement(pa, pb), dev))
    <3>1. x[dev] = [p \in Cells(pa, dev) |-> a[p]]
      BY <2>1, HeldCells
    <3>5. y[dev] = [p \in Cells(pb, dev) |-> b[p]]
      BY <2>1, HeldCells
    <3>2. /\ Cells(pa, dev) \cap Cells(pb, dev) = Cells(MergePlacement(pa, pb), dev)
          /\ Cells(pa, dev) \subseteq Pairs
      BY <2>1, Meet
    <3>3. z[dev] = [p \in Cells(pa, dev) \cap Cells(pb, dev) |-> ab[p]]
      <4>1. /\ DOMAIN x[dev] = Cells(pa, dev) /\ DOMAIN y[dev] = Cells(pb, dev)
            /\ \A p \in Cells(pa, dev) \cap Cells(pb, dev) :
                 x[dev][p] * y[dev][p] = ab[p]
        BY <3>1, <3>2, <3>5, <1>1
      <4>2. z[dev] = [p \in Cells(pa, dev) \cap Cells(pb, dev) |-> x[dev][p] * y[dev][p]]
        BY <4>1
      <4> QED BY <4>1, <4>2
    <3>4. z[dev] = [p \in Cells(MergePlacement(pa, pb), dev) |-> ab[p]]
      BY <3>2, <3>3, Zenon
    <3> QED BY <3>4 DEF Rect, Cells
  <2> QED BY <1>1, <2>2, <2>3, HeldRect
<1>3. CASE pa = "P"
  <2>1. pb = "R" /\ MergePlacement(pa, pb) = "P"
    BY <1>3 DEF MergePlacement, Mergeable
  <2>2. \A dev \in Devices : x[dev] \in Values /\ y[dev] = b
    BY <1>3, <2>1 DEF Represents, Values
  <2>3. ASSUME NEW dev \in Devices
        PROVE  z[dev] \in Values /\ IsTimes(z[dev], x[dev], b)
    <3>1. x[dev] \in Values /\ y[dev] = b
      BY <2>2
    <3>2. z[dev] = [p \in Pairs |-> x[dev][p] * b[p]]
      BY <3>1 DEF Values
    <3> QED BY <3>1, <3>2 DEF Values, IsTimes
  <2>4. IsTimes(ab, a, b)
    BY <1>1 DEF IsTimes
  <2>5. Represents(x, a, "P")
    BY <1>3
  <2>6. Represents(z, ab, "P")
    BY <2>3, <2>4, <2>5, ShareTimes, Zenon
  <2> QED BY <1>1, <2>1, <2>6
<1>4. CASE pb = "P"
  <2>1. pa = "R" /\ MergePlacement(pa, pb) = "P"
    BY <1>4 DEF MergePlacement, Mergeable
  <2>2. \A dev \in Devices : y[dev] \in Values /\ x[dev] = a
    BY <1>4, <2>1 DEF Represents, Values
  <2>3. ASSUME NEW dev \in Devices
        PROVE  z[dev] \in Values /\ IsTimes(z[dev], y[dev], a)
    <3>1. y[dev] \in Values /\ x[dev] = a
      BY <2>2
    <3>2. z[dev] = [p \in Pairs |-> a[p] * y[dev][p]]
      BY <3>1 DEF Values
    <3> QED BY <3>1, <3>2 DEF Values, IsTimes
  <2>4. IsTimes(ab, b, a)
    BY <1>1 DEF Values, IsTimes
  <2>5. Represents(y, b, "P")
    BY <1>4
  <2>6. Represents(z, ab, "P")
    BY <2>3, <2>4, <2>5, ShareTimes, Zenon
  <2> QED BY <1>1, <2>1, <2>6
<1> QED BY <1>2, <1>3, <1>4

\* A function of the entries, where the tensor is not partial.
LEMMA UnaryRule ==
  ASSUME NEW a \in Values, NEW x, NEW z, NEW pa \in PL, pa # "P", Represents(x, a, pa), NEW c,
         IsUnary(c, a), \A dev \in Devices : IsUnary(z[dev], x[dev])
  PROVE  c \in Values /\ Represents(z, c, pa)
<1> USE DEF IsUnary
<1>1. c \in Values /\ c = [p \in Pairs |-> IF a[p] > 0 THEN a[p] ELSE 0]
  BY DEF Values
<1>2. pa \in {"R", "S0", "S1"}
  BY DEF PL
<1>3. ASSUME NEW dev \in Devices
      PROVE  z[dev] = Rect(c, RowsOf(pa, dev), ColsOf(pa, dev))
  <2>1. x[dev] = [p \in Cells(pa, dev) |-> a[p]]
    BY <1>2, HeldCells
  <2>2. Cells(pa, dev) \subseteq Pairs
    BY <1>2, Zero DEF Cells, RowsOf, ColsOf, Pairs
  <2>3. z[dev] = [p \in Cells(pa, dev) |-> c[p]]
    BY <2>1, <2>2, <1>1
  <2> QED BY <2>3 DEF Rect, Cells
<1> QED BY <1>1, <1>2, <1>3, HeldRect

-----------------------------------------------------------------------------
(***************************************************************************)
(* Transposition, and the two halves of the collectives.                   *)
(***************************************************************************)
LEMMA SwappedCells ==
  ASSUME NEW R, NEW C
  PROVE  {<<q[2], q[1]>> : q \in R \X C} = C \X R
<1>1. ASSUME NEW p \in C \X R PROVE p \in {<<q[2], q[1]>> : q \in R \X C}
  <2>1. <<p[2], p[1]>> \in R \X C /\ p = <<p[1], p[2]>>
    OBVIOUS
  <2> QED BY <2>1
<1>2. ASSUME NEW q \in R \X C PROVE <<q[2], q[1]>> \in C \X R
  OBVIOUS
<1> QED BY <1>1, <1>2

IsSwapped(c, a, R, C) == c = [p \in C \X R |-> a[<<p[2], p[1]>>]]

\* A transposed rectangle.
LEMMA TransposeOf ==
  ASSUME NEW a, NEW R, NEW C, DOMAIN a = R \X C, NEW c, IsTransposed(c, a)
  PROVE  IsSwapped(c, a, R, C)
<1>1. {<<q[2], q[1]>> : q \in DOMAIN a} = C \X R
  BY SwappedCells
<1> QED BY <1>1 DEF IsSwapped, IsTransposed

\* The transpose: a slice of rows becomes a slice of columns.
LEMMA TransposeRule ==
  ASSUME NEW a \in Values, NEW x, NEW z, NEW pa \in PL, Represents(x, a, pa), NEW c,
         IsTransposed(c, a), \A dev \in Devices : IsTransposed(z[dev], x[dev])
  PROVE  c \in Values /\ Represents(z, c, SwappedPlacement(pa))
<1>1. \A p \in Pairs : <<p[2], p[1]>> \in Pairs
  BY DEF Pairs
<1>2. c \in Values /\ c = [p \in Pairs |-> a[<<p[2], p[1]>>]]
  <2>1. DOMAIN a = Range0 \X Range0
    BY DEF Values, Pairs
  <2>2. IsSwapped(c, a, Range0, Range0)
    BY <2>1, TransposeOf
  <2>3. c = [p \in Pairs |-> a[<<p[2], p[1]>>]]
    BY <2>2 DEF IsSwapped, Pairs
  <2> QED BY <2>3, <1>1 DEF Values
<1>3. CASE pa # "P"
  <2>1. pa \in {"R", "S0", "S1"} /\ SwappedPlacement(pa) \in {"R", "S0", "S1"}
    BY <1>3 DEF PL, SwappedPlacement
  <2>2. ASSUME NEW dev \in Devices
        PROVE  z[dev] = Rect(c, RowsOf(SwappedPlacement(pa), dev),
                                ColsOf(SwappedPlacement(pa), dev))
    <3>1. x[dev] = [p \in Cells(pa, dev) |-> a[p]]
      BY <2>1, HeldCells
    <3>2. DOMAIN x[dev] = RowsOf(pa, dev) \X ColsOf(pa, dev)
      BY <3>1 DEF Cells
    <3>3. IsSwapped(z[dev], x[dev], RowsOf(pa, dev), ColsOf(pa, dev))
      BY <3>2, TransposeOf
    <3>4. /\ RowsOf(SwappedPlacement(pa), dev) = ColsOf(pa, dev)
          /\ ColsOf(SwappedPlacement(pa), dev) = RowsOf(pa, dev)
      BY <2>1 DEF SwappedPlacement, RowsOf, ColsOf
    <3>5. \A p \in ColsOf(pa, dev) \X RowsOf(pa, dev) :
            p \in Pairs /\ <<p[2], p[1]>> \in Cells(pa, dev)
      BY Zero DEF Cells, RowsOf, ColsOf, Pairs
    <3>6. z[dev] = [p \in ColsOf(pa, dev) \X RowsOf(pa, dev) |-> c[p]]
      BY <3>1, <3>3, <3>5, <1>2 DEF IsSwapped
    <3> QED BY <3>4, <3>6 DEF Rect
  <2> QED BY <1>2, <2>1, <2>2, HeldRect
<1>4. CASE pa = "P"
  <2>1. SwappedPlacement(pa) = "P"
    BY <1>4 DEF SwappedPlacement
  <2>2. /\ \A dev \in Devices : x[dev] \in Values
        /\ \A p \in Pairs : a[p] = SumOver(Devices, [dev \in Devices |-> x[dev][p]])
    BY <1>4 DEF Represents, Values
  <2>3. ASSUME NEW dev \in Devices
        PROVE  z[dev] \in Values /\ \A p \in Pairs : z[dev][p] = x[dev][<<p[2], p[1]>>]
    <3>1. DOMAIN x[dev] = Range0 \X Range0
      BY <2>2 DEF Values, Pairs
    <3>2. IsSwapped(z[dev], x[dev], Range0, Range0)
      BY <3>1, TransposeOf
    <3>3. z[dev] = [p \in Pairs |-> x[dev][<<p[2], p[1]>>]]
      BY <3>2 DEF IsSwapped, Pairs
    <3> QED BY <3>3, <2>2, <1>1 DEF Values
  <2>4. ASSUME NEW p \in Pairs
        PROVE  c[p] = SumOver(Devices, [dev \in Devices |-> z[dev][p]])
    <3> DEFINE q == <<p[2], p[1]>>
    <3>1. q \in Pairs /\ c[p] = a[q]
      BY <1>1, <1>2
    <3>2. [dev \in Devices |-> z[dev][p]] = [dev \in Devices |-> x[dev][q]]
      BY <2>3
    <3> HIDE DEF q
    <3>3. a[q] = SumOver(Devices, [dev \in Devices |-> x[dev][q]])
      BY <3>1, <2>2
    <3> QED BY <3>1, <3>2, <3>3
  <2> QED BY <1>2, <2>1, <2>3, <2>4 DEF Represents, Values
<1> QED BY <1>3, <1>4

-----------------------------------------------------------------------------
\* A reduction of the shares, and a concatenation of the parts, is the tensor.
LEMMA ReducedAll ==
  ASSUME NEW a \in Values, NEW x, Represents(x, a, "P")
  PROVE  Reduced(x) = a
<1>1. /\ \A dev \in Devices : DOMAIN x[dev] = Pairs
      /\ \A p \in Pairs : a[p] = SumOver(Devices, [dev \in Devices |-> x[dev][p]])
  BY DEF Represents
<1>2. UNION {DOMAIN x[dev] : dev \in Devices} = Pairs
  BY <1>1, Zero
<1>3. ASSUME NEW p \in Pairs PROVE {dev \in Devices : p \in DOMAIN x[dev]} = Devices
  BY <1>1
<1>4. ASSUME NEW p \in Pairs PROVE Reduced(x)[p] = a[p]
  <2> DEFINE holders == {dev \in Devices : p \in DOMAIN x[dev]}
             shares(H) == [dev \in H |-> x[dev][p]]
  <2>1. Reduced(x)[p] = SumOver(holders, shares(holders))
    BY <1>2 DEF Reduced
  <2>2. holders = Devices
    BY <1>3
  <2>3. a[p] = SumOver(Devices, shares(Devices))
    BY <1>1
  <2> HIDE DEF holders, shares
  <2> QED BY <2>1, <2>2, <2>3, Zenon
<1>5. DOMAIN Reduced(x) = Pairs /\ Reduced(x) = [p \in DOMAIN Reduced(x) |-> Reduced(x)[p]]
  BY <1>2 DEF Reduced
<1>6. DOMAIN a = Pairs /\ a = [p \in Pairs |-> a[p]]
  BY DEF Values
<1> QED BY <1>4, <1>5, <1>6

\* The devices' slices, concatenated, are the tensor.
LEMMA GatheredAll ==
  ASSUME NEW a \in Values, NEW x, NEW dim \in {0, 1}, Represents(x, a, Shard(dim))
  PROVE  Gathered(x, dim) = a
<1>1. \A dev \in Devices : x[dev] = Part(a, dim, dev)
  BY DEF Represents, Shard
<1>2. ASSUME NEW q \in Pairs
      PROVE  q[dim + 1] \in Devices /\ q \in DOMAIN x[q[dim + 1]] /\ x[q[dim + 1]][q] = a[q]
  <2>1. q[dim + 1] \in Devices
    <3>1. CASE dim = 0
      BY <3>1 DEF Pairs, Devices
    <3>2. CASE dim = 1
      BY <3>2 DEF Pairs, Devices
    <3> QED BY <3>1, <3>2
  <2>2. q \in DOMAIN a
    BY DEF Values
  <2> QED BY <2>1, <2>2, <1>1 DEF Part
<1>3. {q \in Pairs : q \in DOMAIN x[q[dim + 1]]} = Pairs
  BY <1>2
<1>4. Gathered(x, dim) = [q \in Pairs |-> a[q]]
  BY <1>2, <1>3 DEF Gathered
<1> QED BY <1>4 DEF Values

\* The parts of a tensor are its representation by the placement Shard.
LEMMA PartsOf ==
  ASSUME NEW a, NEW z, NEW dim \in {0, 1}, \A dev \in Devices : z[dev] = Part(a, dim, dev)
  PROVE  Represents(z, a, Shard(dim))
BY DEF Represents, Shard

-----------------------------------------------------------------------------
(***************************************************************************)
(* One rule for every operation.                                           *)
(***************************************************************************)
\* What the run on one device and the run on all devices compute.
Single(o, v) == IF Communicates(o) THEN v[1] ELSE Compute(o, v)

Spread(o, x) ==
  [dev \in Devices |->
     IF Communicates(o) THEN Exchange(o, x[1], dev)
     ELSE Compute(o, [k \in DOMAIN x |-> x[k][dev]])]

\* An operation with one operand whose placement is a, and two, a and b.
LEMMA ApplyAtZero ==
  ASSUME NEW o, IsOp(o), NEW ins \in [DOMAIN o.ins -> Placements]
  PROVE  /\ MeshDims = {0} /\ o.mesh_dim \in {NoDim, 0}
         /\ ins[1][0] \in PL
         /\ o.kind \in BinaryKinds => 2 \in DOMAIN o.ins /\ ins[2][0] \in PL
<1>1. MeshDims = {0}
  BY SizeAssumption DEF MeshDims
<1> QED BY <1>1 DEF IsOp, Placements

\* An operation that does not communicate, applied to what the placements
\* say the devices hold, leaves what the placement of its result says.
LEMMA LocalRule ==
  ASSUME NEW o \in Menu, NEW ins \in [DOMAIN o.ins -> Placements],
         NEW v \in [DOMAIN o.ins -> Values], NEW x, DOMAIN x = DOMAIN o.ins,
         \A k \in DOMAIN o.ins : Represents(x[k], v[k], ins[k][0]),
         o.kind \in Computable, ~Communicates(o), ~Raises(o, ins), RuleHolds(o, ins)
  PROVE  /\ Single(o, v) \in Values
         /\ Represents(Spread(o, x), Single(o, v), Apply(o, ins)[0])
<1> DEFINE pa == ins[1][0]
           pb == ins[2][0]
           a == v[1]
           b == v[2]
           z == Spread(o, x)
           c == Single(o, v)
<1>1. IsOp(o) /\ 1 \in DOMAIN o.ins
  BY MenuOps DEF IsOp
<1>2. /\ MeshDims = {0} /\ pa \in PL
      /\ o.kind \in BinaryKinds => 2 \in DOMAIN o.ins /\ pb \in PL
  BY <1>1, ApplyAtZero
<1>3. a \in Values /\ Represents(x[1], a, pa)
  BY <1>1
<1>4. o.kind \in BinaryKinds => b \in Values /\ Represents(x[2], b, pb)
  BY <1>2
<1>5. c = Compute(o, v) /\ \A dev \in Devices : z[dev] = Compute(o, [k \in DOMAIN x |-> x[k][dev]])
  BY DEF Single, Spread
<1>6. \A dev \in Devices :
        /\ [k \in DOMAIN x |-> x[k][dev]][1] = x[1][dev]
        /\ o.kind \in BinaryKinds => [k \in DOMAIN x |-> x[k][dev]][2] = x[2][dev]
  BY <1>1, <1>2
<1> HIDE DEF z, c
<1>7. CASE o.kind = "MatMul"
  <2>1. o.kind \in BinaryKinds
    BY <1>7 DEF BinaryKinds
  <2>2. c = Product(a, b) /\ \A dev \in Devices : z[dev] = Product(x[1][dev], x[2][dev])
    BY <1>5, <1>6, <1>7, <2>1 DEF Compute
  <2>3. <<pa, pb>> \in {<<"R", "R">>, <<"S0", "R">>, <<"R", "S1">>, <<"S1", "S0">>, <<"P", "R">>}
    BY <1>7 DEF RuleHolds
  <2>4. Apply(o, ins)[0] = MatMulPlacement(pa, pb)
    BY <1>2, <1>7 DEF Apply
  <2>5. Product(a, b) \in Values
    BY <1>3, <1>4, <2>1, ProductWhole
  <2> HIDE DEF pa, pb, a, b
  <2>6. Represents(z, Product(a, b), MatMulPlacement(pa, pb))
    BY <1>3, <1>4, <2>1, <2>2, <2>3, MatMulRule
  <2> QED BY <2>2, <2>4, <2>5, <2>6 DEF z, c
<1>8. CASE o.kind = "Add"
  <2>1. o.kind \in BinaryKinds
    BY <1>8 DEF BinaryKinds
  <2>2. IsSumOf(c, a, b) /\ \A dev \in Devices : IsSumOf(z[dev], x[1][dev], x[2][dev])
    <3>1. IsSumOf(c, a, b)
      BY <1>5, <1>8 DEF Compute, IsSumOf
    <3>2. ASSUME NEW dev \in Devices PROVE IsSumOf(z[dev], x[1][dev], x[2][dev])
      <4> DEFINE w == [k \in DOMAIN x |-> x[k][dev]]
      <4>1. w[1] = x[1][dev] /\ w[2] = x[2][dev]
        BY <1>6, <2>1
      <4>2. z[dev] = Compute(o, w)
        BY <1>5
      <4> HIDE DEF w
      <4>3. IsSumOf(z[dev], w[1], w[2])
        BY <4>2, <1>8 DEF Compute, IsSumOf
      <4> QED BY <4>1, <4>3
    <3> QED BY <3>1, <3>2
  <2>3. Mergeable(pa, pb) /\ (pa = "P" <=> pb = "P")
    BY <1>2, <1>8 DEF RuleHolds, Raises
  <2>4. Apply(o, ins)[0] = MergePlacement(pa, pb)
    BY <1>2, <1>8 DEF Apply
  <2> HIDE DEF pa, pb, a, b
  <2>5. c \in Values /\ Represents(z, c, MergePlacement(pa, pb))
    BY <1>2, <1>3, <1>4, <2>1, <2>2, <2>3, AddRule
  <2> QED BY <2>4, <2>5 DEF z, c
<1>9. CASE o.kind = "Multiply"
  <2>1. o.kind \in BinaryKinds
    BY <1>9 DEF BinaryKinds
  <2>2. IsTimesOf(c, a, b) /\ \A dev \in Devices : IsTimesOf(z[dev], x[1][dev], x[2][dev])
    <3>1. IsTimesOf(c, a, b)
      BY <1>5, <1>9 DEF Compute, IsTimesOf
    <3>2. ASSUME NEW dev \in Devices PROVE IsTimesOf(z[dev], x[1][dev], x[2][dev])
      <4> DEFINE w == [k \in DOMAIN x |-> x[k][dev]]
      <4>1. w[1] = x[1][dev] /\ w[2] = x[2][dev]
        BY <1>6, <2>1
      <4>2. z[dev] = Compute(o, w)
        BY <1>5
      <4> HIDE DEF w
      <4>3. IsTimesOf(z[dev], w[1], w[2])
        BY <4>2, <1>9 DEF Compute, IsTimesOf
      <4> QED BY <4>1, <4>3
    <3> QED BY <3>1, <3>2
  <2>3. Mergeable(pa, pb) /\ ~(pa = "P" /\ pb = "P")
    BY <1>2, <1>9 DEF Raises, IsPartial
  <2>4. Apply(o, ins)[0] = MergePlacement(pa, pb)
    BY <1>2, <1>9 DEF Apply
  <2> HIDE DEF pa, pb, a, b
  <2>5. c \in Values /\ Represents(z, c, MergePlacement(pa, pb))
    BY <1>2, <1>3, <1>4, <2>1, <2>2, <2>3, MultiplyRule
  <2> QED BY <2>4, <2>5 DEF z, c
<1>10. CASE o.kind = "Unary"
  <2>1. IsUnary(c, a) /\ \A dev \in Devices : IsUnary(z[dev], x[1][dev])
    <3>1. IsUnary(c, a)
      BY <1>5, <1>10 DEF Compute, IsUnary
    <3>2. ASSUME NEW dev \in Devices PROVE IsUnary(z[dev], x[1][dev])
      <4> DEFINE w == [k \in DOMAIN x |-> x[k][dev]]
      <4>1. w[1] = x[1][dev]
        BY <1>6
      <4>2. z[dev] = Compute(o, w)
        BY <1>5
      <4> HIDE DEF w
      <4>3. IsUnary(z[dev], w[1])
        BY <4>2, <1>10 DEF Compute, IsUnary
      <4> QED BY <4>1, <4>3
    <3> QED BY <3>1, <3>2
  <2>2. pa # "P"
    BY <1>10 DEF RuleHolds
  <2>3. Apply(o, ins)[0] = pa
    BY <1>10 DEF Apply
  <2> HIDE DEF pa, a
  <2>4. c \in Values /\ Represents(z, c, pa)
    BY <1>2, <1>3, <2>1, <2>2, UnaryRule
  <2> QED BY <2>3, <2>4 DEF z, c
<1>11. CASE o.kind = "Transpose"
  <2>1. IsTransposed(c, a) /\ \A dev \in Devices : IsTransposed(z[dev], x[1][dev])
    <3>1. IsTransposed(c, a)
      BY <1>5, <1>11 DEF Compute, IsTransposed
    <3>2. ASSUME NEW dev \in Devices PROVE IsTransposed(z[dev], x[1][dev])
      <4> DEFINE w == [k \in DOMAIN x |-> x[k][dev]]
      <4>1. w[1] = x[1][dev]
        BY <1>6
      <4>2. z[dev] = Compute(o, w)
        BY <1>5
      <4> HIDE DEF w
      <4>3. IsTransposed(z[dev], w[1])
        BY <4>2, <1>11 DEF Compute, IsTransposed
      <4> QED BY <4>1, <4>3
    <3> QED BY <3>1, <3>2
  <2>3. Apply(o, ins)[0] = SwappedPlacement(pa)
    BY <1>2, <1>11 DEF Apply
  <2> HIDE DEF pa, a
  <2>4. c \in Values /\ Represents(z, c, SwappedPlacement(pa))
    BY <1>2, <1>3, <2>1, TransposeRule
  <2> QED BY <2>3, <2>4 DEF z, c
<1> QED BY <1>7, <1>8, <1>9, <1>10, <1>11 DEF Computable, Communicates

\* The same of an operation that does.
LEMMA CollectiveRule ==
  ASSUME NEW o \in Menu, NEW ins \in [DOMAIN o.ins -> Placements],
         NEW v \in [DOMAIN o.ins -> Values], NEW x, DOMAIN x = DOMAIN o.ins,
         \A k \in DOMAIN o.ins : Represents(x[k], v[k], ins[k][0]),
         Communicates(o), ~Raises(o, ins), RuleHolds(o, ins), Needs(o, ins[1])
  PROVE  /\ Single(o, v) \in Values
         /\ Represents(Spread(o, x), Single(o, v), Apply(o, ins)[0])
<1> DEFINE pa == ins[1][0]
           a == v[1]
           y == x[1]
           z == Spread(o, x)
<1>1. IsOp(o) /\ 1 \in DOMAIN o.ins
  BY MenuOps DEF IsOp
<1>2. MeshDims = {0} /\ o.mesh_dim \in {NoDim, 0} /\ pa \in PL
  BY <1>1, ApplyAtZero
<1>3. a \in Values /\ Represents(y, a, pa)
  BY <1>1
<1>4. Single(o, v) = a /\ \A dev \in Devices : z[dev] = Exchange(o, y, dev)
  BY DEF Single, Spread
<1>5. /\ o.kind \in {"AllGather", "AllToAll", "ReduceScatter", "Scatter"} => o.dim \in {0, 1}
      /\ o.kind = "AllToAll" => o.concat_dim \in {0, 1}
  BY DimsAssumption
<1> SUFFICES Represents(z, a, Apply(o, ins)[0])
  BY <1>3, <1>4
<1>6. CASE o.kind = "AllReduce"
  <2>1. pa = "P"
    BY <1>2, <1>6 DEF Raises, IsPartial
  <2>2. Apply(o, ins)[0] = "R"
    BY <1>2, <1>6, <2>1 DEF Apply, Changed
  <2>3. Reduced(y) = a
    BY <1>3, <2>1, ReducedAll
  <2>4. \A dev \in Devices : z[dev] = a
    BY <1>4, <1>6, <2>3 DEF Exchange
  <2> HIDE DEF z
  <2> QED BY <2>2, <2>4 DEF Represents
<1>7. CASE o.kind = "AllGather"
  <2>1. pa = Shard(o.dim)
    BY <1>2, <1>7 DEF Needs, ShardedOn
  <2>2. Apply(o, ins)[0] = "R"
    BY <1>2, <1>7, <2>1 DEF Apply, Changed
  <2>3. Gathered(y, o.dim) = a
    BY <1>3, <1>5, <1>7, <2>1, GatheredAll
  <2>4. \A dev \in Devices : z[dev] = a
    BY <1>4, <1>7, <2>3 DEF Exchange
  <2> HIDE DEF z
  <2> QED BY <2>2, <2>4 DEF Represents
<1>8. CASE o.kind = "ReduceScatter"
  <2>1. pa = "P"
    BY <1>8 DEF RuleHolds
  <2>2. Apply(o, ins)[0] = Shard(o.dim)
    BY <1>2, <1>8, <2>1 DEF Apply, FirstChanged
  <2>3. Reduced(y) = a
    BY <1>3, <2>1, ReducedAll
  <2>4. \A dev \in Devices : z[dev] = Part(a, o.dim, dev)
    BY <1>4, <1>8, <2>3 DEF Exchange
  <2> HIDE DEF z
  <2> QED BY <1>5, <1>8, <2>2, <2>4, PartsOf
<1>9. CASE o.kind = "AllToAll"
  <2>1. pa = Shard(o.dim)
    BY <1>2, <1>9 DEF Needs, ShardedOn
  <2>2. Apply(o, ins)[0] = Shard(o.concat_dim)
    BY <1>2, <1>9, <2>1 DEF Apply, Changed
  <2>3. Gathered(y, o.dim) = a
    BY <1>3, <1>5, <1>9, <2>1, GatheredAll
  <2>4. \A dev \in Devices : z[dev] = Part(a, o.concat_dim, dev)
    BY <1>4, <1>9, <2>3 DEF Exchange
  <2> HIDE DEF z
  <2> QED BY <1>5, <1>9, <2>2, <2>4, PartsOf
<1>10. CASE o.kind = "Scatter"
  <2>1. pa = "R"
    BY <1>10 DEF RuleHolds
  <2>2. Apply(o, ins)[0] = Shard(o.dim)
    BY <1>2, <1>10, <2>1 DEF Apply, FirstChanged
  <2>3. y[0] = a
    BY <1>3, <2>1, Zero DEF Represents
  <2>4. \A dev \in Devices : z[dev] = Part(a, o.dim, dev)
    BY <1>4, <1>10, <2>3 DEF Exchange
  <2> HIDE DEF z
  <2> QED BY <1>5, <1>10, <2>2, <2>4, PartsOf
<1>11. CASE o.kind = "Broadcast"
  <2>1. pa = "R"
    BY <1>11 DEF RuleHolds
  <2>2. Apply(o, ins)[0] = "R"
    BY <1>2, <1>11 DEF Apply
  <2>3. y[0] = a
    BY <1>3, <2>1, Zero DEF Represents
  <2>4. \A dev \in Devices : z[dev] = a
    BY <1>4, <1>11, <2>3 DEF Exchange
  <2> HIDE DEF z
  <2> QED BY <2>2, <2>4 DEF Represents
<1> QED BY <1>6, <1>7, <1>8, <1>9, <1>10, <1>11 DEF Communicates

\* The first device's share of a partial input is what the others leave.
LEMMA HeldRule ==
  ASSUME NEW v \in Values, NEW share \in [Devices \ {0} -> Values], NEW placement \in PL, NEW x,
         \A dev \in Devices : x[dev] = Held(v, placement, share, dev)
  PROVE  Represents(x, v, placement)
<1>1. CASE placement # "P"
  BY <1>1 DEF Represents, Held, PL
<1>2. CASE placement = "P"
  <2>1. \A dev \in Devices : x[dev] = PartialHeld(v, share, dev)
    BY <1>2 DEF Held
  <2> DEFINE others(p) == [d \in Devices \ {0} |-> share[d][p]]
  <2>2. ASSUME NEW p \in Pairs
        PROVE  /\ SumOver(Devices \ {0}, others(p)) \in Int
               /\ \A dev \in Devices \ {0} : x[dev][p] \in Int /\ x[dev][p] = others(p)[dev]
               /\ x[0][p] = v[p] - SumOver(Devices \ {0}, others(p)) /\ v[p] \in Int
    <3>1. \A d \in Devices \ {0} : others(p)[d] \in Int
      BY DEF Values
    <3>2. Devices \ {0} \in SUBSET Range0
      BY DEF Devices
    <3>3. \A dev \in Devices \ {0} : x[dev][p] = others(p)[dev]
      BY <2>1 DEF PartialHeld
    <3>4. x[0][p] = v[p] - SumOver(Devices \ {0}, others(p))
      <4>1. x[0] = PartialHeld(v, share, 0)
        BY <2>1, Zero
      <4> QED BY <4>1 DEF PartialHeld
    <3>5. v[p] \in Int
      BY DEF Values
    <3> HIDE DEF others
    <3>6. SumOver(Devices \ {0}, others(p)) \in Int
      BY <3>1, <3>2, SumType
    <3> QED BY <3>1, <3>3, <3>4, <3>5, <3>6
  <2>3. ASSUME NEW dev \in Devices PROVE x[dev] \in Values
    <3>1. \A p \in Pairs : x[dev][p] \in Int
      <4> HIDE DEF others
      <4> QED BY <2>2
    <3>2. x[dev] = [p \in Pairs |-> x[dev][p]]
      BY <2>1 DEF PartialHeld
    <3> QED BY <3>1, <3>2 DEF Values
  <2>4. ASSUME NEW p \in Pairs
        PROVE  v[p] = SumOver(Devices, [dev \in Devices |-> x[dev][p]])
    <3> DEFINE f == [dev \in Devices |-> x[dev][p]]
    <3>1. \A dev \in Devices : f[dev] = x[dev][p] /\ f[dev] \in Int
      BY <2>3 DEF Values
    <3> HIDE DEF f, others
    <3>2. SumOver(Range0, f) = SumOver(Range0 \ {0}, f) + f[0]
      BY <3>1, SumFirst DEF Devices
    <3>3. SumOver(Devices \ {0}, f) = SumOver(Devices \ {0}, others(p))
      <4>1. \A dev \in Devices \ {0} : f[dev] \in Int /\ f[dev] = others(p)[dev]
        BY <2>2, <3>1
      <4>2. Devices \ {0} \in SUBSET Range0
        BY DEF Devices
      <4> QED BY <4>1, <4>2, SumSame
    <3>4. f[0] = v[p] - SumOver(Devices \ {0}, others(p))
      BY <2>2, <3>1, Zero
    <3>5. SumOver(Devices \ {0}, others(p)) \in Int /\ v[p] \in Int
      BY <2>2
    <3>6. v[p] = SumOver(Devices, f)
      BY <3>2, <3>3, <3>4, <3>5 DEF Devices
    <3> QED BY <3>6 DEF f
  <2> QED BY <1>2, <2>3, <2>4 DEF Represents, Values
<1> QED BY <1>1, <1>2

-----------------------------------------------------------------------------
(***************************************************************************)
(* The invariant of the run, and what follows from it.                     *)
(***************************************************************************)
LEMMA VerifierOfRun == Spec => VerifierSpec
<1>1. Init => VerifierInit
  BY DEF Init
<1>2. [Next]_vars => [VerifierNext]_verifierVars
  BY DEF Next, Verifier, Run, vars
<1> QED BY <1>1, <1>2, PTL DEF Spec, VerifierSpec

\* The inductive invariant without the data.
Books == /\ RunInv
         /\ step \in 0 .. Len(ops)
         /\ step > 0 => Accepted
         /\ DOMAIN value = Inputs \cup {ops[i].out : i \in 1 .. step}
         /\ DOMAIN local = DOMAIN value

\* The verifier is done before the run starts.
LEMMA VerifierStep == Books /\ Verifier => step = 0 /\ VerifierNext /\ UNCHANGED dataVars
<1> SUFFICES ASSUME Books, Verifier PROVE step = 0 /\ VerifierNext /\ UNCHANGED dataVars
  OBVIOUS
<1>1. VerifierNext /\ UNCHANGED dataVars
  BY DEF Verifier
<1>2. phase # "verified"
  BY <1>1 DEF VerifierNext, AddOp, Execute, VerifyPostcondition, VerifyLegality, VerifyPlacement
<1> QED BY <1>1, <1>2 DEF Books, Accepted

\* What the run on the devices adds to the invariant of the verifier.
LEMMA BooksInv == Books /\ [Next]_vars => Books'
<1> SUFFICES ASSUME Books, [Next]_vars PROVE Books'
  OBVIOUS
<1>1. RunInv'
  BY AddOpInv, ExecuteInv, PostconditionInv, LegalityInv, PlacementInv, StutterInv
     DEF Books, Next, Verifier, VerifierNext, Run, vars
<1>2. CASE Run
  <2>1. /\ Accepted /\ step < Len(ops) /\ step' = step + 1 /\ UNCHANGED verifierVars
        /\ DOMAIN value' = DOMAIN value \cup {ops[step + 1].out}
        /\ DOMAIN local' = DOMAIN local \cup {ops[step + 1].out}
    BY <1>2 DEF Run
  <2>2. Accepted' /\ ops' = ops
    BY <2>1 DEF Accepted, verifierVars
  <2>3. step \in Nat /\ Len(ops) \in Nat
    BY Executed DEF Books, RunInv
  <2>4. 1 .. (step + 1) = (1 .. step) \cup {step + 1}
    BY <2>3
  <2> QED BY <1>1, <2>1, <2>2, <2>3, <2>4 DEF Books
<1>3. CASE Verifier
  <2>1. step = 0 /\ VerifierNext /\ UNCHANGED dataVars
    BY <1>3, VerifierStep
  <2>2. Len(ops') \in Nat
    BY <1>1, Executed DEF RunInv, VerifierTypeOK
  <2>3. 1 .. step = {} /\ 1 .. step' = {} /\ step' = 0
    BY <2>1 DEF dataVars
  <2> QED BY <1>1, <2>1, <2>2, <2>3 DEF Books, dataVars
<1>4. CASE UNCHANGED vars
  BY <1>1, <1>4 DEF Books, vars, verifierVars, dataVars, Accepted
<1> QED BY <1>2, <1>3, <1>4 DEF Next

\* What an operation reads on the devices is distributed by the placements
\* that it read when it was applied symbolically.
LEMMA OperandsRight ==
  ASSUME Books, InputsKept, \A n \in DOMAIN value : TensorRight(n), step < Len(ops),
         Accepted, NEW k \in DOMAIN ops[step + 1].ins
  PROVE  LET n == ops[step + 1].ins[k]
         IN  /\ n \in DOMAIN value /\ value[n] \in Values
             /\ Represents(local[n], value[n], history[step + 1][k][0])
<1> DEFINE i == step + 1
           n == ops[i].ins[k]
<1>1. /\ step \in Nat /\ i \in Indices /\ i \in 1 .. Len(history) /\ i - 1 = step
  BY Executed DEF Books, RunInv, VerifierTypeOK, PhaseInv, Indices, Accepted
<1>2. n \in DOMAIN value
  <2>1. SeqSet(ops[i].ins) \subseteq Inputs \cup {ops[j].out : j \in 1 .. (i - 1)}
    BY <1>1 DEF Books, RunInv, ProgramInv
  <2> QED BY <2>1, <1>1 DEF SeqSet, Books
<1>3. /\ value[n] \in Values
      /\ \/ NotWritten(n, step) /\ Represents(local[n], value[n], tensors[n][0])
         \/ \E j \in 1 .. step :
              /\ LastWrite(n, step, j)
              /\ Represents(local[n], value[n], Apply(ops[j], history[j])[0])
  BY <1>2 DEF TensorRight, Values
<1>4. \/ NotWritten(n, step) /\ history[i][k] = tensors[n]
      \/ \E m \in 1 .. step : LastWrite(n, step, m) /\ history[i][k] = Apply(ops[m], history[m])
  BY <1>1 DEF Books, RunInv, HistoryInv
<1>5. ~(NotWritten(n, step) /\ \E m \in 1 .. step : LastWrite(n, step, m))
  BY DEF NotWritten, LastWrite
<1>6. CASE NotWritten(n, step)
  <2>1. history[i][k] = tensors[n] /\ Represents(local[n], value[n], tensors[n][0])
    BY <1>3, <1>4, <1>5, <1>6
  <2> QED BY <2>1, <1>2, <1>3
<1>7. CASE ~NotWritten(n, step)
  <2>1. PICK m \in 1 .. step : LastWrite(n, step, m) /\ history[i][k] = Apply(ops[m], history[m])
    BY <1>4, <1>7
  <2>2. PICK j \in 1 .. step : /\ LastWrite(n, step, j)
                              /\ Represents(local[n], value[n], Apply(ops[j], history[j])[0])
    BY <1>3, <1>7
  <2>3. j = m
    BY <2>1, <2>2, <1>1, LastWriteUnique
  <2> QED BY <2>1, <2>2, <2>3, <1>2, <1>3
<1> QED BY <1>6, <1>7

\* What an operation writes on the devices is distributed by the placement
\* that apply computed for it.
LEMMA ResultRight ==
  ASSUME Books, InputsKept, Replayable, RulesHold, \A n \in DOMAIN value : TensorRight(n), Run
  PROVE  LET o == ops[step + 1]
         IN  /\ value'[o.out] \in Values
             /\ Represents(local'[o.out], value'[o.out], Apply(o, history[step + 1])[0])
             /\ value' = [n \in DOMAIN value \cup {o.out} |->
                            IF n = o.out THEN value'[o.out] ELSE value[n]]
             /\ local' = [n \in DOMAIN local \cup {o.out} |->
                            IF n = o.out THEN local'[o.out] ELSE local[n]]
<1> DEFINE i == step + 1
           o == ops[i]
           ins == history[i]
           v == [k \in DOMAIN o.ins |-> value[o.ins[k]]]
           x == [k \in DOMAIN o.ins |-> local[o.ins[k]]]
<1>1. /\ Accepted /\ step < Len(ops) /\ o.kind \in Computable
      /\ step \in Nat /\ i \in Indices /\ i \in 1 .. Len(history) /\ i \in 1 .. walked
      /\ o \in Menu /\ IsOp(o)
  BY Executed DEF Run, Books, RunInv, VerifierTypeOK, PhaseInv, Indices, Accepted
<1>2. /\ ins \in [DOMAIN o.ins -> Placements]
      /\ ~Raises(o, ins) /\ RuleHolds(o, ins) /\ Needs(o, ins[1])
  BY <1>1 DEF Books, RunInv, VerifierTypeOK, HistoryInv, RulesHold, LegalInv, Accepted
<1>3. \A k \in DOMAIN o.ins : value[o.ins[k]] \in Values /\ Represents(x[k], v[k], ins[k][0])
  BY <1>1, OperandsRight
<1>4. v \in [DOMAIN o.ins -> Values] /\ DOMAIN x = DOMAIN o.ins
  BY <1>3
<1>5. value' = [n \in DOMAIN value \cup {o.out} |-> IF n = o.out THEN Single(o, v) ELSE value[n]]
  <2>1. v[1] = value[o.ins[1]]
    BY <1>1 DEF IsOp
  <2> QED BY <2>1 DEF Run, Single
<1>6. local' = [n \in DOMAIN local \cup {o.out} |-> IF n = o.out THEN Spread(o, x) ELSE local[n]]
  <2> DEFINE spread == [dev \in Devices |->
                      IF Communicates(o) THEN Exchange(o, local[o.ins[1]], dev)
                      ELSE Compute(o, [k \in DOMAIN o.ins |-> local[o.ins[k]][dev]])]
  <2>1. x[1] = local[o.ins[1]]
    BY <1>1 DEF IsOp
  <2>2. \A dev : [k \in DOMAIN x |-> x[k][dev]] = [k \in DOMAIN o.ins |-> local[o.ins[k]][dev]]
    OBVIOUS
  <2>3. spread = Spread(o, x)
    <3> HIDE DEF x
    <3> QED BY <2>1, <2>2 DEF Spread
  <2>4. local' = [n \in DOMAIN local \cup {o.out} |-> IF n = o.out THEN spread ELSE local[n]]
    BY DEF Run
  <2> HIDE DEF spread, x
  <2> QED BY <2>3, <2>4
<1> HIDE DEF v, x, o, ins, i
<1>7. Single(o, v) \in Values /\ Represents(Spread(o, x), Single(o, v), Apply(o, ins)[0])
  BY <1>1, <1>2, <1>3, <1>4, LocalRule, CollectiveRule
<1>8. value'[o.out] = Single(o, v) /\ local'[o.out] = Spread(o, x)
  BY <1>5, <1>6
<1>9. /\ value'[o.out] \in Values /\ Represents(local'[o.out], value'[o.out], Apply(o, ins)[0])
      /\ value' = [n \in DOMAIN value \cup {o.out} |->
                     IF n = o.out THEN value'[o.out] ELSE value[n]]
      /\ local' = [n \in DOMAIN local \cup {o.out} |->
                     IF n = o.out THEN local'[o.out] ELSE local[n]]
  BY <1>5, <1>6, <1>7, <1>8
<1> QED BY <1>9 DEF o, ins, i

\* A step of the run keeps the data right.
LEMMA RunDataInv == Books /\ DataInv /\ Run => DataInv'
<1> SUFFICES ASSUME Books, DataInv, Run
             PROVE  DataInv'
  OBVIOUS
<1>0. step \in Nat /\ step' = step + 1
  <2>1. Len(ops) \in Nat
    BY Executed DEF Books, RunInv
  <2>2. step' = step + 1
    BY DEF Run
  <2>3. step \in 0 .. Len(ops)
    BY DEF Books
  <2> QED BY <2>1, <2>2, <2>3
<1> SUFFICES ASSUME InputsKept', RulesHold', Replayable'
             PROVE  \A n \in DOMAIN value' : TensorRight(n)'
  BY <1>0 DEF DataInv
<1> DEFINE i == step + 1
           o == ops[i]
<1>1. step' = i /\ UNCHANGED verifierVars /\ step \in Nat /\ 1 .. i = (1 .. step) \cup {i}
  BY <1>0 DEF Run
<1>2. InputsKept /\ Replayable /\ RulesHold
  <2>1. UNCHANGED <<ops, history>>
    BY <1>1 DEF verifierVars
  <2>2. InputsKept /\ Replayable
    BY <2>1, KeptFrame
  <2> QED BY <2>1, <2>2 DEF RulesHold, Indices
<1>3. \A n \in DOMAIN value : TensorRight(n)
  BY <1>2 DEF DataInv
<1>4. /\ value'[o.out] \in Values
      /\ Represents(local'[o.out], value'[o.out], Apply(o, history[i])[0])
      /\ value' = [n \in DOMAIN value \cup {o.out} |->
                     IF n = o.out THEN value'[o.out] ELSE value[n]]
      /\ local' = [n \in DOMAIN local \cup {o.out} |->
                     IF n = o.out THEN local'[o.out] ELSE local[n]]
      /\ DOMAIN local = DOMAIN value
  BY <1>2, <1>3, ResultRight DEF Books
<1> SUFFICES ASSUME NEW n \in DOMAIN value'
             PROVE  /\ value'[n] \in Values
                    /\ \/ NotWritten(n, i) /\ Represents(local'[n], value'[n], tensors[n][0])
                       \/ \E j \in 1 .. i :
                            /\ LastWrite(n, i, j)
                            /\ Represents(local'[n], value'[n], Apply(ops[j], history[j])[0])
  BY <1>1 DEF TensorRight, Values, NotWritten, LastWrite, verifierVars, Represents
<1>5. CASE n = o.out
  <2>1. LastWrite(n, i, i)
    BY <1>1, <1>5 DEF LastWrite
  <2> QED BY <2>1, <1>1, <1>4, <1>5
<1>6. CASE n # o.out
  <2>1. n \in DOMAIN value /\ value'[n] = value[n] /\ local'[n] = local[n]
    BY <1>4, <1>6
  <2>2. /\ value[n] \in Values
        /\ \/ NotWritten(n, step) /\ Represents(local[n], value[n], tensors[n][0])
           \/ \E j \in 1 .. step :
                /\ LastWrite(n, step, j)
                /\ Represents(local[n], value[n], Apply(ops[j], history[j])[0])
    BY <1>3, <2>1 DEF TensorRight, Values
  <2>3. CASE NotWritten(n, step) /\ Represents(local[n], value[n], tensors[n][0])
    BY <2>1, <2>2, <2>3, <1>1, <1>6 DEF NotWritten
  <2>4. ASSUME NEW j \in 1 .. step, LastWrite(n, step, j),
               Represents(local[n], value[n], Apply(ops[j], history[j])[0])
        PROVE  /\ j \in 1 .. i /\ LastWrite(n, i, j)
               /\ Represents(local'[n], value'[n], Apply(ops[j], history[j])[0])
    BY <2>1, <2>4, <1>1, <1>6 DEF LastWrite
  <2> QED BY <2>1, <2>2, <2>3, <2>4
<1> QED BY <1>5, <1>6

\* Before the run, the placements of the inputs are those they were given.
LEMMA VerifierDataInv == Books /\ DataInv /\ Verifier => DataInv'
<1> SUFFICES ASSUME Books, DataInv, Verifier, InputsKept', NEW n \in DOMAIN value'
             PROVE  TensorRight(n)'
  BY DEF DataInv
<1>1. step = 0 /\ VerifierNext /\ UNCHANGED dataVars
  BY VerifierStep
<1>2. 1 .. 0 = {} /\ n \in Inputs /\ n \in DOMAIN value
  BY <1>1 DEF Books, dataVars
<1>3. CASE AddOp
  <2>1. tensors' = tensors /\ \E o \in Menu : ops' = Append(ops, o)
    BY <1>3 DEF AddOp
  <2>2. WrittenNames \subseteq WrittenNames'
    <3>1. PICK o \in Menu : ops' = Append(ops, o)
      BY <2>1
    <3>2. ops \in Seq(Menu)
      BY DEF Books, RunInv, VerifierTypeOK
    <3>3. /\ Len(ops') = Len(ops) + 1 /\ Len(ops) \in Nat
          /\ \A j \in 1 .. Len(ops) : ops'[j] = ops[j]
      BY <3>1, <3>2, Appended
    <3> QED BY <3>3 DEF WrittenNames, Indices
  <2>3. InputsKept
    BY <2>2 DEF InputsKept
  <2>4. TensorRight(n)
    BY <2>3, <1>1, <1>2 DEF DataInv
  <2> QED BY <2>1, <2>4, <1>1, <1>2 DEF TensorRight, NotWritten, dataVars, Represents
<1>4. CASE ~AddOp
  <2>1. ops' = ops
    BY <1>1, <1>4 DEF VerifierNext, Execute, VerifyPostcondition, VerifyLegality, VerifyPlacement
  <2>2. InputsKept
    BY <2>1 DEF InputsKept, WrittenNames, Indices
  <2>3. tensors'[n] = tensors[n]
    <3>1. CASE Execute
      <4> DEFINE o == ops[Len(history) + 1]
                 ins == [k \in DOMAIN o.ins |-> tensors[o.ins[k]]]
      <4>1. o.out \in WrittenNames
        BY <3>1, Executed DEF Execute, WrittenNames, Indices, Books, RunInv
      <4>2. n # o.out
        BY <4>1, <1>2, <2>2 DEF InputsKept
      <4>3. \/ tensors' = tensors
            \/ tensors' = [m \in DOMAIN tensors \cup {o.out} |->
                             IF m = o.out THEN Apply(o, ins) ELSE tensors[m]]
        BY <3>1 DEF Execute
      <4>4. n \in DOMAIN tensors
        BY <1>2 DEF Books, RunInv, VerifierTypeOK
      <4> QED BY <4>2, <4>3, <4>4
    <3>2. CASE ~Execute
      BY <3>2, <1>1, <1>4 DEF VerifierNext, VerifyPostcondition, VerifyLegality, VerifyPlacement
    <3> QED BY <3>1, <3>2
  <2>4. TensorRight(n)
    BY <2>2, <1>1, <1>2 DEF DataInv
  <2> QED BY <2>3, <2>4, <1>1, <1>2 DEF TensorRight, NotWritten, dataVars, Represents
<1> QED BY <1>3, <1>4

\* Nothing else touches the data.
LEMMA StutterDataInv == DataInv /\ UNCHANGED vars => DataInv'
BY KeptFrame DEF DataInv, vars, verifierVars, dataVars, RulesHold, Indices,
                 TensorRight, NotWritten, LastWrite, Represents

\* At the start every device holds its part of each input.
LEMMA InitRun == Init => IInv
<1> SUFFICES ASSUME Init PROVE IInv
  OBVIOUS
<1>1. RunInv /\ ops = << >> /\ step = 0
  BY InitInv DEF Init, VerifierInit
<1>2. ASSUME NEW n \in DOMAIN value PROVE TensorRight(n)
  <2>1. /\ n \in Inputs /\ value[n] = InputValue[n] /\ tensors[n][0] \in PL
        /\ \A dev \in Devices : local[n][dev] = Held(value[n], tensors[n][0], PartialShare[n], dev)
    <3>1. 0 \in MeshDims
      BY SizeAssumption DEF MeshDims
    <3> QED BY <3>1 DEF Init, VerifierInit, Placements
  <2>2. value[n] \in Values /\ PartialShare[n] \in [Devices \ {0} -> Values]
    BY <2>1, DataAssumption DEF Values
  <2>3. Represents(local[n], value[n], tensors[n][0])
    BY <2>1, <2>2, HeldRule
  <2> QED BY <2>1, <2>2, <2>3, <1>1 DEF TensorRight, NotWritten, Values
<1> QED BY <1>1, <1>2 DEF IInv, DataInv, Init

\* The inductive invariant of the run of an accepted program, for every menu,
\* size and data.
THEOREM Invariance == Spec => []IInv
<1>1. IInv /\ [Next]_vars => IInv'
  <2>1. IInv <=> Books /\ DataInv
    BY DEF IInv, Books
  <2>2. IInv' <=> Books' /\ DataInv'
    BY DEF IInv, Books
  <2> QED BY <2>1, <2>2, BooksInv, RunDataInv, VerifierDataInv, StutterDataInv DEF Next
<1> QED BY InitRun, <1>1, PTL DEF Spec

\* In the end an output is replicated, so the devices agree on its value.
LEMMA AgreementLemma == IInv => EquivalentIfRulesHold
<1> SUFFICES ASSUME IInv, Finished, RulesHold, InputsKept, Replayable,
                    NEW n \in OutputNames, n \in WrittenNames
             PROVE  Agrees(n)
  BY DEF EquivalentIfRulesHold
<1>1. Accepted /\ step > 0 /\ step = Len(ops) /\ Len(history) = Len(ops) /\ Len(ops) \in Nat
  BY Executed DEF Finished, IInv, RunInv, PhaseInv, Accepted
<1>2. 0 \in MeshDims /\ MeshNdim = 1
  BY SizeAssumption DEF MeshDims
<1>3. tensors[n][0] = "R"
  <2>1. OutputsReplicate
    BY <1>2, OutputsLemma DEF IInv
  <2> QED BY <2>1, <1>1, <1>2 DEF OutputsReplicate, Replicated
<1>4. n \in DOMAIN tensors /\ n \in DOMAIN value /\ ~NotWritten(n, Len(ops))
  BY <1>1 DEF OutputNames, WrittenNames, Indices, NotWritten, IInv
<1>5. PICK j \in 1 .. Len(ops) : /\ LastWrite(n, Len(ops), j)
                               /\ Represents(local[n], value[n], Apply(ops[j], history[j])[0])
  BY <1>1, <1>4 DEF IInv, DataInv, TensorRight
<1>6. PICK m \in 1 .. Len(ops) : LastWrite(n, Len(ops), m) /\ tensors[n] = Apply(ops[m], history[m])
  BY <1>1, <1>4 DEF IInv, RunInv, TensorsInv
<1>7. j = m
  BY <1>1, <1>5, <1>6, LastWriteUnique
<1>8. Represents(local[n], value[n], "R")
  BY <1>3, <1>5, <1>6, <1>7
<1> QED BY <1>8 DEF Represents, Agrees

\* Every device ends with the tensors of the run on one device, for every
\* program that verify_all accepts and that keeps its inputs and what the replay
\* of the legality check cannot apply, every size of the matrices and every
\* data, if each placement rule that the program uses is true of the data.
THEOREM Equivalence == Spec => []EquivalentIfRulesHold
BY Invariance, AgreementLemma, PTL
=============================================================================
