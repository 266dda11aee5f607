----------------------- MODULE TemporalSoundness_proofs -----------------------
(***************************************************************************)
(* The verdict of the temporal verifier is right for every well-formed     *)
(* program, whatever its length, its tensors, its handles and its streams. *)
(*                                                                         *)
(* The argument: every happens-before edge goes forward in the program, so *)
(* the constraints never contradict each other (ForwardEdges, ForwardPath);*)
(* in a program without reports the runtime enforces every edge, because a *)
(* reader of an asynchronous result comes after the wait for it            *)
(* (WaitEnforced, EdgeEnforced); hence it enforces every path              *)
(* (PathEnforced), and conflicting operations of two streams have a path.  *)
(***************************************************************************)
EXTENDS TemporalSoundness, TLAPS

(***************************************************************************)
(* The invariant.                                                          *)
(***************************************************************************)
\* Every step of the verifier and of the runtime preserves the inductive
\* invariant: the graph and the reports stay those of the program, and the host
\* and the streams keep the order in which operations are issued.
THEOREM Invariance == Spec => []IInv
<1>1. Init => IInv
  BY HandleAssumption DEF Init, ProgramInit, VerifierInit, RuntimeInit, IInv, TypeOK,
     ProgramTypeOK, VerifierTypeOK, RuntimeTypeOK, IsSafe, Indices, MayStart
<1>2. IInv /\ [Next]_vars => IInv'
  <2> SUFFICES ASSUME IInv, [Next]_vars PROVE IInv'
    OBVIOUS
  <2> USE DEF IInv, TypeOK, ProgramTypeOK, VerifierTypeOK, RuntimeTypeOK
  <2>1. CASE Build
    <3>1. PICK op \in Menu : Add(op)
      BY <2>1 DEF Build
    <3>2. UNCHANGED <<phase, hb, reports, issued, started, done>> /\ phase = "add"
      BY <2>1 DEF Build, verifierVars, runtimeVars
    <3>3. ops' \in Seq(Menu) /\ Len(ops') = Len(ops) + 1 /\ Len(ops') <= MaxOps
      BY <3>1, HandleAssumption DEF Add
    <3>4. Indices \subseteq Indices'
      BY <3>3 DEF Indices
    <3>5. issued = 0 /\ started = {} /\ done = {}
      BY <3>2 DEF IsSafe
    <3> QED
      BY <3>2, <3>3, <3>4, <3>5 DEF IsSafe, Indices
  <2>2. CASE Verify
    <3> USE DEF Indices
    <3>1. UNCHANGED <<ops, issued, started, done>>
      BY <2>2 DEF Verify, runtimeVars
    <3>2. issued = 0 /\ started = {} /\ done = {}
      BY <2>2 DEF Verify, BuildGraph, DetectAll, IsSafe
    <3>3. CASE BuildGraph
      <4>1. phase' = "built" /\ hb' = AllEdges /\ reports' = reports
        BY <3>3 DEF BuildGraph
      <4>2. AllEdges \subseteq Indices \X Indices /\ AllEdges' = AllEdges
        BY <3>1 DEF AllEdges, StreamEdges, WaitEdges, DataEdges, SameStream, IssueOf
      <4> QED
        BY <3>1, <3>2, <4>1, <4>2 DEF IsSafe
    <3>4. CASE DetectAll
      <4>1. phase' = "verdict" /\ hb' = hb /\ reports' = AllReports /\ phase = "built"
        BY <3>4 DEF DetectAll
      <4>2. AllReports' = AllReports
        BY <3>1, <4>1 DEF AllReports, IsRace, IsMissingWait, IsAliasing,
           IsDependencyViolation, IsCollectiveClash, IsOrphan, Async, SameStream,
           Concurrent, ForcedBefore, Cyclic, Path, WaitPrecedes,
           WaitedBy, WaitEdges, IssueOf, SendOf
      <4>3. AllEdges' = AllEdges
        BY <3>1 DEF AllEdges, StreamEdges, WaitEdges, DataEdges, SameStream, IssueOf
      <4>4. AllReports \subseteq RaceTypes \X Indices \X Indices
        BY DEF AllReports
      <4> QED
        BY <3>1, <3>2, <4>1, <4>2, <4>3, <4>4 DEF IsSafe
    <3> QED
      BY <2>2, <3>3, <3>4 DEF Verify
  <2>3. CASE Run
    <3>1. UNCHANGED <<ops, phase, hb, reports>> /\ IsSafe /\ IsSafe'
      BY <2>3 DEF Run, verifierVars, IsSafe
    <3>2. AllEdges' = AllEdges /\ AllReports' = AllReports
      BY <3>1 DEF AllEdges, StreamEdges, WaitEdges, DataEdges, AllReports, IsRace,
         IsMissingWait, IsAliasing, IsDependencyViolation, IsCollectiveClash,
         IsOrphan, Async, SameStream, Concurrent, ForcedBefore, Cyclic, Path,
         WaitPrecedes, WaitedBy, IssueOf, SendOf, Indices
    <3>3. VerifierTypeOK' /\ ProgramTypeOK' /\ hb' = AllEdges' /\ reports' = AllReports'
      BY <3>1, <3>2 DEF IsSafe, Indices
    <3>4. \A i : MayStart(i)' <=>
            \A k \in 1 .. (i - 1) :
              (SameStream(k, i) \/ HandleOf(ops[k]) \in HandlesWaited(ops[i])) => k \in done'
      BY <3>1 DEF MayStart, SameStream
    <3>5. CASE Issue
      <4>1. issued' = issued + 1 /\ issued < Len(ops) /\ started' = started /\ done' = done
        BY <3>5 DEF Issue
      <4>2. \A k \in 1 .. issued : IsAsync(ops[k]) \/ k \in done
        BY <3>5 DEF Issue, HostFree
      <4> QED
        BY <3>1, <3>3, <3>4, <4>1, <4>2 DEF MayStart
    <3>6. ASSUME NEW i \in Indices, Start(i) PROVE IInv'
      <4>1. issued' = issued /\ done' = done /\ started' = started \cup {i}
            /\ i \in 1 .. issued /\ MayStart(i)
        BY <3>6 DEF Start
      <4> QED
        BY <3>1, <3>3, <3>4, <4>1 DEF MayStart
    <3>7. ASSUME NEW i \in Indices, Complete(i) PROVE IInv'
      <4>1. issued' = issued /\ started' = started /\ done' = done \cup {i} /\ i \in started
        BY <3>7 DEF Complete
      <4> QED
        BY <3>1, <3>3, <3>4, <4>1 DEF MayStart
    <3> QED
      BY <2>3, <3>5, <3>6, <3>7 DEF Run
  <2>4. CASE UNCHANGED vars
    <3>1. UNCHANGED <<ops, phase, hb, reports, issued, started, done>>
      BY <2>4 DEF vars, verifierVars, runtimeVars
    <3>2. AllEdges' = AllEdges /\ AllReports' = AllReports
      BY <3>1 DEF AllEdges, StreamEdges, WaitEdges, DataEdges, AllReports, IsRace,
         IsMissingWait, IsAliasing, IsDependencyViolation, IsCollectiveClash,
         IsOrphan, Async, SameStream, Concurrent, ForcedBefore, Cyclic, Path,
         WaitPrecedes, WaitedBy, IssueOf, SendOf, Indices
    <3> QED
      BY <3>1, <3>2 DEF IsSafe, Indices, MayStart, SameStream
  <2> QED
    BY <2>1, <2>2, <2>3, <2>4 DEF Next
<1> QED
  BY <1>1, <1>2, PTL DEF Spec

-----------------------------------------------------------------------------
(***************************************************************************)
(* The constraints of a well-formed program.                               *)
(***************************************************************************)
\* Every edge goes from an operation to a later one.
LEMMA ForwardEdges ==
  ASSUME WellFormed, NEW e \in AllEdges
  PROVE  e \in Indices \X Indices /\ e[1] < e[2]
<1>1. CASE e \in StreamEdges
  BY <1>1 DEF StreamEdges
<1>2. CASE e \in WaitEdges
  BY <1>2 DEF WaitEdges, IssueOf, WellFormed, HandlesWellUsed
<1>3. CASE e \in DataEdges
  BY <1>3 DEF DataEdges, WellFormed, WrittenBeforeRead
<1> QED
  BY <1>1, <1>2, <1>3 DEF AllEdges

\* Paths go forward too, for the later operations are closed under edges.
LEMMA ForwardPath ==
  ASSUME WellFormed, hb = AllEdges, NEW a \in Indices, NEW b \in Indices, Path(a, b)
  PROVE  a < b
<1> DEFINE S == {x \in Indices : a < x}
<1>1. ASSUME NEW e \in hb, e[1] \in {a} \cup S
      PROVE  e[2] \in S
  <2>1. e \in Indices \X Indices /\ e[1] < e[2]
    BY ForwardEdges
  <2> QED
    BY <1>1, <2>1 DEF Indices
<1>2. S \in SUBSET Indices
  OBVIOUS
<1>3. b \in S
  BY <1>1, <1>2 DEF Path
<1> QED
  BY <1>3

\* The happens-before edges of a well-formed program lead forward only.
LEMMA NoCycle ==
  ASSUME WellFormed, hb = AllEdges
  PROVE  ~Cyclic
BY ForwardPath DEF Cyclic, Indices

\* The constraints of a well-formed program have a solution, so no answer of
\* get_ordered about it is true by contradiction.
THEOREM Satisfiable == Spec => []ConstraintsSatisfiable
<1>1. IInv => ConstraintsSatisfiable
  BY NoCycle DEF IInv, ConstraintsSatisfiable
<1> QED
  BY <1>1, Invariance, PTL

-----------------------------------------------------------------------------
(***************************************************************************)
(* What the runtime enforces in a well-formed program that is safe.        *)
(***************************************************************************)
LEMMA SafeProgram ==
  ASSUME IInv, IsSafe
  PROVE  hb = AllEdges /\ AllReports = {}
BY DEF IInv, IsSafe

\* A safe program is given no report.
LEMMA NoReports ==
  ASSUME IInv, IsSafe, NEW i \in Indices, NEW j \in Indices
  PROVE  ~IsRace(i, j) /\ ~IsMissingWait(i, j) /\ ~IsOrphan(i, j)
<1>1. \A t \in RaceTypes : <<t, i, j>> \notin AllReports
  BY SafeProgram
<1> QED
  BY <1>1 DEF AllReports, RaceTypes

\* An operation that the host waits for is done when a later one has started.
LEMMA HostEnforced ==
  ASSUME IInv, NEW a \in Indices, NEW b \in started, a < b, ~IsAsync(ops[a])
  PROVE  a \in done
BY DEF IInv, TypeOK, RuntimeTypeOK, ProgramTypeOK, Indices

\* Neither is an asynchronous operation in flight behind a wait for it.
LEMMA WaitEnforced ==
  ASSUME IInv, IsSafe, WellFormed,
         NEW a \in Indices, NEW b \in started, WaitPrecedes(a, b)
  PROVE  a \in done
<1>1. hb = AllEdges /\ ~Cyclic
  BY SafeProgram, NoCycle
<1>2. PICK w \in Indices : <<a, w>> \in WaitEdges /\ Path(w, b)
  BY <1>1 DEF WaitPrecedes, WaitedBy, ForcedBefore
<1>3. b \in Indices
  BY DEF IInv, TypeOK, RuntimeTypeOK, ProgramTypeOK, Indices
<1>4. w < b
  BY <1>1, <1>2, <1>3, ForwardPath
<1>5. HandleOf(ops[a]) \in HandlesWaited(ops[w])
  BY <1>2 DEF WaitEdges, IssueOf
<1>6. ~IsAsync(ops[w])
  BY <1>5 DEF HandlesWaited, IsAsync, AsyncComm
<1>7. w \in started
  BY <1>4, <1>6, HostEnforced DEF IInv, TypeOK, RuntimeTypeOK
<1>8. a < w
  BY <1>5 DEF WellFormed, HandlesWellUsed
<1> QED
  BY <1>5, <1>7, <1>8 DEF IInv, MayStart, Indices

\* The source of an edge is done when its target has started.
LEMMA EdgeEnforced ==
  ASSUME IInv, IsSafe, WellFormed, NEW e \in AllEdges, e[2] \in started
  PROVE  e[1] \in done
<1>1. e \in Indices \X Indices /\ e[1] < e[2]
  BY ForwardEdges
<1>2. MayStart(e[2])
  BY DEF IInv
<1>3. CASE e \in StreamEdges \cup WaitEdges
  BY <1>1, <1>2, <1>3 DEF StreamEdges, WaitEdges, IssueOf, MayStart, Indices
<1>4. CASE e \in DataEdges /\ ~IsAsync(ops[e[1]])
  BY <1>1, <1>4, HostEnforced
<1>5. CASE e \in DataEdges /\ IsAsync(ops[e[1]]) /\ IsSync(ops[e[2]])
  <2>1. HandleOf(ops[e[1]]) \in HandlesWaited(ops[e[2]])
    BY <1>1, <1>5 DEF DataEdges, Async, WellFormed, WaitsForWhatItTakes
  <2> QED
    BY <1>1, <1>2, <2>1 DEF MayStart, Indices
<1>6. CASE e \in DataEdges /\ IsAsync(ops[e[1]]) /\ ~IsSync(ops[e[2]])
  <2>1. HandleOf(ops[e[1]]) # NoHandle /\ e[1] \in Async
    BY <1>1, <1>6 DEF Async, WellFormed, AsyncHasHandle
  <2>2. Writes(ops[e[1]]) = {ops[e[1]].output}
    BY <2>1 DEF HandleOf, Writes, SubOps, AsyncComm
  <2>3. ops[e[1]].output \in Reads(ops[e[2]])
    BY <1>6, <2>2 DEF DataEdges
  <2>4. ~IsMissingWait(e[1], e[2])
    BY <1>1, NoReports
  <2>5. e[1] # e[2]
    BY <1>1 DEF Indices
  <2>6. WaitPrecedes(e[1], e[2])
    BY <1>6, <2>1, <2>3, <2>4, <2>5 DEF IsMissingWait
  <2> QED
    BY <1>1, <2>6, WaitEnforced
<1> QED
  BY <1>3, <1>4, <1>5, <1>6 DEF AllEdges

\* So is the source of a path: the operations that cannot have started before
\* it is done are closed under edges.
LEMMA PathEnforced ==
  ASSUME IInv, IsSafe, WellFormed,
         NEW a \in Indices, NEW b \in started, Path(a, b)
  PROVE  a \in done
<1> DEFINE S == {x \in Indices : x \in started => a \in done}
<1>1. ASSUME NEW e \in hb, e[1] \in {a} \cup S
      PROVE  e[2] \in S
  <2>1. e \in AllEdges /\ e[2] \in Indices
    BY SafeProgram, ForwardEdges
  <2>2. e[2] \in started => e[1] \in done /\ e[1] \in started
    BY <2>1, EdgeEnforced DEF IInv, TypeOK, RuntimeTypeOK
  <2> QED
    BY <1>1, <2>1, <2>2
<1>2. S \in SUBSET Indices
  OBVIOUS
<1>3. b \in S
  BY <1>1, <1>2 DEF Path
<1> QED
  BY <1>3

-----------------------------------------------------------------------------
\* A well-formed program that verify_temporal finds safe runs as if one operation
\* at a time: no operation starts while an earlier one that it conflicts with is
\* still in flight.
THEOREM Soundness == Spec => []InOrder
<1>1. IInv => InOrder
  <2> SUFFICES ASSUME IInv, WellFormed,
                      NEW i \in Indices, NEW j \in Indices, i < j,
                      ~IsSync(ops[i]), ~IsSync(ops[j]),
                      Conflict(ops[i], ops[j]), j \in started
               PROVE  i \in done
    BY DEF InOrder
  <2>1. IsSafe
    BY DEF IInv, TypeOK, RuntimeTypeOK
  <2>2. CASE ~IsAsync(ops[i])
    BY <2>2, HostEnforced
  <2>3. CASE SameStream(i, j)
    BY <2>3 DEF IInv, MayStart, Indices
  <2>4. CASE ~SameStream(i, j)
    <3>1. hb = AllEdges /\ ~Cyclic
      BY <2>1, SafeProgram, NoCycle
    <3>2. ~IsRace(i, j)
      BY <2>1, NoReports
    <3>3. ~Concurrent(i, j)
      BY <2>4, <3>2 DEF IsRace
    <3>4. Path(i, j) \/ Path(j, i)
      BY <3>1, <3>3 DEF Concurrent, ForcedBefore
    <3>5. Path(i, j)
      BY <3>1, <3>4, ForwardPath DEF Indices
    <3> QED
      BY <2>1, <3>5, PathEnforced
  <2> QED
    BY <2>2, <2>3, <2>4
<1> QED
  BY <1>1, Invariance, PTL

\* At the end of a well-formed program that verify_temporal finds safe every
\* asynchronous operation is done: each has a handle, and a wait comes after it.
THEOREM Quiescence == Spec => []NothingLeftInFlight
<1>1. IInv => NothingLeftInFlight
  <2> SUFFICES ASSUME IInv, WellFormed, IsSafe, issued = Len(ops), HostFree,
                      NEW a \in Async
               PROVE  a \in done
    BY DEF NothingLeftInFlight
  <2>1. a \in Indices /\ HandleOf(ops[a]) # NoHandle
    BY DEF Async, WellFormed, AsyncHasHandle
  <2>2. ~IsOrphan(a, a)
    BY <2>1, NoReports
  <2>3. PICK w \in Indices : HandleOf(ops[a]) \in HandlesWaited(ops[w])
    BY <2>1, <2>2 DEF IsOrphan
  <2>4. a < w /\ ~IsAsync(ops[w])
    BY <2>1, <2>3 DEF WellFormed, HandlesWellUsed, HandlesWaited, IsAsync, AsyncComm
  <2>5. w \in done
    BY <2>4 DEF IInv, HostFree, Indices, TypeOK, ProgramTypeOK
  <2> QED
    BY <2>1, <2>3, <2>4, <2>5 DEF IInv, TypeOK, RuntimeTypeOK, MayStart, Indices
<1> QED
  BY <1>1, Invariance, PTL
=============================================================================
