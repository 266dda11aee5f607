----------------------- MODULE PipelineSchedule_proofs -----------------------
(***************************************************************************)
(* The schedule of generate_simple is complete, free of repetitions and    *)
(* legal for every number of stages and of micro-batches.  The argument: an*)
(* iteration emits a task exactly when the loops pass the task's place     *)
(* (clock, stage, op), so the schedule is always the sorted list of the    *)
(* tasks that have been passed; all of them have been passed at the last   *)
(* clock; and what a task needs has an earlier place.                      *)
(*                                                                         *)
(* The activation tracker accepts the schedule of generate_simple for      *)
(* every size of the pipeline, and a stage never holds more than           *)
(* 2(num_stages - s) activations.                                          *)
(*                                                                         *)
(* Both follow from the order of the schedule: a forward pass has its      *)
(* place before the backward pass, and the clocks of the two are           *)
(* 2(num_stages - s) - 1 apart.                                            *)
(*                                                                         *)
(* The schedule of generate has nothing twice, every stage's forward passes*)
(* before its backward passes, and everything, unless there are at least   *)
(* two stages more than micro-batches.  Its three loops go by every task at*)
(* most once, at a place that has a closed form (Gone).                    *)
(***************************************************************************)
EXTENDS ActivationTracker, ScheduleFull, FiniteSetTheorems, TLAPS

\* The task that the next if of the loop body would emit.
Candidate == <<turn, stage, IF turn = "F" THEN FwdMb ELSE BwdMb>>

\* A step passes the candidate's place and no other.
LEMMA PassedNext ==
  ASSUME TypeOK, ~Generated, Next, NEW task \in Tasks
  PROVE  Passed(task)' <=> (Passed(task) \/ task = Candidate)
<1> USE DEF TypeOK, Tasks, Stages, Microbatches, Passed, ClockOf, Candidate, FwdMb, BwdMb
<1>1. CASE Forward
  BY <1>1 DEF Forward
<1>2. CASE Backward
  <2>1. PICK op \in {"F", "B"}, s \in Stages, mb \in Microbatches : task = <<op, s, mb>>
    OBVIOUS
  <2>2. turn = "B" /\ turn' = "F" /\ num_stages' = num_stages /\ NextIteration
    BY <1>2 DEF Backward
  <2>3. CASE stage + 1 < num_stages
    BY <2>1, <2>2, <2>3 DEF NextIteration
  <2>4. CASE ~(stage + 1 < num_stages)
    BY <2>1, <2>2, <2>4 DEF NextIteration
  <2> QED
    BY <2>3, <2>4
<1> QED
  BY <1>1, <1>2 DEF Next

\* A step appends the candidate if it is a task, and nothing otherwise.
LEMMA EmitNext ==
  ASSUME TypeOK, Next
  PROVE  /\ ~Generated
         /\ num_stages' = num_stages /\ num_microbatches' = num_microbatches
         /\ schedule' = IF Candidate \in Tasks THEN Append(schedule, Candidate) ELSE schedule
<1> USE DEF TypeOK, Candidate, EmitIf, Tasks
<1>1. CASE Forward
  BY <1>1 DEF Forward
<1>2. CASE Backward
  BY <1>2 DEF Backward
<1> QED
  BY <1>1, <1>2 DEF Next

\* Every iteration, and every step of the tracker, keeps the types.
LEMMA TypeOKNext ==
  ASSUME TypeOK, Next
  PROVE  TypeOK'
<1>1. schedule' \in Seq(Tasks) /\ Tasks' = Tasks
  <2>1. Tasks' = Tasks
    BY EmitNext DEF Tasks, Stages, Microbatches
  <2>2. schedule' \in Seq(Tasks)
    BY EmitNext DEF TypeOK
  <2> QED
    BY <2>1, <2>2
<1>2. CASE Forward
  BY <1>1, <1>2 DEF TypeOK, Forward, Stages
<1>3. CASE Backward
  BY <1>1, <1>3 DEF TypeOK, Backward, NextIteration, Stages
<1> QED
  BY <1>2, <1>3 DEF Next

\* The place of the candidate is that of the loops, so what they have passed is
\* earlier, and the candidate itself is not.
LEMMA PassedIsEarlier ==
  ASSUME TypeOK, Candidate \in Tasks
  PROVE  /\ ~Passed(Candidate)
         /\ \A task \in Tasks : Passed(task) <=> Earlier(task, Candidate)
BY DEF TypeOK, Tasks, Stages, Microbatches, Passed, Earlier, ClockOf, Candidate, FwdMb, BwdMb

\* One more task at the end of the schedule has been emitted.
LEMMA EmittedAppend ==
  ASSUME NEW S, schedule \in Seq(S), NEW task \in S, schedule' = Append(schedule, task)
  PROVE  Emitted' = Emitted \cup {task}
BY DEF Emitted

\* Every step preserves the inductive invariant.
LEMMA GenInvNext ==
  ASSUME GenInv, [Next]_genVars
  PROVE  GenInv'
<1> USE DEF GenInv
<1>1. CASE UNCHANGED genVars
  <2>1. UNCHANGED <<num_stages, num_microbatches, clock, stage, turn, schedule>>
    BY <1>1 DEF genVars
  <2>2. Tasks' = Tasks /\ Stages' = Stages /\ Emitted' = Emitted
    BY <2>1 DEF Stages, Microbatches, Tasks, Emitted
  <2>3. \A a, b : (Earlier(a, b)' <=> Earlier(a, b)) /\ (Passed(a)' <=> Passed(a))
    BY <2>1 DEF Earlier, ClockOf, Passed
  <2> QED
    BY <2>1, <2>2, <2>3 DEF TypeOK, Sorted, EmittedIsPassed
<1>2. CASE Next
  <2>1. /\ TypeOK' /\ ~Generated
        /\ num_stages' = num_stages
        /\ Tasks' = Tasks
    BY <1>2, TypeOKNext, EmitNext DEF Tasks, Stages, Microbatches
  <2>2. \A a, b : Earlier(a, b)' <=> Earlier(a, b)
    BY <2>1 DEF Earlier, ClockOf
  <2>3. CASE Candidate \in Tasks
    <3>1. schedule' = Append(schedule, Candidate) /\ schedule \in Seq(Tasks)
      BY <1>2, <2>3, EmitNext DEF TypeOK
    <3>2. Emitted' = Emitted \cup {Candidate}
      BY <2>3, <3>1, EmittedAppend
    <3>3. EmittedIsPassed'
      BY <1>2, <2>1, <3>2, PassedNext DEF EmittedIsPassed
    <3>4. \A i \in 1 .. Len(schedule) : Earlier(schedule[i], Candidate)
      BY <2>3, <3>1, PassedIsEarlier DEF EmittedIsPassed, Emitted
    <3>5. Sorted'
      BY <2>2, <3>1, <3>4 DEF Sorted
    <3> QED
      BY <2>1, <3>3, <3>5
  <2>4. CASE Candidate \notin Tasks
    <3>1. schedule' = schedule /\ Emitted' = Emitted
      BY <1>2, <2>4, EmitNext DEF Emitted
    <3>2. EmittedIsPassed'
      BY <1>2, <2>1, <2>4, <3>1, PassedNext DEF EmittedIsPassed
    <3>3. Sorted'
      BY <2>2, <3>1 DEF Sorted
    <3> QED
      BY <2>1, <3>2, <3>3
  <2> QED
    BY <2>3, <2>4
<1> QED
  BY <1>1, <1>2

\* Before the first iteration nothing has been emitted or passed.
LEMMA GenInvInit ==
  ASSUME Init
  PROVE  GenInv
<1>1. TypeOK /\ Sorted /\ Emitted = {}
  BY CountsAssumption DEF Init, Empty, TypeOK, Sorted, Emitted, Stages, Tasks
<1>2. \A task \in Tasks : ~Passed(task)
  BY CountsAssumption DEF Init, Empty, Tasks, Stages, Microbatches, Passed, ClockOf
<1> QED
  BY <1>1, <1>2 DEF GenInv, EmittedIsPassed

\* The schedule is at any time the sorted list of the tasks whose place the loops
\* have passed.
THEOREM GeneratorInvariant == Spec => []GenInv
BY GenInvInit, GenInvNext, PTL DEF Spec

-----------------------------------------------------------------------------
\* When all places have been passed, every task has been emitted.
LEMMA FullFromInv ==
  ASSUME GenInv
  PROVE  FullSchedule
<1> SUFFICES ASSUME Generated PROVE Emitted = Tasks /\ \A i, j \in 1 .. Len(schedule) :
                                                     schedule[i] = schedule[j] => i = j
  BY DEF FullSchedule, NothingTwice
<1>1. \A task \in Tasks : Passed(task)
  BY DEF GenInv, TypeOK, Generated, TotalClocks, Tasks, Stages, Microbatches, Passed, ClockOf
<1>2. Emitted \subseteq Tasks
  BY DEF GenInv, TypeOK, Emitted
<1>3. \A task \in Tasks : ~Earlier(task, task)
  BY DEF GenInv, TypeOK, Earlier, ClockOf, Tasks, Stages, Microbatches
<1>4. ASSUME NEW i \in 1 .. Len(schedule), NEW j \in 1 .. Len(schedule),
             schedule[i] = schedule[j]
      PROVE  i = j
  <2>1. ~(i < j) /\ ~(j < i)
    BY <1>3, <1>4 DEF GenInv, Sorted, TypeOK
  <2> QED
    BY <2>1 DEF GenInv, TypeOK
<1> QED
  BY <1>1, <1>2, <1>4 DEF GenInv, EmittedIsPassed

\* Whatever the numbers of stages and micro-batches, the clock bound of the
\* generator suffices for every pass, and no pass is scheduled twice.
THEOREM Complete == Spec => []FullSchedule
BY GeneratorInvariant, FullFromInv, PTL

\* What a task needs is a task at an earlier place.
LEMMA NeedsAreEarlier ==
  ASSUME TypeOK, NEW task \in Tasks, NEW need \in Pipeline!Needs(task)
  PROVE  need \in Tasks /\ Earlier(need, task)
BY DEF TypeOK, Pipeline!Needs, Pipeline!Tasks, Pipeline!Ops, Pipeline!Stages,
   Pipeline!Microbatches, Tasks, Stages, Microbatches, Earlier, ClockOf

\* Read in order, the schedule is an execution of the pipeline in which every
\* pass comes after the passes it needs, for every size of the pipeline.
THEOREM Refinement == Spec => ImplementsPipeline
<1>1. Init => Pipeline!Init
  BY CountsAssumption DEF Init, Empty, Pipeline!Init, Emitted
<1>2. GenInv /\ [Next]_genVars => [Pipeline!Next]_Pipeline!taskVars
  <2> SUFFICES ASSUME GenInv, [Next]_genVars PROVE [Pipeline!Next]_Pipeline!taskVars
    OBVIOUS
  <2>1. CASE UNCHANGED genVars
    BY <2>1 DEF genVars, Pipeline!taskVars, Emitted
  <2>2. CASE Next /\ Candidate \notin Tasks
    BY <2>2, EmitNext DEF GenInv, Pipeline!taskVars, Emitted
  <2>3. CASE Next /\ Candidate \in Tasks
    <3>1. schedule' = Append(schedule, Candidate) /\ schedule \in Seq(Tasks)
          /\ num_stages' = num_stages /\ num_microbatches' = num_microbatches
      BY <2>3, EmitNext DEF GenInv, TypeOK
    <3>2. Emitted' = Emitted \cup {Candidate}
      BY <2>3, <3>1, EmittedAppend
    <3>3. ~Passed(Candidate) /\ Candidate \notin Emitted
      BY <2>3, PassedIsEarlier DEF GenInv, EmittedIsPassed
    <3>4. Pipeline!Needs(Candidate) \subseteq Emitted
      BY <2>3, NeedsAreEarlier, PassedIsEarlier DEF GenInv, EmittedIsPassed
    <3>5. Candidate \in Pipeline!Tasks
      BY <2>3 DEF Tasks, Stages, Microbatches, Pipeline!Tasks, Pipeline!Ops,
         Pipeline!Stages, Pipeline!Microbatches
    <3>6. Pipeline!Run(Candidate)
      BY <3>1, <3>2, <3>3, <3>4 DEF Pipeline!Run
    <3> QED
      BY <3>5, <3>6 DEF Pipeline!Next
  <2> QED
    BY <2>1, <2>2, <2>3
<1> QED
  BY <1>1, <1>2, GeneratorInvariant, PTL DEF Spec, ImplementsPipeline, Pipeline!Spec

-----------------------------------------------------------------------------
\* The entry that the tracker reads next is a task of a stage and a micro-batch.
LEMMA EntryType ==
  ASSUME TrackerInv, position < Len(schedule)
  PROVE  /\ position + 1 \in 1 .. Len(schedule)
         /\ schedule[position + 1] \in Tasks
         /\ EntryStage \in Stages /\ EntryMb \in Microbatches
         /\ schedule[position + 1] = <<schedule[position + 1][1], EntryStage, EntryMb>>
<1>1. position + 1 \in 1 .. Len(schedule) /\ schedule[position + 1] \in Tasks
  BY DEF TrackerInv, GenInv, TypeOK
<1> QED
  BY <1>1 DEF Tasks, EntryStage, EntryMb

\* Handling an entry adds its micro-batch to what is handled of its op and stage.
LEMMA HandledNext ==
  ASSUME TrackerInv, NEW op \in {"F", "B"}, NEW other \in {"F", "B"}, Walks(op),
         NEW s \in Stages
  PROVE  Handled(other, s)' = IF other = op /\ s = EntryStage
                              THEN Handled(other, s) \cup {EntryMb}
                              ELSE Handled(other, s)
<1>1. position' = position + 1 /\ position < Len(schedule) /\ position \in Nat
      /\ schedule' = schedule /\ num_microbatches' = num_microbatches
      /\ schedule[position + 1][1] = op
  BY DEF Walks, TrackerInv, genVars
<1>2. schedule[position + 1] = <<op, EntryStage, EntryMb>> /\ EntryMb \in Microbatches
  BY <1>1, EntryType
<1>3. 1 .. (position + 1) = (1 .. position) \cup {position + 1}
  BY <1>1
<1>4. Handled(other, s)' =
        {mb \in Microbatches :
           \E i \in (1 .. position) \cup {position + 1} : schedule[i] = <<other, s, mb>>}
  BY <1>1, <1>3 DEF Handled, Microbatches
<1>5. Handled(other, s)' =
        Handled(other, s) \cup {mb \in Microbatches : schedule[position + 1] = <<other, s, mb>>}
  BY <1>4 DEF Handled
<1>6. CASE other = op /\ s = EntryStage
  BY <1>2, <1>5, <1>6
<1>7. CASE ~(other = op /\ s = EntryStage)
  BY <1>2, <1>5, <1>7
<1> QED
  BY <1>6, <1>7

\* Every step of the generator and of the walk preserves the inductive invariant.
THEOREM TrackerInvariance == TrackerSpec => []TrackerInv
<1>1. TrackerInit => TrackerInv
  <2> SUFFICES ASSUME TrackerInit PROVE TrackerInv
    OBVIOUS
  <2>1. GenInv /\ schedule = << >> /\ position = 0
    BY GenInvInit DEF TrackerInit, Init, Empty
  <2>2. \A op, s : Handled(op, s) = {}
    BY <2>1 DEF Handled
  <2> QED
    BY <2>1, <2>2 DEF TrackerInit, TrackerInv
<1>2. TrackerInv /\ [TrackerNext]_vars => TrackerInv'
  <2> SUFFICES ASSUME TrackerInv, [TrackerNext]_vars PROVE TrackerInv'
    OBVIOUS
  <2>1. CASE Generate
    <3>1. Next /\ UNCHANGED <<position, saved, released, errors>> /\ ~Generated /\ GenInv'
      BY <2>1, EmitNext, GenInvNext DEF Generate, walkVars, TrackerInv, GenInv
    <3>2. position = 0 /\ position' = 0 /\ Stages' = Stages /\ Tasks' = Tasks
      BY <3>1, EmitNext DEF TrackerInv, GenInv, Stages, Tasks, Microbatches
    <3>3. \A op, s : Handled(op, s) = {} /\ Handled(op, s)' = {}
      BY <3>2 DEF Handled
    <3>4. position' \in 0 .. Len(schedule')
      BY <3>1, <3>2 DEF GenInv, TypeOK
    <3> QED
      BY <3>1, <3>2, <3>3, <3>4 DEF TrackerInv
  <2>2. ASSUME NEW op \in {"F", "B"}, Walks(op) PROVE
          /\ GenInv' /\ position' \in 0 .. Len(schedule') /\ Generated'
          /\ Stages' = Stages /\ Tasks' = Tasks
    <3>1. UNCHANGED genVars /\ position' = position + 1 /\ position < Len(schedule) /\ Generated
      BY <2>2 DEF Walks
    <3>2. schedule' = schedule /\ Stages' = Stages /\ Tasks' = Tasks /\ Generated'
      BY <3>1 DEF genVars, Stages, Tasks, Microbatches, Generated, TotalClocks
    <3>3. GenInv'
      BY <3>1, GenInvNext DEF TrackerInv
    <3> QED
      BY <3>1, <3>2, <3>3, EntryType DEF TrackerInv
  <2>3. CASE WalkForward
    <3>1. Walks("F") /\ released' = released /\ errors' = errors
          /\ saved' = [saved EXCEPT ![EntryStage] = @ \cup {EntryMb}]
      BY <2>3 DEF WalkForward
    <3>2. /\ saved' = [s \in Stages |-> Handled("F", s)']
          /\ released' = [s \in Stages |-> Handled("B", s)']
      BY <3>1, HandledNext DEF TrackerInv
    <3> QED
      BY <2>2, <3>1, <3>2 DEF TrackerInv
  <2>4. CASE WalkBackward
    <3>1. Walks("B") /\ saved' = saved /\ errors' = errors \cup BackwardErrors
          /\ released' = [released EXCEPT ![EntryStage] = @ \cup {EntryMb}]
      BY <2>4 DEF WalkBackward
    <3>2. /\ saved' = [s \in Stages |-> Handled("F", s)']
          /\ released' = [s \in Stages |-> Handled("B", s)']
      BY <3>1, HandledNext DEF TrackerInv
    <3>3. BackwardErrors \subseteq {"not_saved", "released"} \X Tasks
      BY <3>1, EntryType DEF BackwardErrors, Walks
    <3> QED
      BY <2>2, <3>1, <3>2, <3>3 DEF TrackerInv
  <2>5. CASE UNCHANGED vars
    <3>1. UNCHANGED genVars /\ UNCHANGED <<position, saved, released, errors>>
      BY <2>5 DEF vars, walkVars
    <3>2. schedule' = schedule /\ Stages' = Stages /\ Tasks' = Tasks /\ Generated' = Generated
          /\ \A op, s : Handled(op, s)' = Handled(op, s)
      BY <3>1 DEF genVars, Stages, Tasks, Microbatches, Generated, TotalClocks, Handled
    <3>3. GenInv'
      BY <3>1, GenInvNext DEF TrackerInv
    <3> QED
      BY <3>1, <3>2, <3>3 DEF TrackerInv
  <2> QED
    BY <2>1, <2>3, <2>4, <2>5 DEF TrackerNext
<1> QED
  BY <1>1, <1>2, PTL DEF TrackerSpec

-----------------------------------------------------------------------------
\* Earlier is a strict order by clock, stage and op.
LEMMA StrictOrder ==
  ASSUME TypeOK, NEW a \in Tasks, NEW b \in Tasks
  PROVE  /\ ClockOf(a) \in Int
         /\ Earlier(a, b) => a # b /\ ~Earlier(b, a)
         /\ Earlier(a, b) => ClockOf(a) <= ClockOf(b)
<1>1. ClockOf(a) \in Int /\ ClockOf(b) \in Int /\ a[2] \in Int /\ b[2] \in Int
  BY DEF TypeOK, ClockOf, Tasks, Stages, Microbatches
<1>2. Earlier(a, b) => ~Earlier(b, a)
  BY <1>1 DEF Earlier
<1>3. Earlier(a, b) => ClockOf(a) <= ClockOf(b)
  BY <1>1 DEF Earlier
<1> QED
  BY <1>1, <1>2, <1>3

\* Of two entries, the one with the earlier place comes first in the schedule.
LEMMA PlaceOrder ==
  ASSUME GenInv, NEW i \in 1 .. Len(schedule), NEW j \in 1 .. Len(schedule),
         Earlier(schedule[i], schedule[j])
  PROVE  i < j
<1>1. schedule[i] \in Tasks /\ schedule[j] \in Tasks /\ Len(schedule) \in Nat
  BY DEF GenInv, TypeOK
<1>2. schedule[i] # schedule[j] /\ ~Earlier(schedule[j], schedule[i])
  BY <1>1, StrictOrder DEF GenInv
<1> QED
  BY <1>1, <1>2 DEF GenInv, Sorted

\* A backward entry that the walk reaches finds its activation saved by an
\* earlier forward entry and not yet released.
LEMMA BackwardFindsActivation ==
  ASSUME TrackerInv, Walks("B")
  PROVE  EntryMb \in saved[EntryStage] /\ EntryMb \notin released[EntryStage]
<1> DEFINE fwd == <<"F", EntryStage, EntryMb>>
           bwd == <<"B", EntryStage, EntryMb>>
<1>1. /\ position + 1 \in 1 .. Len(schedule) /\ position \in Nat
      /\ schedule[position + 1] = bwd
      /\ EntryStage \in Stages /\ EntryMb \in Microbatches
  BY EntryType DEF Walks, TrackerInv
<1>2. FullSchedule /\ Generated
  BY FullFromInv DEF TrackerInv, Walks
<1>3. PICK i \in 1 .. Len(schedule) : schedule[i] = fwd
  <2>1. fwd \in Tasks
    BY <1>1 DEF Tasks
  <2> QED
    BY <1>2, <2>1 DEF FullSchedule, Emitted
<1>4. Earlier(fwd, bwd)
  BY <1>1 DEF TrackerInv, GenInv, TypeOK, Earlier, ClockOf, Stages, Microbatches
<1>5. i < position + 1
  BY <1>1, <1>3, <1>4, PlaceOrder DEF TrackerInv
<1>6. EntryMb \in saved[EntryStage]
  BY <1>1, <1>3, <1>5 DEF TrackerInv, Handled
<1>7. \A k \in 1 .. position : schedule[k] # bwd
  BY <1>1, <1>2 DEF FullSchedule, NothingTwice
<1> QED
  BY <1>1, <1>6, <1>7 DEF TrackerInv, Handled

\* verify_activation_liveness reports no error for the schedule of generate_simple,
\* whatever the numbers of stages and micro-batches.
THEOREM Accepted == TrackerSpec => []ActivationsLive
<1>1. TrackerInit => ActivationsLive
  BY DEF TrackerInit, ActivationsLive
<1>2. TrackerInv /\ ActivationsLive /\ [TrackerNext]_vars => ActivationsLive'
  <2> SUFFICES ASSUME TrackerInv, errors = {}, [TrackerNext]_vars PROVE errors' = {}
    BY DEF ActivationsLive
  <2>1. CASE WalkBackward
    BY <2>1, BackwardFindsActivation DEF WalkBackward, BackwardErrors
  <2> QED
    BY <2>1 DEF TrackerNext, Generate, WalkForward, vars, walkVars
<1> QED
  BY <1>1, <1>2, TrackerInvariance, PTL DEF TrackerSpec

\* What stage s holds when the walk has come to an entry at clock c are
\* micro-batches whose forward pass has a clock up to c and whose backward pass has
\* one from c on.
LEMMA HeldIsInWindow ==
  ASSUME TrackerInv, position > 0, NEW s \in Stages, NEW mb \in saved[s] \ released[s]
  PROVE  LET c == ClockOf(schedule[position])
         IN  c \in Int /\ mb \in (c - 2 * num_stages + 1 + s) .. (c - s)
<1> DEFINE fwd == <<"F", s, mb>>
           bwd == <<"B", s, mb>>
           last == schedule[position]
<1>1. /\ position \in 1 .. Len(schedule) /\ last \in Tasks
      /\ mb \in Microbatches /\ fwd \in Tasks /\ bwd \in Tasks
  BY DEF TrackerInv, GenInv, TypeOK, Handled, Tasks
<1>2. PICK i \in 1 .. position : schedule[i] = fwd
  BY DEF TrackerInv, Handled
<1>3. fwd = last \/ Earlier(fwd, last)
  BY <1>1, <1>2 DEF TrackerInv, GenInv, Sorted
<1>4. Earlier(last, bwd)
  <2>1. PICK j \in 1 .. Len(schedule) : schedule[j] = bwd
    <3>1. Generated
      BY <1>1 DEF TrackerInv
    <3> QED
      BY <1>1, <3>1, FullFromInv DEF TrackerInv, FullSchedule, Emitted
  <2>2. j > position
    BY <1>1, <2>1 DEF TrackerInv, Handled
  <2> QED
    BY <1>1, <2>1, <2>2 DEF TrackerInv, GenInv, Sorted
<1> HIDE DEF last
<1>5. ClockOf(last) \in Int /\ ClockOf(fwd) <= ClockOf(last) /\ ClockOf(last) <= ClockOf(bwd)
  BY <1>1, <1>3, <1>4, StrictOrder DEF TrackerInv, GenInv
<1> QED
  BY <1>1, <1>5 DEF ClockOf, TrackerInv, GenInv, TypeOK, Stages, Microbatches, last

\* No stage s ever holds more than 2(num_stages - s) activations, whatever the
\* number of micro-batches.
THEOREM Window == TrackerSpec => []ActivationWindow
<1>1. TrackerInv => ActivationWindow
  <2> SUFFICES ASSUME TrackerInv, NEW s \in Stages
               PROVE  Cardinality(saved[s] \ released[s]) <= 2 * (num_stages - s)
    BY DEF ActivationWindow
  <2>1. num_stages \in Nat /\ s \in Int /\ s < num_stages /\ position \in Nat
    BY DEF TrackerInv, GenInv, TypeOK, Stages
  <2>2. CASE position = 0
    <3>1. saved[s] = {}
      BY <2>2 DEF TrackerInv, Handled
    <3>2. Cardinality(saved[s] \ released[s]) = 0
      BY <3>1, FS_EmptySet
    <3> QED
      BY <2>1, <3>2
  <2>3. CASE position > 0
    <3> DEFINE c == ClockOf(schedule[position])
               lo == c - 2 * num_stages + 1 + s
    <3>1. CASE saved[s] \ released[s] = {}
      <4>1. Cardinality(saved[s] \ released[s]) = 0
        BY <3>1, FS_EmptySet
      <4> QED
        BY <2>1, <4>1
    <3>2. CASE saved[s] \ released[s] # {}
      <4>1. c \in Int /\ saved[s] \ released[s] \subseteq lo .. (c - s)
        BY <2>3, <3>2, HeldIsInWindow
      <4> HIDE DEF c
      <4>2. IsFiniteSet(lo .. (c - s)) /\ Cardinality(lo .. (c - s)) = 2 * (num_stages - s)
        <5>1. lo \in Int /\ c - s \in Int /\ lo <= c - s
          BY <2>1, <4>1
        <5> QED
          BY <2>1, <4>1, <5>1, FS_Interval
      <4> QED
        BY <4>1, <4>2, FS_Subset
    <3> QED
      BY <3>1, <3>2
  <2> QED
    BY <2>1, <2>2, <2>3
<1> QED
  BY <1>1, TrackerInvariance, PTL

-----------------------------------------------------------------------------
(***************************************************************************)
(* generate.                                                               *)
(***************************************************************************)
\* The warmup counts and the clocks of the steady loop in closed form.
Least(a, b) == IF a <= b THEN a ELSE b

CountsClosed == /\ \A s \in Stages : WarmupCount(s) = Least(num_microbatches, num_stages - s)
                /\ SteadyClocks = num_microbatches + Least(num_microbatches, num_stages)

\* A forward pass of the warmup, and the clock of a pass in the steady loop.
InWarmup(task) == task[3] < Least(num_microbatches, num_stages - task[2])
ClockIn(task)  == IF task[1] = "F" THEN task[3] + task[2] ELSE task[3] + num_stages + task[2]
Clocks         == num_microbatches + Least(num_microbatches, num_stages)

\* The loop that is running has gone by the iteration (o, i).
By(o, i) == o < outer \/ (o = outer /\ i < inner)

\* The loops have gone by the iteration that emits the task.
Gone(task) ==
  IF task[1] = "F" /\ InWarmup(task)
  THEN phase # "warmup" \/ By(ClockIn(task), task[2])
  ELSE \/ phase = "steady" /\ By(ClockIn(task), task[2])
       \/ phase \in {"cooldown", "done"} /\ ClockIn(task) < Clocks
       \/ task[1] = "B" /\ phase = "cooldown" /\ By(task[2], task[3])
       \/ task[1] = "B" /\ phase = "done"

LoopsOK ==
  /\ num_stages \in Nat \ {0}
  /\ num_microbatches \in Nat
  /\ phase \in {"warmup", "steady", "cooldown", "done"}
  /\ outer \in Nat /\ inner \in Nat
  /\ phase = "warmup" => outer < num_stages /\ inner <= outer
  /\ phase = "steady" => inner < num_stages /\ outer < IF Clocks = 0 THEN 1 ELSE Clocks
  /\ phase = "cooldown" =>
       outer < num_stages /\ inner < IF num_microbatches = 0 THEN 1 ELSE num_microbatches

FullTypeOK == LoopsOK /\ schedule \in Seq(Tasks)

EmittedIsGone == \A task \in Tasks : task \in Emitted <=> Gone(task)

FullInv == FullTypeOK /\ NothingTwice /\ EmittedIsGone /\ ForwardFirst

-----------------------------------------------------------------------------
\* Stage s gets its first num_stages - s forward passes in the warmup, or all of
\* them if there are fewer.
LEMMA Counts ==
  ASSUME num_stages \in Nat \ {0}, num_microbatches \in Nat
  PROVE  CountsClosed
<1> USE DEF Least
<1>1. ASSUME NEW s \in Stages
      PROVE  WarmupCount(s) = Least(num_microbatches, num_stages - s)
  <2> DEFINE S == {mb \in Microbatches : \E step \in Stages : mb = step - s}
             n == Least(num_microbatches, num_stages - s)
  <2>1. n \in Nat
    BY DEF Stages
  <2>2. ASSUME NEW mb \in 0 .. (n - 1) PROVE mb \in S
    <3>1. mb + s \in Stages /\ mb = (mb + s) - s /\ mb \in Microbatches
      BY <2>1 DEF Stages, Microbatches
    <3> QED BY <3>1
  <2>3. ASSUME NEW mb \in S PROVE mb \in 0 .. (n - 1)
    BY DEF Stages, Microbatches
  <2>4. S = 0 .. (n - 1)
    BY <2>2, <2>3
  <2>5. Cardinality(0 .. (n - 1)) = n
    <3> HIDE DEF n
    <3>1. n - 1 \in Int /\ 0 \in Int
      BY <2>1
    <3>2. Cardinality(0 .. (n - 1)) = IF 0 > n - 1 THEN 0 ELSE (n - 1) - 0 + 1
      BY <3>1, FS_Interval
    <3> QED BY <2>1, <3>2
  <2> QED BY <2>4, <2>5 DEF WarmupCount
<1>2. SteadyClocks = num_microbatches + Least(num_microbatches, num_stages)
  <2> DEFINE C == {WarmupCount(s) + num_microbatches : s \in Stages}
             c == num_microbatches + Least(num_microbatches, num_stages)
  <2>1. \A s \in Stages : WarmupCount(s) + num_microbatches <= c
    BY <1>1 DEF Stages
  <2>2. c \in C
    <3>1. 0 \in Stages /\ num_stages - 0 = num_stages
      BY DEF Stages
    <3>2. WarmupCount(0) + num_microbatches = c
      BY <1>1, <3>1
    <3> QED BY <3>1, <3>2
  <2>3. \A x \in C : x <= c /\ x \in Int
    BY <1>1, <2>1 DEF Stages
  <2>4. ASSUME NEW x \in C, \A y \in C : x >= y PROVE x = c
    <3>1. x >= c
      BY <2>2, <2>4
    <3>2. x <= c /\ x \in Int /\ c \in Int
      BY <2>2, <2>3, <2>4
    <3> HIDE DEF c
    <3> QED BY <3>1, <3>2
  <2>5. \A y \in C : c >= y
    BY <2>3
  <2> QED BY <2>2, <2>4, <2>5 DEF SteadyClocks, Max
<1> QED BY <1>1, <1>2 DEF CountsClosed

\* x is << >> or <<a>>, and e appends x and y.
MayBe(x, a) == x = << >> \/ x = <<a>>

Appends(e, x, a, y, b) ==
  /\ \A i \in 1 .. Len(e) : (x = <<a>> /\ e[i] = a) \/ (y = <<b>> /\ e[i] = b)
  /\ x = <<a>> => \E i \in 1 .. Len(e) : e[i] = a
  /\ y = <<b>> => \E i \in 1 .. Len(e) : e[i] = b
  /\ \A i, j \in 1 .. Len(e) : e[i] = e[j] => i = j

\* Up to two entries, one after the other.
LEMMA TwoEntries ==
  ASSUME NEW T, NEW a, NEW b, a # b, NEW x, MayBe(x, a), x = <<a>> => a \in T,
         NEW y, MayBe(y, b), y = <<b>> => b \in T
  PROVE  x \o y \in Seq(T) /\ Appends(x \o y, x, a, y, b)
<1>0. PICK e : e = x \o y
  OBVIOUS
<1> SUFFICES e \in Seq(T) /\ Appends(e, x, a, y, b)
  BY <1>0
<1> USE <1>0 DEF MayBe, Appends
<1>1. CASE x = <<a>> /\ y = <<b>>
  <2>1. a \in T /\ b \in T
    BY <1>1
  <2>2. <<a>> \in Seq(T) /\ <<b>> \in Seq(T) /\ Len(<<a>>) = 1 /\ Len(<<b>>) = 1
    BY <2>1
  <2>3. e \in Seq(T) /\ Len(e) = 2
    BY <1>1, <2>2
  <2>4. e[1] = a /\ e[2] = b
    BY <1>1, <2>2
  <2>5. \A i \in 1 .. Len(e) : i = 1 \/ i = 2
    BY <2>3
  <2>6. 1 \in 1 .. Len(e) /\ 2 \in 1 .. Len(e)
    BY <2>3
  <2>7. \A i, j \in 1 .. Len(e) : e[i] = e[j] => i = j
    BY <2>4, <2>5
  <2>8. \A i \in 1 .. Len(e) : e[i] = a \/ e[i] = b
    BY <2>4, <2>5
  <2> QED BY <1>1, <2>3, <2>4, <2>6, <2>7, <2>8
<1>2. CASE x = <<a>> /\ y = << >>
  <2>1. e = <<a>> /\ a \in T
    BY <1>2
  <2>2. e \in Seq(T) /\ Len(e) = 1 /\ e[1] = a
    BY <2>1
  <2> QED BY <1>2, <2>2
<1>3. CASE x = << >> /\ y = <<b>>
  <2>1. e = <<b>> /\ b \in T
    BY <1>3
  <2>2. e \in Seq(T) /\ Len(e) = 1 /\ e[1] = b
    BY <2>1
  <2> QED BY <1>3, <2>2
<1>4. CASE x = << >> /\ y = << >>
  <2>1. e = << >>
    BY <1>4
  <2> QED BY <1>4, <2>1
<1> QED BY <1>1, <1>2, <1>3, <1>4

\* Entries that the loops have not gone by before, and of which the forward
\* passes are not behind their backward passes.
LEMMA Appended ==
  ASSUME FullInv, NEW e \in Seq(Tasks), schedule' = schedule \o e,
         num_stages' = num_stages, num_microbatches' = num_microbatches,
         \A i \in 1 .. Len(e) : ~Gone(e[i]),
         \A i, j \in 1 .. Len(e) : e[i] = e[j] => i = j,
         \A i \in 1 .. Len(e) : e[i][1] = "F" =>
           /\ ~Gone(<<"B", e[i][2], e[i][3]>>)
           /\ \A j \in 1 .. Len(e) : e[j] # <<"B", e[i][2], e[i][3]>>
  PROVE  /\ schedule' \in Seq(Tasks)'
         /\ NothingTwice' /\ ForwardFirst'
         /\ \A t \in Tasks : t \in Emitted' <=> t \in Emitted \/ \E i \in 1 .. Len(e) : e[i] = t
<1> DEFINE N == Len(schedule)
           L == Len(e)
<1>1. /\ schedule \in Seq(Tasks) /\ N \in Nat /\ L \in Nat /\ Tasks' = Tasks
      /\ NothingTwice /\ EmittedIsGone /\ ForwardFirst
  BY DEF FullInv, FullTypeOK, LoopsOK, Tasks, Stages, Microbatches
<1>2. /\ schedule' \in Seq(Tasks) /\ Len(schedule') = N + L
      /\ \A i \in 1 .. N : schedule'[i] = schedule[i] /\ schedule[i] \in Tasks
      /\ \A i \in 1 .. L : schedule'[N + i] = e[i] /\ e[i] \in Tasks
  BY <1>1
<1>3. \A i \in 1 .. N : Gone(schedule[i])
  <2> SUFFICES ASSUME NEW i \in 1 .. N PROVE Gone(schedule[i])
    OBVIOUS
  <2>1. schedule[i] \in Tasks /\ schedule[i] \in Emitted
    BY <1>2 DEF Emitted
  <2> QED BY <1>1, <2>1 DEF EmittedIsGone
<1>4. \A i \in 1 .. (N + L) : i \in 1 .. N \/ \E k \in 1 .. L : i = N + k
  <2> SUFFICES ASSUME NEW i \in 1 .. (N + L), i \notin 1 .. N PROVE \E k \in 1 .. L : i = N + k
    OBVIOUS
  <2>1. i - N \in 1 .. L /\ i = N + (i - N)
    BY <1>1
  <2> QED BY <2>1
<1>5. NothingTwice'
  <2> SUFFICES ASSUME NEW i \in 1 .. (N + L), NEW j \in 1 .. (N + L), schedule'[i] = schedule'[j]
               PROVE  i = j
    BY <1>2 DEF NothingTwice
  <2>1. CASE i \in 1 .. N /\ j \in 1 .. N
    BY <1>1, <1>2, <2>1 DEF NothingTwice
  <2>2. CASE i \in 1 .. N /\ j \notin 1 .. N
    <3>1. PICK k \in 1 .. L : j = N + k
      BY <1>4, <2>2
    <3>2. schedule[i] = e[k]
      BY <1>2, <2>2, <3>1
    <3> QED BY <1>3, <2>2, <3>2
  <2>3. CASE i \notin 1 .. N /\ j \in 1 .. N
    <3>1. PICK k \in 1 .. L : i = N + k
      BY <1>4, <2>3
    <3>2. schedule[j] = e[k]
      BY <1>2, <2>3, <3>1
    <3> QED BY <1>3, <2>3, <3>2
  <2>4. CASE i \notin 1 .. N /\ j \notin 1 .. N
    <3>1. PICK k \in 1 .. L, q \in 1 .. L : i = N + k /\ j = N + q
      BY <1>4, <2>4
    <3>2. e[k] = e[q]
      BY <1>2, <3>1
    <3> QED BY <3>1, <3>2
  <2> QED BY <2>1, <2>2, <2>3, <2>4
<1>6. ForwardFirst'
  <2> SUFFICES ASSUME NEW i \in 1 .. (N + L), NEW j \in 1 .. (N + L), schedule'[i][1] = "B",
                      schedule'[j] = <<"F", schedule'[i][2], schedule'[i][3]>>
               PROVE  j < i
    BY <1>2 DEF ForwardFirst
  <2>1. CASE i \in 1 .. N /\ j \in 1 .. N
    BY <1>1, <1>2, <2>1 DEF ForwardFirst
  <2>2. CASE i \notin 1 .. N /\ j \in 1 .. N
    BY <2>2, <1>1
  <2>3. CASE j \notin 1 .. N
    <3>1. PICK k \in 1 .. L : j = N + k
      BY <1>4, <2>3
    <3> e[k] = schedule'[j]
      BY <1>2, <3>1
    <3>2. schedule'[i] \in Tasks
      BY <1>2, <1>4
    <3>3. schedule'[i] = <<"B", e[k][2], e[k][3]>> /\ e[k][1] = "F"
      BY <3>1, <3>2 DEF Tasks
    <3>4. CASE i \in 1 .. N
      <4>1. Gone(schedule'[i])
        BY <1>2, <1>3, <3>4, Zenon
      <4>2. Gone(<<"B", e[k][2], e[k][3]>>)
        BY <3>3, <4>1, Zenon
      <4> QED BY <3>3, <4>2
    <3>5. CASE i \notin 1 .. N
      <4>1. PICK q \in 1 .. L : i = N + q
        BY <1>4, <3>5
      <4>2. e[q] = <<"B", e[k][2], e[k][3]>>
        BY <1>2, <3>3, <4>1
      <4> QED BY <3>3, <4>2
    <3> QED BY <3>4, <3>5
  <2> QED BY <2>1, <2>2, <2>3
<1>7. ASSUME NEW t \in Tasks
      PROVE  t \in Emitted' <=> t \in Emitted \/ \E i \in 1 .. L : e[i] = t
  <2>1. t \in Emitted' <=> \E i \in 1 .. (N + L) : schedule'[i] = t
    BY <1>2 DEF Emitted
  <2>2. t \in Emitted <=> \E i \in 1 .. N : schedule[i] = t
    BY DEF Emitted
  <2>3. ASSUME NEW i \in 1 .. (N + L), schedule'[i] = t
        PROVE  t \in Emitted \/ \E k \in 1 .. L : e[k] = t
    BY <1>2, <1>4, <2>2, <2>3
  <2>4. ASSUME NEW i \in 1 .. N, schedule[i] = t PROVE \E k \in 1 .. (N + L) : schedule'[k] = t
    <3>1. i \in 1 .. (N + L) /\ schedule'[i] = t
      BY <1>1, <1>2, <2>4
    <3> QED BY <3>1
  <2>5. ASSUME NEW i \in 1 .. L, e[i] = t PROVE \E k \in 1 .. (N + L) : schedule'[k] = t
    <3>1. N + i \in 1 .. (N + L) /\ schedule'[N + i] = t
      BY <1>1, <1>2, <2>5
    <3> QED BY <3>1
  <2> QED BY <2>1, <2>2, <2>3, <2>4, <2>5
<1> QED BY <1>1, <1>2, <1>5, <1>6, <1>7

\* The loops go by what is appended and by nothing else.
GoesBy(x, a, y, b) ==
  \A t \in Tasks : Gone(t)' <=> Gone(t) \/ (x = <<a>> /\ t = a) \/ (y = <<b>> /\ t = b)

\* An iteration that may append a and then b.
LEMMA Iterated ==
  ASSUME FullInv, LoopsOK', num_stages' = num_stages, num_microbatches' = num_microbatches,
         NEW a, NEW b, a # b, b[1] = "B",
         NEW x, MayBe(x, a), x = <<a>> => a \in Tasks /\ ~Gone(a),
         NEW y, MayBe(y, b), y = <<b>> => b \in Tasks /\ ~Gone(b),
         schedule' = schedule \o (x \o y),
         x = <<a>> /\ a[1] = "F" => ~Gone(<<"B", a[2], a[3]>>),
         x = <<a>> /\ y = <<b>> /\ a[1] = "F" => b # <<"B", a[2], a[3]>>,
         GoesBy(x, a, y, b)
  PROVE  FullInv'
<1>1. PICK e : e = x \o y
  OBVIOUS
<1>2. e \in Seq(Tasks) /\ Appends(e, x, a, y, b)
  <2>1. (x = <<a>> => a \in Tasks) /\ (y = <<b>> => b \in Tasks)
    OBVIOUS
  <2>2. x \o y \in Seq(Tasks) /\ Appends(x \o y, x, a, y, b)
    BY <2>1, TwoEntries
  <2> QED BY <1>1, <2>2, Zenon
<1>3. schedule' = schedule \o e
  BY <1>1
<1>4. \A i \in 1 .. Len(e) : ~Gone(e[i])
  BY <1>2, Zenon DEF Appends
<1>5. ASSUME NEW i \in 1 .. Len(e), e[i][1] = "F"
      PROVE  /\ ~Gone(<<"B", e[i][2], e[i][3]>>)
             /\ \A j \in 1 .. Len(e) : e[j] # <<"B", e[i][2], e[i][3]>>
  <2>1. x = <<a>> /\ e[i] = a
    <3>1. e[i] = b => e[i][1] = "B"
      BY Zenon
    <3> QED BY <1>2, <1>5, <3>1 DEF Appends
  <2>2. ~Gone(<<"B", e[i][2], e[i][3]>>)
    BY <1>5, <2>1, Zenon
  <2>3. \A j \in 1 .. Len(e) : e[j] # <<"B", e[i][2], e[i][3]>>
    <3> SUFFICES ASSUME NEW j \in 1 .. Len(e), e[j] = <<"B", e[i][2], e[i][3]>> PROVE FALSE
      OBVIOUS
    <3>1. a[1] = "F" /\ e[j] = <<"B", a[2], a[3]>> /\ e[j][1] = "B"
      BY <1>5, <2>1
    <3>2. y = <<b>> /\ e[j] = b
      BY <1>2, <3>1 DEF Appends
    <3> QED BY <2>1, <3>1, <3>2
  <2> QED BY <2>2, <2>3
<1>6. /\ schedule' \in Seq(Tasks)' /\ NothingTwice' /\ ForwardFirst'
      /\ \A t \in Tasks : t \in Emitted' <=> t \in Emitted \/ \E i \in 1 .. Len(e) : e[i] = t
  <2>1. \A i, j \in 1 .. Len(e) : e[i] = e[j] => i = j
    BY <1>2 DEF Appends
  <2> QED BY <1>2, <1>3, <1>4, <1>5, <2>1, Appended
<1>7. EmittedIsGone'
  <2>1. Tasks' = Tasks
    BY DEF Tasks, Stages, Microbatches
  <2> SUFFICES ASSUME NEW t \in Tasks PROVE t \in Emitted' <=> Gone(t)'
    BY <2>1 DEF EmittedIsGone
  <2>2. t \in Emitted <=> Gone(t)
    BY DEF FullInv, EmittedIsGone
  <2>3. (\E i \in 1 .. Len(e) : e[i] = t) <=> (x = <<a>> /\ t = a) \/ (y = <<b>> /\ t = b)
    BY <1>2 DEF Appends
  <2> QED BY <1>6, <2>2, <2>3 DEF GoesBy
<1> QED BY <1>6, <1>7 DEF FullInv, FullTypeOK

\* The loop of the warmup.
LEMMA WarmupInv == FullInv /\ Warmup => FullInv'
<1> SUFFICES ASSUME FullInv, Warmup PROVE FullInv'
  OBVIOUS
<1> DEFINE m == outer - inner
           a == <<"F", inner, m>>
           c == m \in Microbatches
<1>1. /\ LoopsOK /\ phase = "warmup" /\ num_stages \in Nat \ {0} /\ num_microbatches \in Nat
      /\ outer \in Nat /\ inner \in Nat /\ outer < num_stages /\ inner <= outer
      /\ num_stages' = num_stages /\ num_microbatches' = num_microbatches
  BY DEF FullInv, FullTypeOK, LoopsOK, Warmup, Iterate
<1>2. IF inner + 1 < outer + 1
      THEN inner' = inner + 1 /\ phase' = phase /\ outer' = outer
      ELSE /\ inner' = 0
           /\ IF outer + 1 < num_stages
              THEN outer' = outer + 1 /\ phase' = phase
              ELSE outer' = 0 /\ phase' = "steady"
  BY DEF Warmup, Iterate
<1>3. schedule' = schedule \o ((IF c THEN <<a>> ELSE << >>) \o << >>)
  <2>1. schedule' = schedule \o (IF c THEN <<a>> ELSE << >>)
    BY DEF Warmup, Iterate, EntryIf
  <2>2. (IF c THEN <<a>> ELSE << >>) \o << >> = IF c THEN <<a>> ELSE << >>
    OBVIOUS
  <2> QED BY <2>1, <2>2
<1>4. LoopsOK'
  BY <1>1, <1>2 DEF LoopsOK, Clocks, Least
<1>5. c => a \in Tasks /\ InWarmup(a) /\ ~Gone(a)
  BY <1>1 DEF Tasks, Stages, Microbatches, InWarmup, Least, Gone, By, ClockIn
<1>6. ~Gone(<<"B", inner, m>>)
  BY <1>1 DEF Gone
<1>7. ASSUME NEW t \in Tasks PROVE Gone(t)' <=> Gone(t) \/ (c /\ t = a)
  <2>1. PICK op \in {"F", "B"}, s \in Stages, mb \in Microbatches : t = <<op, s, mb>>
    BY DEF Tasks
  <2>2. s \in Nat /\ mb \in Nat /\ s < num_stages /\ mb < num_microbatches
    BY <1>1 DEF Stages, Microbatches
  <2>3. InWarmup(t)' <=> InWarmup(t)
    BY <1>1, <2>1 DEF InWarmup, Least
  <2>4. CASE op = "B"
    BY <1>1, <1>2, <2>1, <2>2, <2>4 DEF Gone, By, ClockIn, InWarmup, Least
  <2>5. CASE op = "F" /\ ~InWarmup(t)
    BY <1>1, <1>2, <2>1, <2>2, <2>3, <2>5 DEF Gone, By, ClockIn, InWarmup, Least, Microbatches
  <2>6. CASE op = "F" /\ InWarmup(t)
    BY <1>1, <1>2, <2>1, <2>2, <2>3, <2>6 DEF Gone, By, ClockIn, InWarmup, Least, Microbatches
  <2> QED BY <2>1, <2>4, <2>5, <2>6
<1>8. a # <<"B", 0, 0>> /\ <<"B", 0, 0>>[1] = "B" /\ a[1] = "F" /\ a[2] = inner /\ a[3] = m
  OBVIOUS
<1>9. PICK x : x = IF c THEN <<a>> ELSE << >>
  OBVIOUS
<1>10. /\ x = <<a>> <=> c
       /\ MayBe(x, a) /\ MayBe(<< >>, <<"B", 0, 0>>)
       /\ << >> # << <<"B", 0, 0>> >>
  BY <1>9 DEF MayBe
<1>11. schedule' = schedule \o (x \o << >>)
  BY <1>3, <1>9
<1> HIDE DEF a, c, m
<1>12. GoesBy(x, a, << >>, <<"B", 0, 0>>)
  BY <1>7, <1>10 DEF GoesBy
<1> QED BY <1>1, <1>4, <1>5, <1>6, <1>8, <1>10, <1>11, <1>12, Iterated

\* The clock loop of the steady state.
LEMMA SteadyInv == FullInv /\ Steady => FullInv'
<1> SUFFICES ASSUME FullInv, Steady PROVE FullInv'
  OBVIOUS
<1> DEFINE m == outer - inner
           n == outer - num_stages - inner
           a == <<"F", inner, m>>
           b == <<"B", inner, n>>
           c == m \in Microbatches /\ m >= WarmupCount(inner)
           d == n \in Microbatches
<1>1. /\ LoopsOK /\ phase = "steady" /\ num_stages \in Nat \ {0} /\ num_microbatches \in Nat
      /\ outer \in Nat /\ inner \in Nat /\ inner < num_stages
      /\ outer < IF Clocks = 0 THEN 1 ELSE Clocks
      /\ num_stages' = num_stages /\ num_microbatches' = num_microbatches
  BY DEF FullInv, FullTypeOK, LoopsOK, Steady, Iterate
<1>2. /\ WarmupCount(inner) = Least(num_microbatches, num_stages - inner)
      /\ SteadyClocks = Clocks
  BY <1>1, Counts DEF CountsClosed, Stages, Clocks
<1>3. IF inner + 1 < num_stages
      THEN inner' = inner + 1 /\ phase' = phase /\ outer' = outer
      ELSE /\ inner' = 0
           /\ IF outer + 1 < Clocks
              THEN outer' = outer + 1 /\ phase' = phase
              ELSE outer' = 0 /\ phase' = "cooldown"
  BY <1>2 DEF Steady, Iterate
<1>4. schedule' = schedule \o ((IF c THEN <<a>> ELSE << >>) \o (IF d THEN <<b>> ELSE << >>))
  BY DEF Steady, Iterate, EntryIf
<1>5. LoopsOK'
  BY <1>1, <1>3 DEF LoopsOK, Clocks, Least
<1>6. c => a \in Tasks /\ ~InWarmup(a) /\ ~Gone(a)
  BY <1>1, <1>2 DEF Tasks, Stages, Microbatches, InWarmup, Least, Gone, By, ClockIn
<1>7. d => b \in Tasks /\ ~Gone(b)
  BY <1>1 DEF Tasks, Stages, Microbatches, Gone, By, ClockIn
<1>8. c => ~Gone(<<"B", inner, m>>)
  BY <1>1 DEF Gone, By, ClockIn
<1>9. ASSUME NEW t \in Tasks PROVE Gone(t)' <=> Gone(t) \/ (c /\ t = a) \/ (d /\ t = b)
  <2>1. PICK op \in {"F", "B"}, s \in Stages, mb \in Microbatches : t = <<op, s, mb>>
    BY DEF Tasks
  <2>2. s \in Nat /\ mb \in Nat /\ s < num_stages /\ mb < num_microbatches
    BY <1>1 DEF Stages, Microbatches
  <2>3. /\ InWarmup(t)' <=> InWarmup(t)
        /\ InWarmup(t) <=> mb < Least(num_microbatches, num_stages - s)
        /\ ClockIn(t)' = ClockIn(t) /\ ClockIn(t) = IF op = "F" THEN mb + s ELSE mb + num_stages + s
        /\ Clocks' = Clocks /\ Clocks \in Nat
    BY <1>1, <2>1, <2>2 DEF InWarmup, Least, ClockIn, Clocks
  <2>4. CASE op = "F" /\ InWarmup(t)
    <3>1. Gone(t) /\ Gone(t)'
      BY <1>1, <1>3, <2>1, <2>3, <2>4 DEF Gone
    <3> QED BY <3>1
  <2>5. CASE op = "F" /\ ~InWarmup(t)
    <3>1. Gone(t) <=> By(mb + s, s)
      BY <1>1, <2>1, <2>3, <2>5 DEF Gone
    <3>2. Gone(t)' <=> \/ phase' = "steady" /\ By(mb + s, s)'
                       \/ phase' = "cooldown" /\ mb + s < Clocks
      BY <1>1, <1>3, <2>1, <2>3, <2>5 DEF Gone
    <3>3. t = a <=> s = inner /\ mb = m
      BY <2>1, <2>5
    <3>4. t # b
      BY <2>1, <2>5
    <3>5. t = a => c
      <4> SUFFICES ASSUME t = a PROVE c
        OBVIOUS
      <4>1. s = inner /\ mb = m
        BY <3>3
      <4>2. ~(mb < Least(num_microbatches, num_stages - s))
        BY <2>3, <2>5
      <4>3. m \in Microbatches
        BY <2>1, <4>1
      <4>4. m >= WarmupCount(inner)
        BY <1>1, <1>2, <2>2, <4>1, <4>2 DEF Least
      <4> QED BY <4>3, <4>4
    <3>6. phase' = "steady" =>
            (By(mb + s, s)' <=> By(mb + s, s) \/ (s = inner /\ mb = m))
      BY <1>1, <1>3, <2>2 DEF By
    <3>7. phase' = "steady" \/ phase' = "cooldown"
      BY <1>1, <1>3
    <3>8. phase' = "cooldown" =>
            (mb + s < Clocks <=> By(mb + s, s) \/ (s = inner /\ mb = m))
      <4>1. Clocks # 0
        BY <1>1, <2>2 DEF Clocks, Least
      <4> QED BY <1>1, <1>3, <2>2, <2>3, <4>1 DEF By
    <3> HIDE DEF a, b, c, d, m, n
    <3> QED BY <3>1, <3>2, <3>3, <3>4, <3>5, <3>6, <3>7, <3>8
  <2>6. CASE op = "B"
    <3>1. Gone(t) <=> By(mb + num_stages + s, s)
      BY <1>1, <2>1, <2>3, <2>6 DEF Gone
    <3>2. Gone(t)' <=> \/ phase' = "steady" /\ By(mb + num_stages + s, s)'
                       \/ phase' = "cooldown" /\ mb + num_stages + s < Clocks
      BY <1>1, <1>3, <2>1, <2>2, <2>3, <2>6 DEF Gone, By
    <3>3. t = b <=> s = inner /\ mb = n
      BY <2>1, <2>6
    <3>4. t # a
      BY <2>1, <2>6
    <3>5. t = b => d
      BY <2>1, <2>6, <3>3
    <3>6. Gone(t)' <=> Gone(t) \/ (s = inner /\ mb = n)
      BY <1>1, <1>3, <2>2, <2>3, <3>1, <3>2 DEF By
    <3> QED BY <3>3, <3>4, <3>5, <3>6
  <2> QED BY <2>1, <2>4, <2>5, <2>6
<1>10. /\ a # b /\ b[1] = "B"
       /\ a[1] = "F" /\ a[2] = inner /\ a[3] = m
  OBVIOUS
<1>11. b # <<"B", inner, m>>
  BY <1>1
<1>12. PICK x, y : (x = IF c THEN <<a>> ELSE << >>) /\ (y = IF d THEN <<b>> ELSE << >>)
  OBVIOUS
<1>13. /\ x = <<a>> <=> c
       /\ y = <<b>> <=> d
       /\ MayBe(x, a) /\ MayBe(y, b)
  BY <1>12 DEF MayBe
<1>14. schedule' = schedule \o (x \o y)
  BY <1>4, <1>12
<1> HIDE DEF a, b, c, d, m, n
<1>15. GoesBy(x, a, y, b)
  BY <1>9, <1>13 DEF GoesBy
<1> QED BY <1>1, <1>5, <1>6, <1>7, <1>8, <1>10, <1>11, <1>13, <1>14, <1>15, Iterated

\* The loop of the cooldown.
LEMMA CooldownInv == FullInv /\ Cooldown => FullInv'
<1> SUFFICES ASSUME FullInv, Cooldown PROVE FullInv'
  OBVIOUS
<1> DEFINE a == <<"F", 0, 0>>
           b == <<"B", outer, inner>>
           d == inner \in Microbatches /\ b \notin Emitted
<1>1. /\ LoopsOK /\ phase = "cooldown" /\ num_stages \in Nat \ {0} /\ num_microbatches \in Nat
      /\ outer \in Nat /\ inner \in Nat /\ outer < num_stages
      /\ inner < IF num_microbatches = 0 THEN 1 ELSE num_microbatches
      /\ num_stages' = num_stages /\ num_microbatches' = num_microbatches
  BY DEF FullInv, FullTypeOK, LoopsOK, Cooldown, Iterate
<1>2. IF inner + 1 < num_microbatches
      THEN inner' = inner + 1 /\ phase' = phase /\ outer' = outer
      ELSE /\ inner' = 0
           /\ IF outer + 1 < num_stages
              THEN outer' = outer + 1 /\ phase' = phase
              ELSE outer' = 0 /\ phase' = "done"
  BY DEF Cooldown, Iterate
<1>3. schedule' = schedule \o (<< >> \o (IF d THEN <<b>> ELSE << >>))
  <2>1. schedule' = schedule \o (IF d THEN <<b>> ELSE << >>)
    BY DEF Cooldown, Iterate, EntryIf
  <2>2. << >> \o (IF d THEN <<b>> ELSE << >>) = IF d THEN <<b>> ELSE << >>
    OBVIOUS
  <2> QED BY <2>1, <2>2
<1>4. LoopsOK'
  BY <1>1, <1>2 DEF LoopsOK, Clocks, Least
<1>5. inner \in Microbatches => b \in Tasks
  BY <1>1 DEF Tasks, Stages, Microbatches
<1>6. b \in Tasks => (b \in Emitted <=> Gone(b))
  BY DEF FullInv, EmittedIsGone
<1>7. d => b \in Tasks /\ ~Gone(b)
  BY <1>5, <1>6
<1>8. ASSUME NEW t \in Tasks PROVE Gone(t)' <=> Gone(t) \/ (d /\ t = b)
  <2>1. PICK op \in {"F", "B"}, s \in Stages, mb \in Microbatches : t = <<op, s, mb>>
    BY DEF Tasks
  <2>2. s \in Nat /\ mb \in Nat /\ s < num_stages /\ mb < num_microbatches
    BY <1>1 DEF Stages, Microbatches
  <2>3. /\ InWarmup(t)' <=> InWarmup(t)
        /\ ClockIn(t)' = ClockIn(t) /\ Clocks' = Clocks
    BY <1>1, <2>1, <2>2 DEF InWarmup, Least, ClockIn, Clocks
  <2>4. CASE op = "F"
    <3>1. t # b
      BY <2>1, <2>4
    <3>2. Gone(t)' <=> Gone(t)
      BY <1>1, <1>2, <2>1, <2>3, <2>4 DEF Gone
    <3> QED BY <3>1, <3>2
  <2>5. CASE op = "B"
    <3>1. Gone(t) <=> ClockIn(t) < Clocks \/ By(s, mb)
      BY <1>1, <2>1, <2>3, <2>5 DEF Gone
    <3>2. Gone(t)' <=> ClockIn(t) < Clocks \/ phase' = "done" \/ (phase' = "cooldown" /\ By(s, mb)')
      BY <1>1, <1>2, <2>1, <2>2, <2>3, <2>5 DEF Gone, By
    <3>3. phase' = "done" \/ (phase' = "cooldown" /\ By(s, mb)')
            <=> By(s, mb) \/ (s = outer /\ mb = inner)
      BY <1>1, <1>2, <2>2 DEF By
    <3>4. t = b <=> s = outer /\ mb = inner
      BY <2>1, <2>5
    <3>5. t = b => Gone(t) \/ d
      BY <1>6, <2>1, <2>5, <3>4
    <3> HIDE DEF b, d
    <3> QED BY <3>1, <3>2, <3>3, <3>4, <3>5
  <2> QED BY <2>1, <2>4, <2>5
<1>9. a # b /\ b[1] = "B" /\ << >> # <<a>>
  OBVIOUS
<1>10. PICK y : y = IF d THEN <<b>> ELSE << >>
  OBVIOUS
<1>11. /\ y = <<b>> <=> d
       /\ MayBe(y, b) /\ MayBe(<< >>, a)
  BY <1>10 DEF MayBe
<1>12. schedule' = schedule \o (<< >> \o y)
  BY <1>3, <1>10
<1> HIDE DEF a, b, d
<1>13. GoesBy(<< >>, a, y, b)
  BY <1>8, <1>9, <1>11 DEF GoesBy
<1> QED BY <1>1, <1>4, <1>7, <1>9, <1>11, <1>12, <1>13, Iterated

\* The first iteration.
LEMMA FullInitInv == FullInit => FullInv
<1> SUFFICES ASSUME FullInit PROVE FullInv
  OBVIOUS
<1>1. /\ num_stages \in Nat \ {0} /\ num_microbatches \in Nat /\ schedule = << >>
      /\ phase = "warmup" /\ outer = 0 /\ inner = 0
  BY CountsAssumption DEF FullInit, Empty
<1>2. FullTypeOK /\ NothingTwice /\ ForwardFirst
  BY <1>1 DEF FullTypeOK, LoopsOK, NothingTwice, ForwardFirst
<1>3. \A task \in Tasks : task \notin Emitted /\ ~Gone(task)
  BY <1>1 DEF Tasks, Stages, Microbatches, Emitted, Gone, By, ClockIn
<1> QED BY <1>2, <1>3 DEF FullInv, EmittedIsGone

\* For every pipeline: what generate has emitted is what its loops have gone by,
\* nothing twice and forward passes first.
THEOREM FullInvariance == FullSpec => []FullInv
<1>1. FullInv /\ UNCHANGED fullVars => FullInv'
  BY DEF FullInv, FullTypeOK, LoopsOK, NothingTwice, EmittedIsGone, ForwardFirst, fullVars, Tasks,
         Stages, Microbatches, Emitted, Gone, By, InWarmup, ClockIn, Clocks, Least
<1>2. FullInv /\ [FullNext]_fullVars => FullInv'
  BY <1>1, WarmupInv, SteadyInv, CooldownInv DEF FullNext
<1> QED BY FullInitInv, <1>2, PTL DEF FullSpec

\* generate's schedule has nothing twice and all backward passes; and all
\* forward passes, if the pipeline has at most one stage more than there are
\* micro-batches.
THEOREM Filled == FullSpec => []FullIfFilled
<1>1. FullInv => FullIfFilled
  <2> SUFFICES ASSUME FullInv, phase = "done" PROVE FullIfFilled
    BY DEF FullIfFilled
  <2>1. /\ num_stages \in Nat \ {0} /\ num_microbatches \in Nat /\ schedule \in Seq(Tasks)
        /\ NothingTwice /\ EmittedIsGone
    BY DEF FullInv, FullTypeOK, LoopsOK
  <2>2. Emitted \subseteq Tasks
    BY <2>1 DEF Emitted
  <2>3. ASSUME NEW task \in Tasks, task[1] = "B" PROVE task \in Emitted
    BY <2>1, <2>3 DEF EmittedIsGone, Gone
  <2>4. ASSUME NEW task \in Tasks, task[1] = "F", num_stages <= num_microbatches + 1
        PROVE  task \in Emitted
    <3>1. PICK s \in Stages, mb \in Microbatches : task = <<"F", s, mb>>
      BY <2>4 DEF Tasks
    <3>2. ClockIn(task) < Clocks
      BY <2>1, <2>4, <3>1 DEF ClockIn, Clocks, Least, Stages, Microbatches
    <3> QED BY <2>1, <2>4, <3>2 DEF EmittedIsGone, Gone
  <2>5. {"B"} \X Stages \X Microbatches \subseteq Emitted
    BY <2>3 DEF Tasks
  <2>6. num_stages <= num_microbatches + 1 => Emitted = Tasks
    <3> SUFFICES ASSUME num_stages <= num_microbatches + 1, NEW task \in Tasks
                 PROVE  task \in Emitted
      BY <2>2
    <3>1. task[1] \in {"F", "B"}
      BY DEF Tasks
    <3> QED BY <2>3, <2>4, <3>1
  <2> QED BY <2>1, <2>5, <2>6 DEF FullIfFilled
<1> QED BY FullInvariance, <1>1, PTL

\* In generate's schedule no stage runs a backward pass before its forward pass.
THEOREM FullForwardFirst == FullSpec => []ForwardFirst
<1>1. FullInv => ForwardFirst
  BY DEF FullInv
<1> QED BY FullInvariance, <1>1, PTL
=============================================================================
