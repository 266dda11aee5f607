---------------------------- MODULE ScheduleSimple ----------------------------
(***************************************************************************)
(* PP1F1BSchedule.generate_simple (verifier/schedules.py): the clock-based *)
(* 1F1B generator.  Two nested loops run over the clock and the stages;    *)
(* one iteration appends at most one forward and then at most one backward *)
(* micro-batch to the schedule.  Each of the two ifs is an action.         *)
(*                                                                         *)
(* The phase label the generator gives an entry is PhaseOf(entry).         *)
(***************************************************************************)
EXTENDS PipelineSchedule

VARIABLES
  clock,             \* outer loop variable t
  stage,             \* inner loop variable s
  turn               \* which if of the loop body comes next: "F" or "B"

genVars == <<num_stages, num_microbatches, clock, stage, turn, schedule>>

\* Faulty: the number of steps that the docstring of generate_simple gives.
TotalClocksOfDocstring == 2 * num_microbatches + num_stages - 1

TotalClocks == 2 * (num_microbatches + num_stages - 1)
Generated   == clock >= TotalClocks

\* Faulty: the backward passes of all stages at once; in the order of the
\* stages, not in the reverse order; and without the way to the last stage.
BwdMbWithoutStage == clock - (2 * num_stages - 1)
BwdMbWrongSign    == clock - (2 * num_stages - 1 + stage)
BwdMbTooEarly     == clock - (num_stages - 1 - stage)

FwdMb == clock - stage
BwdMb == clock - (2 * num_stages - 1 - stage)

EmitIf(op, mb) ==
  schedule' = IF mb \in Microbatches
              THEN Append(schedule, <<op, stage, mb>>)
              ELSE schedule

PhaseOf(task) ==
  LET s  == task[2]
      mb == task[3]
  IN  CASE task[1] = "F" /\ mb < num_stages - 1 - s                   -> "warmup"
        [] task[1] = "B" /\ mb >= num_microbatches - (num_stages - s) -> "cooldown"
        [] OTHER                                                      -> "steady"

Init == /\ Empty
        /\ clock = 0
        /\ stage = 0
        /\ turn = "F"

Forward == /\ ~Generated
           /\ turn = "F"
           /\ EmitIf("F", FwdMb)
           /\ turn' = "B"
           /\ UNCHANGED <<num_stages, num_microbatches, clock, stage>>

NextIteration ==
  IF stage + 1 < num_stages
  THEN stage' = stage + 1 /\ clock' = clock
  ELSE stage' = 0 /\ clock' = clock + 1

Backward == /\ ~Generated
            /\ turn = "B"
            /\ EmitIf("B", BwdMb)
            /\ turn' = "F"
            /\ NextIteration
            /\ UNCHANGED <<num_stages, num_microbatches>>

Next == Forward \/ Backward

Spec == Init /\ [][Next]_genVars

-----------------------------------------------------------------------------
(***************************************************************************)
(* The clock at which the two loops reach a task, and the order in which   *)
(* they reach two tasks.                                                   *)
(***************************************************************************)
ClockOf(task) ==
  IF task[1] = "F"
  THEN task[3] + task[2]
  ELSE task[3] + (2 * num_stages - 1 - task[2])

Earlier(a, b) ==
  \/ ClockOf(a) < ClockOf(b)
  \/ /\ ClockOf(a) = ClockOf(b)
     /\ \/ a[2] < b[2]
        \/ a[2] = b[2] /\ a[1] = "F" /\ b[1] = "B"

\* The loops have passed the point where they emit the task.
Passed(task) ==
  \/ ClockOf(task) < clock
  \/ /\ ClockOf(task) = clock
     /\ \/ task[2] < stage
        \/ task[2] = stage /\ task[1] = "F" /\ turn = "B"

TypeOK == /\ num_stages \in Nat \ {0}
          /\ num_microbatches \in Nat
          /\ clock \in Nat
          /\ stage \in Stages
          /\ turn \in {"F", "B"}
          /\ schedule \in Seq(Tasks)

\* The schedule lists the tasks in the order in which the loops reach them,
\* so it lists no task twice.
Sorted == \A i, j \in 1 .. Len(schedule) :
            i < j => Earlier(schedule[i], schedule[j])

\* What is in the schedule is what the loops have passed, neither less nor
\* more.
EmittedIsPassed == \A task \in Tasks : task \in Emitted <=> Passed(task)

\* The inductive invariant.
GenInv == TypeOK /\ Sorted /\ EmittedIsPassed

\* When the loops are over, every micro-batch has had its forward and its
\* backward pass on every stage, once each (the clock bound is large enough).
FullSchedule == Generated => Emitted = Tasks /\ NothingTwice

Pipeline == INSTANCE PipelineTasks WITH done <- Emitted

\* Read in order, the schedule is a legal pipeline execution: every pass comes
\* after the passes whose activation or gradient it consumes.
ImplementsPipeline == Pipeline!Spec
=============================================================================
