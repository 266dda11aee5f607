----------------------------- MODULE ScheduleFull -----------------------------
(***************************************************************************)
(* PP1F1BSchedule.generate (verifier/schedules.py): the phase-based 1F1B   *)
(* generator.  It runs three loops one after the other, each of which only *)
(* appends to the schedule:                                                *)
(*   warmup    stage s gets the forward passes of its first warmup_count[s]*)
(*             micro-batches;                                              *)
(*   steady    a clock loop emits the remaining forwards and most          *)
(*             backwards;                                                  *)
(*   cooldown  the backwards that are not in the schedule yet.             *)
(* One step of the model is one iteration of an inner loop.                *)
(***************************************************************************)
EXTENDS PipelineSchedule, FiniteSets, FiniteSetsExt

VARIABLES
  phase,     \* the loop that is running, or "done"
  outer,     \* its outer loop variable: step, clock or stage
  inner      \* its inner loop variable: stage, stage or micro-batch

fullVars == <<num_stages, num_microbatches, phase, outer, inner, schedule>>

\* The forward passes of the warmup are those of the first num_stages steps of
\* the staircase in which stage s runs micro-batch step - s.
WarmupCount(s) ==
  Cardinality({mb \in Microbatches : \E step \in Stages : mb = step - s})

SteadyClocks == Max({WarmupCount(s) + num_microbatches : s \in Stages})

FullInit == /\ Empty
            /\ phase = "warmup"
            /\ outer = 0
            /\ inner = 0

\* The loop body appends entries; the loop goes on to its next iteration, or
\* to the next phase after the last one.
Iterate(this, entries, innerEnd, outerEnd, next) ==
  /\ phase = this
  /\ schedule' = schedule \o entries
  /\ IF inner + 1 < innerEnd
     THEN inner' = inner + 1 /\ UNCHANGED <<phase, outer>>
     ELSE /\ inner' = 0
          /\ IF outer + 1 < outerEnd
             THEN outer' = outer + 1 /\ phase' = phase
             ELSE outer' = 0 /\ phase' = next
  /\ UNCHANGED <<num_stages, num_microbatches>>

EntryIf(condition, op, s, mb) == IF condition THEN << <<op, s, mb>> >> ELSE << >>

Warmup ==
  LET mb == outer - inner
  IN  Iterate("warmup", EntryIf(mb \in Microbatches, "F", inner, mb),
              outer + 1, num_stages, "steady")

\* Faulty: the backward passes in the order of generate_simple, but without
\* leaving the forward passes the time to get to the last stage.
SteadyTooEarly ==
  LET fwd == outer - inner
      bwd == outer - (num_stages - 1 - inner)
  IN  Iterate("steady",
              EntryIf(fwd \in Microbatches /\ fwd >= WarmupCount(inner), "F", inner, fwd)
                \o EntryIf(bwd \in Microbatches, "B", inner, bwd),
              num_stages, SteadyClocks, "cooldown")

Steady ==
  LET fwd == outer - inner
      bwd == outer - num_stages - inner
  IN  Iterate("steady",
              EntryIf(fwd \in Microbatches /\ fwd >= WarmupCount(inner), "F", inner, fwd)
                \o EntryIf(bwd \in Microbatches, "B", inner, bwd),
              num_stages, SteadyClocks, "cooldown")

\* Faulty: does not look at what the steady phase has scheduled.
CooldownTwice ==
  Iterate("cooldown", EntryIf(inner \in Microbatches, "B", outer, inner),
          num_microbatches, num_stages, "done")

\* Sorted by stage, then by micro-batch; with no micro-batch the loop is empty.
Cooldown ==
  Iterate("cooldown",
          EntryIf(/\ inner \in Microbatches
                  /\ <<"B", outer, inner>> \notin Emitted, "B", outer, inner),
          num_microbatches, num_stages, "done")

FullNext == Warmup \/ Steady \/ Cooldown

FullSpec == FullInit /\ [][FullNext]_fullVars

-----------------------------------------------------------------------------
\* The result of generate holds the forward and the backward pass of every
\* micro-batch on every stage, unless the pipeline has at least two stages more
\* than there are micro-batches: then forward passes may be missing. Even then
\* the backward passes are all there and nothing is there twice.
FullIfFilled ==
  phase = "done" =>
    /\ NothingTwice
    /\ {"B"} \X Stages \X Microbatches \subseteq Emitted
    /\ num_stages <= num_microbatches + 1 => Emitted = Tasks

\* A stage that is scheduled to run a forward and a backward pass of a
\* micro-batch runs the forward pass first.
ForwardFirst ==
  \A i, j \in 1 .. Len(schedule) :
    (/\ schedule[i][1] = "B"
     /\ schedule[j] = <<"F", schedule[i][2], schedule[i][3]>>) => j < i
=============================================================================
