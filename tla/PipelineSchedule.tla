--------------------------- MODULE PipelineSchedule ---------------------------
(***************************************************************************)
(* PP1F1BSchedule (verifier/schedules.py): what its two generators of a    *)
(* schedule have in common.  An entry of the schedule is a task            *)
(* <<op, stage, mb>> of PipelineTasks.                                     *)
(***************************************************************************)
EXTENDS Integers, Sequences

CONSTANTS
  StageCounts,       \* the values num_stages may take
  MicrobatchCounts   \* the values num_microbatches may take

ASSUME CountsAssumption == /\ StageCounts \subseteq Nat \ {0}
                           /\ MicrobatchCounts \subseteq Nat

VARIABLES
  num_stages,        \* field num_stages (P in the code)
  num_microbatches,  \* field num_microbatches (M)
  schedule           \* the list under construction

Stages       == 0 .. (num_stages - 1)
Microbatches == 0 .. (num_microbatches - 1)
Tasks        == {"F", "B"} \X Stages \X Microbatches

Empty == /\ num_stages \in StageCounts
         /\ num_microbatches \in MicrobatchCounts
         /\ schedule = << >>

Emitted == {schedule[i] : i \in 1 .. Len(schedule)}

NothingTwice == \A i, j \in 1 .. Len(schedule) : schedule[i] = schedule[j] => i = j
=============================================================================
