---------------------------- MODULE PipelineTasks ----------------------------
(***************************************************************************)
(* What a pipeline schedule promises, whatever algorithm produced it: the  *)
(* forward and backward passes of every micro-batch on every stage are     *)
(* done once each, and a pass is done only after the passes it depends on. *)
(*                                                                         *)
(* A task is a triple <<op, stage, mb>>.  The forward pass of a stage      *)
(* needs the activation that the previous stage sends; the backward pass   *)
(* needs the stage's own saved activation and the gradient that the next   *)
(* stage sends back.                                                       *)
(***************************************************************************)
EXTENDS Integers

VARIABLES
  num_stages,        \* the stages of the pipeline are 0 .. num_stages - 1
  num_microbatches,  \* the micro-batches are 0 .. num_microbatches - 1
  done               \* the tasks done so far

taskVars == <<num_stages, num_microbatches, done>>

Ops          == {"F", "B"}
Stages       == 0 .. (num_stages - 1)
Microbatches == 0 .. (num_microbatches - 1)
Tasks        == Ops \X Stages \X Microbatches

Needs(task) ==
  LET s  == task[2]
      mb == task[3]
  IN  IF task[1] = "F"
      THEN {<<"F", s - 1, mb>>} \cap Tasks
      ELSE {<<"F", s, mb>>, <<"B", s + 1, mb>>} \cap Tasks

Init == /\ num_stages \in Nat
        /\ num_microbatches \in Nat
        /\ done = {}

Run(task) == /\ task \notin done
             /\ Needs(task) \subseteq done
             /\ done' = done \cup {task}
             /\ UNCHANGED <<num_stages, num_microbatches>>

Next == \E task \in Tasks : Run(task)

Spec == Init /\ [][Next]_taskVars
=============================================================================
