-------------------------- MODULE ActivationTracker --------------------------
(***************************************************************************)
(* ActivationTracker.verify_activation_liveness (verifier/schedules.py)    *)
(* applied to the schedule that generate_simple returns, as                *)
(* examples/pp_2stage.py does: once the generator is done, the tracker     *)
(* walks the schedule and notes which activations are saved and released.  *)
(***************************************************************************)
EXTENDS ScheduleSimple, FiniteSets

VARIABLES
  position,  \* how many entries of the schedule the walk has handled
  saved,     \* saved[s]: micro-batches whose activation stage s has saved
  released,  \* released[s]: micro-batches whose activation s has let go
  errors     \* the errors reported, as pairs <<what, entry>>

walkVars == <<position, saved, released, errors>>
vars     == <<genVars, walkVars>>

TrackerInit == /\ Init
               /\ position = 0
               /\ saved = [s \in Stages |-> {}]
               /\ released = [s \in Stages |-> {}]
               /\ errors = {}

Generate == Next /\ UNCHANGED walkVars

\* Faulty: the walk stops before the last entry.
WalksShort(op) == /\ Generated
                  /\ position < Len(schedule) - 1
                  /\ schedule[position + 1][1] = op
                  /\ position' = position + 1
                  /\ UNCHANGED genVars

\* The walk may handle its next entry, an op entry.
Walks(op) == /\ Generated
             /\ position < Len(schedule)
             /\ schedule[position + 1][1] = op
             /\ position' = position + 1
             /\ UNCHANGED genVars

EntryStage == schedule[position + 1][2]
EntryMb    == schedule[position + 1][3]

WalkForward ==
  /\ Walks("F")
  /\ saved' = [saved EXCEPT ![EntryStage] = @ \cup {EntryMb}]
  /\ UNCHANGED <<released, errors>>

BackwardErrors ==
  LET entry == schedule[position + 1]
  IN  (IF EntryMb \notin saved[EntryStage] THEN {<<"not_saved", entry>>} ELSE {})
      \cup
      (IF EntryMb \in released[EntryStage] THEN {<<"released", entry>>} ELSE {})

\* Faulty: the activation is taken out of the saved ones.
WalkBackwardUnsaves ==
  /\ Walks("B")
  /\ errors' = errors \cup BackwardErrors
  /\ saved' = [saved EXCEPT ![EntryStage] = @ \ {EntryMb}]
  /\ UNCHANGED released

WalkBackward ==
  /\ Walks("B")
  /\ errors' = errors \cup BackwardErrors
  /\ released' = [released EXCEPT ![EntryStage] = @ \cup {EntryMb}]
  /\ UNCHANGED saved

TrackerNext == Generate \/ WalkForward \/ WalkBackward

TrackerSpec == TrackerInit /\ [][TrackerNext]_vars /\ WF_vars(TrackerNext)

-----------------------------------------------------------------------------
Walked == Generated /\ position = Len(schedule)

\* The micro-batches whose op entry for stage s the walk has handled.
Handled(op, s) ==
  {mb \in Microbatches : \E i \in 1 .. position : schedule[i] = <<op, s, mb>>}

\* The inductive invariant: the walk comes after the generator and keeps in its
\* sets what it has handled.
TrackerInv == /\ GenInv
              /\ position \in 0 .. Len(schedule)
              /\ ~Generated => position = 0
              /\ saved = [s \in Stages |-> Handled("F", s)]
              /\ released = [s \in Stages |-> Handled("B", s)]
              /\ errors \subseteq {"not_saved", "released"} \X Tasks

\* The verdict on the generator's schedule is always "passed": no backward
\* pass runs without its activation.
ActivationsLive == errors = {}

\* While the tracker walks, stage s never holds more than the activations of
\* the 2(P - s) micro-batches between its forward and its backward pass,
\* however many micro-batches there are.
ActivationWindow ==
  \A s \in Stages : Cardinality(saved[s] \ released[s]) <= 2 * (num_stages - s)

\* Both loops and the walk end, and they end with every activation of every
\* stage saved and released again.
WalkCompletes ==
  <>(Walked /\ \A s \in Stages : saved[s] = Microbatches /\ released[s] = Microbatches)
=============================================================================
