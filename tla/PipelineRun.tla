------------------------------ MODULE PipelineRun ------------------------------
(***************************************************************************)
(* What the verdict of DeadlockChecker is worth: the stages of a pipeline  *)
(* that was accepted run their programs.  A send does not wait (the tensor *)
(* is buffered), a receive waits for a tensor from its source.             *)
(***************************************************************************)
EXTENDS DeadlockChecker, FiniteSets

VARIABLES
  pc,       \* pc[s]: how many entries of its program stage s has done
  channel   \* channel[<<src, dst>>]: tensors sent and not yet received

vars == <<calls, program, checkVars, pc, channel>>

Init == /\ CheckerInit
        /\ pc = [s \in Stages |-> 0]
        /\ channel = [link \in Stages \X Stages |-> 0]

Check == CheckerNext /\ UNCHANGED <<pc, channel>>

Current(s) == program[s][pc[s] + 1]

Send(s) == /\ Current(s)[1] = "send"
           /\ channel' = [channel EXCEPT ![<<s, Current(s)[2]>>] = @ + 1]

Recv(s) == /\ Current(s)[1] = "recv"
           /\ channel[<<Current(s)[2], s>>] > 0
           /\ channel' = [channel EXCEPT ![<<Current(s)[2], s>>] = @ - 1]

Step(s) == /\ Passed
           /\ pc[s] < Len(program[s])
           /\ Send(s) \/ Recv(s)
           /\ pc' = [pc EXCEPT ![s] = @ + 1]
           /\ UNCHANGED <<calls, program, checkVars>>

Next == Check \/ \E s \in Stages : Step(s)

Spec == Init /\ [][Next]_vars

\* check() returns, and a stage whose next entry is ready gets to it.
FairSpec == Spec /\ WF_vars(Search /\ UNCHANGED <<pc, channel>>)
                 /\ \A s \in Stages : WF_vars(Step(s))

-----------------------------------------------------------------------------
Finished == \A s \in Stages : pc[s] = Len(program[s])

Blocked(s) == Current(s)[1] = "recv" /\ channel[<<Current(s)[2], s>>] = 0

Ready(s) == pc[s] < Len(program[s]) /\ ~Blocked(s)

\* Every receive has a send of its own, and the other way round: check() does not
\* count them.
Where(s, entry) == {i \in 1 .. Len(program[s]) : program[s][i] = entry}

Balanced ==
  \A a, b \in Stages :
    Cardinality(Where(a, <<"send", b>>)) = Cardinality(Where(b, <<"recv", a>>))

\* The entries like that which stage s has done.
Done(s, entry) == {i \in Where(s, entry) : i <= pc[s]}

(***************************************************************************)
(* The inductive invariant: the books of the search, and those of the run. *)
(* What is in a channel has been sent and not received, and the verdict is *)
(* about the graph of the receives of the programs that run.               *)
(***************************************************************************)
RunInv ==
  /\ pc \in [Stages -> Nat]
  /\ channel \in [Stages \X Stages -> Nat]
  /\ \A s \in Stages : pc[s] <= Len(program[s])
  /\ phase # "verdict" => \A s \in Stages : pc[s] = 0
  /\ \A a, b \in Stages :
       channel[<<a, b>>] = Cardinality(Done(a, <<"send", b>>)) - Cardinality(Done(b, <<"recv", a>>))
  /\ phase # "add" /\ errors = {} =>
       \A a, b \in Stages : IsReceived(<<a, b>>) => a \in graph[b]

IInv == SearchInv /\ RunInv

\* check() reports a circular wait iff the wait-for graph has a cycle.
SearchIsRight == phase = "verdict" => (HasCircularWait <=> HasCycle)

\* As long as the stages of an accepted pipeline are not all finished, some stage
\* can go on.  Not of every pipeline: check() does not count surplus receives.
NobodyWaitsForever == Passed /\ ~Finished => \E s \in Stages : Ready(s)

\* An accepted pipeline in which every receive has a send of its own never gets
\* stuck, whatever the interleaving of its stages.
NoDeadlock == Balanced => NobodyWaitsForever

\* The search of check() ends, and a balanced pipeline that is accepted runs to
\* its end.
RunsToEnd == /\ phase = "search" ~> phase = "verdict"
             /\ Passed /\ Balanced ~> Finished
=============================================================================
