-------------------------- MODULE TemporalSoundness --------------------------
(***************************************************************************)
(* What the verdict of the temporal verifier is worth: a program is built, *)
(* verified and, if the verifier finds it safe, run.                       *)
(***************************************************************************)
EXTENDS TemporalVerifier, StreamRuntime

vars == <<ops, verifierVars, runtimeVars>>

Init == ProgramInit /\ VerifierInit /\ RuntimeInit

Build == /\ phase = "add"
         /\ \E op \in Menu : Add(op)
         /\ UNCHANGED <<verifierVars, runtimeVars>>

Verify == /\ BuildGraph \/ DetectAll
          /\ UNCHANGED <<ops, runtimeVars>>

Run == /\ IsSafe
       /\ Issue \/ \E i \in Indices : Start(i) \/ Complete(i)
       /\ UNCHANGED <<ops, verifierVars>>

Next == Build \/ Verify \/ Run

Spec == Init /\ [][Next]_vars

TypeOK == ProgramTypeOK /\ VerifierTypeOK /\ RuntimeTypeOK

(***************************************************************************)
(* The inductive invariant: the graph and the reports are those of the     *)
(* program, nothing is issued before the verdict, the host has waited for  *)
(* every synchronous operation that it is past, and what has started was   *)
(* allowed to.                                                             *)
(***************************************************************************)
IInv == /\ TypeOK
        /\ phase # "add" => hb = AllEdges
        /\ phase = "verdict" => reports = AllReports
        /\ ~IsSafe => issued = 0
        /\ \A k \in 1 .. (issued - 1) : IsAsync(ops[k]) \/ k \in done
        /\ \A i \in started : MayStart(i)

-----------------------------------------------------------------------------
(***************************************************************************)
(* What a program must be for the verdict to be right.  Nothing in         *)
(* verify_temporal checks these.                                           *)
(***************************************************************************)
\* A tensor is not written again once it has been read.
WrittenBeforeRead ==
  \A w, r \in Indices :
    w # r /\ Writes(ops[w]) \cap Reads(ops[r]) # {} => w < r

\* No two operations are issued with the same handle, waits come after.
HandlesWellUsed ==
  /\ \A a, b \in Indices :
       HandleOf(ops[a]) = HandleOf(ops[b]) /\ HandleOf(ops[a]) # NoHandle => a = b
  /\ \A a, w \in Indices : HandleOf(ops[a]) \in HandlesWaited(ops[w]) => a < w

\* A wait that takes an asynchronous operation's output waits for the operation.
WaitsForWhatItTakes ==
  \A a, w \in Indices :
    /\ a \in Async /\ IsSync(ops[w])
    /\ Writes(ops[a]) \cap Reads(ops[w]) # {}
    => HandleOf(ops[a]) \in HandlesWaited(ops[w])

\* Every asynchronous operation has a handle: there is no OverlapRegion.
AsyncHasHandle == \A a \in Async : HandleOf(ops[a]) # NoHandle

WellFormed ==
  WrittenBeforeRead /\ HandlesWellUsed /\ WaitsForWhatItTakes /\ AsyncHasHandle

-----------------------------------------------------------------------------
\* The constraints of a well-formed program have a solution, so what they force
\* is forced by a path of edges and not by contradiction.
ConstraintsSatisfiable == WellFormed /\ phase # "add" => ~Cyclic

\* A well-formed program that is found safe runs as if one operation at a time:
\* an operation starts only when the earlier operations whose tensors it
\* touches, one of them writing, are done.
InOrder ==
  WellFormed =>
    \A i, j \in Indices :
      /\ i < j
      /\ ~IsSync(ops[i]) /\ ~IsSync(ops[j])
      /\ Conflict(ops[i], ops[j])
      /\ j \in started
      => i \in done

\* When the host has come to the end of a well-formed program that was found
\* safe, no operation is still in flight.
NothingLeftInFlight ==
  WellFormed /\ IsSafe /\ issued = Len(ops) /\ HostFree => Async \subseteq done

-----------------------------------------------------------------------------
(***************************************************************************)
(* What the documentation says of any program.                             *)
(***************************************************************************)
\* A data race, "two ops on different streams access the same tensor, at least
\* one writes, and they are not ordered", is found: even if tensors are
\* overwritten after they are read, the operations of a race are never both in
\* flight in a program that is found safe.
RacesAreFound ==
  HandlesWellUsed /\ WaitsForWhatItTakes /\ AsyncHasHandle =>
    \A i, j \in InFlight :
      /\ ~SameStream(i, j)
      /\ ~IsSync(ops[i]) /\ ~IsSync(ops[j])
      => ~Conflict(ops[i], ops[j])
=============================================================================
