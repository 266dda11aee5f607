----------------------------- MODULE StreamRuntime -----------------------------
(***************************************************************************)
(* How a program runs: not code of the repository, but what its IR and its *)
(* temporal verifier assume of CUDA streams and asynchronous communication.*)
(*                                                                         *)
(* The host issues the operations in program order.  An asynchronous       *)
(* operation returns before it completes; after any other operation the    *)
(* host goes on when the operation is done.  The operations of a stream    *)
(* execute one at a time in the order of issue.  A wait executes when the  *)
(* operations issued with its handles are done.                            *)
(***************************************************************************)
EXTENDS TemporalProgram

VARIABLES
  issued,   \* the host has issued operations 1 .. issued
  started,  \* the operations that have begun to execute
  done      \* the operations that have completed

runtimeVars == <<issued, started, done>>

RuntimeInit == /\ issued = 0
               /\ started = {}
               /\ done = {}

HostFree == issued > 0 => IsAsync(ops[issued]) \/ issued \in done

Issue == /\ issued < Len(ops)
         /\ HostFree
         /\ issued' = issued + 1
         /\ UNCHANGED <<started, done>>

MayStart(i) ==
  \A k \in 1 .. (i - 1) :
    (SameStream(k, i) \/ HandleOf(ops[k]) \in HandlesWaited(ops[i])) => k \in done

Start(i) == /\ i \in 1 .. issued
            /\ i \notin started
            /\ MayStart(i)
            /\ started' = started \cup {i}
            /\ UNCHANGED <<issued, done>>

Complete(i) == /\ i \in started \ done
               /\ done' = done \cup {i}
               /\ UNCHANGED <<issued, started>>

InFlight == started \ done

RuntimeTypeOK == /\ issued \in 0 .. Len(ops)
                 /\ started \subseteq 1 .. issued
                 /\ done \subseteq started
=============================================================================
