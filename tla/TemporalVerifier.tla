--------------------------- MODULE TemporalVerifier ---------------------------
(***************************************************************************)
(* verify_temporal (verifier/temporal.py): TemporalGraph turns a program   *)
(* into happens-before edges, which are constraints complete < issue for   *)
(* Z3, and RaceDetector.detect_all asks which operations they order.       *)
(***************************************************************************)
EXTENDS TemporalProgram, FiniteSets

VARIABLES
  phase,   \* "add", "built" (the graph), "verdict"
  hb,      \* hb_edges, as pairs <<source, target>>
  reports  \* the RaceReports, as triples <<race_type, op_a_idx, op_b_idx>>

verifierVars == <<phase, hb, reports>>

-----------------------------------------------------------------------------
(***************************************************************************)
(* The happens-before edges: of consecutive operations on a stream, from   *)
(* an asynchronous operation to the waits on its handle, and from every    *)
(* writer of a tensor to every reader of it.                               *)
(***************************************************************************)
StreamEdges ==
  {e \in Indices \X Indices :
     /\ e[1] < e[2]
     /\ SameStream(e[1], e[2])
     /\ \A c \in Indices : e[1] < c /\ c < e[2] => ~SameStream(e[1], c)}

\* handle_to_issue_idx: of the operations with a handle, the last one counts.
IssueOf(h, a) ==
  /\ HandleOf(ops[a]) = h
  /\ \A c \in Indices : c > a => HandleOf(ops[c]) # h

\* Faulty: the wait comes before the operation it waits for.
WaitEdgesReversed ==
  {e \in Indices \X Indices : \E h \in HandlesWaited(ops[e[1]]) : IssueOf(h, e[2])}

WaitEdges ==
  {e \in Indices \X Indices : \E h \in HandlesWaited(ops[e[2]]) : IssueOf(h, e[1])}

DataEdges ==
  {e \in Indices \X Indices :
     e[1] # e[2] /\ Writes(ops[e[1]]) \cap Reads(ops[e[2]]) # {}}

AllEdges == StreamEdges \cup WaitEdges \cup DataEdges

\* waited_by: of the waits on the operation's handle, the last one counts.
WaitedBy(a, w) ==
  /\ <<a, w>> \in WaitEdges
  /\ \A v \in Indices : v > w => <<a, v>> \notin WaitEdges

-----------------------------------------------------------------------------
(***************************************************************************)
(* get_ordered: the constraints force complete_a < issue_b iff there is a  *)
(* path of edges from a to b, or if they have no solution at all, that is, *)
(* if the edges form a cycle.  There is a path iff b is in every set that  *)
(* holds the successors of a and of its own members.                       *)
(***************************************************************************)
Path(a, b) ==
  \A S \in SUBSET Indices :
    (\A e \in hb : e[1] \in {a} \cup S => e[2] \in S) => b \in S

Cyclic == \E a \in Indices : Path(a, a)

ForcedBefore(a, b) == Cyclic \/ Path(a, b)

\* get_ordered(a, b) is None.
Concurrent(a, b) == ~ForcedBefore(a, b) /\ ~ForcedBefore(b, a)

WaitPrecedes(a, b) == \E w \in Indices : WaitedBy(a, w) /\ ForcedBefore(w, b)

Async == {i \in Indices : IsAsync(ops[i])}

\* detect_races
IsRace(i, j) ==
  /\ i < j
  /\ ~IsSync(ops[i]) /\ ~IsSync(ops[j])
  /\ ~SameStream(i, j)
  /\ Conflict(ops[i], ops[j])
  /\ Concurrent(i, j)

\* Faulty: any wait will do, wherever it is.
IsMissingAnyWait(i, j) ==
  /\ i # j
  /\ i \in Async /\ HandleOf(ops[i]) # NoHandle
  /\ ~IsSync(ops[j])
  /\ ops[i].output \in Reads(ops[j])
  /\ ~ \E w \in Indices : WaitedBy(i, w)

\* detect_missing_waits: j reads what i writes asynchronously.
IsMissingWait(i, j) ==
  /\ i # j
  /\ i \in Async /\ HandleOf(ops[i]) # NoHandle
  /\ ~IsSync(ops[j])
  /\ ops[i].output \in Reads(ops[j])
  /\ ~WaitPrecedes(i, j)

\* detect_buffer_aliasing
IsAliasing(i, j) ==
  /\ i < j
  /\ i \in Async /\ j \in Async
  /\ Writes(ops[i]) \cap Writes(ops[j]) # {}
  /\ ~WaitPrecedes(i, j) /\ ~WaitPrecedes(j, i)

\* sends[key]: the last SendAsync with the route of the receive.
SendOf(r, s) ==
  /\ ops[r].kind = "RecvAsync" /\ ops[s].kind = "SendAsync"
  /\ ops[s].route = ops[r].route
  /\ \A c \in Indices :
       c > s /\ ops[c].kind = "SendAsync" => ops[c].route # ops[r].route

\* detect_dependency_violations: get_ordered(s, r) is False.
IsDependencyViolation(s, r) ==
  SendOf(r, s) /\ ~ForcedBefore(s, r) /\ ForcedBefore(r, s)

\* detect_concurrent_collectives
IsCollectiveClash(i, j) ==
  /\ i = j
  /\ ops[i].kind = "OverlapRegion"
  /\ \E c \in ops[i].compute_ops, m \in ops[i].comm_ops : c.collective /\ m.collective

\* Faulty: only the handles of point-to-point operations are looked at.
IsOrphanP2P(i, j) ==
  /\ i = j
  /\ ops[i].kind \in {"SendAsync", "RecvAsync"}
  /\ \A w \in Indices : HandleOf(ops[i]) \notin HandlesWaited(ops[w])

\* detect_orphaned_handles
IsOrphan(i, j) ==
  /\ i = j
  /\ i \in Async /\ HandleOf(ops[i]) # NoHandle
  /\ \A w \in Indices : HandleOf(ops[i]) \notin HandlesWaited(ops[w])

RaceTypes == {"data_race", "missing_wait", "buffer_aliasing", "dependency_violation",
              "concurrent_collectives", "orphaned_handle"}

\* detect_all
AllReports ==
  {r \in RaceTypes \X Indices \X Indices :
     \/ r[1] = "data_race"              /\ IsRace(r[2], r[3])
     \/ r[1] = "missing_wait"           /\ IsMissingWait(r[2], r[3])
     \/ r[1] = "buffer_aliasing"        /\ IsAliasing(r[2], r[3])
     \/ r[1] = "dependency_violation"   /\ IsDependencyViolation(r[2], r[3])
     \/ r[1] = "concurrent_collectives" /\ IsCollectiveClash(r[2], r[3])
     \/ r[1] = "orphaned_handle"        /\ IsOrphan(r[2], r[3])}

-----------------------------------------------------------------------------
VerifierInit == /\ phase = "add"
                /\ hb = {}
                /\ reports = {}

\* Faulty: without _build_data_dependencies.
BuildGraphWithoutData == /\ phase = "add"
                         /\ phase' = "built"
                         /\ hb' = StreamEdges \cup WaitEdges
                         /\ UNCHANGED reports

\* TemporalGraph(program)
BuildGraph == /\ phase = "add"
              /\ phase' = "built"
              /\ hb' = AllEdges
              /\ UNCHANGED reports

DetectAll == /\ phase = "built"
             /\ phase' = "verdict"
             /\ reports' = AllReports
             /\ UNCHANGED hb

\* TemporalVerifyResult.is_safe
IsSafe == phase = "verdict" /\ reports = {}

VerifierTypeOK ==
  /\ phase \in {"add", "built", "verdict"}
  /\ hb \subseteq Indices \X Indices
  /\ reports \subseteq RaceTypes \X Indices \X Indices
=============================================================================
