--------------------------- MODULE TemporalProgram ---------------------------
(***************************************************************************)
(* The programs the temporal verifier reads (verifier/ir/program.py,       *)
(* verifier/ir/async_ops.py, verifier/ir/p2p.py): a list of operations,    *)
(* some of which return before they complete.                              *)
(*                                                                         *)
(* An operation is a record.  Its kind is the class of the operation;      *)
(* "Compute" stands for every class that is neither asynchronous nor a     *)
(* wait.  The other fields are those of the class:                         *)
(*   inputs, output          the tensors read and the tensor written       *)
(*   stream, handle          asynchronous communication                    *)
(*   route                   <<src, dst, microbatch_id>> of a send or recv *)
(*   handle / handles        what a Wait / WaitAll waits for               *)
(*   compute_ops, comm_ops   the sides of an OverlapRegion, sets of records*)
(*                           with fields inputs, output and collective     *)
(***************************************************************************)
EXTENDS Integers, Sequences

CONSTANTS
  Menu,            \* the operations programs are made of
  MaxOps,          \* the longest program considered
  Handles,         \* handle names
  NoHandle,        \* None: the operation has no handle
  DEFAULT_STREAM, COMPUTE_STREAM

AsyncComm == {"AllReduceAsync", "SendAsync", "RecvAsync"}

IsAsync(op) == op.kind \in AsyncComm \cup {"OverlapRegion"}
IsSync(op)  == op.kind \in {"Wait", "WaitAll"}

StreamOf(op) == IF op.kind \in AsyncComm THEN op.stream
                ELSE IF op.kind = "OverlapRegion" THEN COMPUTE_STREAM
                ELSE DEFAULT_STREAM

HandleOf(op) == IF op.kind \in AsyncComm THEN op.handle ELSE NoHandle

HandlesWaited(op) == IF op.kind = "Wait" THEN {op.handle}
                     ELSE IF op.kind = "WaitAll" THEN op.handles
                     ELSE {}

SubOps(op) == IF op.kind = "OverlapRegion" THEN op.compute_ops \cup op.comm_ops ELSE {}

\* _classify_access.
Reads(op)    == op.inputs \cup UNION {sub.inputs : sub \in SubOps(op)}
Writes(op)   == {op.output} \cup {sub.output : sub \in SubOps(op)}
Accesses(op) == Reads(op) \cup Writes(op)

\* The operations share a tensor that one of them writes.
Conflict(a, b) == \/ Writes(a) \cap Accesses(b) # {}
                  \/ Accesses(a) \cap Writes(b) # {}

ASSUME HandleAssumption ==
  /\ NoHandle \notin Handles
  /\ MaxOps \in Nat
  /\ \A op \in Menu : /\ HandlesWaited(op) \subseteq Handles
                      /\ op.kind \in AsyncComm => op.handle \in Handles

VARIABLE ops   \* Program.ops

Indices == 1 .. Len(ops)

SameStream(a, b) == StreamOf(ops[a]) = StreamOf(ops[b])

ProgramInit == ops = << >>

\* Program.add
Add(op) == /\ Len(ops) < MaxOps
           /\ ops' = Append(ops, op)

ProgramTypeOK == ops \in Seq(Menu) /\ Len(ops) <= MaxOps
=============================================================================
