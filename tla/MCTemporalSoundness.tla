------------------------- MODULE MCTemporalSoundness -------------------------
(***************************************************************************)
(* A menu of operations for TLC: the overlap patterns of tests/ and of     *)
(* docs/verification.md.  A gradient g is reduced into y or into z on two  *)
(* communication streams, y is sent and received, and compute operations   *)
(* read and overwrite the buffers.                                         *)
(***************************************************************************)
EXTENDS TemporalSoundness

Compute(inputs, output) ==
  [kind |-> "Compute", inputs |-> inputs, output |-> output]

AllReduceAsync(x, output, handle, stream) ==
  [kind |-> "AllReduceAsync", inputs |-> {x}, output |-> output,
   handle |-> handle, stream |-> stream]

P2PAsync(kind, x, output, handle, stream) ==
  [kind |-> kind, inputs |-> {x}, output |-> output,
   handle |-> handle, stream |-> stream, route |-> <<0, 1, 0>>]

Wait(handle, tensor, output) ==
  [kind |-> "Wait", inputs |-> {tensor}, output |-> output, handle |-> handle]

WaitAll(handles, tensors, output) ==
  [kind |-> "WaitAll", inputs |-> tensors, output |-> output, handles |-> handles]

Sub(inputs, output, collective) ==
  [inputs |-> inputs, output |-> output, collective |-> collective]

OverlapRegion(compute_ops, comm_ops) ==
  [kind |-> "OverlapRegion", compute_ops |-> compute_ops, comm_ops |-> comm_ops,
   inputs |-> UNION {sub.inputs : sub \in compute_ops \cup comm_ops},
   output |-> "overlap_output"]

MCMenu == {
  Compute({}, "g"),
  Compute({"y"}, "q"),
  Compute({"q"}, "z"),
  AllReduceAsync("g", "y", "h1", "comm"),
  AllReduceAsync("g", "y", "h2", "aux"),
  AllReduceAsync("y", "z", "h2", "comm"),
  Wait("h1", "y", "y"),
  Wait("h2", "y", "y"),
  Wait("h2", "z", "q"),
  WaitAll({"h1", "h2"}, {"y", "z"}, "y")}

MCOverlapMenu == {
  Compute({"y"}, "q"),
  OverlapRegion({Sub({"y"}, "g", FALSE)}, {Sub({"g"}, "y", TRUE)}),
  OverlapRegion({Sub({"g"}, "g", TRUE)}, {Sub({"y"}, "y", TRUE)}),
  P2PAsync("SendAsync", "g", "y", "h1", "comm"),
  P2PAsync("RecvAsync", "y", "z", "h2", "comm"),
  P2PAsync("RecvAsync", "g", "z", "h2", "aux"),
  Wait("h1", "y", "y"),
  Wait("h2", "z", "z")}
MCAll == MCMenu \cup MCOverlapMenu
=============================================================================
