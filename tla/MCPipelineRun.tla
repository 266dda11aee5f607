---------------------------- MODULE MCPipelineRun ----------------------------
(***************************************************************************)
(* A ring of three stages, so that waits can be circular, and one link     *)
(* back, so that two stages can wait for each other.                       *)
(***************************************************************************)
EXTENDS PipelineRun

MCLinks == {<<0, 1>>, <<1, 2>>, <<2, 0>>, <<1, 0>>}
=============================================================================
