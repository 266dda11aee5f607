---------------------------- MODULE MCVerifiedRun ----------------------------
(***************************************************************************)
(* The data of the inputs for TLC: matrices with entries of both signs, and*)
(* what the second device holds of an input that is partial.               *)
(***************************************************************************)
EXTENDS VerifiedRun, MCDistributedVerifier

Matrix(a, b, c, d) ==
  [p \in Pairs |-> IF p = <<0, 0>> THEN a ELSE IF p = <<0, 1>> THEN b
                   ELSE IF p = <<1, 0>> THEN c ELSE d]

MCInputValue   == [n \in {"x", "w"} |-> IF n = "x" THEN Matrix(3, -1, 2, 5)
                                        ELSE Matrix(-2, 4, 1, 7)]
MCPartialShare == [n \in {"x", "w"} |-> [dev \in {1} |-> Matrix(-2, -4, 6, 3)]]
=============================================================================
