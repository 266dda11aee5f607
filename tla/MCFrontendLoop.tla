---------------------------- MODULE MCFrontendLoop ----------------------------
(***************************************************************************)
(* Two devices; all programs of at most two of seven operations, some with *)
(* one that is unknown or lacks an input, and the tensors of the caller or *)
(* default ones.                                                           *)
(***************************************************************************)
EXTENDS FrontendLoop

MCMesh == [shape |-> [d \in MeshDims |-> 2], device_ids |-> <<0, 1>>]

Dict(type, ins, out, dimkey) ==
  ("type" :> type) @@ ("output" :> out) @@ dimkey @@
  (IF Len(ins) = 2 THEN ("a" :> ins[1]) @@ ("b" :> ins[2]) ELSE "x" :> ins[1])

Product == ("type" :> "MatMul") @@ ("a" :> "x") @@ ("b" :> "w")

MCMenu == {Product, Dict("AllReduce", <<"y">>, "z", << >>),
           Dict("AllReduce", <<"y">>, "y", << >>), Dict("AllGather", <<"x">>, "y", "gather_dim" :> 1),
           Dict("ReduceScatter", <<"x">>, "y", "scatter_dim" :> 1), Dict("Transpose", <<"x">>, "w", << >>), Dict("Transpose", <<"x">>, "x", << >>)}

Unknown == "type" :> "LayerNorm"
Broken  == ("type" :> "MatMul") @@ ("a" :> "x")

Fwds == {<< >>, <<Unknown>>, <<Unknown, Product>>} \cup {<<o>> : o \in MCMenu}
          \cup {<<o, p>> : o, p \in MCMenu}

On(pl) == [d \in MeshDims |-> pl]
Answer(fwd, x, w, bwd) == [json |-> TRUE, fwd_ops |-> fwd, bwd_ops |-> bwd,
                           sharding |-> [n \in {"x", "w"} |-> On(IF n = "x" THEN x ELSE w)]]

MCAnswers ==
  {Answer(<<o>>, "R", "R", << >>) : o \in MCMenu} \cup {Answer(fwd, "S1", "S0", << >>) : fwd \in Fwds}
    \cup {Answer(<<o>>, "S1", "R", <<Broken>>) : o \in MCMenu}
    \cup {Answer(<<Product, Broken>>, "R", "R", << >>), [json |-> FALSE]}

MCDefaultOutput == (<<"MatMul", <<"x", "w">>>> :> "y")

Given(x, w) == [n \in {"x", "w"} |-> IF n = "x" THEN [shape |-> Rows(8, 16), pl |-> On(x)]
                                     ELSE [shape |-> Rows(16, 16), pl |-> On(w)]]

MCTensorStates == {<< >>, Given("S1", "S0")}
MCFreshName    == [n \in {"y"} |-> "y_reduced"]
=============================================================================
