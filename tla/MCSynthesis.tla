----------------------------- MODULE MCSynthesis -----------------------------
(***************************************************************************)
(* Programs for TLC.                                                       *)
(***************************************************************************)
EXTENDS Synthesis

Op(kind, ins, out) ==
  [kind |-> kind, ins |-> ins, out |-> out, dim |-> 0, concat_dim |-> 0, mesh_dim |-> NoDim]

MCMenu == {Op("MatMul", <<"x", "w">>, "y"), Op("MatMul", <<"x", "w">>, "z"),
           Op("MatMul", <<"y", "v">>, "u"), Op("Unary", <<"y">>, "s"),
           Op("Unary", <<"z">>, "t"), Op("Add", <<"y", "z">>, "a"),
           Op("AllReduce", <<"y">>, "r"), Op("AllReduce", <<"s">>, "r"),
           Op("AllReduce", <<"y">>, "y")}

Runnable(p) == \A i \in DOMAIN p :
  ToSet(p[i].ins) \subseteq {"x", "w", "v"} \cup {p[j].out : j \in 1 .. (i - 1)}

\* More products than the search inserts AllReduces for.
FourProducts == [i \in 1 .. 4 |-> Op("MatMul", <<"x", "w">>, CASE i = 1 -> "y" [] i = 2 -> "z"
                                                             [] i = 3 -> "p" [] i = 4 -> "q")]
MCLong == {FourProducts,
           FourProducts \o <<Op("Unary", <<"y">>, "s"), Op("Unary", <<"q">>, "t")>>,
           <<FourProducts[1], Op("Unary", <<"y">>, "s")>> \o SubSeq(FourProducts, 2, 4),
           FourProducts \o <<Op("MatMul", <<"y", "v">>, "u")>>,
           FourProducts \o <<Op("Add", <<"y", "z">>, "a")>>}

MCPrograms == {p \in SeqOf(MCMenu, 4) : p # << >> /\ Runnable(p)} \cup MCLong

Names == {"x", "w", "v", "y", "z", "p", "q", "u", "s", "t", "a", "r"}
MCFreshName == [n \in Names \cup {n \o "_reduced" : n \in Names} |-> n \o "_reduced"]

P1(p) == [d \in {0} |-> p]
MCInputNames == {"x", "w", "v"}
MCInputSpecs ==
  {[n \in {"x", "w"} |-> P1(IF n = "x" THEN a ELSE b)] : a \in {"R", "S1"}, b \in {"S0", "S1"}}
  \cup {[n \in {"x", "w", "v"} |-> P1(IF n = "x" THEN a ELSE IF n = "w" THEN b ELSE c)] :
           a \in {"R", "S1"}, b \in {"S0", "S1"}, c \in {"S0", "S1"}}
=============================================================================
