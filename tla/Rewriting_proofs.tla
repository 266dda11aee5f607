--------------------------- MODULE Rewriting_proofs ---------------------------
(***************************************************************************)
(* What is proved of the two that rewrite or check whole programs at the   *)
(* level of placements: the synthesis, whose programs are right and the    *)
(* cheapest for every program, input and beam; and the frontend loop, which*)
(* asks the model no more than it has to and returns a right program, for  *)
(* every set of answers, tensors of the caller, mesh and max_iterations.   *)
(*                                                                         *)
(* The synthesis comes first: runs of a program, what an insertion does to *)
(* one, the tactics, the optimizer, the order in which combinations are    *)
(* tried, the invariant and what it says of a call that has ended.         *)
(***************************************************************************)
EXTENDS Synthesis, FrontendLoop, TensorOps_proofs, SequenceTheorems, FiniteSetTheorems

(***************************************************************************)
(* Runs.                                                                   *)
(***************************************************************************)
\* What an operation reads, and whether it is there.
ReadOf(t, o)  == [k \in DOMAIN o.ins |-> t[o.ins[k]]]
Present(t, o) == ToSet(o.ins) \subseteq DOMAIN t

\* The states that run_program goes through.
Passes(strict, p, start, f) ==
  /\ f[0] = [tensors |-> start, raised |-> FALSE]
  /\ \A i \in 1 .. Len(p) : f[i] = RunOp(strict, f[i - 1], p[i])

LEMMA RunPasses ==
  ASSUME NEW strict, NEW p, Len(p) \in Nat, NEW start
  PROVE  \E f : Passes(strict, p, start, f) /\ RunProgram(strict, p, start) = f[Len(p)]
<1> DEFINE s0 == [tensors |-> start, raised |-> FALSE]
           Steps(n, f) == f = [i \in 0 .. n |-> IF i = 0 THEN s0 ELSE RunOp(strict, f[i - 1], p[i])]
           S == {m \in Nat : \E f : Steps(m, f)}
<1>1. 0 \in S
  <2> DEFINE f == [i \in 0 .. 0 |-> s0]
  <2>1. Steps(0, f)
    OBVIOUS
  <2> QED BY <2>1
<1>2. ASSUME NEW m \in Nat, m \in S PROVE m + 1 \in S
  <2> HIDE DEF s0
  <2>1. PICK f : Steps(m, f)
    BY <1>2
  <2> DEFINE g == [i \in 0 .. (m + 1) |-> IF i <= m THEN f[i] ELSE RunOp(strict, f[m], p[m + 1])]
  <2>2. \A i \in 0 .. (m + 1) : g[i] = IF i = 0 THEN s0 ELSE RunOp(strict, g[i - 1], p[i])
    <3> TAKE i \in 0 .. (m + 1)
    <3>1. i <= m => f[i] = IF i = 0 THEN s0 ELSE RunOp(strict, f[i - 1], p[i])
      BY <2>1
    <3> QED BY <3>1
  <2>3. g = [i \in 0 .. (m + 1) |-> g[i]]
    OBVIOUS
  <2> HIDE DEF g
  <2>4. Steps(m + 1, g)
    BY <2>2, <2>3
  <2> QED BY <2>4
<1> HIDE DEF S
<1>3. Nat \subseteq S
  BY <1>1, <1>2, Induction
<1> DEFINE g == CHOOSE f : Steps(Len(p), f)
<1>4. Steps(Len(p), g)
  BY <1>3 DEF S
<1>5. RunProgram(strict, p, start) = g[Len(p)]
  BY DEF RunProgram
<1> HIDE DEF g
<1>6. Passes(strict, p, start, g)
  <2> HIDE DEF s0
  <2>1. \A i \in 0 .. Len(p) : g[i] = IF i = 0 THEN s0 ELSE RunOp(strict, g[i - 1], p[i])
    BY <1>4
  <2>2. g[0] = s0 /\ \A i \in 1 .. Len(p) : g[i] = RunOp(strict, g[i - 1], p[i])
    BY <2>1
  <2> QED BY <2>2 DEF Passes, s0
<1> QED BY <1>5, <1>6

\* Likewise the terms.
TermPasses(p, h) ==
  /\ h[0] = [n \in DOMAIN inputs |-> <<n>>]
  /\ \A i \in 1 .. Len(p) : h[i] = TermOf(h[i - 1], p[i])

LEMMA TermsPass ==
  ASSUME NEW p, Len(p) \in Nat
  PROVE  \E h : TermPasses(p, h) /\ Terms(p) = h[Len(p)]
<1> DEFINE s0 == [n \in DOMAIN inputs |-> <<n>>]
           Steps(n, f) == f = [i \in 0 .. n |-> IF i = 0 THEN s0 ELSE TermOf(f[i - 1], p[i])]
           S == {m \in Nat : \E f : Steps(m, f)}
<1>1. 0 \in S
  <2> HIDE DEF s0
  <2> DEFINE f == [i \in 0 .. 0 |-> s0]
  <2>1. Steps(0, f)
    OBVIOUS
  <2> QED BY <2>1
<1>2. ASSUME NEW m \in Nat, m \in S PROVE m + 1 \in S
  <2> HIDE DEF s0
  <2>1. PICK f : Steps(m, f)
    BY <1>2
  <2> DEFINE g == [i \in 0 .. (m + 1) |-> IF i <= m THEN f[i] ELSE TermOf(f[m], p[m + 1])]
  <2>2. \A i \in 0 .. (m + 1) : g[i] = IF i = 0 THEN s0 ELSE TermOf(g[i - 1], p[i])
    <3> TAKE i \in 0 .. (m + 1)
    <3>1. i <= m => f[i] = IF i = 0 THEN s0 ELSE TermOf(f[i - 1], p[i])
      BY <2>1
    <3> QED BY <3>1
  <2>3. g = [i \in 0 .. (m + 1) |-> g[i]]
    OBVIOUS
  <2> HIDE DEF g
  <2>4. Steps(m + 1, g)
    BY <2>2, <2>3
  <2> QED BY <2>4
<1> HIDE DEF S
<1>3. Nat \subseteq S
  BY <1>1, <1>2, Induction
<1> DEFINE g == CHOOSE f : Steps(Len(p), f)
<1>4. Steps(Len(p), g)
  BY <1>3 DEF S
<1>5. Terms(p) = g[Len(p)]
  BY DEF Terms
<1> HIDE DEF g
<1>6. TermPasses(p, g)
  <2> HIDE DEF s0
  <2>1. \A i \in 0 .. Len(p) : g[i] = IF i = 0 THEN s0 ELSE TermOf(g[i - 1], p[i])
    BY <1>4
  <2> QED BY <2>1 DEF TermPasses, s0
<1> QED BY <1>5, <1>6

-----------------------------------------------------------------------------
\* A step that does not raise, and a run of them: g[i] are the tensors after i
\* operations.
QuietStep(t, o, u) ==
  IF Present(t, o) THEN ~Raises(o, ReadOf(t, o)) /\ u = Put(t, o.out, Apply(o, ReadOf(t, o)))
  ELSE u = t

Quiet(p, start, g) == g[0] = start /\ \A i \in 1 .. Len(p) : QuietStep(g[i - 1], p[i], g[i])

WellShaped(r) == r = [tensors |-> r.tensors, raised |-> r.raised] /\ r.raised \in BOOLEAN

LEMMA StepPasses ==
  ASSUME NEW strict \in BOOLEAN, NEW r, WellShaped(r), NEW o, NEW s, s = RunOp(strict, r, o)
  PROVE  /\ WellShaped(s)
         /\ s.raised = FALSE => r.raised = FALSE
         /\ s.raised = FALSE => QuietStep(r.tensors, o, s.tensors)
         /\ s.raised = FALSE => (strict = FALSE \/ Present(r.tensors, o))
         /\ r.raised = FALSE /\ Present(r.tensors, o) /\ ~Raises(o, ReadOf(r.tensors, o)) =>
              s.raised = FALSE
<1> DEFINE ins == [k \in DOMAIN o.ins |-> r.tensors[o.ins[k]]]
           there == ToSet(o.ins) \subseteq DOMAIN r.tensors
           bad == Raises(o, ins)
           new == Put(r.tensors, o.out, Apply(o, ins))
<1>1. s = IF r.raised THEN r ELSE IF ~there THEN [r EXCEPT !.raised = strict]
          ELSE IF bad THEN [r EXCEPT !.raised = TRUE] ELSE [r EXCEPT !.tensors = new]
  BY DEF RunOp
<1>2. ins = ReadOf(r.tensors, o) /\ there = Present(r.tensors, o)
  BY DEF ReadOf, Present
<1> HIDE DEF ins, there, bad, new
<1>3. CASE r.raised = TRUE
  <2>1. s = r
    BY <1>1, <1>3
  <2> QED BY <2>1, <1>3
<1>4. CASE r.raised = FALSE /\ ~there
  <2>1. s = [r EXCEPT !.raised = strict]
    BY <1>1, <1>4
  <2>2. s.tensors = r.tensors /\ s.raised = strict /\ WellShaped(s)
    BY <2>1 DEF WellShaped
  <2> QED BY <2>2, <1>2, <1>4 DEF QuietStep
<1>5. CASE r.raised = FALSE /\ there /\ bad
  <2>1. s = [r EXCEPT !.raised = TRUE]
    BY <1>1, <1>5
  <2>2. s.raised = TRUE /\ WellShaped(s)
    BY <2>1 DEF WellShaped
  <2> QED BY <2>2, <1>2, <1>5 DEF bad
<1>6. CASE r.raised = FALSE /\ there /\ ~bad
  <2>1. s = [r EXCEPT !.tensors = new]
    BY <1>1, <1>6
  <2>2. s.tensors = new /\ s.raised = FALSE /\ WellShaped(s)
    BY <2>1, <1>6 DEF WellShaped
  <2> QED BY <2>2, <1>2, <1>6 DEF QuietStep, bad, new
<1> QED BY <1>3, <1>4, <1>5, <1>6 DEF WellShaped

\* Every state of a run has tensors and tells whether an exception was raised.
LEMMA PassesShaped ==
  ASSUME NEW strict \in BOOLEAN, NEW p, Len(p) \in Nat, NEW start, NEW f, Passes(strict, p, start, f)
  PROVE  \A i \in 0 .. Len(p) : WellShaped(f[i])
<1> DEFINE S == {i \in Nat : i <= Len(p) => WellShaped(f[i])}
<1>1. 0 \in S
  <2>1. f[0] = [tensors |-> start, raised |-> FALSE]
    BY DEF Passes
  <2>2. WellShaped([tensors |-> start, raised |-> FALSE])
    BY DEF WellShaped
  <2> QED BY <2>1, <2>2
<1>2. ASSUME NEW i \in Nat, i \in S PROVE i + 1 \in S
  <2> SUFFICES ASSUME i + 1 <= Len(p) PROVE WellShaped(f[i + 1])
    OBVIOUS
  <2>1. WellShaped(f[i]) /\ f[i + 1] = RunOp(strict, f[i], p[i + 1])
    BY <1>2 DEF Passes
  <2> QED BY <2>1, StepPasses
<1> HIDE DEF S
<1>3. Nat \subseteq S
  BY <1>1, <1>2, Induction
<1> QED BY <1>3 DEF S

\* A run that has not raised at its end has not raised before.
LEMMA QuietRuns ==
  ASSUME NEW p, Len(p) \in Nat, NEW start, RunProgram(FALSE, p, start).raised = FALSE
  PROVE  \E g : Quiet(p, start, g) /\ RunProgram(FALSE, p, start).tensors = g[Len(p)]
<1>1. PICK f : Passes(FALSE, p, start, f) /\ RunProgram(FALSE, p, start) = f[Len(p)]
  BY RunPasses
<1>2. \A i \in 0 .. Len(p) : WellShaped(f[i])
  BY <1>1, PassesShaped
<1> DEFINE Silent(r) == r.raised = FALSE
<1>4. ASSUME NEW j \in 1 .. Len(p), Silent(f[j]) PROVE Silent(f[j - 1])
  <2>1. j - 1 \in 0 .. Len(p)
    OBVIOUS
  <2>2. WellShaped(f[j - 1]) /\ f[j] = RunOp(FALSE, f[j - 1], p[j])
    BY <2>1, <1>1, <1>2 DEF Passes
  <2> QED BY <2>2, <1>4, StepPasses
<1> HIDE DEF Silent
<1>3. ASSUME NEW i \in 0 .. Len(p), ~Silent(f[i]) PROVE FALSE
  <2> DEFINE S == {j \in Nat : i <= j /\ j <= Len(p) => ~Silent(f[j])}
  <2>1. ASSUME NEW j \in Nat, j \in S PROVE j + 1 \in S
    <3> SUFFICES ASSUME i <= j + 1, j + 1 <= Len(p), i # j + 1 PROVE ~Silent(f[j + 1])
      BY <1>3
    <3>1. ~Silent(f[j]) /\ j \in 0 .. Len(p) /\ j + 1 \in 1 .. Len(p) /\ (j + 1) - 1 = j
      BY <2>1
    <3> QED BY <3>1, <1>4
  <2>2. 0 \in S
    BY <1>3
  <2> HIDE DEF S
  <2>3. Nat \subseteq S
    BY <2>1, <2>2, Induction
  <2>4. Len(p) \in S
    BY <2>3
  <2>5. ~Silent(f[Len(p)])
    BY <2>4 DEF S
  <2> QED BY <2>5, <1>1 DEF Silent
<1> DEFINE g == [i \in 0 .. Len(p) |-> f[i].tensors]
<1>8. g[0] = start
  BY <1>1 DEF Passes
<1>5. ASSUME NEW i \in 1 .. Len(p) PROVE QuietStep(g[i - 1], p[i], g[i])
  <2>1. i - 1 \in 0 .. Len(p) /\ i \in 0 .. Len(p)
    OBVIOUS
  <2>2. WellShaped(f[i - 1]) /\ f[i].raised = FALSE /\ f[i] = RunOp(FALSE, f[i - 1], p[i])
    BY <1>1, <1>2, <1>3, <2>1 DEF Passes, Silent
  <2>3. QuietStep(f[i - 1].tensors, p[i], f[i].tensors)
    BY <2>2, StepPasses
  <2> QED BY <2>1, <2>3
<1>6. Quiet(p, start, g)
  <2> HIDE DEF g
  <2> QED BY <1>8, <1>5 DEF Quiet
<1>7. g[Len(p)] = RunProgram(FALSE, p, start).tensors
  <2>1. Len(p) \in 0 .. Len(p)
    OBVIOUS
  <2> QED BY <2>1, <1>1
<1> HIDE DEF g
<1> QED BY <1>6, <1>7

-----------------------------------------------------------------------------
(***************************************************************************)
(* What a run of either kind does to the names.                            *)
(***************************************************************************)
WriteStep(t, o, u) ==
  IF Present(t, o) THEN /\ DOMAIN u = DOMAIN t \cup {o.out}
                        /\ \A m \in DOMAIN t : m # o.out => u[m] = t[m]
  ELSE u = t

Writing(p, g) == \A i \in 1 .. Len(p) : WriteStep(g[i - 1], p[i], g[i])

IsPut(u, f, n, x) ==
  /\ DOMAIN u = DOMAIN f \cup {n}
  /\ u[n] = x
  /\ \A m \in DOMAIN f : m # n => u[m] = f[m]

LEMMA PutIs == ASSUME NEW f, NEW n, NEW x PROVE IsPut(Put(f, n, x), f, n, x)
BY DEF Put, IsPut

LEMMA PutWrites ==
  ASSUME NEW t, NEW o, NEW x, Present(t, o)
  PROVE  WriteStep(t, o, Put(t, o.out, x))
<1> DEFINE n == o.out
           u == Put(t, n, x)
<1>1. /\ DOMAIN u = DOMAIN t \cup {n}
      /\ \A m \in DOMAIN t : m # n => u[m] = t[m]
  BY DEF Put
<1> HIDE DEF u
<1>2. WriteStep(t, o, u)
  BY <1>1 DEF WriteStep
<1> QED BY <1>2 DEF u

LEMMA QuietWrites == ASSUME NEW p, NEW start, NEW g, Quiet(p, start, g) PROVE Writing(p, g)
<1>1. ASSUME NEW t, NEW o, NEW u, QuietStep(t, o, u) PROVE WriteStep(t, o, u)
  <2>1. CASE Present(t, o)
    <3>1. u = Put(t, o.out, Apply(o, ReadOf(t, o)))
      BY <1>1, <2>1 DEF QuietStep
    <3> QED BY <2>1, <3>1, PutWrites
  <2>2. CASE ~Present(t, o)
    BY <1>1, <2>2 DEF QuietStep, WriteStep
  <2> QED BY <2>1, <2>2
<1> QED BY <1>1 DEF Quiet, Writing

\* What the operation o computes of the terms t.
NewTerm(t, o) == IF o.kind = "AllReduce" THEN t[o.ins[1]] ELSE <<o.kind, o.dim, ReadOf(t, o)>>

LEMMA TermStep ==
  ASSUME NEW t, NEW o
  PROVE  TermOf(t, o) = IF Present(t, o) THEN Put(t, o.out, NewTerm(t, o)) ELSE t
<1> DEFINE read == [k \in DOMAIN o.ins |-> t[o.ins[k]]]
<1>1. TermOf(t, o) = IF ~(ToSet(o.ins) \subseteq DOMAIN t) THEN t
                     ELSE Put(t, o.out, IF o.kind = "AllReduce" THEN t[o.ins[1]]
                                        ELSE <<o.kind, o.dim, read>>)
  BY DEF TermOf
<1>2. read = ReadOf(t, o)
  BY DEF ReadOf
<1> HIDE DEF read
<1> QED BY <1>1, <1>2 DEF Present, NewTerm

LEMMA TermsWrite == ASSUME NEW p, NEW h, TermPasses(p, h) PROVE Writing(p, h)
<1>1. ASSUME NEW t, NEW o PROVE WriteStep(t, o, TermOf(t, o))
  <2>1. CASE Present(t, o)
    <3>1. TermOf(t, o) = Put(t, o.out, NewTerm(t, o))
      BY <2>1, TermStep
    <3> QED BY <2>1, <3>1, PutWrites
  <2>2. CASE ~Present(t, o)
    BY <2>2, TermStep DEF WriteStep
  <2> QED BY <2>1, <2>2
<1> QED BY <1>1 DEF TermPasses, Writing

\* A name that is not written between two points of a run stays as it is, and one
\* that is not there and not written is not there later.
LEMMA Unchanged ==
  ASSUME NEW p, Len(p) \in Nat, NEW g, Writing(p, g),
         NEW i \in 0 .. Len(p), NEW j \in i .. Len(p), NEW n,
         \A k \in (i + 1) .. j : p[k].out # n
  PROVE  /\ n \in DOMAIN g[i] <=> n \in DOMAIN g[j]
         /\ n \in DOMAIN g[i] => g[j][n] = g[i][n]
<1> DEFINE Same(k) == /\ n \in DOMAIN g[i] <=> n \in DOMAIN g[k]
                      /\ n \in DOMAIN g[i] => g[k][n] = g[i][n]
           S == {k \in Nat : i <= k /\ k <= j => Same(k)}
<1>1. 0 \in S
  OBVIOUS
<1>2. ASSUME NEW k \in Nat, k \in S PROVE k + 1 \in S
  <2> SUFFICES ASSUME i <= k + 1, k + 1 <= j PROVE Same(k + 1)
    OBVIOUS
  <2>1. CASE i = k + 1
    BY <2>1
  <2>2. CASE i <= k
    <3>1. Same(k) /\ k + 1 \in 1 .. Len(p) /\ (k + 1) - 1 = k /\ k + 1 \in (i + 1) .. j
      BY <2>2, <1>2
    <3>2. p[k + 1].out # n
      BY <3>1
    <3>3. WriteStep(g[k], p[k + 1], g[k + 1])
      BY <3>1 DEF Writing
    <3> QED BY <3>1, <3>2, <3>3 DEF WriteStep
  <2> QED BY <2>1, <2>2
<1> HIDE DEF S
<1>3. Nat \subseteq S
  BY <1>1, <1>2, Induction
<1> QED BY <1>3 DEF S

\* No name is lost.
LEMMA NothingLost ==
  ASSUME NEW p, Len(p) \in Nat, NEW g, Writing(p, g),
         NEW i \in 0 .. Len(p), NEW j \in i .. Len(p)
  PROVE  DOMAIN g[i] \subseteq DOMAIN g[j]
<1> DEFINE S == {k \in Nat : i <= k /\ k <= j => DOMAIN g[i] \subseteq DOMAIN g[k]}
<1>1. 0 \in S
  OBVIOUS
<1>2. ASSUME NEW k \in Nat, k \in S PROVE k + 1 \in S
  <2> SUFFICES ASSUME i <= k + 1, k + 1 <= j PROVE DOMAIN g[i] \subseteq DOMAIN g[k + 1]
    OBVIOUS
  <2>1. CASE i = k + 1
    BY <2>1
  <2>2. CASE i <= k
    <3>1. DOMAIN g[i] \subseteq DOMAIN g[k] /\ k + 1 \in 1 .. Len(p) /\ (k + 1) - 1 = k
      BY <2>2, <1>2
    <3>2. WriteStep(g[k], p[k + 1], g[k + 1])
      BY <3>1 DEF Writing
    <3> QED BY <3>1, <3>2 DEF WriteStep
  <2> QED BY <2>1, <2>2
<1> HIDE DEF S
<1>3. Nat \subseteq S
  BY <1>1, <1>2, Induction
<1> QED BY <1>3 DEF S

\* Two runs that begin with the same names always have the same names.
LEMMA SameNames ==
  ASSUME NEW p, Len(p) \in Nat, NEW g, Writing(p, g), NEW h, Writing(p, h),
         DOMAIN g[0] = DOMAIN h[0]
  PROVE  \A i \in 0 .. Len(p) : DOMAIN g[i] = DOMAIN h[i]
<1> DEFINE S == {k \in Nat : k <= Len(p) => DOMAIN g[k] = DOMAIN h[k]}
<1>1. 0 \in S
  OBVIOUS
<1>2. ASSUME NEW k \in Nat, k \in S PROVE k + 1 \in S
  <2> SUFFICES ASSUME k + 1 <= Len(p) PROVE DOMAIN g[k + 1] = DOMAIN h[k + 1]
    OBVIOUS
  <2>1. DOMAIN g[k] = DOMAIN h[k] /\ k + 1 \in 1 .. Len(p) /\ (k + 1) - 1 = k
    BY <1>2
  <2>2. Present(g[k], p[k + 1]) <=> Present(h[k], p[k + 1])
    BY <2>1 DEF Present
  <2>3. WriteStep(g[k], p[k + 1], g[k + 1]) /\ WriteStep(h[k], p[k + 1], h[k + 1])
    BY <2>1 DEF Writing
  <2> QED BY <2>1, <2>2, <2>3 DEF WriteStep
<1> HIDE DEF S
<1>3. Nat \subseteq S
  BY <1>1, <1>2, Induction
<1> QED BY <1>3 DEF S
-----------------------------------------------------------------------------
(***************************************************************************)
(* The program given: every operation finds what it reads.                 *)
(***************************************************************************)
Ops == 1 .. Len(base)

Fields == {"kind", "ins", "out", "dim", "concat_dim", "mesh_dim"}

IsProgram(p) == /\ Len(p) \in Nat /\ p = [i \in 1 .. Len(p) |-> p[i]]
                /\ \A i \in 1 .. Len(p) : Fields \subseteq DOMAIN p[i]

LEMMA BasePasses ==
  ASSUME IsProgram(base), ReadsEarlier(base), NEW g, Writing(base, g), DOMAIN g[0] = DOMAIN inputs
  PROVE  /\ \A i \in 0 .. Len(base) : DOMAIN g[i] = DOMAIN inputs \cup {base[k].out : k \in 1 .. i}
         /\ \A i \in Ops : Present(g[i - 1], base[i])
<1> DEFINE Outs(i) == {base[k].out : k \in 1 .. i}
           S == {i \in Nat : i <= Len(base) => DOMAIN g[i] = DOMAIN inputs \cup Outs(i)}
<1>1. DOMAIN base = Ops
  BY DEF IsProgram, Ops
<1>2. ASSUME NEW i \in Ops, DOMAIN g[i - 1] = DOMAIN inputs \cup Outs(i - 1)
      PROVE  Present(g[i - 1], base[i])
  <2> SUFFICES ASSUME NEW n \in ToSet(base[i].ins) PROVE n \in DOMAIN g[i - 1]
    BY DEF Present
  <2>1. n \in DOMAIN inputs \/ \E j \in 1 .. (i - 1) : base[j].out = n
    BY <1>1 DEF ReadsEarlier
  <2> QED BY <2>1, <1>2
<1>3. 0 \in S
  <2>1. Outs(0) = {}
    OBVIOUS
  <2> QED BY <2>1
<1>4. ASSUME NEW i \in Nat, i \in S PROVE i + 1 \in S
  <2> SUFFICES ASSUME i + 1 <= Len(base) PROVE DOMAIN g[i + 1] = DOMAIN inputs \cup Outs(i + 1)
    OBVIOUS
  <2>1. i + 1 \in Ops /\ (i + 1) - 1 = i /\ DOMAIN g[i] = DOMAIN inputs \cup Outs(i)
    BY <1>4 DEF Ops, IsProgram
  <2>2. Present(g[i], base[i + 1])
    BY <2>1, <1>2
  <2>3. WriteStep(g[i], base[i + 1], g[i + 1])
    BY <2>1 DEF Writing, Ops
  <2>4. DOMAIN g[i + 1] = DOMAIN g[i] \cup {base[i + 1].out}
    BY <2>2, <2>3 DEF WriteStep
  <2>5. Outs(i + 1) = Outs(i) \cup {base[i + 1].out}
    <3>1. 1 .. (i + 1) = (1 .. i) \cup {i + 1}
      OBVIOUS
    <3> QED BY <3>1
  <2> HIDE DEF Outs
  <2> QED BY <2>1, <2>4, <2>5
<1> HIDE DEF S
<1>5. Nat \subseteq S
  BY <1>3, <1>4, Induction
<1>6. \A i \in 0 .. Len(base) : DOMAIN g[i] = DOMAIN inputs \cup Outs(i)
  BY <1>5 DEF S
<1>7. \A i \in Ops : i - 1 \in 0 .. Len(base)
  BY DEF Ops, IsProgram
<1> QED BY <1>2, <1>6, <1>7

\* What an operation reads is what it is at the end, and so is what it writes.
LEMMA BaseKept ==
  ASSUME IsProgram(base), SingleAssignment(base), ReadsEarlier(base),
         NEW g, Writing(base, g), DOMAIN g[0] = DOMAIN inputs, NEW T, T = g[Len(base)]
  PROVE  /\ DOMAIN T = DOMAIN inputs \cup WrittenNames(base)
         /\ \A n \in DOMAIN inputs : T[n] = g[0][n]
         /\ \A i \in Ops : /\ T[base[i].out] = g[i][base[i].out]
                           /\ ReadOf(g[i - 1], base[i]) = ReadOf(T, base[i])
<1> DEFINE n == Len(base)
<1>0. n \in Nat /\ DOMAIN base = Ops /\ n \in 0 .. n /\ 0 \in 0 .. n
  BY DEF IsProgram, Ops
<1>1. \A i \in 0 .. n : DOMAIN g[i] = DOMAIN inputs \cup {base[k].out : k \in 1 .. i}
  BY BasePasses
<1>2. DOMAIN T = DOMAIN inputs \cup WrittenNames(base)
  BY <1>0, <1>1 DEF WrittenNames, Ops
<1>3. ASSUME NEW m \in DOMAIN inputs PROVE T[m] = g[0][m]
  <2>1. \A k \in 1 .. n : base[k].out # m
    BY <1>0 DEF SingleAssignment, WrittenNames, Ops
  <2>2. n \in 0 .. n /\ \A k \in (0 + 1) .. n : base[k].out # m
    BY <1>0, <2>1
  <2> QED BY <1>0, <2>2, Unchanged
<1>4. ASSUME NEW i \in Ops PROVE T[base[i].out] = g[i][base[i].out]
  <2>1. \A k \in (i + 1) .. n : base[k].out # base[i].out
    BY <1>0 DEF SingleAssignment, Ops
  <2>2. i \in 0 .. n /\ n \in i .. n /\ base[i].out \in DOMAIN g[i]
    BY <1>0, <1>1 DEF Ops
  <2> QED BY <1>0, <2>1, <2>2, Unchanged
<1>5. ASSUME NEW i \in Ops PROVE ReadOf(g[i - 1], base[i]) = ReadOf(T, base[i])
  <2> SUFFICES ASSUME NEW x \in DOMAIN base[i].ins PROVE g[i - 1][base[i].ins[x]] = T[base[i].ins[x]]
    BY DEF ReadOf
  <2> DEFINE m == base[i].ins[x]
  <2>1. m \in ToSet(base[i].ins)
    BY DEF ToSet
  <2>2. m \in DOMAIN g[i - 1]
    BY <2>1, BasePasses DEF Present
  <2>3. i - 1 \in 0 .. n /\ n \in (i - 1) .. n
    BY <1>0 DEF Ops
  <2>4. ASSUME NEW k \in ((i - 1) + 1) .. n PROVE base[k].out # m
    <3>1. k \in Ops /\ k >= i
      BY <1>0, <2>4 DEF Ops
    <3>2. CASE m \in DOMAIN inputs
      BY <1>0, <3>1, <3>2 DEF SingleAssignment, WrittenNames
    <3>3. CASE m \notin DOMAIN inputs
      <4>1. PICK j \in 1 .. (i - 1) : base[j].out = m
        BY <1>0, <2>1, <3>3 DEF ReadsEarlier
      <4>2. j \in Ops /\ j # k
        BY <1>0, <3>1, <4>1 DEF Ops
      <4> QED BY <1>0, <3>1, <4>1, <4>2 DEF SingleAssignment
    <3> QED BY <3>2, <3>3
  <2> HIDE DEF m
  <2>5. g[n][m] = g[i - 1][m]
    BY <1>0, <2>2, <2>3, <2>4, Unchanged
  <2> QED BY <2>5 DEF m
<1> QED BY <1>2, <1>3, <1>4, <1>5
-----------------------------------------------------------------------------
(***************************************************************************)
(* The programs that the search and the optimizer make of the one given.   *)
(* Operation k of that is operation e[k] of p, and reads what it read or   *)
(* the sum of it; the others are AllReduces of its products.               *)
(***************************************************************************)
SumOf(k)     == FreshName[base[k].out]
Product(k) == base[k].kind = "MatMul"

Similar(o, c) ==
  /\ o.kind = c.kind /\ o.out = c.out /\ o.dim = c.dim
  /\ o.concat_dim = c.concat_dim /\ o.mesh_dim = c.mesh_dim
  /\ DOMAIN o.ins = DOMAIN c.ins
  /\ \A x \in DOMAIN c.ins :
       \/ o.ins[x] = c.ins[x]
       \/ \E k \in Ops : c.ins[x] = base[k].out /\ o.ins[x] = SumOf(k)

Inserted(o) == \E k \in Ops : /\ Product(k)
                              /\ \/ o = AllReduceOp(base[k].out, SumOf(k))
                                 \/ o = AllReduceOp(SumOf(k), SumOf(k))

Embedding(p, e) ==
  /\ IsProgram(p)
  /\ e \in [Ops -> 1 .. Len(p)]
  /\ \A j, k \in Ops : j < k => e[j] < e[k]
  /\ \A k \in Ops : Similar(p[e[k]], base[k])
  /\ \A i \in 1 .. Len(p) : (\E k \in Ops : e[k] = i) \/ Inserted(p[i])

\* What reads a sum reads it after it has been computed.
SumBetween(p, e, j, k) ==
  \E i \in 1 .. Len(p) : e[j] < i /\ i < e[k] /\ p[i] = AllReduceOp(base[j].out, SumOf(j))

ReadsSums(p, e) ==
  \A k \in Ops : \A x \in DOMAIN base[k].ins : \A j \in Ops :
    base[k].ins[x] = base[j].out /\ p[e[k]].ins[x] = SumOf(j) => SumBetween(p, e, j, k)

\* q is p with the AllReduce of the result of operation c inserted after at.
InsertsSum(p, at, c, q) ==
  /\ at \in 1 .. Len(p)
  /\ Len(q) = Len(p) + 1 /\ q = [i \in 1 .. (Len(p) + 1) |-> q[i]]
  /\ \A i \in 1 .. at : q[i] = p[i]
  /\ q[at + 1] = AllReduceOp(base[c].out, SumOf(c))
  /\ \A i \in (at + 1) .. Len(p) :
       \/ q[i + 1] = p[i]
       \/ /\ q[i + 1] = ReadInstead(p[i], base[c].out, SumOf(c))
          /\ \A j \in (at + 1) .. (i - 1) : p[j].out # base[c].out

LEMMA SumFields ==
  ASSUME NEW x, NEW y
  PROVE  LET o == AllReduceOp(x, y)
         IN  /\ Fields \subseteq DOMAIN o
             /\ o.kind = "AllReduce" /\ o.out = y /\ o.mesh_dim = NoDim
             /\ DOMAIN o.ins = {1} /\ o.ins[1] = x
BY DEF AllReduceOp, Fields

LEMMA ReadInsteadIs ==
  ASSUME NEW o, Fields \subseteq DOMAIN o, NEW m, NEW s
  PROVE  LET r == ReadInstead(o, m, s)
         IN  /\ Fields \subseteq DOMAIN r
             /\ r.kind = o.kind /\ r.out = o.out /\ r.dim = o.dim
             /\ r.concat_dim = o.concat_dim /\ r.mesh_dim = o.mesh_dim
             /\ DOMAIN r.ins = DOMAIN o.ins
             /\ \A x \in DOMAIN o.ins : r.ins[x] = IF o.ins[x] = m THEN s ELSE o.ins[x]
<1> DEFINE new == [k \in DOMAIN o.ins |-> IF o.ins[k] = m THEN s ELSE o.ins[k]]
           r == ReadInstead(o, m, s)
<1>1. r = [o EXCEPT !.ins = new]
  BY DEF ReadInstead
<1>2. DOMAIN new = DOMAIN o.ins /\ \A x \in DOMAIN o.ins : new[x] = IF o.ins[x] = m THEN s ELSE o.ins[x]
  OBVIOUS
<1> HIDE DEF new, r
<1>3. /\ Fields \subseteq DOMAIN r /\ r.ins = new
      /\ r.kind = o.kind /\ r.out = o.out /\ r.dim = o.dim
      /\ r.concat_dim = o.concat_dim /\ r.mesh_dim = o.mesh_dim
  BY <1>1 DEF Fields
<1>4. /\ Fields \subseteq DOMAIN r
      /\ r.kind = o.kind /\ r.out = o.out /\ r.dim = o.dim
      /\ r.concat_dim = o.concat_dim /\ r.mesh_dim = o.mesh_dim
      /\ DOMAIN r.ins = DOMAIN o.ins
      /\ \A x \in DOMAIN o.ins : r.ins[x] = IF o.ins[x] = m THEN s ELSE o.ins[x]
  BY <1>2, <1>3
<1> QED BY <1>4 DEF r

\* An AllReduce that reads something else.
LEMMA SumReadsInstead ==
  ASSUME NEW x, NEW y, NEW m, NEW s
  PROVE  ReadInstead(AllReduceOp(x, y), m, s) = AllReduceOp(IF x = m THEN s ELSE x, y)
<1> DEFINE o == AllReduceOp(x, y)
           new == [k \in DOMAIN o.ins |-> IF o.ins[k] = m THEN s ELSE o.ins[k]]
<1>1. ReadInstead(o, m, s) = [o EXCEPT !.ins = new]
  BY DEF ReadInstead
<1>2. o.ins = <<x>>
  BY DEF AllReduceOp
<1>3. new = <<IF x = m THEN s ELSE x>>
  BY <1>2
<1> HIDE DEF new
<1> QED BY <1>1, <1>3 DEF AllReduceOp

\* No two names are the same.
LEMMA NamesApart ==
  ASSUME IsProgram(base), SingleAssignment(base), SumsApart(base)
  PROVE  \A j, k \in Ops :
           /\ base[j].out = base[k].out => j = k
           /\ SumOf(j) = SumOf(k) => j = k
           /\ SumOf(j) # base[k].out
           /\ SumOf(j) \notin DOMAIN inputs /\ base[j].out \notin DOMAIN inputs
<1>1. DOMAIN base = Ops
  BY DEF IsProgram, Ops
<1>2. \A k \in Ops : base[k].out \in WrittenNames(base)
  BY <1>1 DEF WrittenNames
<1>3. \A j, k \in Ops : base[j].out = base[k].out => j = k
  BY <1>1 DEF SingleAssignment
<1>4. \A j \in Ops : base[j].out \notin DOMAIN inputs
  BY <1>2 DEF SingleAssignment
<1> QED BY <1>2, <1>3, <1>4 DEF SumsApart, SumOf

\* An operation that reads the result of another comes after it.
LEMMA WrittenBefore ==
  ASSUME IsProgram(base), SingleAssignment(base), ReadsEarlier(base),
         NEW j \in Ops, NEW k \in Ops, NEW x \in DOMAIN base[k].ins, base[k].ins[x] = base[j].out
  PROVE  j < k
<1>1. DOMAIN base = Ops /\ Ops \subseteq Nat
  BY DEF IsProgram, Ops
<1>2. base[j].out \in ToSet(base[k].ins)
  BY DEF ToSet
<1>3. base[j].out \notin DOMAIN inputs
  BY <1>1 DEF SingleAssignment, WrittenNames
<1>4. PICK i \in 1 .. (k - 1) : base[i].out = base[j].out
  BY <1>1, <1>2, <1>3 DEF ReadsEarlier
<1>5. i \in Ops /\ i < k
  BY <1>1, <1>4 DEF Ops, IsProgram
<1> QED BY <1>1, <1>4, <1>5 DEF SingleAssignment

\* The place of each operation after the insertion.
Place(i, at) == IF i <= at THEN i ELSE i + 1
Moved(e, at) == [k \in Ops |-> Place(e[k], at)]

LEMMA InsertKeepsSimilar ==
  ASSUME IsProgram(base), SingleAssignment(base), SumsApart(base),
         NEW o, Fields \subseteq DOMAIN o, NEW k \in Ops, Similar(o, base[k]), NEW c \in Ops
  PROVE  Similar(ReadInstead(o, base[c].out, SumOf(c)), base[k])
<1> DEFINE r == ReadInstead(o, base[c].out, SumOf(c))
<1>1. /\ r.kind = o.kind /\ r.out = o.out /\ r.dim = o.dim
      /\ r.concat_dim = o.concat_dim /\ r.mesh_dim = o.mesh_dim
      /\ DOMAIN r.ins = DOMAIN o.ins
      /\ \A x \in DOMAIN o.ins : r.ins[x] = IF o.ins[x] = base[c].out THEN SumOf(c) ELSE o.ins[x]
  BY ReadInsteadIs
<1> HIDE DEF r
<1>2. ASSUME NEW x \in DOMAIN base[k].ins
      PROVE  \/ r.ins[x] = base[k].ins[x]
             \/ \E j \in Ops : base[k].ins[x] = base[j].out /\ r.ins[x] = SumOf(j)
  <2>1. x \in DOMAIN o.ins
    BY DEF Similar
  <2>2. CASE o.ins[x] = base[k].ins[x]
    BY <1>1, <2>1, <2>2
  <2>3. CASE \E j \in Ops : base[k].ins[x] = base[j].out /\ o.ins[x] = SumOf(j)
    <3>1. PICK j \in Ops : base[k].ins[x] = base[j].out /\ o.ins[x] = SumOf(j)
      BY <2>3
    <3>2. o.ins[x] # base[c].out
      BY <3>1, NamesApart
    <3> QED BY <1>1, <2>1, <3>1, <3>2
  <2> QED BY <2>2, <2>3 DEF Similar
<1>3. Similar(r, base[k])
  BY <1>1, <1>2 DEF Similar
<1> QED BY <1>3 DEF r

LEMMA InsertKeepsInserted ==
  ASSUME IsProgram(base), SingleAssignment(base), SumsApart(base),
         NEW o, Inserted(o), NEW c \in Ops
  PROVE  Inserted(ReadInstead(o, base[c].out, SumOf(c)))
<1>1. PICK k \in Ops : /\ Product(k)
                       /\ \/ o = AllReduceOp(base[k].out, SumOf(k))
                          \/ o = AllReduceOp(SumOf(k), SumOf(k))
  BY DEF Inserted
<1> DEFINE r == ReadInstead(o, base[c].out, SumOf(c))
<1>2. CASE o = AllReduceOp(base[k].out, SumOf(k))
  <2>1. r = AllReduceOp(IF base[k].out = base[c].out THEN SumOf(c) ELSE base[k].out, SumOf(k))
    BY <1>2, SumReadsInstead
  <2>2. r = AllReduceOp(base[k].out, SumOf(k)) \/ r = AllReduceOp(SumOf(k), SumOf(k))
    BY <2>1, NamesApart
  <2> QED BY <1>1, <2>2 DEF Inserted
<1>3. CASE o = AllReduceOp(SumOf(k), SumOf(k))
  <2>1. r = AllReduceOp(IF SumOf(k) = base[c].out THEN SumOf(c) ELSE SumOf(k), SumOf(k))
    BY <1>3, SumReadsInstead
  <2>2. r = AllReduceOp(SumOf(k), SumOf(k))
    BY <2>1, NamesApart
  <2> QED BY <1>1, <2>2 DEF Inserted
<1> QED BY <1>1, <1>2, <1>3

\* What the insertion makes of each operation.
LEMMA PlacedAt ==
  ASSUME NEW p, IsProgram(p), NEW at, NEW c, NEW q, InsertsSum(p, at, c, q), NEW i \in 1 .. Len(p)
  PROVE  \/ q[Place(i, at)] = p[i]
         \/ i > at /\ q[Place(i, at)] = ReadInstead(p[i], base[c].out, SumOf(c))
<1>1. Len(p) \in Nat /\ at \in 1 .. Len(p)
  BY DEF IsProgram, InsertsSum
<1>2. CASE i <= at
  <2>1. i \in 1 .. at /\ Place(i, at) = i
    BY <1>1, <1>2 DEF Place
  <2> QED BY <2>1 DEF InsertsSum
<1>3. CASE i > at
  <2>1. i \in (at + 1) .. Len(p) /\ Place(i, at) = i + 1
    BY <1>1, <1>3 DEF Place
  <2>2. q[i + 1] = p[i] \/ q[i + 1] = ReadInstead(p[i], base[c].out, SumOf(c))
    BY <2>1 DEF InsertsSum
  <2> QED BY <1>3, <2>1, <2>2
<1> QED BY <1>1, <1>2, <1>3

LEMMA FromPlace ==
  ASSUME NEW p, IsProgram(p), NEW at, NEW c, NEW q, InsertsSum(p, at, c, q),
         NEW i \in 1 .. Len(q), i # at + 1
  PROVE  \E j \in 1 .. Len(p) : i = Place(j, at)
<1>1. Len(p) \in Nat /\ Len(q) = Len(p) + 1 /\ at \in 1 .. Len(p)
  BY DEF IsProgram, InsertsSum
<1>2. CASE i <= at
  <2>1. i \in 1 .. Len(p) /\ i = Place(i, at)
    BY <1>1, <1>2 DEF Place
  <2> QED BY <2>1
<1>3. CASE i > at + 1
  <2>1. i - 1 \in 1 .. Len(p) /\ i = Place(i - 1, at)
    BY <1>1, <1>3 DEF Place
  <2> QED BY <2>1
<1> QED BY <1>1, <1>2, <1>3

LEMMA InsertedAt ==
  ASSUME NEW p, IsProgram(p), NEW at, NEW c \in Ops, NEW q, InsertsSum(p, at, c, q)
  PROVE  /\ IsProgram(q) /\ Len(q) = Len(p) + 1 /\ at \in Nat
         /\ \A i \in 1 .. Len(p) :
              \/ q[Place(i, at)] = p[i]
              \/ i > at /\ q[Place(i, at)] = ReadInstead(p[i], base[c].out, SumOf(c))
         /\ \A i \in 1 .. Len(q) : \/ i = at + 1
                                   \/ \E j \in 1 .. Len(p) : i = Place(j, at)
<1>1. Len(p) \in Nat /\ Len(q) = Len(p) + 1 /\ at \in 1 .. Len(p)
  BY DEF IsProgram, InsertsSum
<1>2. \A i \in 1 .. Len(p) :
        \/ q[Place(i, at)] = p[i]
        \/ i > at /\ q[Place(i, at)] = ReadInstead(p[i], base[c].out, SumOf(c))
  BY PlacedAt
<1>3. \A i \in 1 .. Len(q) : i # at + 1 => \E j \in 1 .. Len(p) : i = Place(j, at)
  BY FromPlace
<1>4. ASSUME NEW i \in 1 .. Len(q) PROVE Fields \subseteq DOMAIN q[i]
  <2>1. CASE i = at + 1
    <3>1. q[i] = AllReduceOp(base[c].out, SumOf(c))
      BY <2>1 DEF InsertsSum
    <3> QED BY <3>1, SumFields
  <2>2. CASE i # at + 1
    <3>1. PICK j \in 1 .. Len(p) : i = Place(j, at)
      BY <1>3, <2>2
    <3>2. q[i] = p[j] \/ q[i] = ReadInstead(p[j], base[c].out, SumOf(c))
      BY <1>2, <3>1
    <3>3. Fields \subseteq DOMAIN p[j]
      BY DEF IsProgram
    <3> QED BY <3>2, <3>3, ReadInsteadIs
  <2> QED BY <2>1, <2>2
<1>5. IsProgram(q)
  BY <1>1, <1>4 DEF IsProgram, InsertsSum
<1> QED BY <1>1, <1>2, <1>3, <1>5

LEMMA InsertEmbeds ==
  ASSUME IsProgram(base), SingleAssignment(base), SumsApart(base),
         NEW p, NEW e, Embedding(p, e), NEW at, NEW c \in Ops, Product(c), NEW q, InsertsSum(p, at, c, q)
  PROVE  Embedding(q, Moved(e, at))
<1> DEFINE m == Moved(e, at)
           ReadsSum(i) == ReadInstead(p[i], base[c].out, SumOf(c))
<1>1. /\ IsProgram(p) /\ IsProgram(q) /\ Len(p) \in Nat /\ Len(q) = Len(p) + 1 /\ at \in 1 .. Len(p)
      /\ e \in [Ops -> 1 .. Len(p)]
  <2>1. IsProgram(p) /\ e \in [Ops -> 1 .. Len(p)]
    BY DEF Embedding
  <2>2. IsProgram(q) /\ Len(q) = Len(p) + 1
    BY <2>1, InsertedAt
  <2>3. at \in 1 .. Len(p) /\ Len(p) \in Nat
    BY <2>1 DEF InsertsSum, IsProgram
  <2> QED BY <2>1, <2>2, <2>3
<1>0. /\ \A i \in 1 .. Len(p) : q[Place(i, at)] = p[i] \/ q[Place(i, at)] = ReadsSum(i)
      /\ \A i \in 1 .. Len(q) : i = at + 1 \/ \E j \in 1 .. Len(p) : i = Place(j, at)
  <2>1. ASSUME NEW i \in 1 .. Len(p)
        PROVE  q[Place(i, at)] = p[i] \/ q[Place(i, at)] = ReadsSum(i)
    BY <1>1, PlacedAt
  <2>2. \A i \in 1 .. Len(q) : i # at + 1 => \E j \in 1 .. Len(p) : i = Place(j, at)
    BY <1>1, FromPlace
  <2> QED BY <2>1, <2>2
<1>2. \A k \in Ops : m[k] = Place(e[k], at)
  BY DEF Moved
<1>3. m \in [Ops -> 1 .. Len(q)]
  <2>1. \A k \in Ops : Place(e[k], at) \in 1 .. Len(q)
    BY <1>1 DEF Place
  <2> QED BY <2>1 DEF Moved
<1>4. ASSUME NEW j \in Ops, NEW k \in Ops, j < k PROVE m[j] < m[k]
  <2>1. e[j] < e[k] /\ e[j] \in 1 .. Len(p) /\ e[k] \in 1 .. Len(p)
    BY <1>1, <1>4 DEF Embedding
  <2> QED BY <1>1, <1>2, <2>1 DEF Place
<1> HIDE DEF m
<1>5. ASSUME NEW k \in Ops PROVE Similar(q[m[k]], base[k])
  <2>1. e[k] \in 1 .. Len(p) /\ Similar(p[e[k]], base[k]) /\ Fields \subseteq DOMAIN p[e[k]]
    BY <1>1 DEF Embedding, IsProgram
  <2>2. q[m[k]] = p[e[k]] \/ q[m[k]] = ReadsSum(e[k])
    <3>1. m[k] = Place(e[k], at)
      BY <1>2
    <3>2. \/ q[Place(e[k], at)] = p[e[k]]
          \/ q[Place(e[k], at)] = ReadsSum(e[k])
      BY <1>1, <2>1, PlacedAt
    <3> QED BY <2>1, <3>1, <3>2
  <2>3. Similar(ReadsSum(e[k]), base[k])
    BY <2>1, InsertKeepsSimilar
  <2> QED BY <2>1, <2>2, <2>3
<1>6. ASSUME NEW i \in 1 .. Len(q) PROVE (\E k \in Ops : m[k] = i) \/ Inserted(q[i])
  <2>1. CASE i = at + 1
    <3>1. q[i] = AllReduceOp(base[c].out, SumOf(c))
      BY <2>1 DEF InsertsSum
    <3> QED BY <3>1 DEF Inserted
  <2>2. CASE i # at + 1
    <3>1. PICK j \in 1 .. Len(p) : i = Place(j, at)
      BY <1>0, <2>2
    <3>2. q[i] = p[j] \/ q[i] = ReadsSum(j)
      BY <1>0, <3>1
    <3>3. CASE \E k \in Ops : e[k] = j
      BY <1>2, <3>1, <3>3
    <3>4. CASE Inserted(p[j])
      <4>1. Inserted(ReadsSum(j))
        BY <3>4, InsertKeepsInserted
      <4> QED BY <3>2, <3>4, <4>1
    <3> QED BY <3>3, <3>4 DEF Embedding
  <2> QED BY <2>1, <2>2
<1>7. Embedding(q, m)
  BY <1>1, <1>3, <1>4, <1>5, <1>6 DEF Embedding
<1> QED BY <1>7 DEF m

LEMMA InsertReadsSums ==
  ASSUME IsProgram(base), SingleAssignment(base), ReadsEarlier(base), SumsApart(base),
         NEW p, NEW e, Embedding(p, e), ReadsSums(p, e),
         NEW at, NEW c \in Ops, NEW q, InsertsSum(p, at, c, q)
  PROVE  ReadsSums(q, Moved(e, at))
<1> DEFINE m == Moved(e, at)
           ReadsSum(i) == ReadInstead(p[i], base[c].out, SumOf(c))
<1>1. /\ IsProgram(p) /\ Len(p) \in Nat /\ Len(q) = Len(p) + 1 /\ at \in 1 .. Len(p)
      /\ e \in [Ops -> 1 .. Len(p)]
  <2>1. IsProgram(p) /\ e \in [Ops -> 1 .. Len(p)]
    BY DEF Embedding
  <2>2. IsProgram(q) /\ Len(q) = Len(p) + 1
    BY <2>1, InsertedAt
  <2>3. at \in 1 .. Len(p) /\ Len(p) \in Nat
    BY <2>1 DEF InsertsSum, IsProgram
  <2> QED BY <2>1, <2>2, <2>3
<1>2. \A k \in Ops : m[k] = Place(e[k], at)
  BY DEF Moved
<1> HIDE DEF m
<1>3. SUFFICES ASSUME NEW k \in Ops, NEW x \in DOMAIN base[k].ins, NEW j \in Ops,
                      base[k].ins[x] = base[j].out, q[m[k]].ins[x] = SumOf(j)
               PROVE  SumBetween(q, m, j, k)
  BY DEF ReadsSums, m
<1>4. e[j] \in 1 .. Len(p) /\ e[k] \in 1 .. Len(p) /\ e[j] < e[k]
  BY <1>1, <1>3, WrittenBefore DEF Embedding
<1>5. ASSUME e[k] > at, e[j] <= at, c = j PROVE SumBetween(q, m, j, k)
  <2>1. /\ m[j] = e[j] /\ m[k] = e[k] + 1 /\ at + 1 \in 1 .. Len(q)
        /\ m[j] < at + 1 /\ at + 1 < m[k]
    BY <1>1, <1>2, <1>4, <1>5 DEF Place
  <2>2. q[at + 1] = AllReduceOp(base[j].out, SumOf(j))
    BY <1>5 DEF InsertsSum
  <2> QED BY <2>1, <2>2 DEF SumBetween
<1>6. ASSUME NEW i \in (at + 1) .. Len(p), e[j] < i, c = j, q[i + 1] # p[i] PROVE e[j] <= at
  <2>1. \A l \in (at + 1) .. (i - 1) : p[l].out # base[c].out
    BY <1>6 DEF InsertsSum
  <2>2. p[e[j]].out = base[j].out
    BY DEF Embedding, Similar
  <2> QED BY <1>1, <1>4, <1>6, <2>1, <2>2
<1>7. CASE p[e[k]].ins[x] = SumOf(j)
  <2>1. PICK i \in 1 .. Len(p) : e[j] < i /\ i < e[k] /\ p[i] = AllReduceOp(base[j].out, SumOf(j))
    BY <1>3, <1>7 DEF ReadsSums, SumBetween
  <2>2. CASE i <= at
    <3>1. i \in 1 .. at /\ i \in 1 .. Len(q) /\ m[j] < i /\ i < m[k]
      BY <1>1, <1>2, <1>4, <2>1, <2>2 DEF Place
    <3>2. q[i] = p[i]
      BY <3>1 DEF InsertsSum
    <3> QED BY <2>1, <3>1, <3>2 DEF SumBetween
  <2>3. CASE i > at /\ q[i + 1] = p[i]
    <3>1. i + 1 \in 1 .. Len(q) /\ m[j] < i + 1 /\ i + 1 < m[k]
      BY <1>1, <1>2, <1>4, <2>1, <2>3 DEF Place
    <3> QED BY <2>1, <2>3, <3>1 DEF SumBetween
  <2>4. CASE i > at /\ q[i + 1] # p[i]
    <3>1. i \in (at + 1) .. Len(p)
      BY <1>1, <2>4
    <3>2. q[i + 1] = ReadsSum(i)
      BY <2>4, <3>1 DEF InsertsSum
    <3>3. q[i + 1] = AllReduceOp(IF base[j].out = base[c].out THEN SumOf(c) ELSE base[j].out, SumOf(j))
      BY <2>1, <3>2, SumReadsInstead
    <3>4. c = j
      BY <2>1, <2>4, <3>3, NamesApart
    <3>5. e[j] <= at /\ e[k] > at
      BY <1>1, <1>4, <1>6, <2>1, <2>4, <3>1, <3>4
    <3> QED BY <1>5, <3>4, <3>5
  <2> QED BY <1>1, <2>2, <2>3, <2>4
<1>8. CASE p[e[k]].ins[x] # SumOf(j)
  <2>1. q[m[k]] # p[e[k]]
    BY <1>3, <1>8
  <2>2. e[k] > at /\ q[m[k]] = ReadsSum(e[k])
    <3>1. m[k] = Place(e[k], at)
      BY <1>2
    <3>2. \/ q[Place(e[k], at)] = p[e[k]]
          \/ e[k] > at /\ q[Place(e[k], at)] = ReadsSum(e[k])
      BY <1>1, <1>4, PlacedAt
    <3> QED BY <1>4, <2>1, <3>1, <3>2
  <2>3. e[k] \in (at + 1) .. Len(p) /\ m[k] = e[k] + 1
    BY <1>1, <1>2, <1>4, <2>2 DEF Place
  <2>4. Fields \subseteq DOMAIN p[e[k]] /\ DOMAIN p[e[k]].ins = DOMAIN base[k].ins
    BY <1>1, <1>4 DEF IsProgram, Embedding, Similar
  <2>5. q[m[k]].ins[x] = IF p[e[k]].ins[x] = base[c].out THEN SumOf(c) ELSE p[e[k]].ins[x]
    BY <2>2, <2>4, ReadInsteadIs
  <2>6. c = j
    BY <1>3, <1>8, <2>5, NamesApart
  <2>7. e[j] <= at
    BY <1>4, <1>6, <2>1, <2>3, <2>6
  <2> QED BY <1>5, <2>2, <2>6, <2>7
<1> QED BY <1>7, <1>8
-----------------------------------------------------------------------------
\* What an insertion makes, piece by piece.
Pieces(p, at, o, f) == SubSeq(p, 1, at) \o <<o>> \o f
From1(f, n) == f = [j \in 1 .. n |-> f[j]]
InPieces(p, at, o, f, q) ==
  /\ Len(q) = Len(p) + 1 /\ q = [i \in 1 .. (Len(p) + 1) |-> q[i]]
  /\ \A i \in 1 .. at : q[i] = p[i]
  /\ q[at + 1] = o
  /\ \A i \in (at + 1) .. Len(p) : q[i + 1] = f[i - at]

LEMMA Spliced ==
  ASSUME NEW p, IsProgram(p), NEW at \in 1 .. Len(p), NEW o,
         NEW f, From1(f, Len(p) - at),
         NEW q, q = Pieces(p, at, o, f)
  PROVE  InPieces(p, at, o, f, q)
<1> DEFINE S == {p[i] : i \in 1 .. Len(p)} \cup {o} \cup {f[j] : j \in 1 .. (Len(p) - at)}
           n == Len(p)
<1>1. n \in Nat /\ p \in [1 .. n -> S]
  BY DEF IsProgram
<1>2. p \in Seq(S)
  BY <1>1, SeqDef
<1>3. f \in [1 .. (n - at) -> S] /\ n - at \in Nat
  BY <1>1 DEF From1
<1>4. f \in Seq(S) /\ Len(f) = n - at
  <2>1. f \in Seq(S)
    BY <1>3, SeqDef
  <2>2. DOMAIN f = 1 .. (n - at)
    BY <1>3
  <2>3. DOMAIN f = 1 .. Len(f) /\ Len(f) \in Nat
    BY <2>1, LenProperties
  <2> QED BY <1>3, <2>1, <2>2, <2>3
<1> DEFINE a == SubSeq(p, 1, at)
           b == a \o <<o>>
<1> HIDE DEF S
<1>5. o \in S
  BY DEF S
<1>6. a \in Seq(S) /\ Len(a) = at /\ \A i \in 1 .. at : a[i] = p[i]
  BY <1>1, <1>2, SubSeqProperties
<1>7. <<o>> \in Seq(S) /\ Len(<<o>>) = 1 /\ <<o>>[1] = o
  BY <1>5
<1> HIDE DEF a
<1>8. b \in Seq(S) /\ Len(b) = at + 1 /\ \A i \in 1 .. (at + 1) : b[i] = IF i <= at THEN a[i] ELSE o
  <2>1. b \in Seq(S) /\ Len(b) = Len(a) + Len(<<o>>)
    BY <1>6, <1>7, ConcatProperties
  <2>2. \A i \in 1 .. Len(a) + Len(<<o>>) : b[i] = IF i <= Len(a) THEN a[i] ELSE <<o>>[i - Len(a)]
    BY <1>6, <1>7, ConcatProperties
  <2> QED BY <1>1, <1>6, <1>7, <2>1, <2>2
<1> HIDE DEF b
<1>9. q = b \o f
  BY DEF a, b, Pieces
<1>10. q \in Seq(S) /\ Len(q) = Len(b) + Len(f)
       /\ \A i \in 1 .. Len(b) + Len(f) : q[i] = IF i <= Len(b) THEN b[i] ELSE f[i - Len(b)]
  <2>1. b \in Seq(S) /\ f \in Seq(S)
    BY <1>4, <1>8
  <2> QED BY <1>9, <2>1, ConcatProperties
<1>16. Len(b) = at + 1 /\ Len(b) + Len(f) = n + 1
  BY <1>1, <1>4, <1>8
<1>11. Len(q) = n + 1 /\ \A i \in 1 .. (n + 1) : q[i] = IF i <= at + 1 THEN b[i] ELSE f[i - (at + 1)]
  BY <1>10, <1>16
<1>12. q = [i \in 1 .. (n + 1) |-> q[i]]
  BY <1>10, <1>11, LenProperties
<1>13. \A i \in 1 .. at : q[i] = p[i]
  BY <1>1, <1>6, <1>8, <1>11
<1>14. q[at + 1] = o
  BY <1>1, <1>8, <1>11
<1>15. ASSUME NEW i \in (at + 1) .. n PROVE q[i + 1] = f[i - at]
  <2>1. i + 1 \in 1 .. (n + 1) /\ ~(i + 1 <= at + 1) /\ (i + 1) - (at + 1) = i - at
    BY <1>1
  <2> QED BY <1>11, <2>1
<1> QED BY <1>11, <1>12, <1>13, <1>14, <1>15 DEF InPieces

\* A tactic for the result of operation c inserts its sum.
LEMMA TacticInserts ==
  ASSUME NEW p, IsProgram(p), NEW t, t.at \in 1 .. Len(p), NEW c, t.name = base[c].out
  PROVE  InsertsSum(p, t.at, c, ApplyTactic(p, t))
<1> DEFINE Written(i) == \E j \in (t.at + 1) .. (i - 1) : p[j].out = t.name
           f == [j \in 1 .. (Len(p) - t.at) |->
                   LET o == p[t.at + j]
                   IN  IF Written(t.at + j) THEN o ELSE ReadInstead(o, t.name, FreshName[t.name])]
           q == ApplyTactic(p, t)
           at == t.at
<1>1. at \in 1 .. Len(p) /\ Len(p) \in Nat /\ (IF at < Len(p) THEN at ELSE Len(p)) = at
  BY DEF IsProgram
<1>2. q = Pieces(p, at, AllReduceOp(base[c].out, SumOf(c)), f)
  BY <1>1 DEF ApplyTactic, SumOf, Pieces
<1>3. From1(f, Len(p) - at)
  BY DEF From1
<1>4. ASSUME NEW i \in (at + 1) .. Len(p)
      PROVE  f[i - at] = IF Written(i) THEN p[i] ELSE ReadInstead(p[i], base[c].out, SumOf(c))
  <2>1. i - at \in 1 .. (Len(p) - at) /\ at + (i - at) = i
    BY <1>1
  <2> QED BY <2>1 DEF SumOf
<1> HIDE DEF f, q
<1>5. InPieces(p, at, AllReduceOp(base[c].out, SumOf(c)), f, q)
  BY <1>1, <1>2, <1>3, Spliced
<1>6. ASSUME NEW i \in (at + 1) .. Len(p)
      PROVE  \/ q[i + 1] = p[i]
             \/ /\ q[i + 1] = ReadInstead(p[i], base[c].out, SumOf(c))
                /\ \A j \in (at + 1) .. (i - 1) : p[j].out # base[c].out
  BY <1>4, <1>5 DEF InPieces
<1>7. InsertsSum(p, at, c, q)
  BY <1>1, <1>5, <1>6 DEF InsertsSum, InPieces
<1> QED BY <1>7 DEF q

\* So does the insertion after an operation that is the last to write its result.
LEMMA RuleInserts ==
  ASSUME NEW p, IsProgram(p), NEW i \in 1 .. Len(p), NEW c, p[i].out = base[c].out,
         \A j \in (i + 1) .. Len(p) : p[j].out # base[c].out
  PROVE  /\ InsertsSum(p, i, c, InsertAllReduce(p, i))
         /\ \A j \in (i + 1) .. Len(p) :
              InsertAllReduce(p, i)[j + 1] = ReadInstead(p[j], base[c].out, SumOf(c))
<1> DEFINE f == [j \in 1 .. (Len(p) - i) |-> ReadInstead(p[i + j], base[c].out, SumOf(c))]
           q == InsertAllReduce(p, i)
<1>1. Len(p) \in Nat
  BY DEF IsProgram
<1>2. q = Pieces(p, i, AllReduceOp(base[c].out, SumOf(c)), f)
  BY DEF InsertAllReduce, SumOf, Pieces
<1>3. From1(f, Len(p) - i)
  BY DEF From1
<1>4. ASSUME NEW j \in (i + 1) .. Len(p) PROVE f[j - i] = ReadInstead(p[j], base[c].out, SumOf(c))
  <2>1. j - i \in 1 .. (Len(p) - i) /\ i + (j - i) = j
    BY <1>1
  <2> QED BY <2>1
<1> HIDE DEF f, q
<1>5. InPieces(p, i, AllReduceOp(base[c].out, SumOf(c)), f, q)
  BY <1>2, <1>3, Spliced
<1>6. \A j \in (i + 1) .. Len(p) : q[j + 1] = ReadInstead(p[j], base[c].out, SumOf(c))
  BY <1>4, <1>5 DEF InPieces
<1>7. ASSUME NEW j \in (i + 1) .. Len(p), NEW k \in (i + 1) .. (j - 1) PROVE p[k].out # base[c].out
  BY <1>1
<1>8. InsertsSum(p, i, c, q)
  BY <1>5, <1>6, <1>7 DEF InsertsSum, InPieces
<1> QED BY <1>6, <1>8 DEF q
-----------------------------------------------------------------------------
(***************************************************************************)
(* The names there are when i operations of such a program have run: the   *)
(* results of those of the given program among them, and sums only of them.*)
(***************************************************************************)
Rewrites(p, e) == Embedding(p, e) /\ ReadsSums(p, e)

Tracks(p, e, t, i) ==
  /\ DOMAIN inputs \subseteq DOMAIN t
  /\ \A k \in Ops : base[k].out \in DOMAIN t <=> e[k] <= i
  /\ \A k \in Ops : SumOf(k) \in DOMAIN t => e[k] <= i
  /\ \A k \in Ops : \A j \in 1 .. i :
       e[k] < j /\ p[j] = AllReduceOp(base[k].out, SumOf(k)) => SumOf(k) \in DOMAIN t
  /\ \A m \in DOMAIN t : m \in DOMAIN inputs \/ \E k \in Ops : m \in {base[k].out, SumOf(k)}

\* What an operation of the given program reads is there, under its name or as the sum.
LEMMA ReadsThere ==
  ASSUME IsProgram(base), WellFormed, NEW p, NEW e, Rewrites(p, e),
         NEW i \in Nat, i + 1 \in 1 .. Len(p), NEW t, Tracks(p, e, t, i),
         NEW k \in Ops, e[k] = i + 1, NEW x \in DOMAIN base[k].ins
  PROVE  /\ x \in DOMAIN p[i + 1].ins /\ p[i + 1].ins[x] \in DOMAIN t
         /\ \/ base[k].ins[x] \in DOMAIN inputs /\ p[i + 1].ins[x] = base[k].ins[x]
            \/ \E j \in Ops : /\ base[k].ins[x] = base[j].out /\ j < k /\ e[j] <= i
                              /\ p[i + 1].ins[x] \in {base[j].out, SumOf(j)}
<1>0. /\ SingleAssignment(base) /\ ReadsEarlier(base) /\ SumsApart(base)
      /\ Embedding(p, e) /\ ReadsSums(p, e) /\ DOMAIN base = Ops
  BY DEF WellFormed, Rewrites, IsProgram, Ops
<1>1. Similar(p[i + 1], base[k])
  BY <1>0 DEF Embedding
<1>2. \/ p[i + 1].ins[x] = base[k].ins[x]
      \/ \E j \in Ops : base[k].ins[x] = base[j].out /\ p[i + 1].ins[x] = SumOf(j)
  BY <1>1 DEF Similar
<1>3. x \in DOMAIN p[i + 1].ins
  BY <1>1 DEF Similar
<1>4. CASE base[k].ins[x] \in DOMAIN inputs
  <2>1. p[i + 1].ins[x] = base[k].ins[x]
    BY <1>0, <1>2, <1>4, NamesApart
  <2> QED BY <1>3, <1>4, <2>1 DEF Tracks
<1>5. CASE base[k].ins[x] \notin DOMAIN inputs
  <2>1. base[k].ins[x] \in ToSet(base[k].ins)
    BY DEF ToSet
  <2>2. PICK j \in 1 .. (k - 1) : base[j].out = base[k].ins[x]
    BY <1>0, <1>5, <2>1 DEF ReadsEarlier
  <2>3. j \in Ops /\ j < k
    BY <2>2 DEF Ops, IsProgram
  <2>4. e[j] < e[k] /\ e[j] \in Nat
    BY <1>0, <2>3 DEF Embedding
  <2>5. e[j] <= i
    BY <2>4
  <2>6. CASE p[i + 1].ins[x] = base[k].ins[x]
    <3>1. base[j].out \in DOMAIN t
      BY <2>3, <2>5 DEF Tracks
    <3> QED BY <1>3, <2>2, <2>3, <2>5, <2>6, <3>1
  <2>7. CASE p[i + 1].ins[x] # base[k].ins[x]
    <3>1. p[i + 1].ins[x] = SumOf(j)
      BY <1>0, <1>2, <2>2, <2>3, <2>7, NamesApart
    <3>2. SumBetween(p, e, j, k)
      BY <1>0, <2>2, <2>3, <3>1 DEF ReadsSums
    <3>3. PICK l \in 1 .. Len(p) : e[j] < l /\ l < e[k] /\ p[l] = AllReduceOp(base[j].out, SumOf(j))
      BY <3>2 DEF SumBetween
    <3>4. l \in 1 .. i
      BY <3>3
    <3>5. SumOf(j) \in DOMAIN t
      BY <2>3, <3>3, <3>4 DEF Tracks
    <3> QED BY <1>3, <2>2, <2>3, <2>5, <3>1, <3>5
  <2> QED BY <2>6, <2>7
<1> QED BY <1>4, <1>5

LEMMA AllPresent ==
  ASSUME IsProgram(base), WellFormed, NEW p, NEW e, Rewrites(p, e),
         NEW i \in Nat, i + 1 \in 1 .. Len(p), NEW t, Tracks(p, e, t, i),
         NEW k \in Ops, e[k] = i + 1
  PROVE  Present(t, p[i + 1])
<1> SUFFICES ASSUME NEW m \in ToSet(p[i + 1].ins) PROVE m \in DOMAIN t
  BY DEF Present
<1>1. PICK x \in DOMAIN p[i + 1].ins : p[i + 1].ins[x] = m
  BY DEF ToSet
<1>2. x \in DOMAIN base[k].ins
  BY DEF Rewrites, Embedding, Similar
<1> QED BY <1>1, <1>2, ReadsThere

\* What an inserted AllReduce reads and writes.
LEMMA InsertedReads ==
  ASSUME NEW o, Inserted(o), NEW t
  PROVE  \E k \in Ops : /\ Product(k) /\ o.kind = "AllReduce" /\ o.out = SumOf(k) /\ o.mesh_dim = NoDim
                        /\ o.ins[1] \in {base[k].out, SumOf(k)}
                        /\ Present(t, o) <=> o.ins[1] \in DOMAIN t
                        /\ o = AllReduceOp(o.ins[1], SumOf(k))
<1>1. PICK k \in Ops : /\ Product(k)
                       /\ \/ o = AllReduceOp(base[k].out, SumOf(k))
                          \/ o = AllReduceOp(SumOf(k), SumOf(k))
  BY DEF Inserted
<1>2. PICK m \in {base[k].out, SumOf(k)} : o = AllReduceOp(m, SumOf(k))
  BY <1>1
<1>3. o.kind = "AllReduce" /\ o.out = SumOf(k) /\ o.mesh_dim = NoDim /\ DOMAIN o.ins = {1} /\ o.ins[1] = m
  BY <1>2, SumFields
<1>4. ToSet(o.ins) = {m}
  BY <1>3 DEF ToSet
<1>5. Present(t, o) <=> m \in DOMAIN t
  BY <1>4 DEF Present
<1> QED BY <1>1, <1>2, <1>3, <1>5

LEMMA TracksStep ==
  ASSUME IsProgram(base), WellFormed, NEW p, NEW e, Rewrites(p, e),
         NEW i \in Nat, i + 1 \in 1 .. Len(p), NEW t, Tracks(p, e, t, i),
         NEW u, WriteStep(t, p[i + 1], u)
  PROVE  Tracks(p, e, u, i + 1)
<1> DEFINE o == p[i + 1]
<1>0. /\ SingleAssignment(base) /\ ReadsEarlier(base) /\ SumsApart(base)
      /\ Embedding(p, e) /\ ReadsSums(p, e) /\ \A k \in Ops : e[k] \in Nat
  BY DEF WellFormed, Rewrites, Embedding
<1>1. CASE \E k \in Ops : e[k] = i + 1
  <2>1. PICK k \in Ops : e[k] = i + 1
    BY <1>1
  <2>2. Present(t, o) /\ o.out = base[k].out
    BY <1>0, <2>1, AllPresent DEF Embedding, Similar
  <2>3. DOMAIN u = DOMAIN t \cup {base[k].out}
    BY <2>2 DEF WriteStep
  <2>4. \A j \in Ops : base[j].out \in DOMAIN u <=> e[j] <= i + 1
    <3> TAKE j \in Ops
    <3>1. CASE j = k
      BY <2>1, <2>3, <3>1
    <3>2. CASE j # k
      <4>1. base[j].out # base[k].out
        BY <1>0, <3>2, NamesApart
      <4>2. e[j] # i + 1
        BY <1>0, <2>1, <3>2 DEF Embedding, Ops, IsProgram
      <4> QED BY <1>0, <2>3, <4>1, <4>2 DEF Tracks
    <3> QED BY <3>1, <3>2
  <2>5. \A j \in Ops : SumOf(j) \in DOMAIN u => e[j] <= i + 1
    BY <1>0, <2>3, NamesApart DEF Tracks
  <2>6. ASSUME NEW j \in Ops, NEW l \in 1 .. (i + 1), e[j] < l, p[l] = AllReduceOp(base[j].out, SumOf(j))
        PROVE  SumOf(j) \in DOMAIN u
    <3>1. l # i + 1
      BY <1>0, <2>2, <2>6, NamesApart, SumFields
    <3>2. l \in 1 .. i
      BY <3>1
    <3> QED BY <2>3, <2>6, <3>2 DEF Tracks
  <2>7. DOMAIN inputs \subseteq DOMAIN u
    BY <2>3 DEF Tracks
  <2>8. \A m \in DOMAIN u : m \in DOMAIN inputs \/ \E j \in Ops : m \in {base[j].out, SumOf(j)}
    BY <2>3 DEF Tracks
  <2> QED BY <2>4, <2>5, <2>6, <2>7, <2>8 DEF Tracks
<1>2. CASE ~\E k \in Ops : e[k] = i + 1
  <2>1. Inserted(o)
    BY <1>0, <1>2 DEF Embedding
  <2>2. PICK k \in Ops : /\ o.out = SumOf(k) /\ o.ins[1] \in {base[k].out, SumOf(k)}
                         /\ Present(t, o) <=> o.ins[1] \in DOMAIN t
                         /\ o = AllReduceOp(o.ins[1], SumOf(k))
    BY <2>1, InsertedReads
  <2>3. \A j \in Ops : e[j] <= i <=> e[j] <= i + 1
    BY <1>0, <1>2
  <2>4. DOMAIN t \subseteq DOMAIN u /\ DOMAIN u \subseteq DOMAIN t \cup {SumOf(k)}
    BY <2>2 DEF WriteStep
  <2>5. SumOf(k) \in DOMAIN u => e[k] <= i
    <3>1. CASE Present(t, o)
      BY <2>2, <3>1 DEF Tracks
    <3>2. CASE ~Present(t, o)
      BY <3>2 DEF WriteStep, Tracks
    <3> QED BY <3>1, <3>2
  <2>6. \A j \in Ops : base[j].out \in DOMAIN u <=> e[j] <= i + 1
    BY <1>0, <2>3, <2>4, NamesApart DEF Tracks
  <2>7. \A j \in Ops : SumOf(j) \in DOMAIN u => e[j] <= i + 1
    BY <1>0, <2>3, <2>4, <2>5, NamesApart DEF Tracks
  <2>8. ASSUME NEW j \in Ops, NEW l \in 1 .. (i + 1), e[j] < l, p[l] = AllReduceOp(base[j].out, SumOf(j))
        PROVE  SumOf(j) \in DOMAIN u
    <3>1. CASE l = i + 1
      <4>1. o.out = SumOf(j) /\ o.ins[1] = base[j].out
        BY <2>8, <3>1, SumFields
      <4>2. e[j] <= i
        BY <1>0, <2>8, <3>1
      <4>3. Present(t, o)
        BY <2>2, <4>1, <4>2 DEF Tracks
      <4> QED BY <4>1, <4>3 DEF WriteStep
    <3>2. CASE l # i + 1
      <4>1. l \in 1 .. i
        BY <3>2
      <4> QED BY <2>4, <2>8, <4>1 DEF Tracks
    <3> QED BY <3>1, <3>2
  <2>9. DOMAIN inputs \subseteq DOMAIN u
    BY <2>4 DEF Tracks
  <2>10. \A m \in DOMAIN u : m \in DOMAIN inputs \/ \E j \in Ops : m \in {base[j].out, SumOf(j)}
    BY <2>4 DEF Tracks
  <2> QED BY <2>6, <2>7, <2>8, <2>9, <2>10 DEF Tracks
<1> QED BY <1>1, <1>2

LEMMA TracksStart ==
  ASSUME IsProgram(base), WellFormed, NEW p, NEW e, Rewrites(p, e), NEW t, DOMAIN t = DOMAIN inputs
  PROVE  Tracks(p, e, t, 0)
<1>1. SingleAssignment(base) /\ SumsApart(base) /\ \A k \in Ops : e[k] \in Nat /\ ~(e[k] <= 0)
  BY DEF WellFormed, Rewrites, Embedding
<1>2. 1 .. 0 = {}
  OBVIOUS
<1> QED BY <1>1, <1>2, NamesApart DEF Tracks

LEMMA AlwaysTracks ==
  ASSUME IsProgram(base), WellFormed, NEW p, NEW e, Rewrites(p, e),
         NEW g, Writing(p, g), DOMAIN g[0] = DOMAIN inputs
  PROVE  \A i \in 0 .. Len(p) : Tracks(p, e, g[i], i)
<1> DEFINE S == {i \in Nat : i <= Len(p) => Tracks(p, e, g[i], i)}
<1>0. Len(p) \in Nat
  BY DEF Rewrites, Embedding, IsProgram
<1>1. 0 \in S
  BY TracksStart
<1>2. ASSUME NEW i \in Nat, i \in S PROVE i + 1 \in S
  <2> SUFFICES ASSUME i + 1 <= Len(p) PROVE Tracks(p, e, g[i + 1], i + 1)
    OBVIOUS
  <2>1. i + 1 \in 1 .. Len(p) /\ (i + 1) - 1 = i /\ Tracks(p, e, g[i], i)
    BY <1>0, <1>2
  <2>2. WriteStep(g[i], p[i + 1], g[i + 1])
    BY <2>1 DEF Writing
  <2> QED BY <2>1, <2>2, TracksStep
<1> HIDE DEF S
<1>3. Nat \subseteq S
  BY <1>1, <1>2, Induction
<1> QED BY <1>3 DEF S
-----------------------------------------------------------------------------
(***************************************************************************)
(* The terms of the names are those of the given program, and a sum has the*)
(* term of what it sums.                                                   *)
(***************************************************************************)
TermsOf(e, t, i, T) ==
  /\ \A n \in DOMAIN inputs : t[n] = T[n]
  /\ \A k \in Ops : e[k] <= i => t[base[k].out] = T[base[k].out]
  /\ \A k \in Ops : SumOf(k) \in DOMAIN t => t[SumOf(k)] = T[base[k].out]

\* The terms of the given program.
BaseTerm(T) == /\ \A n \in DOMAIN inputs : T[n] = <<n>>
               /\ \A k \in Ops : T[base[k].out] = NewTerm(T, base[k])

HasFirst == \A k \in Ops : 1 \in DOMAIN base[k].ins

LEMMA BaseTerms ==
  ASSUME IsProgram(base), WellFormed, HasFirst
  PROVE  /\ BaseTerm(Terms(base))
         /\ DOMAIN Terms(base) = DOMAIN inputs \cup WrittenNames(base)
<1>0. SingleAssignment(base) /\ ReadsEarlier(base) /\ Len(base) \in Nat
  BY DEF WellFormed, IsProgram
<1>1. PICK h : TermPasses(base, h) /\ Terms(base) = h[Len(base)]
  BY <1>0, TermsPass
<1>2. Writing(base, h)
  BY <1>1, TermsWrite
<1>3. h[0] = [n \in DOMAIN inputs |-> <<n>>]
  BY <1>1 DEF TermPasses
<1>4. DOMAIN h[0] = DOMAIN inputs
  BY <1>3
<1> DEFINE T == Terms(base)
<1>5. T = h[Len(base)]
  BY <1>1
<1> HIDE DEF T
<1>6. /\ DOMAIN T = DOMAIN inputs \cup WrittenNames(base)
      /\ \A n \in DOMAIN inputs : T[n] = h[0][n]
      /\ \A i \in Ops : /\ T[base[i].out] = h[i][base[i].out]
                        /\ ReadOf(h[i - 1], base[i]) = ReadOf(T, base[i])
  BY <1>0, <1>2, <1>4, <1>5, BaseKept
<1>7. \A n \in DOMAIN inputs : T[n] = <<n>>
  BY <1>3, <1>6
<1>8. ASSUME NEW k \in Ops PROVE T[base[k].out] = NewTerm(T, base[k])
  <2> DEFINE o == base[k]
  <2>1. Present(h[k - 1], o)
    BY <1>0, <1>2, <1>4, BasePasses
  <2>2. h[k] = TermOf(h[k - 1], o)
    BY <1>1 DEF TermPasses, Ops
  <2>3. h[k] = Put(h[k - 1], o.out, NewTerm(h[k - 1], o))
    BY <2>1, <2>2, TermStep
  <2>9. IsPut(h[k], h[k - 1], o.out, NewTerm(h[k - 1], o))
    BY <2>3, PutIs
  <2>4. h[k][o.out] = NewTerm(h[k - 1], o)
    BY <2>9 DEF IsPut
  <2>5. ReadOf(h[k - 1], o)[1] = h[k - 1][o.ins[1]] /\ ReadOf(T, o)[1] = T[o.ins[1]]
    BY DEF ReadOf, HasFirst
  <2>6. NewTerm(h[k - 1], o) = NewTerm(T, o)
    BY <1>6, <2>5 DEF NewTerm
  <2> QED BY <1>6, <2>4, <2>6
<1>9. BaseTerm(T) /\ DOMAIN T = DOMAIN inputs \cup WrittenNames(base)
  BY <1>6, <1>7, <1>8 DEF BaseTerm
<1> QED BY <1>9 DEF T

LEMMA TermsStep ==
  ASSUME IsProgram(base), WellFormed, HasFirst, NEW p, NEW e, Rewrites(p, e),
         NEW i \in Nat, i + 1 \in 1 .. Len(p), NEW t, Tracks(p, e, t, i),
         NEW T, BaseTerm(T), TermsOf(e, t, i, T)
  PROVE  TermsOf(e, TermOf(t, p[i + 1]), i + 1, T)
<1> DEFINE o == p[i + 1]
           u == TermOf(t, o)
<1>0. /\ SingleAssignment(base) /\ ReadsEarlier(base) /\ SumsApart(base)
      /\ Embedding(p, e) /\ ReadsSums(p, e) /\ \A k \in Ops : e[k] \in Nat
  BY DEF WellFormed, Rewrites, Embedding
<1>1. CASE \E k \in Ops : e[k] = i + 1
  <2>1. PICK k \in Ops : e[k] = i + 1
    BY <1>1
  <2>2. Present(t, o) /\ Similar(o, base[k])
    BY <1>0, <2>1, AllPresent DEF Embedding
  <2>3. u = Put(t, base[k].out, NewTerm(t, o))
    BY <2>2, TermStep DEF Similar
  <2>4. ASSUME NEW x \in DOMAIN base[k].ins PROVE t[o.ins[x]] = T[base[k].ins[x]]
    <3>1. \/ base[k].ins[x] \in DOMAIN inputs /\ o.ins[x] = base[k].ins[x]
          \/ \E j \in Ops : /\ base[k].ins[x] = base[j].out /\ j < k /\ e[j] <= i
                            /\ o.ins[x] \in {base[j].out, SumOf(j)}
      BY <2>1, ReadsThere
    <3>2. o.ins[x] \in DOMAIN t
      BY <2>1, ReadsThere
    <3> QED BY <3>1, <3>2 DEF TermsOf
  <2>5. ReadOf(t, o) = ReadOf(T, base[k])
    <3>1. DOMAIN o.ins = DOMAIN base[k].ins
      BY <2>2 DEF Similar
    <3> QED BY <2>4, <3>1 DEF ReadOf
  <2>6. t[o.ins[1]] = T[base[k].ins[1]]
    BY <2>4 DEF HasFirst
  <2>7. NewTerm(t, o) = T[base[k].out]
    <3>1. o.kind = base[k].kind /\ o.dim = base[k].dim
      BY <2>2 DEF Similar
    <3>2. NewTerm(t, o) = NewTerm(T, base[k])
      BY <2>5, <2>6, <3>1 DEF NewTerm
    <3> QED BY <3>2 DEF BaseTerm
  <2>8. /\ DOMAIN u = DOMAIN t \cup {base[k].out} /\ u[base[k].out] = T[base[k].out]
        /\ \A m \in DOMAIN t : m # base[k].out => u[m] = t[m]
    <3>1. IsPut(u, t, base[k].out, T[base[k].out])
      BY <2>3, <2>7, PutIs
    <3> HIDE DEF u
    <3> QED BY <3>1 DEF IsPut
  <2>9. \A n \in DOMAIN inputs : u[n] = T[n]
    BY <1>0, <2>8, NamesApart DEF TermsOf, Tracks
  <2>10. ASSUME NEW j \in Ops, e[j] <= i + 1 PROVE u[base[j].out] = T[base[j].out]
    <3>1. CASE j = k
      BY <2>8, <3>1
    <3>2. CASE j # k
      <4>1. e[j] # i + 1
        BY <1>0, <2>1, <3>2 DEF Embedding, Ops, IsProgram
      <4>2. e[j] <= i
        BY <1>0, <2>10, <4>1
      <4>3. base[j].out # base[k].out /\ base[j].out \in DOMAIN t
        BY <1>0, <3>2, <4>2, NamesApart DEF Tracks
      <4> QED BY <2>8, <4>2, <4>3 DEF TermsOf
    <3> QED BY <3>1, <3>2
  <2>11. ASSUME NEW j \in Ops, SumOf(j) \in DOMAIN u PROVE u[SumOf(j)] = T[base[j].out]
    BY <1>0, <2>8, <2>11, NamesApart DEF TermsOf
  <2> HIDE DEF u
  <2>12. TermsOf(e, u, i + 1, T)
    BY <2>9, <2>10, <2>11 DEF TermsOf
  <2> QED BY <2>12 DEF u
<1>2. CASE ~\E k \in Ops : e[k] = i + 1
  <2>1. Inserted(o)
    BY <1>0, <1>2 DEF Embedding
  <2>2. PICK k \in Ops : /\ o.kind = "AllReduce" /\ o.out = SumOf(k)
                         /\ o.ins[1] \in {base[k].out, SumOf(k)}
                         /\ Present(t, o) <=> o.ins[1] \in DOMAIN t
    BY <2>1, InsertedReads
  <2>3. \A j \in Ops : e[j] <= i + 1 => e[j] <= i
    BY <1>0, <1>2
  <2>4. CASE ~Present(t, o)
    <3>1. u = t
      BY <2>4, TermStep
    <3> QED BY <2>3, <3>1 DEF TermsOf
  <2>5. CASE Present(t, o)
    <3>1. u = Put(t, SumOf(k), t[o.ins[1]])
      BY <2>2, <2>5, TermStep DEF NewTerm
    <3>2. t[o.ins[1]] = T[base[k].out]
      BY <2>2, <2>5 DEF Tracks, TermsOf
    <3>3. /\ DOMAIN u = DOMAIN t \cup {SumOf(k)} /\ u[SumOf(k)] = T[base[k].out]
          /\ \A m \in DOMAIN t : m # SumOf(k) => u[m] = t[m]
      <4>1. IsPut(u, t, SumOf(k), T[base[k].out])
        BY <3>1, <3>2, PutIs
      <4> HIDE DEF u
      <4> QED BY <4>1 DEF IsPut
    <3>4. \A n \in DOMAIN inputs : u[n] = T[n]
      BY <1>0, <3>3, NamesApart DEF TermsOf, Tracks
    <3>5. \A j \in Ops : e[j] <= i + 1 => u[base[j].out] = T[base[j].out]
      BY <1>0, <2>3, <3>3, NamesApart DEF TermsOf, Tracks
    <3>6. \A j \in Ops : SumOf(j) \in DOMAIN u => u[SumOf(j)] = T[base[j].out]
      BY <1>0, <3>3, NamesApart DEF TermsOf
    <3> HIDE DEF u
    <3>7. TermsOf(e, u, i + 1, T)
      BY <3>4, <3>5, <3>6 DEF TermsOf
    <3> QED BY <3>7 DEF u
  <2> QED BY <2>4, <2>5
<1> QED BY <1>1, <1>2

\* So they are at the end.
LEMMA SameTerms ==
  ASSUME IsProgram(base), WellFormed, HasFirst, NEW p, NEW e, Rewrites(p, e)
  PROVE  /\ Tracks(p, e, Terms(p), Len(p))
         /\ TermsOf(e, Terms(p), Len(p), Terms(base))
<1>0. Len(p) \in Nat
  BY DEF Rewrites, Embedding, IsProgram
<1>1. PICK h : TermPasses(p, h) /\ Terms(p) = h[Len(p)]
  BY <1>0, TermsPass
<1>2. h[0] = [n \in DOMAIN inputs |-> <<n>>]
  BY <1>1 DEF TermPasses
<1>3. Writing(p, h) /\ DOMAIN h[0] = DOMAIN inputs
  BY <1>1, <1>2, TermsWrite
<1>4. \A i \in 0 .. Len(p) : Tracks(p, e, h[i], i)
  BY <1>3, AlwaysTracks
<1> DEFINE T == Terms(base)
           S == {i \in Nat : i <= Len(p) => TermsOf(e, h[i], i, T)}
<1>5. BaseTerm(T)
  BY BaseTerms
<1> HIDE DEF T
<1>6. 0 \in S
  <2>1. \A n \in DOMAIN inputs : h[0][n] = T[n]
    BY <1>2, <1>5 DEF BaseTerm
  <2>2. \A k \in Ops : ~(e[k] <= 0)
    BY DEF Rewrites, Embedding
  <2>3. SumsApart(base) /\ SingleAssignment(base)
    BY DEF WellFormed
  <2>4. \A k \in Ops : SumOf(k) \notin DOMAIN h[0]
    BY <1>3, <2>3, NamesApart
  <2> QED BY <2>1, <2>2, <2>4 DEF TermsOf
<1>7. ASSUME NEW i \in Nat, i \in S PROVE i + 1 \in S
  <2> SUFFICES ASSUME i + 1 <= Len(p) PROVE TermsOf(e, h[i + 1], i + 1, T)
    OBVIOUS
  <2>1. i + 1 \in 1 .. Len(p) /\ (i + 1) - 1 = i /\ TermsOf(e, h[i], i, T) /\ Tracks(p, e, h[i], i)
    BY <1>0, <1>4, <1>7
  <2>2. h[i + 1] = TermOf(h[i], p[i + 1])
    BY <1>1, <2>1 DEF TermPasses
  <2> QED BY <1>5, <2>1, <2>2, TermsStep
<1> HIDE DEF S
<1>8. Nat \subseteq S
  BY <1>6, <1>7, Induction
<1>9. TermsOf(e, h[Len(p)], Len(p), T)
  BY <1>0, <1>8 DEF S
<1> QED BY <1>0, <1>1, <1>4, <1>9 DEF T
-----------------------------------------------------------------------------
(***************************************************************************)
(* Placements in a run that raises no exception.                           *)
(***************************************************************************)
\* Only operation e[k] writes the result of operation k.
LEMMA WrittenOnce ==
  ASSUME IsProgram(base), WellFormed, NEW p, NEW e, Rewrites(p, e),
         NEW k \in Ops, NEW i \in 1 .. Len(p), p[i].out = base[k].out
  PROVE  i = e[k]
<1>1. SingleAssignment(base) /\ SumsApart(base) /\ Embedding(p, e)
  BY DEF WellFormed, Rewrites
<1>2. CASE \E j \in Ops : e[j] = i
  <2>1. PICK j \in Ops : e[j] = i
    BY <1>2
  <2>2. base[j].out = base[k].out
    BY <1>1, <2>1 DEF Embedding, Similar
  <2> QED BY <1>1, <2>1, <2>2, NamesApart
<1>3. CASE Inserted(p[i])
  <2>1. PICK j \in Ops : p[i].out = SumOf(j)
    BY <1>3, InsertedReads
  <2> QED BY <1>1, <2>1, NamesApart
<1> QED BY <1>1, <1>2, <1>3 DEF Embedding

\* So it stays.
LEMMA ResultStays ==
  ASSUME IsProgram(base), WellFormed, NEW p, NEW e, Rewrites(p, e),
         NEW g, Writing(p, g), DOMAIN g[0] = DOMAIN inputs,
         NEW k \in Ops, NEW i \in e[k] .. Len(p)
  PROVE  g[Len(p)][base[k].out] = g[i][base[k].out]
<1>0. /\ Len(p) \in Nat /\ e[k] \in 1 .. Len(p) /\ i \in 0 .. Len(p) /\ e[k] <= i
      /\ Len(p) \in i .. Len(p)
  BY DEF Rewrites, Embedding, IsProgram
<1>1. Tracks(p, e, g[i], i)
  BY <1>0, AlwaysTracks
<1>2. base[k].out \in DOMAIN g[i]
  BY <1>0, <1>1 DEF Tracks
<1>3. ASSUME NEW l \in (i + 1) .. Len(p) PROVE p[l].out # base[k].out
  <2>1. l \in 1 .. Len(p) /\ l # e[k]
    BY <1>0
  <2> QED BY <2>1, WrittenOnce
<1> QED BY <1>0, <1>2, <1>3, Unchanged

\* An AllReduce of no mesh dimension leaves nothing partial.
LEMMA SumIsWhole ==
  ASSUME NEW o, o.kind = "AllReduce", o.mesh_dim = NoDim, NEW ins
  PROVE  ~IsPartial(Apply(o, ins))
<1>1. Apply(o, ins) = Changed(o, ins[1], {"P"}, "R")
  BY DEF Apply
<1> QED BY <1>1 DEF Changed, IsPartial

\* Every sum is whole.
SumsWhole(t) == \A k \in Ops : SumOf(k) \in DOMAIN t => ~IsPartial(t[SumOf(k)])

LEMMA SumsWholeStep ==
  ASSUME IsProgram(base), WellFormed, NEW p, NEW e, Rewrites(p, e),
         NEW i \in 1 .. Len(p), NEW t, SumsWhole(t), NEW u, QuietStep(t, p[i], u)
  PROVE  SumsWhole(u)
<1> DEFINE o == p[i]
           x == Apply(o, ReadOf(t, o))
<1>0. SingleAssignment(base) /\ SumsApart(base) /\ Embedding(p, e)
  BY DEF WellFormed, Rewrites
<1>1. CASE ~Present(t, o)
  BY <1>1 DEF QuietStep
<1>2. CASE Present(t, o)
  <2>1. u = Put(t, o.out, x)
    BY <1>2 DEF QuietStep
  <2>2. IsPut(u, t, o.out, x)
    BY <2>1, PutIs
  <2>3. ASSUME NEW k \in Ops, SumOf(k) = o.out PROVE ~IsPartial(x)
    <3>1. Inserted(o)
      <4>1. ASSUME NEW j \in Ops, e[j] = i PROVE FALSE
        <5>1. o.out = base[j].out
          BY <1>0, <4>1 DEF Embedding, Similar
        <5> QED BY <1>0, <2>3, <5>1, NamesApart
      <4> QED BY <1>0, <4>1 DEF Embedding
    <3>2. o.kind = "AllReduce" /\ o.mesh_dim = NoDim
      BY <3>1, InsertedReads
    <3> QED BY <3>2, SumIsWhole
  <2> HIDE DEF x
  <2>4. ASSUME NEW k \in Ops, SumOf(k) \in DOMAIN u PROVE ~IsPartial(u[SumOf(k)])
    <3>1. CASE SumOf(k) = o.out
      <4>1. u[SumOf(k)] = x
        BY <2>2, <3>1 DEF IsPut
      <4> QED BY <2>3, <3>1, <4>1
    <3>2. CASE SumOf(k) # o.out
      <4>1. SumOf(k) \in DOMAIN t /\ u[SumOf(k)] = t[SumOf(k)]
        BY <2>2, <2>4, <3>2 DEF IsPut
      <4> QED BY <4>1 DEF SumsWhole
    <3> QED BY <3>1, <3>2
  <2> QED BY <2>4 DEF SumsWhole
<1> QED BY <1>1, <1>2

LEMMA SumsAlwaysWhole ==
  ASSUME IsProgram(base), WellFormed, NEW p, NEW e, Rewrites(p, e), NEW g, Quiet(p, inputs, g)
  PROVE  \A i \in 0 .. Len(p) : SumsWhole(g[i])
<1> DEFINE S == {i \in Nat : i <= Len(p) => SumsWhole(g[i])}
<1>0. Len(p) \in Nat
  BY DEF Rewrites, Embedding, IsProgram
<1>1. 0 \in S
  <2>1. g[0] = inputs
    BY DEF Quiet
  <2>2. SingleAssignment(base) /\ SumsApart(base)
    BY DEF WellFormed
  <2> QED BY <2>1, <2>2, NamesApart DEF SumsWhole
<1>2. ASSUME NEW i \in Nat, i \in S PROVE i + 1 \in S
  <2> SUFFICES ASSUME i + 1 <= Len(p) PROVE SumsWhole(g[i + 1])
    OBVIOUS
  <2>1. i + 1 \in 1 .. Len(p) /\ (i + 1) - 1 = i /\ SumsWhole(g[i])
    BY <1>0, <1>2
  <2>2. QuietStep(g[i], p[i + 1], g[i + 1])
    BY <2>1 DEF Quiet
  <2> QED BY <2>1, <2>2, SumsWholeStep
<1> HIDE DEF S
<1>3. Nat \subseteq S
  BY <1>1, <1>2, Induction
<1> QED BY <1>3 DEF S

-----------------------------------------------------------------------------
\* What the search and the fallback take: a program that runs, lacks no AllReduce
\* and has no redundant one, and leaves no output partial.
Good(p) ==
  LET r == RunProgram(FALSE, p, inputs)
  IN  /\ r.raised = FALSE
      /\ AnalyzedCorrect(p, r.tensors)
      /\ OutputsWhole(p, r.tensors)

\* Where the result of a product is reduced, its sum is there at the end.
LEMMA ReducedIsSummed ==
  ASSUME IsProgram(base), WellFormed, ComputeOnly, NEW p, NEW e, Rewrites(p, e),
         NEW t, Tracks(p, e, t, Len(p)), NEW k \in Ops, ReducedAfter(p, e[k], base[k].out)
  PROVE  SumOf(k) \in DOMAIN t
<1>0. /\ SingleAssignment(base) /\ SumsApart(base) /\ Embedding(p, e) /\ DOMAIN base = Ops
      /\ Len(p) \in Nat /\ e[k] \in 1 .. Len(p)
  BY DEF WellFormed, Rewrites, Embedding, IsProgram, Ops
<1>1. PICK j \in (e[k] + 1) .. Len(p) : p[j].kind = "AllReduce" /\ p[j].ins[1] = base[k].out
  BY DEF ReducedAfter
<1>2. j \in 1 .. Len(p) /\ e[k] < j
  BY <1>0
<1>3. Inserted(p[j])
  <2>1. ASSUME NEW l \in Ops, e[l] = j PROVE FALSE
    <3>1. base[l].kind = "AllReduce"
      BY <1>0, <1>1, <2>1 DEF Embedding, Similar
    <3> QED BY <1>0, <3>1 DEF ComputeOnly
  <2> QED BY <1>0, <1>2, <2>1 DEF Embedding
<1>4. PICK l \in Ops : /\ p[j].ins[1] \in {base[l].out, SumOf(l)}
                       /\ p[j] = AllReduceOp(p[j].ins[1], SumOf(l))
  BY <1>3, InsertedReads
<1>5. l = k
  BY <1>0, <1>1, <1>4, NamesApart
<1> QED BY <1>1, <1>2, <1>4, <1>5 DEF Tracks

\* An output of the given program is computed, whole.
LEMMA MeaningIsKept ==
  ASSUME IsProgram(base), WellFormed, HasFirst, ComputeOnly, NEW p, NEW e, Rewrites(p, e), Good(p),
         NEW n \in DOMAIN inputs \cup WrittenNames(base), n \notin ReadNames(base),
         NEW final, final = RunProgram(FALSE, p, inputs).tensors
  PROVE  \E m \in {n, FreshName[n]} :
           m \in DOMAIN final /\ ~IsPartial(final[m]) /\ Terms(p)[m] = Terms(base)[n]
<1>0. /\ SingleAssignment(base) /\ ReadsEarlier(base) /\ SumsApart(base) /\ Embedding(p, e)
      /\ DOMAIN base = Ops /\ Len(p) \in Nat /\ Len(p) \in 0 .. Len(p) /\ DOMAIN p = 1 .. Len(p)
      /\ \A k \in Ops : e[k] \in 1 .. Len(p) /\ e[k] <= Len(p)
  BY DEF WellFormed, Rewrites, Embedding, IsProgram, Ops
<1>1. PICK g : Quiet(p, inputs, g) /\ final = g[Len(p)]
  BY <1>0, QuietRuns DEF Good
<1>2. Writing(p, g) /\ g[0] = inputs
  BY <1>1, QuietWrites DEF Quiet
<1>3. Tracks(p, e, final, Len(p)) /\ SumsWhole(final)
  BY <1>0, <1>1, <1>2, AlwaysTracks, SumsAlwaysWhole
<1>4. Tracks(p, e, Terms(p), Len(p)) /\ TermsOf(e, Terms(p), Len(p), Terms(base))
  BY SameTerms
<1>5. AnalyzedCorrect(p, final) /\ OutputsWhole(p, final)
  BY DEF Good
<1>6. CASE n \in DOMAIN inputs
  <2>1. n \in DOMAIN final /\ Terms(p)[n] = Terms(base)[n]
    BY <1>3, <1>4, <1>6 DEF Tracks, TermsOf
  <2>2. ASSUME NEW l \in 1 .. Len(p) PROVE p[l].out # n
    <3>1. CASE \E k \in Ops : e[k] = l
      <4>1. PICK k \in Ops : p[l].out = base[k].out
        BY <1>0, <3>1 DEF Embedding, Similar
      <4> QED BY <1>0, <1>6, <4>1, NamesApart
    <3>2. CASE Inserted(p[l])
      <4>1. PICK k \in Ops : p[l].out = SumOf(k)
        BY <3>2, InsertedReads
      <4> QED BY <1>0, <1>6, <4>1, NamesApart
    <3> QED BY <1>0, <3>1, <3>2 DEF Embedding
  <2>3. final[n] = inputs[n]
    <3>1. 0 \in 0 .. Len(p) /\ Len(p) \in 0 .. Len(p) /\ \A l \in (0 + 1) .. Len(p) : p[l].out # n
      BY <1>0, <2>2
    <3>2. n \in DOMAIN g[0]
      BY <1>2, <1>6
    <3>3. g[Len(p)][n] = g[0][n]
      BY <1>0, <1>2, <3>1, <3>2, Unchanged
    <3> QED BY <1>1, <1>2, <3>3
  <2> QED BY <1>6, <2>1, <2>3 DEF ComputeOnly
<1>7. CASE n \in WrittenNames(base)
  <2>1. PICK k \in Ops : n = base[k].out
    BY <1>0, <1>7 DEF WrittenNames
  <2>2. FreshName[n] = SumOf(k)
    BY <2>1 DEF SumOf
  <2>3. CASE SumOf(k) \in DOMAIN final
    <3>1. DOMAIN final = DOMAIN Terms(p)
      <4>1. PICK h : TermPasses(p, h) /\ Terms(p) = h[Len(p)]
        BY <1>0, TermsPass
      <4>2. h[0] = [m \in DOMAIN inputs |-> <<m>>]
        BY <4>1 DEF TermPasses
      <4>3. Writing(p, h) /\ DOMAIN h[0] = DOMAIN g[0]
        BY <1>2, <4>1, <4>2, TermsWrite
      <4>4. \A i \in 0 .. Len(p) : DOMAIN g[i] = DOMAIN h[i]
        BY <1>0, <1>2, <4>3, SameNames
      <4>5. DOMAIN g[Len(p)] = DOMAIN h[Len(p)]
        BY <1>0, <4>4
      <4> QED BY <1>1, <4>1, <4>5
    <3>2. Terms(p)[SumOf(k)] = Terms(base)[n]
      BY <1>4, <2>1, <2>3, <3>1 DEF TermsOf
    <3>3. ~IsPartial(final[SumOf(k)])
      BY <1>3, <2>3 DEF SumsWhole
    <3> QED BY <2>2, <2>3, <3>2, <3>3
  <2>4. CASE SumOf(k) \notin DOMAIN final
    <3>1. n \in DOMAIN final /\ Terms(p)[n] = Terms(base)[n]
      BY <1>0, <1>3, <1>4, <2>1 DEF Tracks, TermsOf
    <3>2. ASSUME IsPartial(final[n]) PROVE FALSE
      <4>1. ~ReducedAfter(p, e[k], n)
        BY <1>3, <2>1, <2>4, ReducedIsSummed
      <4>2. ~Product(k)
        <5>1. ASSUME Product(k) PROVE FALSE
          <6>1. p[e[k]].kind = "MatMul" /\ p[e[k]].out = n
            BY <1>0, <2>1, <5>1 DEF Embedding, Similar, Product
          <6>2. e[k] \in PartialProducts(p, final)
            BY <1>0, <3>1, <3>2, <6>1 DEF PartialProducts, KnownPartial
          <6>3. e[k] \in Missing(p, final)
            BY <4>1, <6>1, <6>2 DEF Missing
          <6> QED BY <1>5, <6>3 DEF AnalyzedCorrect
        <5> QED BY <5>1
      <4>3. n \in ReadNames(p)
        BY <1>5, <3>1, <3>2 DEF OutputsWhole, OutputNames
      <4>4. PICK i \in 1 .. Len(p) : n \in ToSet(p[i].ins)
        BY <1>0, <4>3 DEF ReadNames
      <4>5. PICK x \in DOMAIN p[i].ins : p[i].ins[x] = n
        BY <4>4 DEF ToSet
      <4>6. CASE \E j \in Ops : e[j] = i
        <5>1. PICK j \in Ops : e[j] = i
          BY <4>6
        <5>2. Similar(p[i], base[j])
          BY <1>0, <5>1 DEF Embedding
        <5>3. x \in DOMAIN base[j].ins /\ base[j].ins[x] = n
          BY <1>0, <2>1, <4>5, <5>2, NamesApart DEF Similar
        <5>4. n \in ToSet(base[j].ins)
          BY <5>3 DEF ToSet
        <5> QED BY <1>0, <5>4 DEF ReadNames
      <4>7. CASE Inserted(p[i])
        <5>1. PICK j \in Ops : /\ Product(j)
                               /\ \/ p[i] = AllReduceOp(base[j].out, SumOf(j))
                                  \/ p[i] = AllReduceOp(SumOf(j), SumOf(j))
          BY <4>7 DEF Inserted
        <5>2. p[i].ins[x] \in {base[j].out, SumOf(j)}
          BY <4>5, <5>1, SumFields
        <5>3. j = k
          BY <1>0, <2>1, <4>5, <5>2, NamesApart
        <5> QED BY <4>2, <5>1, <5>3
      <4> QED BY <1>0, <4>6, <4>7 DEF Embedding
    <3> QED BY <3>1, <3>2
  <2> QED BY <2>3, <2>4
<1> QED BY <1>6, <1>7
-----------------------------------------------------------------------------
(***************************************************************************)
(* Where what reads a product reads its sum wherever that has one, only the*)
(* results of products are partial.                                        *)
(***************************************************************************)
WholeKinds == {"Add", "Multiply", "Unary", "Norm", "Transpose", "AllToAll", "Scatter", "Broadcast"}

LEMMA WholeOp ==
  ASSUME NEW o, IsOp(o), o.kind \in WholeKinds,
         NEW ins \in [DOMAIN o.ins -> Placements], \A x \in DOMAIN o.ins : ~IsPartial(ins[x])
  PROVE  ~IsPartial(Apply(o, ins))
<1> DEFINE a == ins[1]
<1>1. a \in Placements /\ \A d \in MeshDims : a[d] \in PL \ {"P"}
  BY DEF IsOp, IsPartial, Placements
<1>2. CASE o.kind \in {"Add", "Multiply"}
  <2>1. Apply(o, ins) = [d \in MeshDims |-> MergePlacement(a[d], ins[2][d])]
    BY <1>2 DEF Apply
  <2>2. 2 \in DOMAIN o.ins
    BY <1>2 DEF IsOp, BinaryKinds
  <2>3. \A d \in MeshDims : ins[2][d] # "P"
    BY <2>2 DEF IsPartial
  <2>4. \A d \in MeshDims : MergePlacement(a[d], ins[2][d]) # "P"
    BY <1>1, <2>3 DEF MergePlacement
  <2> QED BY <2>1, <2>4 DEF IsPartial
<1>3. CASE o.kind \in {"Unary", "Norm"}
  <2>1. Apply(o, ins) = a
    BY <1>3 DEF Apply
  <2> QED BY <1>1, <2>1 DEF IsPartial
<1>4. CASE o.kind = "Transpose"
  <2>1. Apply(o, ins) = [d \in MeshDims |-> SwappedPlacement(a[d])]
    BY <1>4 DEF Apply
  <2>2. \A d \in MeshDims : SwappedPlacement(a[d]) # "P"
    BY <1>1 DEF SwappedPlacement, PL
  <2> QED BY <2>1, <2>2 DEF IsPartial
<1>5. CASE o.kind \in {"AllToAll", "Scatter"}
  <2>1. \E from, to : to # "P" /\ Apply(o, ins) \in {Changed(o, a, from, to), FirstChanged(o, a, from, to)}
    <3>1. CASE o.kind = "AllToAll"
      <4>1. Apply(o, ins) = Changed(o, a, {Shard(o.dim)}, Shard(o.concat_dim))
        BY <3>1 DEF Apply
      <4>2. Shard(o.concat_dim) # "P"
        BY DEF Shard
      <4> QED BY <4>1, <4>2
    <3>2. CASE o.kind = "Scatter"
      <4>1. Apply(o, ins) = FirstChanged(o, a, {"R"}, Shard(o.dim))
        BY <3>2 DEF Apply
      <4>2. Shard(o.dim) # "P"
        BY DEF Shard
      <4> QED BY <4>1, <4>2
    <3> QED BY <1>5, <3>1, <3>2
  <2>2. PICK from, to : to # "P" /\ Apply(o, ins) \in {Changed(o, a, from, to), FirstChanged(o, a, from, to)}
    BY <2>1
  <2>3. CASE Apply(o, ins) = Changed(o, a, from, to)
    <3>1. \A d \in MeshDims : Changed(o, a, from, to)[d] # "P"
      BY <1>1, <2>2 DEF Changed
    <3> QED BY <2>3, <3>1 DEF IsPartial
  <2>4. CASE Apply(o, ins) = FirstChanged(o, a, from, to)
    <3>1. \A d \in MeshDims : FirstChanged(o, a, from, to)[d] # "P"
      BY <1>1, <2>2 DEF FirstChanged
    <3> QED BY <2>4, <3>1 DEF IsPartial
  <2> QED BY <2>2, <2>3, <2>4
<1>6. CASE o.kind = "Broadcast"
  <2>1. Apply(o, ins) = [d \in MeshDims |-> "R"]
    BY <1>6 DEF Apply
  <2> QED BY <2>1 DEF IsPartial
<1> QED BY <1>2, <1>3, <1>4, <1>5, <1>6 DEF WholeKinds

Tight(p, e) ==
  \A i \in 1 .. Len(p) : \A j \in Ops : p[i] = AllReduceOp(base[j].out, SumOf(j)) =>
    \A k \in Ops : base[j].out \notin ToSet(p[e[k]].ins)

Typed == /\ \A k \in Ops : IsOp(base[k])
         /\ \A n \in DOMAIN inputs : inputs[n] \in Placements

OnlyProducts(t) ==
  \A m \in DOMAIN t : /\ t[m] \in Placements
                      /\ IsPartial(t[m]) => \E k \in Ops : Product(k) /\ m = base[k].out

\* Every operation of the program is one.
LEMMA OpsOfTyped ==
  ASSUME IsProgram(base), Typed, NEW p, NEW e, Rewrites(p, e), NEW i \in 1 .. Len(p)
  PROVE  IsOp(p[i])
<1>1. Embedding(p, e)
  BY DEF Rewrites
<1>2. CASE \E k \in Ops : e[k] = i
  <2>1. PICK k \in Ops : e[k] = i
    BY <1>2
  <2>2. Similar(p[i], base[k]) /\ IsOp(base[k])
    BY <1>1, <2>1 DEF Embedding, Typed
  <2> QED BY <2>2 DEF IsOp, Similar
<1>3. CASE Inserted(p[i])
  <2>1. PICK x, y : p[i] = AllReduceOp(x, y)
    BY <1>3 DEF Inserted
  <2>2. p[i].kind = "AllReduce" /\ p[i].mesh_dim = NoDim /\ DOMAIN p[i].ins = {1}
    BY <2>1, SumFields
  <2> QED BY <2>2 DEF IsOp, Kinds, UnaryKinds, BinaryKinds
<1> QED BY <1>1, <1>2, <1>3 DEF Embedding

\* The results of the first i operations are what they are in the end.
Settled(e, t, i, final) ==
  \A k \in Ops : e[k] <= i => base[k].out \in DOMAIN final /\ final[base[k].out] = t[base[k].out]

LEMMA ProductsStep ==
  ASSUME IsProgram(base), WellFormed, ComputeOnly, Typed, NEW p, NEW e, Rewrites(p, e), Tight(p, e),
         NEW i \in Nat, i + 1 \in 1 .. Len(p), NEW t, Tracks(p, e, t, i), OnlyProducts(t),
         NEW final, Missing(p, final) = {},
         Settled(e, t, i, final),
         NEW u, QuietStep(t, p[i + 1], u)
  PROVE  OnlyProducts(u)
<1> DEFINE o == p[i + 1]
           x == Apply(o, ReadOf(t, o))
<1>0. /\ SingleAssignment(base) /\ SumsApart(base) /\ Embedding(p, e) /\ IsOp(o)
      /\ Len(p) \in Nat /\ \A k \in Ops : e[k] \in 1 .. Len(p)
  BY OpsOfTyped DEF WellFormed, Rewrites, Embedding, IsProgram
<1>1. CASE ~Present(t, o)
  BY <1>1 DEF QuietStep
<1>2. CASE Present(t, o)
  <2>1. IsPut(u, t, o.out, x)
    <3>1. u = Put(t, o.out, x)
      BY <1>2 DEF QuietStep
    <3> QED BY <3>1, PutIs
  <2>2. \A y \in DOMAIN o.ins : o.ins[y] \in DOMAIN t
    BY <1>2 DEF Present, ToSet
  <2>3. ReadOf(t, o) \in [DOMAIN o.ins -> Placements]
    BY <2>2 DEF ReadOf, OnlyProducts
  <2>4. x \in Placements
    BY <1>0, <2>3, ApplyType
  <2>5. ASSUME IsPartial(x) PROVE \E k \in Ops : Product(k) /\ o.out = base[k].out
    <3>1. CASE Inserted(o)
      <4>1. o.kind = "AllReduce" /\ o.mesh_dim = NoDim
        BY <3>1, InsertedReads
      <4> QED BY <2>5, <4>1, SumIsWhole
    <3>2. CASE \E k \in Ops : e[k] = i + 1
      <4>1. PICK k \in Ops : e[k] = i + 1
        BY <3>2
      <4>2. Similar(o, base[k])
        BY <1>0, <4>1 DEF Embedding
      <4>3. CASE base[k].kind = "MatMul"
        BY <4>2, <4>3 DEF Similar, Product
      <4>4. CASE base[k].kind # "MatMul"
        <5>1. o.kind \in WholeKinds
          <6>1. DOMAIN base = Ops
            BY DEF IsProgram, Ops
          <6>2. base[k].kind \notin {"Embedding", "CrossEntropyLoss", "FlashAttention",
                                     "AllReduce", "AllGather", "ReduceScatter"}
            BY <6>1 DEF ComputeOnly
          <6> QED BY <1>0, <4>2, <4>4, <6>2
                  DEF Similar, IsOp, Kinds, UnaryKinds, BinaryKinds, WholeKinds
        <5>2. ASSUME NEW y \in DOMAIN o.ins, IsPartial(ReadOf(t, o)[y]) PROVE FALSE
          <6> DEFINE m == o.ins[y]
          <6>1. m \in DOMAIN t /\ IsPartial(t[m]) /\ m \in ToSet(o.ins)
            BY <2>2, <5>2 DEF ReadOf, ToSet
          <6>2. PICK j \in Ops : Product(j) /\ m = base[j].out
            BY <6>1 DEF OnlyProducts
          <6>3. e[j] <= i
            BY <6>1, <6>2 DEF Tracks
          <6>4. base[j].out \in DOMAIN final /\ IsPartial(final[base[j].out])
            BY <6>1, <6>2, <6>3 DEF Settled
          <6>5. p[e[j]].kind = "MatMul" /\ p[e[j]].out = base[j].out
            BY <1>0, <6>2 DEF Embedding, Similar, Product
          <6>6. e[j] \in PartialProducts(p, final)
            BY <1>0, <6>4, <6>5 DEF PartialProducts, KnownPartial
          <6>7. ReducedAfter(p, e[j], base[j].out)
            BY <6>5, <6>6 DEF Missing
          <6>8. PICK l \in (e[j] + 1) .. Len(p) : p[l].kind = "AllReduce" /\ p[l].ins[1] = base[j].out
            BY <6>7 DEF ReducedAfter
          <6>9. l \in 1 .. Len(p)
            BY <1>0
          <6>10. Inserted(p[l])
            <7>1. ASSUME NEW h \in Ops, e[h] = l PROVE FALSE
              <8>1. base[h].kind = "AllReduce"
                BY <1>0, <6>8, <7>1 DEF Embedding, Similar
              <8>2. DOMAIN base = Ops
                BY DEF IsProgram, Ops
              <8> QED BY <8>1, <8>2 DEF ComputeOnly
            <7> QED BY <1>0, <6>9, <7>1 DEF Embedding
          <6>11. PICK h \in Ops : /\ p[l].ins[1] \in {base[h].out, SumOf(h)}
                                  /\ p[l] = AllReduceOp(p[l].ins[1], SumOf(h))
            BY <6>10, InsertedReads
          <6>12. h = j
            BY <1>0, <6>8, <6>11, NamesApart
          <6>13. p[l] = AllReduceOp(base[j].out, SumOf(j))
            BY <6>8, <6>11, <6>12
          <6>14. base[j].out \notin ToSet(p[e[k]].ins)
            BY <6>9, <6>13 DEF Tight
          <6> QED BY <4>1, <6>1, <6>2, <6>14
        <5>3. \A y \in DOMAIN o.ins : ~IsPartial(ReadOf(t, o)[y])
          BY <5>2
        <5> QED BY <1>0, <2>3, <2>5, <5>1, <5>3, WholeOp
      <4> QED BY <4>3, <4>4
    <3> QED BY <1>0, <3>1, <3>2 DEF Embedding
  <2> HIDE DEF x
  <2>6. ASSUME NEW m \in DOMAIN u
        PROVE  u[m] \in Placements /\ (IsPartial(u[m]) => \E k \in Ops : Product(k) /\ m = base[k].out)
    <3>1. CASE m = o.out
      <4>1. u[m] = x
        BY <2>1, <3>1 DEF IsPut
      <4> QED BY <2>4, <2>5, <3>1, <4>1
    <3>2. CASE m # o.out
      <4>1. m \in DOMAIN t /\ u[m] = t[m]
        BY <2>1, <2>6, <3>2 DEF IsPut
      <4> QED BY <4>1 DEF OnlyProducts
    <3> QED BY <3>1, <3>2
  <2> QED BY <2>6 DEF OnlyProducts
<1> QED BY <1>1, <1>2

\* So no output is partial if none of them lacks an AllReduce.
LEMMA TightIsGood ==
  ASSUME IsProgram(base), WellFormed, ComputeOnly, Typed, NEW p, NEW e, Rewrites(p, e), Tight(p, e),
         RunProgram(FALSE, p, inputs).raised = FALSE,
         NEW final, final = RunProgram(FALSE, p, inputs).tensors, AnalyzedCorrect(p, final)
  PROVE  OutputsWhole(p, final)
<1>0. /\ SingleAssignment(base) /\ SumsApart(base) /\ Embedding(p, e) /\ DOMAIN base = Ops
      /\ Len(p) \in Nat /\ Len(p) \in 0 .. Len(p) /\ DOMAIN p = 1 .. Len(p)
      /\ \A k \in Ops : e[k] \in 1 .. Len(p) /\ e[k] <= Len(p)
  BY DEF WellFormed, Rewrites, Embedding, IsProgram, Ops
<1>9. Missing(p, final) = {}
  BY DEF AnalyzedCorrect
<1>1. PICK g : Quiet(p, inputs, g) /\ final = g[Len(p)]
  BY <1>0, QuietRuns
<1>2. Writing(p, g) /\ g[0] = inputs
  BY <1>1, QuietWrites DEF Quiet
<1>3. \A i \in 0 .. Len(p) : Tracks(p, e, g[i], i)
  BY <1>2, AlwaysTracks
<1> DEFINE S == {i \in Nat : i <= Len(p) => OnlyProducts(g[i])}
<1>4. 0 \in S
  BY <1>2 DEF OnlyProducts, Typed, ComputeOnly
<1>5. ASSUME NEW i \in Nat, i \in S PROVE i + 1 \in S
  <2> SUFFICES ASSUME i + 1 <= Len(p) PROVE OnlyProducts(g[i + 1])
    OBVIOUS
  <2>1. i + 1 \in 1 .. Len(p) /\ (i + 1) - 1 = i /\ OnlyProducts(g[i]) /\ Tracks(p, e, g[i], i)
    BY <1>0, <1>3, <1>5
  <2>2. QuietStep(g[i], p[i + 1], g[i + 1])
    BY <1>1, <2>1 DEF Quiet
  <2>3. ASSUME NEW k \in Ops, e[k] <= i
        PROVE  base[k].out \in DOMAIN final /\ final[base[k].out] = g[i][base[k].out]
    <3>1. base[k].out \in DOMAIN final
      BY <1>0, <1>1, <1>3 DEF Tracks
    <3>2. i \in e[k] .. Len(p)
      BY <1>0, <2>1, <2>3
    <3>3. g[Len(p)][base[k].out] = g[i][base[k].out]
      BY <1>2, <3>2, ResultStays
    <3> QED BY <1>1, <3>1, <3>3
  <2>4. Settled(e, g[i], i, final)
    BY <2>3 DEF Settled
  <2> QED BY <1>9, <2>1, <2>2, <2>4, ProductsStep
<1> HIDE DEF S
<1>6. Nat \subseteq S
  BY <1>4, <1>5, Induction
<1>10. OnlyProducts(g[Len(p)])
  BY <1>0, <1>6 DEF S
<1>7. OnlyProducts(final)
  BY <1>1, <1>10
<1>8. ASSUME NEW n \in OutputNames(p, final), IsPartial(final[n]) PROVE FALSE
  <2>1. n \in DOMAIN final /\ n \notin ReadNames(p)
    BY DEF OutputNames
  <2>2. PICK k \in Ops : Product(k) /\ n = base[k].out
    BY <1>7, <1>8, <2>1 DEF OnlyProducts
  <2>3. p[e[k]].kind = "MatMul" /\ p[e[k]].out = n
    BY <1>0, <2>2 DEF Embedding, Similar, Product
  <2>4. e[k] \in PartialProducts(p, final)
    BY <1>0, <1>8, <2>1, <2>3 DEF PartialProducts, KnownPartial
  <2>5. ReducedAfter(p, e[k], n)
    BY <1>9, <2>3, <2>4 DEF Missing
  <2>6. PICK l \in (e[k] + 1) .. Len(p) : p[l].kind = "AllReduce" /\ p[l].ins[1] = n
    BY <2>5 DEF ReducedAfter
  <2>7. l \in 1 .. Len(p)
    BY <1>0
  <2>8. 1 \in DOMAIN p[l].ins
    BY <2>7, OpsOfTyped DEF IsOp
  <2>9. n \in ToSet(p[l].ins)
    BY <2>6, <2>8 DEF ToSet
  <2> QED BY <1>0, <2>1, <2>7, <2>9 DEF ReadNames
<1> QED BY <1>8 DEF OutputsWhole
-----------------------------------------------------------------------------
(***************************************************************************)
(* Every tactic is an AllReduce of the result of a product, at a position  *)
(* of the program given.                                                   *)
(***************************************************************************)
TacticSet == {Tactic(i, base[c].out) : i \in Ops, c \in {k \in Ops : Product(k)}}

LEMMA InOrderIsSeq ==
  ASSUME NEW S, NEW p, Len(p) \in Nat
  PROVE  InOrder(S, p) \in Seq(S)
<1> DEFINE Next1(x, i) == IF i \in S THEN Append(x, i) ELSE x
           Steps(n, f) == f = [i \in 0 .. n |-> IF i = 0 THEN << >> ELSE Next1(f[i - 1], i)]
           M == {m \in Nat : \E f : Steps(m, f)}
<1>1. 0 \in M
  <2> DEFINE f == [i \in 0 .. 0 |-> << >>]
  <2>1. Steps(0, f)
    OBVIOUS
  <2> QED BY <2>1
<1>2. ASSUME NEW m \in Nat, m \in M PROVE m + 1 \in M
  <2> HIDE DEF Next1
  <2>1. PICK f : Steps(m, f)
    BY <1>2
  <2> DEFINE g == [i \in 0 .. (m + 1) |-> IF i <= m THEN f[i] ELSE Next1(f[m], m + 1)]
  <2>2. \A i \in 0 .. (m + 1) : g[i] = IF i = 0 THEN << >> ELSE Next1(g[i - 1], i)
    <3> TAKE i \in 0 .. (m + 1)
    <3>1. i <= m => f[i] = IF i = 0 THEN << >> ELSE Next1(f[i - 1], i)
      BY <2>1
    <3> QED BY <3>1
  <2>3. g = [i \in 0 .. (m + 1) |-> g[i]]
    OBVIOUS
  <2> HIDE DEF g
  <2>4. Steps(m + 1, g)
    BY <2>2, <2>3
  <2> QED BY <2>4
<1> HIDE DEF M
<1>3. Nat \subseteq M
  BY <1>1, <1>2, Induction
<1> DEFINE g == CHOOSE f : Steps(Len(p), f)
<1>4. Steps(Len(p), g)
  BY <1>3 DEF M
<1>5. InOrder(S, p) = g[Len(p)]
  BY DEF InOrder
<1> HIDE DEF g
<1> DEFINE N == {i \in Nat : i <= Len(p) => g[i] \in Seq(S)}
<1>6. 0 \in N
  BY <1>4
<1>7. ASSUME NEW i \in Nat, i \in N PROVE i + 1 \in N
  <2> SUFFICES ASSUME i + 1 <= Len(p) PROVE g[i + 1] \in Seq(S)
    OBVIOUS
  <2>1. g[i] \in Seq(S) /\ i + 1 \in 0 .. Len(p) /\ i + 1 # 0 /\ (i + 1) - 1 = i
    BY <1>7
  <2>2. g[i + 1] = Next1(g[i], i + 1)
    BY <1>4, <2>1
  <2>3. CASE i + 1 \in S
    <3>1. g[i + 1] = Append(g[i], i + 1)
      BY <2>2, <2>3
    <3> QED BY <2>1, <2>3, <3>1, AppendProperties
  <2>4. CASE i + 1 \notin S
    BY <2>1, <2>2, <2>4
  <2> QED BY <2>3, <2>4
<1> HIDE DEF N
<1>8. Nat \subseteq N
  BY <1>6, <1>7, Induction
<1>9. g[Len(p)] \in Seq(S)
  BY <1>8 DEF N
<1> QED BY <1>5, <1>9

LEMMA Concats ==
  ASSUME NEW n \in Nat, NEW a
  PROVE  \E f : f = [i \in 0 .. n |-> IF i = 0 THEN << >> ELSE f[i - 1] \o a[i]]
<1> DEFINE Steps(m, f) == f = [i \in 0 .. m |-> IF i = 0 THEN << >> ELSE f[i - 1] \o a[i]]
           M == {m \in Nat : \E f : Steps(m, f)}
<1>1. 0 \in M
  <2> DEFINE f == [i \in 0 .. 0 |-> << >>]
  <2>1. Steps(0, f)
    OBVIOUS
  <2> QED BY <2>1
<1>2. ASSUME NEW m \in Nat, m \in M PROVE m + 1 \in M
  <2>1. PICK f : Steps(m, f)
    BY <1>2
  <2> DEFINE g == [i \in 0 .. (m + 1) |-> IF i <= m THEN f[i] ELSE f[m] \o a[m + 1]]
  <2>2. \A i \in 0 .. (m + 1) : g[i] = IF i = 0 THEN << >> ELSE g[i - 1] \o a[i]
    <3> TAKE i \in 0 .. (m + 1)
    <3>1. i <= m => f[i] = IF i = 0 THEN << >> ELSE f[i - 1] \o a[i]
      BY <2>1
    <3> QED BY <3>1
  <2>3. g = [i \in 0 .. (m + 1) |-> g[i]]
    OBVIOUS
  <2> HIDE DEF g
  <2>4. Steps(m + 1, g)
    BY <2>2, <2>3
  <2> HIDE DEF Steps
  <2> QED BY <2>4
<1> HIDE DEF M
<1>3. Nat \subseteq M
  BY <1>1, <1>2, Induction
<1> QED BY <1>3 DEF M

LEMMA ProposedAre ==
  ASSUME IsProgram(base), NEW st
  PROVE  Proposed(base, st) \in Seq(TacticSet)
<1> DEFINE p == base
           covered == {p[i].out : i \in Missing(p, st)}
           O == {i \in PartialProducts(p, st) :
                   /\ p[i].out \notin covered
                   /\ \A j \in PartialProducts(p, st) : p[j].out = p[i].out => i <= j}
           others == InOrder(O, p)
           after(i) == IF i \notin Missing(p, st) THEN << >>
                       ELSE IF i = Len(p) THEN <<Tactic(i, p[i].out)>>
                       ELSE <<Tactic(i, p[i].out), Tactic(Len(p), p[i].out)>>
           Steps(n, f) == f = [i \in 0 .. n |-> IF i = 0 THEN << >> ELSE f[i - 1] \o after(i)]
<1>0. Len(p) \in Nat
  BY DEF IsProgram
<1>3. \E f : Steps(Len(p), f)
  <2> DEFINE a == [i \in Ops |-> after(i)]
  <2>1. PICK f : f = [i \in 0 .. Len(p) |-> IF i = 0 THEN << >> ELSE f[i - 1] \o a[i]]
    BY <1>0, Concats
  <2>2. \A i \in Ops : a[i] = after(i)
    OBVIOUS
  <2> HIDE DEF a, after
  <2>3. \A i \in 0 .. Len(p) : f[i] = IF i = 0 THEN << >> ELSE f[i - 1] \o after(i)
    <3> TAKE i \in 0 .. Len(p)
    <3>1. f[i] = IF i = 0 THEN << >> ELSE f[i - 1] \o a[i]
      BY <2>1
    <3>2. CASE i = 0
      BY <3>1, <3>2
    <3>3. CASE i # 0
      <4>1. i \in Ops
        BY <1>0, <3>3 DEF Ops
      <4>2. a[i] = after(i)
        BY <2>2, <4>1
      <4> QED BY <3>1, <3>3, <4>2
    <3> QED BY <3>2, <3>3
  <2>4. f = [i \in 0 .. Len(p) |-> f[i]]
    BY <2>1
  <2>5. Steps(Len(p), f)
    BY <2>3, <2>4
  <2> QED BY <2>5
<1> DEFINE g == CHOOSE f : Steps(Len(p), f)
           tail == [k \in DOMAIN others |-> Tactic(Len(p), p[others[k]].out)]
<1>4. Steps(Len(p), g)
  BY <1>3
<1>5. Proposed(base, st) = g[Len(p)] \o tail
  BY DEF Proposed
<1>6. \A i \in PartialProducts(p, st) : i \in Ops /\ Product(i)
  BY DEF PartialProducts, Ops, Product
<1>7. ASSUME NEW i \in Ops PROVE after(i) \in Seq(TacticSet)
  <2>1. CASE i \notin Missing(p, st)
    BY <2>1
  <2>2. CASE i \in Missing(p, st)
    <3>1. Product(i) /\ Len(p) \in Ops
      BY <1>0, <1>6, <2>2 DEF Missing, Ops
    <3>2. Tactic(i, p[i].out) \in TacticSet /\ Tactic(Len(p), p[i].out) \in TacticSet
      BY <3>1 DEF TacticSet
    <3> HIDE DEF p
    <3> QED BY <2>2, <3>2
  <2> QED BY <2>1, <2>2
<1> HIDE DEF g, after
<1> DEFINE N == {i \in Nat : i <= Len(p) => g[i] \in Seq(TacticSet)}
<1>8. 0 \in N
  BY <1>0, <1>4
<1>9. ASSUME NEW i \in Nat, i \in N PROVE i + 1 \in N
  <2> SUFFICES ASSUME i + 1 <= Len(p) PROVE g[i + 1] \in Seq(TacticSet)
    OBVIOUS
  <2>1. g[i] \in Seq(TacticSet) /\ i + 1 \in 0 .. Len(p) /\ i + 1 # 0 /\ (i + 1) - 1 = i /\ i + 1 \in Ops
    BY <1>0, <1>9 DEF Ops
  <2>2. g[i + 1] = g[i] \o after(i + 1)
    BY <1>4, <2>1
  <2>3. after(i + 1) \in Seq(TacticSet)
    BY <1>7, <2>1
  <2> QED BY <2>1, <2>2, <2>3, ConcatProperties
<1> HIDE DEF N
<1>10. Nat \subseteq N
  BY <1>8, <1>9, Induction
<1>11. g[Len(p)] \in Seq(TacticSet)
  BY <1>0, <1>10 DEF N
<1>12. tail \in Seq(TacticSet)
  <2> HIDE DEF O
  <2>1. others \in Seq(O)
    BY <1>0, InOrderIsSeq
  <2> HIDE DEF others
  <2>2. ASSUME NEW k \in DOMAIN others PROVE Tactic(Len(p), p[others[k]].out) \in TacticSet
    <3>1. others[k] \in O
      BY <2>1
    <3>2. others[k] \in PartialProducts(p, st)
      BY <3>1 DEF O
    <3>3. Len(p) \in Ops
      BY <1>0, <1>6, <3>2 DEF Ops
    <3> QED BY <1>6, <3>2, <3>3 DEF TacticSet
  <2>3. Len(others) \in Nat /\ DOMAIN others = 1 .. Len(others)
    BY <2>1, LenProperties
  <2>4. tail \in [1 .. Len(others) -> TacticSet]
    BY <2>2, <2>3
  <2> HIDE DEF tail
  <2> QED BY <2>3, <2>4, SeqDef
<1> HIDE DEF tail
<1> QED BY <1>5, <1>11, <1>12, ConcatProperties
-----------------------------------------------------------------------------
(***************************************************************************)
(* The programs that are considered rewrite the program given.             *)
(***************************************************************************)
Identity == [k \in Ops |-> k]

LEMMA RewritesItself ==
  ASSUME IsProgram(base), WellFormed
  PROVE  Rewrites(base, Identity)
<1>1. SingleAssignment(base) /\ SumsApart(base) /\ Len(base) \in Nat
  BY DEF WellFormed, IsProgram
<1>2. \A k \in Ops : Similar(base[k], base[k])
  BY DEF Similar
<1>3. Identity \in [Ops -> 1 .. Len(base)] /\ \A k \in Ops : Identity[k] = k
  BY DEF Identity, Ops
<1> HIDE DEF Identity
<1>4. Embedding(base, Identity)
  BY <1>2, <1>3 DEF Embedding, Ops
<1>5. ReadsSums(base, Identity)
  BY <1>1, <1>3, NamesApart DEF ReadsSums
<1> QED BY <1>4, <1>5 DEF Rewrites

LEMMA InsertRewrites ==
  ASSUME IsProgram(base), WellFormed, NEW p, NEW e, Rewrites(p, e),
         NEW at, NEW c \in Ops, Product(c), NEW q, InsertsSum(p, at, c, q)
  PROVE  Rewrites(q, Moved(e, at))
BY InsertEmbeds, InsertReadsSums DEF Rewrites, WellFormed

Applies(ts, S, f) ==
  /\ f[0] = base
  /\ \A k \in 1 .. Len(ts) : f[k] = IF k \in S THEN ApplyTactic(f[k - 1], ts[k]) ELSE f[k - 1]

LEMMA TacticsApply ==
  ASSUME NEW ts, Len(ts) \in Nat, NEW S
  PROVE  \E f : Applies(ts, S, f) /\ ApplyTactics(base, ts, S) = f[Len(ts)]
<1> DEFINE Next1(x, k) == IF k \in S THEN ApplyTactic(x, ts[k]) ELSE x
           Steps(n, f) == f = [k \in 0 .. n |-> IF k = 0 THEN base
                                               ELSE IF k \in S THEN ApplyTactic(f[k - 1], ts[k])
                                               ELSE f[k - 1]]
           M == {m \in Nat : \E f : Steps(m, f)}
<1>1. 0 \in M
  <2> DEFINE f == [i \in 0 .. 0 |-> base]
  <2>1. Steps(0, f)
    OBVIOUS
  <2> HIDE DEF Steps
  <2> QED BY <2>1
<1>2. ASSUME NEW m \in Nat, m \in M PROVE m + 1 \in M
  <2>1. PICK f : Steps(m, f)
    BY <1>2
  <2> HIDE DEF Next1
  <2> DEFINE g == [i \in 0 .. (m + 1) |-> IF i <= m THEN f[i] ELSE Next1(f[m], m + 1)]
  <2>2. \A i \in 0 .. (m + 1) : g[i] = IF i = 0 THEN base ELSE Next1(g[i - 1], i)
    <3> TAKE i \in 0 .. (m + 1)
    <3>1. i <= m => f[i] = IF i = 0 THEN base ELSE Next1(f[i - 1], i)
      BY <2>1 DEF Next1
    <3> QED BY <3>1
  <2>3. g = [i \in 0 .. (m + 1) |-> g[i]]
    OBVIOUS
  <2> HIDE DEF g
  <2>4. Steps(m + 1, g)
    BY <2>2, <2>3 DEF Next1
  <2> HIDE DEF Steps
  <2> QED BY <2>4
<1> HIDE DEF M
<1>3. Nat \subseteq M
  BY <1>1, <1>2, Induction
<1> DEFINE g == CHOOSE f : Steps(Len(ts), f)
<1>4. Steps(Len(ts), g)
  BY <1>3 DEF M
<1>5. ApplyTactics(base, ts, S) = g[Len(ts)]
  BY DEF ApplyTactics
<1> HIDE DEF g
<1>6. g[0] = base /\ \A k \in 1 .. Len(ts) : g[k] = IF k \in S THEN ApplyTactic(g[k - 1], ts[k])
                                                  ELSE g[k - 1]
  <2>1. g[0] = base
    BY <1>4
  <2>2. ASSUME NEW k \in 1 .. Len(ts)
        PROVE  g[k] = IF k \in S THEN ApplyTactic(g[k - 1], ts[k]) ELSE g[k - 1]
    <3>1. k \in 0 .. Len(ts) /\ k # 0
      OBVIOUS
    <3> QED BY <1>4, <3>1
  <2> QED BY <2>1, <2>2
<1> QED BY <1>5, <1>6 DEF Applies

\* Each tactic inserts a sum, or is not in the combination.
LEMMA EachInserts ==
  ASSUME IsProgram(base), NEW ts \in Seq(TacticSet), NEW S, NEW f, Applies(ts, S, f)
  PROVE  /\ \A k \in 0 .. Len(ts) : IsProgram(f[k])
         /\ \A k \in 1 .. Len(ts) :
              \/ k \notin S /\ f[k] = f[k - 1]
              \/ k \in S /\ \E at, c : c \in Ops /\ Product(c) /\ InsertsSum(f[k - 1], at, c, f[k])
<1> DEFINE Fine1(p) == IsProgram(p) /\ Len(p) >= Len(base)
           M == {k \in Nat : k <= Len(ts) => Fine1(f[k])}
<1>0. Len(ts) \in Nat /\ Len(base) \in Nat
  BY LenProperties DEF IsProgram
<1>1. ASSUME NEW k \in 1 .. Len(ts), Fine1(f[k - 1])
      PROVE  /\ Fine1(f[k])
             /\ \/ k \notin S /\ f[k] = f[k - 1]
                \/ k \in S /\ \E at, c : c \in Ops /\ Product(c) /\ InsertsSum(f[k - 1], at, c, f[k])
  <2>1. CASE k \notin S
    <3>1. f[k] = f[k - 1]
      BY <2>1 DEF Applies
    <3> QED BY <1>1, <2>1, <3>1
  <2>2. CASE k \in S
    <3>1. f[k] = ApplyTactic(f[k - 1], ts[k])
      BY <2>2 DEF Applies
    <3>2. ts[k] \in TacticSet
      BY ElementOfSeq
    <3>3. PICK i \in Ops, c \in Ops : Product(c) /\ ts[k] = Tactic(i, base[c].out)
      BY <3>2 DEF TacticSet
    <3>4. ts[k].at = i /\ ts[k].name = base[c].out
      BY <3>3 DEF Tactic
    <3>5. IsProgram(f[k - 1]) /\ Len(f[k - 1]) \in Nat /\ Len(f[k - 1]) >= Len(base)
      BY <1>1 DEF IsProgram
    <3>6. ts[k].at \in 1 .. Len(f[k - 1])
      BY <1>0, <3>4, <3>5 DEF Ops
    <3>7. InsertsSum(f[k - 1], ts[k].at, c, f[k])
      BY <3>1, <3>4, <3>5, <3>6, TacticInserts
    <3>8. IsProgram(f[k]) /\ Len(f[k]) = Len(f[k - 1]) + 1
      BY <3>5, <3>7, InsertedAt
    <3>9. Fine1(f[k])
      BY <1>0, <3>5, <3>8
    <3> QED BY <2>2, <3>3, <3>7, <3>9
  <2> QED BY <2>1, <2>2
<1>2. 0 \in M
  BY <1>0 DEF Applies
<1> HIDE DEF Fine1
<1>3. ASSUME NEW k \in Nat, k \in M PROVE k + 1 \in M
  <2> SUFFICES ASSUME k + 1 <= Len(ts) PROVE Fine1(f[k + 1])
    OBVIOUS
  <2>1. k + 1 \in 1 .. Len(ts) /\ (k + 1) - 1 = k /\ Fine1(f[k])
    BY <1>0, <1>3
  <2> QED BY <1>1, <2>1
<1> HIDE DEF M
<1>4. Nat \subseteq M
  BY <1>2, <1>3, Induction
<1>5. \A k \in 0 .. Len(ts) : Fine1(f[k])
  BY <1>0, <1>4 DEF M
<1>6. \A k \in 1 .. Len(ts) : k - 1 \in 0 .. Len(ts)
  BY <1>0
<1> QED BY <1>1, <1>5, <1>6 DEF Fine1

LEMMA CombinationRewrites ==
  ASSUME IsProgram(base), WellFormed, NEW ts \in Seq(TacticSet), NEW S
  PROVE  \E e : Rewrites(ApplyTactics(base, ts, S), e)
<1>0. Len(ts) \in Nat
  BY LenProperties
<1>1. PICK f : Applies(ts, S, f) /\ ApplyTactics(base, ts, S) = f[Len(ts)]
  BY <1>0, TacticsApply
<1> DEFINE Rewritten(p) == \E e : Rewrites(p, e)
           M == {k \in Nat : k <= Len(ts) => Rewritten(f[k])}
<1>2. 0 \in M
  BY <1>1, RewritesItself DEF Applies
<1>3. ASSUME NEW k \in Nat, k \in M PROVE k + 1 \in M
  <2> SUFFICES ASSUME k + 1 <= Len(ts) PROVE Rewritten(f[k + 1])
    OBVIOUS
  <2>1. k + 1 \in 1 .. Len(ts) /\ (k + 1) - 1 = k /\ Rewritten(f[k])
    BY <1>0, <1>3
  <2>2. \/ f[k + 1] = f[k]
        \/ \E at, c : c \in Ops /\ Product(c) /\ InsertsSum(f[k], at, c, f[k + 1])
    BY <1>1, <2>1, EachInserts
  <2>3. CASE f[k + 1] = f[k]
    BY <2>1, <2>3
  <2>4. CASE \E at, c : c \in Ops /\ Product(c) /\ InsertsSum(f[k], at, c, f[k + 1])
    <3>1. PICK at, c : c \in Ops /\ Product(c) /\ InsertsSum(f[k], at, c, f[k + 1])
      BY <2>4
    <3>2. PICK e : Rewrites(f[k], e)
      BY <2>1
    <3> QED BY <3>1, <3>2, InsertRewrites
  <2> QED BY <2>2, <2>3, <2>4
<1> HIDE DEF M
<1>4. Nat \subseteq M
  BY <1>2, <1>3, Induction
<1>5. Rewritten(f[Len(ts)])
  BY <1>0, <1>4 DEF M
<1> QED BY <1>1, <1>5
-----------------------------------------------------------------------------
(***************************************************************************)
(* The optimizer.                                                          *)
(***************************************************************************)
LEMMA MinIs ==
  ASSUME NEW S, S \subseteq Nat, S # {}
  PROVE  Min(S) \in S /\ \A x \in S : Min(S) <= x
<1> DEFINE M == {n \in Nat : \A m \in 0 .. n : m \notin S}
<1>1. ASSUME \A x \in S : \E y \in S : ~(x <= y) PROVE FALSE
  <2>1. 0 \in M
    <3>1. 0 \notin S
      BY <1>1
    <3> QED BY <3>1
  <2>2. ASSUME NEW n \in Nat, n \in M PROVE n + 1 \in M
    <3>1. n + 1 \notin S
      BY <1>1, <2>2
    <3> QED BY <2>2, <3>1
  <2> HIDE DEF M
  <2>3. Nat \subseteq M
    BY <2>1, <2>2, Induction
  <2>4. \A n \in Nat : n \notin S
    BY <2>3 DEF M
  <2> QED BY <2>4
<1>2. \E x \in S : \A y \in S : x <= y
  BY <1>1
<1> QED BY <1>2 DEF Min

Readable(p) == IsProgram(p) /\ \A i \in 1 .. Len(p) : 1 \in DOMAIN p[i].ins

\* The program with an AllReduce inserted.
LEMMA InsertedPieces ==
  ASSUME NEW p, IsProgram(p), NEW i \in 1 .. Len(p), NEW n, n = p[i].out, NEW s, s = FreshName[n],
         NEW q, q = InsertAllReduce(p, i)
  PROVE  /\ Len(q) = Len(p) + 1 /\ q = [j \in 1 .. (Len(p) + 1) |-> q[j]]
         /\ \A j \in 1 .. i : q[j] = p[j]
         /\ q[i + 1] = AllReduceOp(n, s)
         /\ \A j \in (i + 1) .. Len(p) : q[j + 1] = ReadInstead(p[j], n, s)
<1> DEFINE f == [j \in 1 .. (Len(p) - i) |-> ReadInstead(p[i + j], n, s)]
<1>1. Len(p) \in Nat
  BY DEF IsProgram
<1>2. q = Pieces(p, i, AllReduceOp(n, s), f)
  BY DEF InsertAllReduce, Pieces
<1>3. From1(f, Len(p) - i)
  BY DEF From1
<1>4. ASSUME NEW j \in (i + 1) .. Len(p) PROVE f[j - i] = ReadInstead(p[j], n, s)
  <2>1. j - i \in 1 .. (Len(p) - i) /\ i + (j - i) = j
    BY <1>1
  <2> QED BY <2>1
<1> HIDE DEF f
<1>5. InPieces(p, i, AllReduceOp(n, s), f, q)
  BY <1>2, <1>3, Spliced
<1> QED BY <1>4, <1>5 DEF InPieces

\* Nothing that is reduced is known to be whole.
NotRedundant(p, st) ==
  \A i \in 1 .. Len(p) : p[i].kind = "AllReduce" => ~KnownWhole(st, p[i].ins[1])

LEMMA NoneRedundant ==
  ASSUME NEW st, NEW p, NotRedundant(p, st)
  PROVE  Redundant(p, st) = {}
BY DEF NotRedundant, Redundant

LEMMA InsertNotRedundant ==
  ASSUME NEW st, NEW p, Readable(p), NEW i \in Missing(p, st), NEW q, q = InsertAllReduce(p, i)
  PROVE  Readable(q) /\ (NotRedundant(p, st) => NotRedundant(q, st))
<1> DEFINE n == p[i].out
           s == FreshName[n]
<1>1. /\ i \in 1 .. Len(p) /\ KnownPartial(st, n) /\ ~ReducedAfter(p, i, n)
      /\ IsProgram(p) /\ Len(p) \in Nat
  BY DEF Missing, PartialProducts, Readable, IsProgram
<1>2. /\ Len(q) = Len(p) + 1 /\ q = [j \in 1 .. (Len(p) + 1) |-> q[j]]
      /\ \A j \in 1 .. i : q[j] = p[j]
      /\ q[i + 1] = AllReduceOp(n, s)
      /\ \A j \in (i + 1) .. Len(p) : q[j + 1] = ReadInstead(p[j], n, s)
  BY <1>1, InsertedPieces
<1>6. /\ \A j \in 1 .. i : q[j] = p[j]
      /\ \A j \in (i + 1) .. Len(p) : q[j + 1] = ReadInstead(p[j], n, s)
  BY <1>2
<1>7. (\A j \in 1 .. i : j \in 1 .. Len(p)) /\ (\A j \in (i + 1) .. Len(p) : j \in 1 .. Len(p))
  BY <1>1
<1> HIDE DEF s
<1>3. ASSUME NEW j \in 1 .. Len(q)
      PROVE  \/ j \in 1 .. i
             \/ j = i + 1
             \/ j - 1 \in (i + 1) .. Len(p) /\ (j - 1) + 1 = j
  BY <1>1, <1>2
<1>4. ASSUME NEW j \in 1 .. Len(q)
      PROVE  /\ Fields \subseteq DOMAIN q[j] /\ 1 \in DOMAIN q[j].ins
             /\ NotRedundant(p, st) /\ q[j].kind = "AllReduce" => ~KnownWhole(st, q[j].ins[1])
  <2>1. CASE j \in 1 .. i
    <3>1. q[j] = p[j] /\ j \in 1 .. Len(p)
      BY <1>6, <1>7, <2>1
    <3> QED BY <3>1 DEF Readable, IsProgram, NotRedundant
  <2>2. CASE j = i + 1
    <3>1. q[j] = AllReduceOp(n, s)
      BY <1>2, <2>2
    <3>2. Fields \subseteq DOMAIN q[j] /\ 1 \in DOMAIN q[j].ins /\ q[j].ins[1] = n
      BY <3>1, SumFields
    <3> QED BY <1>1, <3>2 DEF KnownPartial, KnownWhole
  <2>3. CASE j - 1 \in (i + 1) .. Len(p) /\ (j - 1) + 1 = j
    <3> DEFINE o == p[j - 1]
    <3>1. q[j] = ReadInstead(o, n, s) /\ j - 1 \in 1 .. Len(p)
      BY <1>6, <1>7, <2>3
    <3>2. Fields \subseteq DOMAIN o /\ 1 \in DOMAIN o.ins
      BY <3>1 DEF Readable, IsProgram
    <3>3. /\ Fields \subseteq DOMAIN q[j] /\ q[j].kind = o.kind /\ DOMAIN q[j].ins = DOMAIN o.ins
          /\ q[j].ins[1] = IF o.ins[1] = n THEN s ELSE o.ins[1]
      BY <3>1, <3>2, ReadInsteadIs
    <3>4. o.kind = "AllReduce" => o.ins[1] # n
      BY <1>1, <2>3 DEF ReducedAfter
    <3> QED BY <3>1, <3>2, <3>3, <3>4 DEF NotRedundant
  <2> QED BY <1>3, <2>1, <2>2, <2>3
<1>5. IsProgram(q)
  BY <1>1, <1>2, <1>4 DEF IsProgram
<1> QED BY <1>4, <1>5 DEF Readable, NotRedundant

\* What the run of the given program says of it.
Ran(st) == /\ RunProgram(FALSE, base, inputs).raised = FALSE
           /\ st = RunProgram(FALSE, base, inputs).tensors

\* The states g of the run of the given program that ends in st.
RunOfBase(g, st) ==
  /\ Quiet(base, inputs, g) /\ st = g[Len(base)] /\ g[0] = inputs /\ Writing(base, g)
  /\ DOMAIN st = DOMAIN inputs \cup WrittenNames(base)
  /\ \A i \in Ops : /\ Present(g[i - 1], base[i])
                    /\ QuietStep(g[i - 1], base[i], g[i])
                    /\ st[base[i].out] = g[i][base[i].out]
                    /\ ReadOf(g[i - 1], base[i]) = ReadOf(st, base[i])

LEMMA BaseRan ==
  ASSUME IsProgram(base), SingleAssignment(base), ReadsEarlier(base), NEW st, Ran(st)
  PROVE  \E g : RunOfBase(g, st)
<1>0. Len(base) \in Nat
  BY DEF IsProgram
<1>1. PICK g : Quiet(base, inputs, g) /\ st = g[Len(base)]
  BY <1>0, QuietRuns DEF Ran
<1>2. Writing(base, g) /\ g[0] = inputs
  BY <1>1, QuietWrites DEF Quiet
<1>3. \A i \in Ops : Present(g[i - 1], base[i])
  BY <1>2, BasePasses
<1>4. \A i \in Ops : QuietStep(g[i - 1], base[i], g[i])
  BY <1>1 DEF Quiet, Ops
<1>5. /\ DOMAIN st = DOMAIN inputs \cup WrittenNames(base)
      /\ \A i \in Ops : /\ st[base[i].out] = g[i][base[i].out]
                        /\ ReadOf(g[i - 1], base[i]) = ReadOf(st, base[i])
  BY <1>1, <1>2, BaseKept
<1>6. RunOfBase(g, st)
  BY <1>1, <1>2, <1>3, <1>4, <1>5 DEF RunOfBase
<1> QED BY <1>6

LEMMA BaseNotRedundant ==
  ASSUME IsProgram(base), SingleAssignment(base), ReadsEarlier(base), HasFirst, NEW st, Ran(st)
  PROVE  NotRedundant(base, st)
<1>0. PICK g : RunOfBase(g, st)
  BY BaseRan
<1>1. \A i \in Ops : /\ Present(g[i - 1], base[i])
                     /\ QuietStep(g[i - 1], base[i], g[i])
                     /\ ReadOf(g[i - 1], base[i]) = ReadOf(st, base[i])
  BY <1>0 DEF RunOfBase
<1>2. ASSUME NEW i \in Ops, base[i].kind = "AllReduce" PROVE ~KnownWhole(st, base[i].ins[1])
  <2>1. ~Raises(base[i], ReadOf(g[i - 1], base[i]))
    BY <1>1 DEF QuietStep
  <2>2. IsPartial(ReadOf(g[i - 1], base[i])[1])
    BY <1>2, <2>1 DEF Raises
  <2>3. IsPartial(ReadOf(st, base[i])[1])
    BY <1>1, <2>2
  <2>4. ReadOf(st, base[i])[1] = st[base[i].ins[1]]
    BY DEF ReadOf, HasFirst
  <2> QED BY <2>3, <2>4 DEF KnownWhole
<1> QED BY <1>2 DEF NotRedundant, Ops
\* What is inserted is the sum of a partial product, after it.
Ordered(p, e) ==
  \A i \in 1 .. Len(p) :
    \/ \E k \in Ops : e[k] = i
    \/ \E k \in Ops : /\ Product(k) /\ KnownPartial(states, base[k].out) /\ e[k] < i
                      /\ p[i] = AllReduceOp(base[k].out, SumOf(k))

\* What the given program reduces is still reduced.
ReadsSame(p, e) ==
  \A k \in Ops : base[k].kind = "AllReduce" => p[e[k]].ins[1] = base[k].ins[1]

Optimized(p, e) == Rewrites(p, e) /\ Tight(p, e) /\ Ordered(p, e) /\ ReadsSame(p, e)

LEMMA OptimizedItself ==
  ASSUME IsProgram(base), WellFormed
  PROVE  Optimized(base, Identity)
<1>1. Rewrites(base, Identity) /\ SingleAssignment(base) /\ SumsApart(base)
  BY RewritesItself DEF WellFormed
<1>2. \A k \in Ops : Identity[k] = k
  BY DEF Identity
<1> HIDE DEF Identity
<1>3. Tight(base, Identity)
  <2>1. ASSUME NEW i \in Ops, NEW j \in Ops, base[i] = AllReduceOp(base[j].out, SumOf(j)) PROVE FALSE
    <3>1. base[i].out = SumOf(j)
      BY <2>1, SumFields
    <3> QED BY <1>1, <3>1, NamesApart
  <2> QED BY <2>1 DEF Tight, Ops
<1>4. Ordered(base, Identity) /\ ReadsSame(base, Identity)
  BY <1>2 DEF Ordered, ReadsSame, Ops
<1> QED BY <1>1, <1>3, <1>4 DEF Optimized

\* A product that lacks an AllReduce is one of the given program.
LEMMA MissingIsProduct ==
  ASSUME IsProgram(base), NEW p, NEW e, Embedding(p, e), NEW i \in Missing(p, states)
  PROVE  \E c \in Ops : /\ e[c] = i /\ Product(c) /\ p[i].out = base[c].out
                        /\ KnownPartial(states, base[c].out) /\ ~ReducedAfter(p, e[c], base[c].out)
<1>1. /\ i \in 1 .. Len(p) /\ p[i].kind = "MatMul" /\ KnownPartial(states, p[i].out)
      /\ ~ReducedAfter(p, i, p[i].out)
  BY DEF Missing, PartialProducts
<1>2. ~Inserted(p[i])
  <2>1. ASSUME Inserted(p[i]) PROVE FALSE
    <3>1. p[i].kind = "AllReduce"
      BY <2>1, InsertedReads
    <3> QED BY <1>1, <3>1
  <2> QED BY <2>1
<1>3. PICK c \in Ops : e[c] = i
  BY <1>1, <1>2 DEF Embedding
<1>4. Similar(p[i], base[c])
  BY <1>3 DEF Embedding
<1> QED BY <1>1, <1>3, <1>4 DEF Similar, Product

\* Everything after an insertion of the optimizer reads the sum.
ReadsAfter(p, at, c, q) ==
  \A j \in (at + 1) .. Len(p) : q[j + 1] = ReadInstead(p[j], base[c].out, SumOf(c))

LEMMA OptimizerInserts ==
  ASSUME IsProgram(base), WellFormed, NEW p, NEW e, Rewrites(p, e), NEW c \in Ops
  PROVE  /\ InsertsSum(p, e[c], c, InsertAllReduce(p, e[c]))
         /\ ReadsAfter(p, e[c], c, InsertAllReduce(p, e[c]))
<1>1. /\ IsProgram(p) /\ Len(p) \in Nat /\ e[c] \in 1 .. Len(p) /\ p[e[c]].out = base[c].out
  BY DEF Rewrites, Embedding, Similar, IsProgram
<1>2. ASSUME NEW j \in (e[c] + 1) .. Len(p) PROVE p[j].out # base[c].out
  <2>1. j \in 1 .. Len(p) /\ j # e[c]
    BY <1>1
  <2> QED BY <2>1, WrittenOnce
<1> QED BY <1>1, <1>2, RuleInserts DEF ReadsAfter

LEMMA InsertTight ==
  ASSUME IsProgram(base), WellFormed, NEW p, NEW e, Rewrites(p, e), Tight(p, e),
         NEW c \in Ops, Product(c), NEW q, InsertsSum(p, e[c], c, q), ReadsAfter(p, e[c], c, q)
  PROVE  Tight(q, Moved(e, e[c]))
<1> DEFINE at == e[c]
           m == Moved(e, at)
<1>0. /\ SingleAssignment(base) /\ ReadsEarlier(base) /\ SumsApart(base) /\ Embedding(p, e)
      /\ IsProgram(p) /\ Len(p) \in Nat /\ at \in 1 .. Len(p) /\ \A k \in Ops : e[k] \in 1 .. Len(p)
  BY DEF WellFormed, Rewrites, Embedding, IsProgram
<1>1. Len(q) = Len(p) + 1
  BY <1>0, InsertedAt
<1>2. \A k \in Ops : m[k] = Place(e[k], at)
  BY DEF Moved
<1> HIDE DEF m
<1>3. ASSUME NEW k \in Ops, NEW n, n \in ToSet(q[m[k]].ins), n # SumOf(c) PROVE n \in ToSet(p[e[k]].ins)
  <2>1. \/ q[m[k]] = p[e[k]]
        \/ q[m[k]] = ReadInstead(p[e[k]], base[c].out, SumOf(c))
    <3>1. \/ q[Place(e[k], at)] = p[e[k]]
          \/ q[Place(e[k], at)] = ReadInstead(p[e[k]], base[c].out, SumOf(c))
      BY <1>0, PlacedAt
    <3> QED BY <1>2, <3>1
  <2>2. PICK x \in DOMAIN q[m[k]].ins : q[m[k]].ins[x] = n
    BY <1>3 DEF ToSet
  <2>3. CASE q[m[k]] = p[e[k]]
    BY <1>3, <2>3
  <2>4. CASE q[m[k]] = ReadInstead(p[e[k]], base[c].out, SumOf(c))
    <3>1. Fields \subseteq DOMAIN p[e[k]]
      BY <1>0 DEF IsProgram
    <3>2. x \in DOMAIN p[e[k]].ins /\ n = IF p[e[k]].ins[x] = base[c].out THEN SumOf(c) ELSE p[e[k]].ins[x]
      BY <2>2, <2>4, <3>1, ReadInsteadIs
    <3>3. p[e[k]].ins[x] = n
      BY <1>3, <3>2
    <3> QED BY <3>2, <3>3 DEF ToSet
  <2> QED BY <2>1, <2>3, <2>4
<1>4. ASSUME NEW k \in Ops PROVE base[c].out \notin ToSet(q[m[k]].ins)
  <2> SUFFICES ASSUME base[c].out \in ToSet(q[m[k]].ins) PROVE FALSE
    OBVIOUS
  <2>1. PICK x \in DOMAIN q[m[k]].ins : q[m[k]].ins[x] = base[c].out
    BY DEF ToSet
  <2>2. CASE e[k] <= at
    <3>1. m[k] = e[k] /\ e[k] \in 1 .. at
      BY <1>0, <1>2, <2>2 DEF Place
    <3>2. q[m[k]] = p[e[k]]
      BY <3>1 DEF InsertsSum
    <3>3. Similar(p[e[k]], base[k])
      BY <1>0 DEF Embedding
    <3>4. x \in DOMAIN base[k].ins /\ base[k].ins[x] = base[c].out
      BY <1>0, <2>1, <3>2, <3>3, NamesApart DEF Similar
    <3>5. c < k
      BY <1>0, <3>4, WrittenBefore
    <3>6. e[c] < e[k]
      BY <1>0, <3>5 DEF Embedding
    <3> QED BY <1>0, <2>2, <3>6
  <2>3. CASE e[k] > at
    <3>1. m[k] = e[k] + 1 /\ e[k] \in (at + 1) .. Len(p)
      BY <1>0, <1>2, <2>3 DEF Place
    <3>2. q[m[k]] = ReadInstead(p[e[k]], base[c].out, SumOf(c))
      BY <3>1 DEF ReadsAfter
    <3>3. Fields \subseteq DOMAIN p[e[k]]
      BY <1>0 DEF IsProgram
    <3>4. x \in DOMAIN p[e[k]].ins /\ q[m[k]].ins[x] # base[c].out
      BY <1>0, <2>1, <3>2, <3>3, ReadInsteadIs, NamesApart
    <3> QED BY <2>1, <3>4
  <2> QED BY <1>0, <2>2, <2>3
<1>5. ASSUME NEW i \in 1 .. Len(q), NEW j \in Ops, q[i] = AllReduceOp(base[j].out, SumOf(j)), NEW k \in Ops
      PROVE  base[j].out \notin ToSet(q[m[k]].ins)
  <2>1. CASE j = c
    BY <1>4, <2>1
  <2>2. CASE j # c
    <3>1. i # at + 1
      <4>1. ASSUME i = at + 1 PROVE FALSE
        <5>1. q[i] = AllReduceOp(base[c].out, SumOf(c))
          BY <4>1 DEF InsertsSum
        <5>3. q[i].out = SumOf(c)
          BY <5>1, SumFields
        <5>4. q[i].out = SumOf(j)
          BY <1>5, SumFields
        <5>2. SumOf(c) = SumOf(j)
          BY <5>3, <5>4
        <5> QED BY <1>0, <2>2, <5>2, NamesApart
      <4> QED BY <4>1
    <3>2. PICK l \in 1 .. Len(p) : i = Place(l, at)
      BY <1>0, <3>1, FromPlace
    <3>3. q[i] = p[l] \/ q[i] = ReadInstead(p[l], base[c].out, SumOf(c))
      BY <1>0, <3>2, PlacedAt
    <3>4. p[l].out = SumOf(j)
      <4>1. q[i].out = SumOf(j)
        BY <1>5, SumFields
      <4>2. Fields \subseteq DOMAIN p[l]
        BY <1>0 DEF IsProgram
      <4> QED BY <3>3, <4>1, <4>2, ReadInsteadIs
    <3>5. Inserted(p[l])
      <4>1. ASSUME NEW h \in Ops, e[h] = l PROVE FALSE
        <5>1. p[l].out = base[h].out
          BY <1>0, <4>1 DEF Embedding, Similar
        <5> QED BY <1>0, <3>4, <5>1, NamesApart
      <4> QED BY <1>0, <4>1 DEF Embedding
    <3>6. PICK h \in Ops : p[l].out = SumOf(h) /\ p[l].ins[1] \in {base[h].out, SumOf(h)}
                           /\ p[l] = AllReduceOp(p[l].ins[1], SumOf(h))
      BY <3>5, InsertedReads
    <3>7. h = j
      BY <1>0, <3>4, <3>6, NamesApart
    <3>8. q[i].ins[1] = base[j].out
      BY <1>5, SumFields
    <3>9. p[l].ins[1] = base[j].out
      <4>1. CASE q[i] = p[l]
        BY <3>8, <4>1
      <4>2. CASE q[i] = ReadInstead(p[l], base[c].out, SumOf(c))
        <5>1. Fields \subseteq DOMAIN p[l] /\ 1 \in DOMAIN p[l].ins
          BY <3>6, SumFields
        <5>2. q[i].ins[1] = IF p[l].ins[1] = base[c].out THEN SumOf(c) ELSE p[l].ins[1]
          BY <4>2, <5>1, ReadInsteadIs
        <5> QED BY <1>0, <3>8, <5>2, NamesApart
      <4> QED BY <3>3, <4>1, <4>2
    <3>10. p[l] = AllReduceOp(base[j].out, SumOf(j))
      BY <3>6, <3>7, <3>9
    <3>11. base[j].out \notin ToSet(p[e[k]].ins)
      BY <3>10 DEF Tight
    <3>12. base[j].out # SumOf(c)
      BY <1>0, NamesApart
    <3> QED BY <1>3, <3>11, <3>12
  <2> QED BY <2>1, <2>2
<1>6. Tight(q, m)
  BY <1>5 DEF Tight
<1> QED BY <1>6 DEF m
LEMMA InsertOrdered ==
  ASSUME IsProgram(base), WellFormed, HasFirst, NEW p, NEW e, Rewrites(p, e), Ordered(p, e),
         ReadsSame(p, e), NEW c \in Ops, Product(c), KnownPartial(states, base[c].out),
         ~ReducedAfter(p, e[c], base[c].out), NEW q, InsertsSum(p, e[c], c, q)
  PROVE  Ordered(q, Moved(e, e[c])) /\ ReadsSame(q, Moved(e, e[c]))
<1> DEFINE at == e[c]
           m == Moved(e, at)
<1>0. /\ SingleAssignment(base) /\ ReadsEarlier(base) /\ SumsApart(base) /\ Embedding(p, e)
      /\ IsProgram(p) /\ Len(p) \in Nat /\ at \in 1 .. Len(p) /\ \A k \in Ops : e[k] \in 1 .. Len(p)
  BY DEF WellFormed, Rewrites, Embedding, IsProgram
<1>1. \A k \in Ops : m[k] = Place(e[k], at)
  BY DEF Moved
<1> HIDE DEF m
<1>2. ASSUME NEW i \in 1 .. Len(q)
      PROVE  \/ \E k \in Ops : m[k] = i
             \/ \E k \in Ops : /\ Product(k) /\ KnownPartial(states, base[k].out) /\ m[k] < i
                               /\ q[i] = AllReduceOp(base[k].out, SumOf(k))
  <2>1. CASE i = at + 1
    <3>1. q[i] = AllReduceOp(base[c].out, SumOf(c))
      BY <2>1 DEF InsertsSum
    <3>2. m[c] < i
      BY <1>0, <1>1, <2>1 DEF Place
    <3> QED BY <3>1, <3>2
  <2>2. CASE i # at + 1
    <3>1. PICK l \in 1 .. Len(p) : i = Place(l, at)
      BY <1>0, <2>2, FromPlace
    <3>2. CASE \E k \in Ops : e[k] = l
      BY <1>1, <3>1, <3>2
    <3>3. CASE ~\E k \in Ops : e[k] = l
      <4>1. PICK k \in Ops : /\ Product(k) /\ KnownPartial(states, base[k].out) /\ e[k] < l
                             /\ p[l] = AllReduceOp(base[k].out, SumOf(k))
        BY <3>3 DEF Ordered
      <4>2. m[k] < i
        BY <1>0, <1>1, <3>1, <4>1 DEF Place
      <4>3. q[i] = p[l]
        <5>1. q[i] = p[l] \/ (l > at /\ q[i] = ReadInstead(p[l], base[c].out, SumOf(c)))
          BY <1>0, <3>1, PlacedAt
        <5>2. ASSUME l > at, q[i] = ReadInstead(p[l], base[c].out, SumOf(c)) PROVE q[i] = p[l]
          <6>1. l \in (at + 1) .. Len(p)
            BY <1>0, <5>2
          <6>2. p[l].kind = "AllReduce" /\ p[l].ins[1] = base[k].out
            BY <4>1, SumFields
          <6>3. base[k].out # base[c].out
            BY <6>1, <6>2 DEF ReducedAfter
          <6>4. q[i] = AllReduceOp(IF base[k].out = base[c].out THEN SumOf(c) ELSE base[k].out, SumOf(k))
            BY <4>1, <5>2, SumReadsInstead
          <6> QED BY <4>1, <6>3, <6>4
        <5> QED BY <5>1, <5>2
      <4> QED BY <4>1, <4>2, <4>3
    <3> QED BY <3>2, <3>3
  <2> QED BY <2>1, <2>2
<1>3. ASSUME NEW k \in Ops, base[k].kind = "AllReduce" PROVE q[m[k]].ins[1] = base[k].ins[1]
  <2>1. p[e[k]].ins[1] = base[k].ins[1]
    BY <1>3 DEF ReadsSame
  <2>2. \/ q[m[k]] = p[e[k]]
        \/ e[k] > at /\ q[m[k]] = ReadInstead(p[e[k]], base[c].out, SumOf(c))
    <3>1. \/ q[Place(e[k], at)] = p[e[k]]
          \/ e[k] > at /\ q[Place(e[k], at)] = ReadInstead(p[e[k]], base[c].out, SumOf(c))
      BY <1>0, PlacedAt
    <3> QED BY <1>1, <3>1
  <2>3. CASE e[k] > at /\ q[m[k]] = ReadInstead(p[e[k]], base[c].out, SumOf(c))
    <3>1. e[k] \in (at + 1) .. Len(p)
      BY <1>0, <2>3
    <3>2. Similar(p[e[k]], base[k]) /\ Fields \subseteq DOMAIN p[e[k]]
      BY <1>0 DEF Embedding, IsProgram
    <3>3. p[e[k]].kind = "AllReduce" /\ 1 \in DOMAIN p[e[k]].ins
      BY <1>3, <3>2 DEF Similar, HasFirst
    <3>4. p[e[k]].ins[1] # base[c].out
      BY <3>1, <3>3 DEF ReducedAfter
    <3>5. q[m[k]].ins[1] = IF p[e[k]].ins[1] = base[c].out THEN SumOf(c) ELSE p[e[k]].ins[1]
      BY <2>3, <3>2, <3>3, ReadInsteadIs
    <3> QED BY <2>1, <3>4, <3>5
  <2> QED BY <2>1, <2>2, <2>3
<1>4. Ordered(q, m) /\ ReadsSame(q, m)
  BY <1>2, <1>3 DEF Ordered, ReadsSame
<1> QED BY <1>4 DEF m

LEMMA InsertOptimized ==
  ASSUME IsProgram(base), WellFormed, HasFirst, NEW p, NEW e, Optimized(p, e),
         NEW i \in Missing(p, states)
  PROVE  \E m : Optimized(InsertAllReduce(p, i), m)
<1>1. Rewrites(p, e) /\ Tight(p, e) /\ Ordered(p, e) /\ ReadsSame(p, e)
  BY DEF Optimized
<1>2. PICK c \in Ops : /\ e[c] = i /\ Product(c) /\ KnownPartial(states, base[c].out)
                       /\ ~ReducedAfter(p, e[c], base[c].out)
  BY <1>1, MissingIsProduct DEF Rewrites
<1> DEFINE q == InsertAllReduce(p, e[c])
<1>3. InsertsSum(p, e[c], c, q) /\ ReadsAfter(p, e[c], c, q)
  BY <1>1, OptimizerInserts
<1> HIDE DEF q
<1>4. Rewrites(q, Moved(e, e[c]))
  BY <1>1, <1>2, <1>3, InsertRewrites
<1>5. Tight(q, Moved(e, e[c]))
  BY <1>1, <1>2, <1>3, InsertTight
<1>6. Ordered(q, Moved(e, e[c])) /\ ReadsSame(q, Moved(e, e[c]))
  BY <1>1, <1>2, <1>3, InsertOrdered
<1>7. Optimized(q, Moved(e, e[c]))
  BY <1>4, <1>5, <1>6 DEF Optimized
<1> QED BY <1>2, <1>7 DEF q
-----------------------------------------------------------------------------
(***************************************************************************)
(* The next combination is one of those that remain: a set of sets of      *)
(* numbers has a first one in lexicographic order.                         *)
(***************************************************************************)
Lex(c, d) == Min((c \cup d) \ (c \cap d)) \in c

Differ(c, d, m) == /\ m \in Nat /\ m \in c \cup d /\ m \notin c \cap d
                   /\ \A x \in Nat : x < m => (x \in c <=> x \in d)

LEMMA LexIs ==
  ASSUME NEW c \in SUBSET Nat, NEW d \in SUBSET Nat, c # d
  PROVE  \E m : Differ(c, d, m) /\ (Lex(c, d) <=> m \in c)
<1> DEFINE S == (c \cup d) \ (c \cap d)
<1>1. S \subseteq Nat /\ S # {}
  OBVIOUS
<1>2. Min(S) \in S /\ \A x \in S : Min(S) <= x
  BY <1>1, MinIs
<1>3. Min(S) \in Nat /\ Min(S) \in c \cup d /\ Min(S) \notin c \cap d
  BY <1>1, <1>2
<1>4. \A x \in Nat : x < Min(S) => (x \in c <=> x \in d)
  BY <1>2, <1>3
<1>5. Lex(c, d) <=> Min(S) \in c
  BY DEF Lex
<1> HIDE DEF S
<1>6. Differ(c, d, Min(S))
  BY <1>3, <1>4 DEF Differ
<1> QED BY <1>5, <1>6

LEMMA DifferOnce ==
  ASSUME NEW c, NEW d, NEW m, NEW n, Differ(c, d, m), Differ(c, d, n) \/ Differ(d, c, n)
  PROVE  m = n
BY DEF Differ

LEMMA LexTotal ==
  ASSUME NEW c \in SUBSET Nat, NEW d \in SUBSET Nat, c # d
  PROVE  Lex(c, d) \/ Lex(d, c)
<1>1. PICK m : Differ(c, d, m) /\ (Lex(c, d) <=> m \in c)
  BY LexIs
<1>2. PICK n : Differ(d, c, n) /\ (Lex(d, c) <=> n \in d)
  BY LexIs
<1>3. m = n
  BY <1>1, <1>2, DifferOnce
<1>4. m \in c \/ m \in d
  BY <1>1 DEF Differ
<1> QED BY <1>1, <1>2, <1>3, <1>4

LEMMA LexTransitive ==
  ASSUME NEW a \in SUBSET Nat, NEW b \in SUBSET Nat, NEW c \in SUBSET Nat,
         a # b, b # c, a # c, Lex(a, b), Lex(b, c)
  PROVE  Lex(a, c)
<1>1. PICK i : Differ(a, b, i) /\ i \in a
  BY LexIs
<1>2. PICK j : Differ(b, c, j) /\ j \in b
  BY LexIs
<1>3. PICK k : Differ(a, c, k) /\ (Lex(a, c) <=> k \in a)
  BY LexIs
<1>4. i \in Nat /\ j \in Nat /\ k \in Nat /\ i \notin b /\ j \notin c
  BY <1>1, <1>2, <1>3 DEF Differ
<1>5. i # j
  BY <1>2, <1>4
<1>6. CASE i < j
  <2>1. i \notin c
    BY <1>2, <1>4, <1>6 DEF Differ
  <2>2. \A x \in Nat : x < i => (x \in a <=> x \in c)
    BY <1>1, <1>2, <1>4, <1>6 DEF Differ
  <2>3. Differ(a, c, i)
    BY <1>1, <1>4, <2>1, <2>2 DEF Differ
  <2>4. k = i
    BY <1>3, <2>3, DifferOnce
  <2> QED BY <1>1, <1>3, <2>4
<1>7. CASE j < i
  <2>1. j \in a
    BY <1>1, <1>2, <1>4, <1>7 DEF Differ
  <2>2. \A x \in Nat : x < j => (x \in a <=> x \in c)
    BY <1>1, <1>2, <1>4, <1>7 DEF Differ
  <2>3. Differ(a, c, j)
    BY <1>4, <2>1, <2>2 DEF Differ
  <2>4. k = j
    BY <1>3, <2>3, DifferOnce
  <2> QED BY <1>3, <2>1, <2>4
<1> QED BY <1>4, <1>5, <1>6, <1>7

First(R) == \E c \in R : \A d \in R \ {c} : Lex(c, d)

LEMMA LexFirst ==
  ASSUME NEW R, IsFiniteSet(R), R # {}, R \subseteq SUBSET Nat
  PROVE  First(R)
<1> DEFINE P(T) == IsFiniteSet(T) /\ T # {} /\ T \subseteq SUBSET Nat => First(T)
           S == {n \in Nat : \A T : Cardinality(T) = n => P(T)}
<1>1. 0 \in S
  BY FS_EmptySet
<1>2. ASSUME NEW n \in Nat, n \in S PROVE n + 1 \in S
  <2> SUFFICES ASSUME NEW T, Cardinality(T) = n + 1, IsFiniteSet(T), T # {}, T \subseteq SUBSET Nat
               PROVE  First(T)
    OBVIOUS
  <2>1. PICK x \in T : TRUE
    OBVIOUS
  <2> DEFINE U == T \ {x}
  <2>a. IsFiniteSet(T \ {x}) /\ Cardinality(T \ {x}) = Cardinality(T) - 1
    BY <2>1, FS_RemoveElement
  <2>2. IsFiniteSet(U) /\ Cardinality(U) = n
    BY <2>a
  <2>3. CASE U = {}
    <3>1. \A d \in T \ {x} : Lex(x, d)
      BY <2>3
    <3> QED BY <3>1 DEF First
  <2>4. CASE U # {}
    <3>1. First(U)
      BY <1>2, <2>2, <2>4
    <3>2. PICK c \in U : \A d \in U \ {c} : Lex(c, d)
      BY <3>1 DEF First
    <3>3. c \in SUBSET Nat /\ x \in SUBSET Nat /\ c # x /\ c \in T
      BY <3>2
    <3>4. CASE Lex(c, x)
      <4>1. \A d \in T \ {c} : Lex(c, d)
        BY <3>2, <3>4
      <4> QED BY <3>3, <4>1 DEF First
    <3>5. CASE ~Lex(c, x)
      <4>1. Lex(x, c)
        BY <3>3, <3>5, LexTotal
      <4>2. ASSUME NEW d \in T \ {x} PROVE Lex(x, d)
        <5>1. CASE d = c
          BY <4>1, <5>1
        <5>2. CASE d # c
          <6>1. Lex(c, d) /\ d \in SUBSET Nat /\ d # x
            BY <3>2, <4>2, <5>2
          <6> QED BY <3>3, <4>1, <5>2, <6>1, LexTransitive
        <5> QED BY <5>1, <5>2
      <4> QED BY <4>2 DEF First
    <3> QED BY <3>4, <3>5
  <2> QED BY <2>3, <2>4
<1> HIDE DEF S
<1>3. Nat \subseteq S
  BY <1>1, <1>2, Induction
<1>4. Cardinality(R) \in Nat
  BY FS_CardinalityType
<1> QED BY <1>3, <1>4 DEF S

LEMMA CombinationsAre ==
  ASSUME NEW n \in Nat, NEW d \in Nat
  PROVE  /\ IsFiniteSet(Combinations(n, d))
         /\ \A S \in Combinations(n, d) :
              /\ S \in SUBSET (1 .. n) /\ IsFiniteSet(S)
              /\ Cardinality(S) = IF d < n THEN d ELSE n
<1>1. IsFiniteSet(1 .. n)
  BY FS_Interval
<1>2. IsFiniteSet(SUBSET (1 .. n))
  BY <1>1, FS_SUBSET
<1>3. Combinations(n, d) \subseteq SUBSET (1 .. n)
  BY DEF Combinations, kSubset
<1>4. IsFiniteSet(Combinations(n, d))
  BY <1>2, <1>3, FS_Subset
<1>5. ASSUME NEW S \in Combinations(n, d)
      PROVE  /\ S \in SUBSET (1 .. n) /\ IsFiniteSet(S)
             /\ Cardinality(S) = IF d < n THEN d ELSE n
  <2>1. S \in SUBSET (1 .. n)
    BY <1>3
  <2>2. IsFiniteSet(S)
    BY <1>1, <2>1, FS_Subset
  <2>3. Cardinality(S) = IF d < n THEN d ELSE n
    BY DEF Combinations, kSubset
  <2> QED BY <2>1, <2>2, <2>3
<1> QED BY <1>4, <1>5

LEMMA NextRemains ==
  ASSUME NEW n \in Nat, NEW d \in Nat, remaining \subseteq Combinations(n, d), remaining # {}
  PROVE  NextCombination \in remaining
<1>1. IsFiniteSet(remaining)
  BY CombinationsAre, FS_Subset
<1>2. remaining \subseteq SUBSET Nat
  BY CombinationsAre
<1>3. First(remaining)
  BY <1>1, <1>2, LexFirst
<1>4. \E c \in remaining : \A e \in remaining \ {c} : Min((c \cup e) \ (c \cap e)) \in c
  BY <1>3 DEF First, Lex
<1> QED BY <1>4 DEF NextCombination
-----------------------------------------------------------------------------
(***************************************************************************)
(* What is given.                                                          *)
(***************************************************************************)
Setting == /\ base \in Programs
           /\ inputs \in {Placed(specs) : specs \in InputSpecs}

LEMMA Given ==
  ASSUME Setting
  PROVE  IsProgram(base) /\ Readable(base) /\ HasFirst /\ Typed
<1>1. /\ Len(base) \in Nat /\ base = [i \in 1 .. Len(base) |-> base[i]]
      /\ \A i \in 1 .. Len(base) :
           /\ {"kind", "ins", "out", "dim", "concat_dim", "mesh_dim"} \subseteq DOMAIN base[i]
           /\ base[i].kind \in UnaryKinds \cup BinaryKinds
           /\ 1 \in DOMAIN base[i].ins
           /\ base[i].kind \in BinaryKinds => 2 \in DOMAIN base[i].ins
           /\ base[i].mesh_dim \in MeshDims \cup {NoDim}
  BY ProgramsAssumption DEF Setting
<1>2. \A i \in 1 .. Len(base) : IsOp(base[i])
  BY <1>1 DEF IsOp, Kinds
<1>3. IsProgram(base)
  BY <1>1 DEF IsProgram, Fields
<1>4. Readable(base) /\ HasFirst
  BY <1>1, <1>3 DEF Readable, HasFirst, Ops
<1>5. \A n \in DOMAIN inputs : inputs[n] \in Placements
  <2>1. PICK specs \in InputSpecs : inputs = Placed(specs)
    BY DEF Setting
  <2>2. \A n \in DOMAIN specs : specs[n] \in Placements
    BY InputSpecsAssumption
  <2>3. [d \in MeshDims |-> "R"] \in Placements
    BY DEF Placements, PL
  <2> QED BY <2>1, <2>2, <2>3 DEF Placed
<1> QED BY <1>2, <1>3, <1>4, <1>5 DEF Typed, Ops

\* A run tells whether it raised an exception.
LEMMA RunTells ==
  ASSUME NEW p, Len(p) \in Nat
  PROVE  RunProgram(FALSE, p, inputs).raised \in BOOLEAN
<1>1. PICK f : Passes(FALSE, p, inputs, f) /\ RunProgram(FALSE, p, inputs) = f[Len(p)]
  BY RunPasses
<1>2. \A i \in 0 .. Len(p) : WellShaped(f[i])
  BY <1>1, PassesShaped
<1>3. WellShaped(f[Len(p)])
  BY <1>2
<1> QED BY <1>1, <1>3 DEF WellShaped

-----------------------------------------------------------------------------
(***************************************************************************)
(* Every AllReduce that is inserted costs 2.                               *)
(***************************************************************************)
Costs(p, f) == f[0] = 0 /\ \A i \in 1 .. Len(p) : f[i] = f[i - 1] + OpCost(p[i])

LEMMA CostPasses ==
  ASSUME NEW p, Len(p) \in Nat
  PROVE  \E f : Costs(p, f) /\ Cost(p) = f[Len(p)]
<1> DEFINE Steps(n, f) == f = [i \in 0 .. n |-> IF i = 0 THEN 0 ELSE f[i - 1] + OpCost(p[i])]
           S == {m \in Nat : \E f : Steps(m, f)}
<1>1. 0 \in S
  <2> DEFINE f == [i \in 0 .. 0 |-> 0]
  <2>1. Steps(0, f)
    OBVIOUS
  <2> QED BY <2>1
<1>2. ASSUME NEW m \in Nat, m \in S PROVE m + 1 \in S
  <2>1. PICK f : Steps(m, f)
    BY <1>2
  <2> DEFINE g == [i \in 0 .. (m + 1) |-> IF i <= m THEN f[i] ELSE f[m] + OpCost(p[m + 1])]
  <2>2. \A i \in 0 .. (m + 1) : g[i] = IF i = 0 THEN 0 ELSE g[i - 1] + OpCost(p[i])
    <3> TAKE i \in 0 .. (m + 1)
    <3>1. i <= m => f[i] = IF i = 0 THEN 0 ELSE f[i - 1] + OpCost(p[i])
      BY <2>1
    <3> QED BY <3>1
  <2>3. g = [i \in 0 .. (m + 1) |-> g[i]]
    OBVIOUS
  <2> HIDE DEF g
  <2>4. Steps(m + 1, g)
    BY <2>2, <2>3
  <2> QED BY <2>4
<1> HIDE DEF S
<1>3. Nat \subseteq S
  BY <1>1, <1>2, Induction
<1> DEFINE g == CHOOSE f : Steps(Len(p), f)
<1>4. Steps(Len(p), g)
  BY <1>3 DEF S
<1>5. Cost(p) = g[Len(p)]
  BY DEF Cost
<1> HIDE DEF g
<1>6. Costs(p, g)
  <2>1. \A i \in 0 .. Len(p) : g[i] = IF i = 0 THEN 0 ELSE g[i - 1] + OpCost(p[i])
    BY <1>4
  <2> QED BY <2>1 DEF Costs
<1> QED BY <1>5, <1>6

LEMMA CostsNatural ==
  ASSUME NEW p, Len(p) \in Nat, NEW f, Costs(p, f)
  PROVE  \A i \in 0 .. Len(p) : f[i] \in Nat
<1> DEFINE S == {i \in Nat : i <= Len(p) => f[i] \in Nat}
<1>1. 0 \in S
  BY DEF Costs
<1>2. ASSUME NEW i \in Nat, i \in S PROVE i + 1 \in S
  <2>1. CASE i + 1 <= Len(p)
    <3>1. i + 1 \in 1 .. Len(p) /\ (i + 1) - 1 = i
      BY <2>1
    <3>2. f[i + 1] = f[i] + OpCost(p[i + 1])
      BY <3>1 DEF Costs
    <3>3. OpCost(p[i + 1]) \in Nat
      BY DEF OpCost
    <3> QED BY <1>2, <2>1, <3>2, <3>3
  <2> QED BY <2>1
<1> HIDE DEF S
<1>3. Nat \subseteq S
  BY <1>1, <1>2, Induction
<1> QED BY <1>3 DEF S

LEMMA InsertCosts ==
  ASSUME NEW p, IsProgram(p), NEW at, NEW c \in Ops, NEW q, InsertsSum(p, at, c, q)
  PROVE  Cost(p) \in Nat /\ Cost(q) = Cost(p) + 2
<1>1. PICK f : Costs(p, f) /\ Cost(p) = f[Len(p)]
  BY CostPasses DEF IsProgram
<1>2. Len(p) \in Nat /\ Len(q) = Len(p) + 1 /\ at \in 1 .. Len(p) /\ IsProgram(q)
  <2>1. IsProgram(q)
    BY InsertedAt
  <2> QED BY <2>1 DEF IsProgram, InsertsSum
<1>3. PICK g : Costs(q, g) /\ Cost(q) = g[Len(q)]
  BY <1>2, CostPasses
<1>4. \A i \in 0 .. Len(p) : f[i] \in Nat
  BY <1>1, <1>2, CostsNatural
<1>5. \A i \in 1 .. at : OpCost(q[i]) = OpCost(p[i])
  BY DEF InsertsSum
<1>6. OpCost(q[at + 1]) = 2
  <2>1. q[at + 1] = AllReduceOp(base[c].out, SumOf(c))
    BY DEF InsertsSum
  <2>2. q[at + 1].kind = "AllReduce"
    BY <2>1, SumFields
  <2> QED BY <2>2 DEF OpCost
<1>7. ASSUME NEW i \in (at + 1) .. Len(p) PROVE OpCost(q[i + 1]) = OpCost(p[i])
  <2>1. CASE q[i + 1] = p[i]
    BY <2>1
  <2>2. CASE q[i + 1] = ReadInstead(p[i], base[c].out, SumOf(c))
    <3>1. Fields \subseteq DOMAIN p[i]
      BY <1>2 DEF IsProgram
    <3>2. q[i + 1].kind = p[i].kind
      BY <2>2, <3>1, ReadInsteadIs
    <3> QED BY <3>2 DEF OpCost
  <2> QED BY <2>1, <2>2 DEF InsertsSum
<1> DEFINE S == {i \in Nat : i <= Len(p) => g[Place(i, at)] = IF i <= at THEN f[i] ELSE f[i] + 2}
<1>8. 0 \in S
  BY <1>1, <1>2, <1>3 DEF Costs, Place
<1>9. ASSUME NEW i \in Nat, i \in S PROVE i + 1 \in S
  <2> SUFFICES ASSUME i + 1 <= Len(p)
               PROVE  g[Place(i + 1, at)] = IF i + 1 <= at THEN f[i + 1] ELSE f[i + 1] + 2
    OBVIOUS
  <2>1. f[i + 1] = f[i] + OpCost(p[i + 1]) /\ f[i] \in Nat
    <3>1. i + 1 \in 1 .. Len(p) /\ (i + 1) - 1 = i /\ i \in 0 .. Len(p)
      BY <1>2
    <3> QED BY <1>1, <1>4, <3>1 DEF Costs
  <2>2. OpCost(p[i + 1]) \in Nat
    BY DEF OpCost
  <2>3. CASE i + 1 <= at
    <3>1. i + 1 \in 1 .. Len(q) /\ i + 1 \in 1 .. at /\ (i + 1) - 1 = i /\ i <= at
      BY <1>2, <2>3
    <3>2. g[i + 1] = g[i] + OpCost(q[i + 1])
      BY <1>3, <3>1 DEF Costs
    <3>3. g[i] = f[i]
      BY <1>2, <1>9, <3>1 DEF Place
    <3> QED BY <1>5, <2>1, <2>3, <3>1, <3>2, <3>3 DEF Place
  <2>4. CASE i = at
    <3>1. at + 1 \in 1 .. Len(q) /\ at + 2 \in 1 .. Len(q) /\ (at + 1) - 1 = at /\ (at + 2) - 1 = at + 1
      BY <1>2, <2>4
    <3>2. g[at + 1] = g[at] + OpCost(q[at + 1]) /\ g[at + 2] = g[at + 1] + OpCost(q[at + 2])
      BY <1>3, <3>1 DEF Costs
    <3>3. g[at] = f[at]
      BY <1>2, <1>9, <2>4 DEF Place
    <3>4. OpCost(q[at + 2]) = OpCost(p[at + 1])
      <4>1. at + 1 \in (at + 1) .. Len(p) /\ (at + 1) + 1 = at + 2
        BY <1>2, <2>4
      <4> QED BY <1>7, <4>1
    <3>5. Place(i + 1, at) = at + 2 /\ ~(i + 1 <= at)
      BY <1>2, <2>4 DEF Place
    <3> QED BY <1>2, <1>6, <2>1, <2>2, <2>4, <3>2, <3>3, <3>4, <3>5
  <2>5. CASE i > at
    <3>1. i + 2 \in 1 .. Len(q) /\ (i + 2) - 1 = i + 1 /\ (i + 1) + 1 = i + 2 /\ i + 1 \in (at + 1) .. Len(p)
      BY <1>2, <2>5
    <3>2. g[i + 2] = g[i + 1] + OpCost(q[i + 2])
      BY <1>3, <3>1 DEF Costs
    <3>3. g[i + 1] = f[i] + 2
      BY <1>2, <1>9, <2>5 DEF Place
    <3>4. OpCost(q[i + 2]) = OpCost(p[i + 1])
      BY <1>7, <3>1
    <3>5. Place(i + 1, at) = i + 2 /\ ~(i + 1 <= at)
      BY <1>2, <2>5 DEF Place
    <3> QED BY <2>1, <2>2, <3>2, <3>3, <3>4, <3>5
  <2> QED BY <1>2, <2>3, <2>4, <2>5
<1> HIDE DEF S
<1>10. Nat \subseteq S
  BY <1>8, <1>9, Induction
<1>11. Len(p) \in S
  BY <1>2, <1>10
<1>12. g[Place(Len(p), at)] = IF Len(p) <= at THEN f[Len(p)] ELSE f[Len(p)] + 2
  BY <1>2, <1>11 DEF S
<1>13. CASE at = Len(p)
  <2>1. at + 1 \in 1 .. Len(q) /\ (at + 1) - 1 = at
    BY <1>2
  <2>2. g[at + 1] = g[at] + OpCost(q[at + 1])
    BY <1>3, <2>1 DEF Costs
  <2>3. g[at] = f[at]
    BY <1>2, <1>12, <1>13 DEF Place
  <2> QED BY <1>1, <1>2, <1>3, <1>4, <1>6, <1>13, <2>2, <2>3
<1>14. CASE at < Len(p)
  <2>1. g[Len(p) + 1] = f[Len(p)] + 2
    BY <1>2, <1>12, <1>14 DEF Place
  <2> QED BY <1>1, <1>2, <1>3, <1>4, <2>1
<1> QED BY <1>2, <1>13, <1>14

\* A combination costs 2 for each of its tactics.
LEMMA CombinationCosts ==
  ASSUME IsProgram(base), NEW ts \in Seq(TacticSet), NEW S, S \in SUBSET (1 .. Len(ts))
  PROVE  /\ Cost(base) \in Nat
         /\ Cost(ApplyTactics(base, ts, S)) = Cost(base) + 2 * Cardinality(S)
<1>1. Len(ts) \in Nat /\ Len(base) \in Nat
  BY DEF IsProgram
<1>2. PICK f : Applies(ts, S, f) /\ ApplyTactics(base, ts, S) = f[Len(ts)]
  BY <1>1, TacticsApply
<1>3. Cost(base) \in Nat
  <2>1. PICK g : Costs(base, g) /\ Cost(base) = g[Len(base)]
    BY <1>1, CostPasses
  <2>2. g[Len(base)] \in Nat
    BY <1>1, <2>1, CostsNatural
  <2> QED BY <2>1, <2>2
<1> DEFINE Done(k) == S \cap (1 .. k)
           M == {k \in Nat : k <= Len(ts) =>
                   /\ IsFiniteSet(Done(k)) /\ Cardinality(Done(k)) \in Nat
                   /\ Cost(f[k]) = Cost(base) + 2 * Cardinality(Done(k))}
<1>4. 0 \in M
  <2>1. Done(0) = {} /\ f[0] = base
    BY <1>2 DEF Applies
  <2>2. IsFiniteSet({}) /\ Cardinality({}) = 0
    BY FS_EmptySet
  <2> QED BY <1>3, <2>1, <2>2
<1>5. ASSUME NEW k \in Nat, k \in M PROVE k + 1 \in M
  <2> SUFFICES ASSUME k + 1 <= Len(ts)
               PROVE  /\ IsFiniteSet(Done(k + 1)) /\ Cardinality(Done(k + 1)) \in Nat
                      /\ Cost(f[k + 1]) = Cost(base) + 2 * Cardinality(Done(k + 1))
    OBVIOUS
  <2>1. /\ IsFiniteSet(Done(k)) /\ Cardinality(Done(k)) \in Nat
        /\ Cost(f[k]) = Cost(base) + 2 * Cardinality(Done(k))
    BY <1>1, <1>5
  <2>2. k + 1 \in 1 .. Len(ts) /\ k \in 0 .. Len(ts) /\ (k + 1) - 1 = k
    BY <1>1
  <2>3. IsProgram(f[k])
    BY <1>2, <2>2, EachInserts
  <2>4. \/ k + 1 \notin S /\ f[k + 1] = f[k]
        \/ k + 1 \in S /\ \E at, c : c \in Ops /\ Product(c) /\ InsertsSum(f[k], at, c, f[k + 1])
    BY <1>2, <2>2, EachInserts
  <2>5. CASE k + 1 \notin S /\ f[k + 1] = f[k]
    <3>1. Done(k + 1) = Done(k)
      BY <2>5
    <3> QED BY <2>1, <2>5, <3>1
  <2>6. CASE k + 1 \in S /\ \E at, c : c \in Ops /\ Product(c) /\ InsertsSum(f[k], at, c, f[k + 1])
    <3>1. PICK at, c : c \in Ops /\ InsertsSum(f[k], at, c, f[k + 1])
      BY <2>6
    <3>2. Cost(f[k + 1]) = Cost(f[k]) + 2
      BY <2>3, <3>1, InsertCosts
    <3>3. Done(k + 1) = Done(k) \cup {k + 1} /\ k + 1 \notin Done(k)
      BY <2>6
    <3> HIDE DEF Done
    <3>4. IsFiniteSet(Done(k + 1)) /\ Cardinality(Done(k + 1)) = Cardinality(Done(k)) + 1
      BY <2>1, <3>3, FS_AddElement
    <3> QED BY <1>3, <2>1, <3>2, <3>4
  <2> QED BY <2>4, <2>5, <2>6
<1> HIDE DEF M
<1>6. Nat \subseteq M
  BY <1>4, <1>5, Induction
<1>7. Cost(f[Len(ts)]) = Cost(base) + 2 * Cardinality(Done(Len(ts)))
  <2>1. Len(ts) \in M
    BY <1>1, <1>6
  <2> HIDE DEF Done
  <2> QED BY <1>1, <2>1 DEF M
<1>8. Done(Len(ts)) = S
  OBVIOUS
<1> QED BY <1>2, <1>3, <1>7, <1>8
-----------------------------------------------------------------------------
(***************************************************************************)
(* The search.  The combinations of a depth are all of one size, so their  *)
(* candidates cost the same; a valid one ranks before all that are not.    *)
(***************************************************************************)
Made(S)    == ApplyTactics(base, tactics, S)
Quietly(S) == RunProgram(FALSE, Made(S), inputs).raised = FALSE

CandidateOf(S) ==
  [program |-> Made(S), size |-> Cardinality(S), cost |-> Cost(Made(S)),
   valid |-> /\ AnalyzedCorrect(Made(S), RunProgram(FALSE, Made(S), inputs).tensors)
             /\ OutputsWhole(Made(S), RunProgram(FALSE, Made(S), inputs).tensors)]

Candidates == {CandidateOf(S) : S \in {T \in Combinations(Len(tactics), depth) : Quietly(T)}}

\* How many tactics a combination of depth d has.
Size(d) == IF d < Len(tactics) THEN d ELSE Len(tactics)

LEMMA CandidateValid ==
  ASSUME NEW S, Quietly(S)
  PROVE  /\ CandidateOf(S).valid \in BOOLEAN
         /\ CandidateOf(S).valid = TRUE <=> Good(Made(S))
<1> DEFINE c == CandidateOf(S)
           A == AnalyzedCorrect(Made(S), RunProgram(FALSE, Made(S), inputs).tensors)
           O == OutputsWhole(Made(S), RunProgram(FALSE, Made(S), inputs).tensors)
<1>1. Good(Made(S)) <=> A /\ O
  BY DEF Quietly, Good
<1>2. c.valid = (A /\ O)
  BY DEF CandidateOf
<1>3. (A /\ O) \in BOOLEAN
  BY Zenon DEF AnalyzedCorrect
<1> HIDE DEF A, O, c
<1>4. c.valid \in BOOLEAN
  BY <1>2, <1>3
<1>5. c.valid = TRUE <=> A /\ O
  BY <1>2, <1>3, Zenon
<1>6. c.valid = TRUE <=> Good(Made(S))
  BY <1>1, <1>5, Zenon
<1> QED BY <1>4, <1>6 DEF c

LEMMA CandidateIs ==
  ASSUME IsProgram(base), tactics \in Seq(TacticSet), depth \in Nat, NEW c \in Candidates
  PROVE  \E S \in Combinations(Len(tactics), depth) :
           /\ c.program = Made(S) /\ c.size = Size(depth)
           /\ c.cost = Cost(base) + 2 * Size(depth) /\ c.cost \in Nat /\ c.size \in Nat
           /\ c.valid \in BOOLEAN /\ (c.valid = TRUE <=> Good(Made(S)))
<1>1. PICK S \in Combinations(Len(tactics), depth) : Quietly(S) /\ c = CandidateOf(S)
  BY DEF Candidates
<1>2. Len(tactics) \in Nat
  OBVIOUS
<1>3. S \in SUBSET (1 .. Len(tactics)) /\ Cardinality(S) = Size(depth) /\ Size(depth) \in Nat
  BY <1>2, CombinationsAre DEF Size
<1>4. Cost(base) \in Nat /\ Cost(Made(S)) = Cost(base) + 2 * Size(depth)
  BY <1>3, CombinationCosts DEF Made
<1>5. c.program = Made(S) /\ c.size = Cardinality(S) /\ c.cost = Cost(Made(S))
  BY <1>1 DEF CandidateOf
<1>6. c.valid \in BOOLEAN /\ (c.valid = TRUE <=> Good(Made(S)))
  BY <1>1, CandidateValid
<1>7. c.program = Made(S) /\ c.size = Size(depth) /\ c.cost = Cost(base) + 2 * Size(depth)
  BY <1>3, <1>4, <1>5
<1>8. c.cost \in Nat /\ c.size \in Nat
  BY <1>3, <1>4, <1>7
<1> QED BY <1>6, <1>7, <1>8

\* What the candidates of a level have in common.
Alike == \A j, k \in DOMAIN level :
           /\ level[j].cost = level[k].cost /\ level[j].size = level[k].size
           /\ level[j].cost \in Nat /\ level[j].size \in Nat /\ level[j].valid \in BOOLEAN

LEMMA LevelAlike ==
  ASSUME IsProgram(base), tactics \in Seq(TacticSet), depth \in Nat, level \in Seq(Candidates)
  PROVE  Alike
<1>1. \A j \in DOMAIN level : level[j] \in Candidates
  OBVIOUS
<1>2. ASSUME NEW j \in DOMAIN level
      PROVE  /\ level[j].cost = Cost(base) + 2 * Size(depth) /\ level[j].size = Size(depth)
             /\ level[j].cost \in Nat /\ level[j].size \in Nat /\ level[j].valid \in BOOLEAN
  BY <1>1, CandidateIs
<1> QED BY <1>2 DEF Alike

LEMMA RankIs ==
  ASSUME Len(level) \in Nat, DOMAIN level = 1 .. Len(level), NEW k
  PROVE  Rank(k) \in Nat
<1> DEFINE R == {j \in DOMAIN level : \/ Before(level[j], level[k])
                                      \/ j < k /\ ~Before(level[k], level[j])}
<1>1. IsFiniteSet(DOMAIN level)
  BY FS_Interval
<1>2. R \subseteq DOMAIN level
  OBVIOUS
<1>3. Rank(k) = Cardinality(R)
  BY DEF Rank
<1> HIDE DEF R
<1> QED BY <1>1, <1>2, <1>3, FS_Subset, FS_CardinalityType

\* The first valid candidate is in the beam.
LEMMA BeamHasValid ==
  ASSUME level \in Seq(Candidates), Alike, NEW k \in DOMAIN level, level[k].valid = TRUE
  PROVE  ValidInBeam # {}
<1> DEFINE V == {j \in DOMAIN level : level[j].valid = TRUE}
<1>1. Len(level) \in Nat /\ DOMAIN level = 1 .. Len(level)
  OBVIOUS
<1>2. V \subseteq Nat /\ V # {}
  BY <1>1
<1> DEFINE m == Min(V)
<1>3. m \in V /\ \A j \in V : m <= j
  BY <1>2, MinIs
<1> HIDE DEF m
<1>4. m \in DOMAIN level /\ level[m].valid = TRUE
      /\ \A j \in DOMAIN level : j < m => level[j].valid = FALSE
  <2>1. m \in DOMAIN level /\ level[m].valid = TRUE
    BY <1>3
  <2>2. ASSUME NEW j \in DOMAIN level, j < m PROVE level[j].valid = FALSE
    <3>1. j \in Nat /\ m \in Nat
      BY <1>1, <2>1
    <3>2. j \notin V
      BY <1>3, <2>2, <3>1
    <3>3. level[j].valid \in BOOLEAN
      BY DEF Alike
    <3> QED BY <3>2, <3>3
  <2> QED BY <2>1, <2>2
<1> HIDE DEF V
<1>5. ASSUME NEW j \in DOMAIN level
      PROVE  ~Before(level[j], level[m]) /\ (j < m => Before(level[m], level[j]))
  <2>1. /\ level[j].cost = level[m].cost /\ level[j].size = level[m].size
        /\ level[j].cost \in Nat /\ level[j].size \in Nat /\ level[j].valid \in BOOLEAN
    BY <1>4 DEF Alike
  <2>2. ~Before(level[j], level[m])
    BY <1>4, <2>1 DEF Before
  <2>3. j < m => Before(level[m], level[j])
    BY <1>4 DEF Before
  <2> QED BY <2>2, <2>3
<1>6. {j \in DOMAIN level : \/ Before(level[j], level[m])
                            \/ j < m /\ ~Before(level[m], level[j])} = {}
  BY <1>5
<1>7. Rank(m) = 0
  BY <1>6, FS_EmptySet DEF Rank
<1>8. Rank(m) < BeamWidth
  BY <1>7, BoundsAssumption
<1> QED BY <1>4, <1>8 DEF ValidInBeam, Beam

\* The best candidate of the beam is one of it.
LEMMA BestIs ==
  ASSUME level \in Seq(Candidates), Alike, ValidInBeam # {}
  PROVE  BestOfBeam \in ValidInBeam
<1>1. Len(level) \in Nat /\ DOMAIN level = 1 .. Len(level) /\ ValidInBeam \subseteq DOMAIN level
  BY DEF ValidInBeam, Beam
<1> DEFINE ranks == {Rank(k) : k \in ValidInBeam}
<1>2. ranks \subseteq Nat /\ ranks # {}
  BY <1>1, RankIs
<1>3. Min(ranks) \in ranks /\ \A x \in ranks : Min(ranks) <= x
  BY <1>2, MinIs
<1>4. PICK k \in ValidInBeam : Rank(k) = Min(ranks)
  BY <1>3
<1>5. \A j \in ValidInBeam : Rank(k) <= Rank(j)
  BY <1>3, <1>4
<1> HIDE DEF ranks
<1>6. \A j \in ValidInBeam : level[k].cost = level[j].cost
  BY <1>1 DEF Alike
<1>7. \E b \in ValidInBeam :
        \A j \in ValidInBeam : \/ level[b].cost < level[j].cost
                               \/ level[b].cost = level[j].cost /\ Rank(b) <= Rank(j)
  BY <1>4, <1>5, <1>6
<1> QED BY <1>7 DEF BestOfBeam
-----------------------------------------------------------------------------
(***************************************************************************)
(* The invariant.                                                          *)
(***************************************************************************)
RuleNames == {"insert_allreduce", "remove_redundant_allreduce"}

Assigned == SingleAssignment(base) /\ ReadsEarlier(base)

Stages ==
  /\ Setting
  /\ entry \in {"synthesize", "from_spec", "parallel"}
  /\ phase \in {"start", "search", "optimize"} => best = NoCandidate
  /\ phase = "start" \/ entry # "synthesize" => tactics = << >> /\ level = << >>
  /\ phase \in {"start", "search"} => history = << >>
  /\ phase \in {"search", "optimize", "done"} => Ran(states)
  /\ tactics \in Seq(TacticSet)
  /\ history \in Seq(RuleNames)
  /\ Assigned => history \in Seq({"insert_allreduce"})

\* What has been tried of this depth, and of the smaller ones.
Tried == \A S \in Combinations(Len(tactics), depth) \ remaining :
           Good(Made(S)) => \E j \in DOMAIN level : level[j].valid = TRUE

NoneSmaller == \A d \in 1 .. (depth - 1) : \A S \in Combinations(Len(tactics), d) : ~Good(Made(S))

SearchInv ==
  phase = "search" =>
    /\ entry = "synthesize"
    /\ ~AnalyzedCorrect(base, states)
    /\ depth \in 1 .. MaxDepth
    /\ remaining \subseteq Combinations(Len(tactics), depth)
    /\ level \in Seq(Candidates)
    /\ Tried
    /\ NoneSmaller

OptimizeInv ==
  phase = "optimize" =>
    /\ WellFormed => \E e : Optimized(current, e)
    /\ Assigned => Readable(current) /\ NotRedundant(current, states)
    /\ entry = "synthesize" => /\ ~AnalyzedCorrect(base, states)
                               /\ history = << >> => current = base

\* p is a program that the engine may return, and the cheapest there is.
Returned(p) == Good(p) /\ \E e : Rewrites(p, e)

Cheapest(p) == \A d \in 1 .. MaxDepth : \A S \in Combinations(Len(tactics), d) :
                 Good(Made(S)) => Cost(p) <= Cost(Made(S))

DoneInv ==
  phase = "done" =>
    /\ entry = "synthesize" /\ best.valid /\ WellFormed /\ ComputeOnly => Returned(best.program)
    /\ entry = "synthesize" /\ best.valid /\ history = << >> => Cheapest(best.program)
    /\ entry = "from_spec" /\ WellFormed => \E e : Optimized(best.program, e)

SynthesisInv == Stages /\ SearchInv /\ OptimizeInv /\ DoneInv

LEMMA SynthesisInitInv == SynthesisInit => SynthesisInv
<1> SUFFICES ASSUME SynthesisInit PROVE SynthesisInv
  OBVIOUS
<1>1. << >> \in Seq(TacticSet) /\ << >> \in Seq(RuleNames) /\ << >> \in Seq({"insert_allreduce"})
  OBVIOUS
<1>2. Stages
  BY <1>1 DEF Stages, SynthesisInit, Setting
<1> QED BY <1>2 DEF SynthesisInit, SynthesisInv, SearchInv, OptimizeInv, DoneInv

\* What depends on the program and its inputs alone stays as it is.
LEMMA GivenStays ==
  ASSUME base' = base, inputs' = inputs
  PROVE  /\ Setting' <=> Setting
         /\ Assigned' <=> Assigned
         /\ WellFormed' <=> WellFormed
         /\ ComputeOnly' <=> ComputeOnly
         /\ TacticSet' = TacticSet
<1>1. Setting' <=> Setting
  BY DEF Setting
<1>2. /\ SingleAssignment(base)' <=> SingleAssignment(base)
      /\ ReadsEarlier(base)' <=> ReadsEarlier(base)
      /\ SumsApart(base)' <=> SumsApart(base)
  BY DEF SingleAssignment, ReadsEarlier, SumsApart, WrittenNames
<1>3. ComputeOnly' <=> ComputeOnly
  BY DEF ComputeOnly
<1>4. TacticSet' = TacticSet
  BY DEF TacticSet, Ops, Product
<1> QED BY <1>1, <1>2, <1>3, <1>4 DEF Assigned, WellFormed

LEMMA GoodStays ==
  ASSUME inputs' = inputs, NEW p
  PROVE  Good(p)' <=> Good(p)
BY DEF Good, OutputsWhole, OutputNames, ReadNames

LEMMA MadeStays ==
  ASSUME base' = base, tactics' = tactics, NEW S
  PROVE  Made(S)' = Made(S)
BY DEF Made

LEMMA RewritesStay ==
  ASSUME base' = base, NEW p, NEW e
  PROVE  Rewrites(p, e)' <=> Rewrites(p, e)
<1>1. Ops' = Ops /\ \A k : SumOf(k)' = SumOf(k) /\ (Product(k)' <=> Product(k))
  BY DEF Ops, SumOf, Product
<1>2. \A o, c : Similar(o, c)' <=> Similar(o, c)
  BY <1>1 DEF Similar
<1>3. \A o : Inserted(o)' <=> Inserted(o)
  BY <1>1 DEF Inserted
<1>4. Embedding(p, e)' <=> Embedding(p, e)
  BY <1>1, <1>2, <1>3 DEF Embedding
<1>5. ReadsSums(p, e)' <=> ReadsSums(p, e)
  BY <1>1 DEF ReadsSums, SumBetween
<1> QED BY <1>4, <1>5 DEF Rewrites

LEMMA OptimizedStays ==
  ASSUME base' = base, states' = states, NEW p, NEW e
  PROVE  Optimized(p, e)' <=> Optimized(p, e)
<1>1. Ops' = Ops /\ \A k : SumOf(k)' = SumOf(k) /\ (Product(k)' <=> Product(k))
  BY DEF Ops, SumOf, Product
<1>2. Rewrites(p, e)' <=> Rewrites(p, e)
  BY RewritesStay
<1>3. Tight(p, e)' <=> Tight(p, e)
  BY <1>1 DEF Tight
<1>4. Ordered(p, e)' <=> Ordered(p, e)
  BY <1>1 DEF Ordered
<1>5. ReadsSame(p, e)' <=> ReadsSame(p, e)
  BY <1>1 DEF ReadsSame
<1> QED BY <1>2, <1>3, <1>4, <1>5 DEF Optimized

\* The given program is optimized, whatever the states.
LEMMA OptimizedAnyway ==
  ASSUME Optimized(base, Identity), base' = base
  PROVE  Optimized(base, Identity)'
<1>1. Ops' = Ops /\ Identity' = Identity /\ \A k : SumOf(k)' = SumOf(k) /\ (Product(k)' <=> Product(k))
  BY DEF Ops, SumOf, Product, Identity
<1>2. Rewrites(base, Identity)'
  BY <1>1, RewritesStay DEF Optimized
<1>3. Tight(base, Identity)'
  BY <1>1 DEF Tight, Optimized
<1>4. Ordered(base, Identity)'
  BY <1>1 DEF Ordered, Identity, Ops
<1>5. ReadsSame(base, Identity)'
  BY <1>1 DEF ReadsSame, Optimized
<1> QED BY <1>2, <1>3, <1>4, <1>5 DEF Optimized
\* With nothing proposed the given program is the only one made.
LEMMA BaseIsCheapest ==
  ASSUME IsProgram(base), tactics = << >>
  PROVE  Cheapest(base)
<1>1. ASSUME NEW d \in Nat, NEW S \in Combinations(Len(tactics), d)
      PROVE  Cost(base) <= Cost(Made(S))
  <2>1. << >> \in Seq(TacticSet) /\ Len(tactics) = 0
    OBVIOUS
  <2>2. S \in SUBSET (1 .. 0) /\ Cardinality(S) = 0
    <3>1. S \in SUBSET (1 .. 0) /\ Cardinality(S) = IF d < 0 THEN d ELSE 0
      BY <2>1, CombinationsAre
    <3> QED BY <3>1
  <2>3. Cost(base) \in Nat /\ Cost(Made(S)) = Cost(base) + 2 * Cardinality(S)
    BY <2>1, <2>2, CombinationCosts DEF Made
  <2> QED BY <2>2, <2>3
<1>2. 1 .. MaxDepth \subseteq Nat
  BY BoundsAssumption
<1> QED BY <1>1, <1>2 DEF Cheapest

LEMMA BaseReturned ==
  ASSUME Setting, WellFormed, ComputeOnly, RunProgram(FALSE, base, inputs).raised = FALSE,
         AnalyzedCorrect(base, RunProgram(FALSE, base, inputs).tensors)
  PROVE  Returned(base)
<1>1. IsProgram(base) /\ Typed
  BY Given
<1>2. Optimized(base, Identity)
  BY <1>1, OptimizedItself
<1>3. Rewrites(base, Identity) /\ Tight(base, Identity)
  BY <1>2 DEF Optimized
<1>4. OutputsWhole(base, RunProgram(FALSE, base, inputs).tensors)
  BY <1>1, <1>3, TightIsGood
<1> QED BY <1>3, <1>4 DEF Returned, Good

LEMMA ReturnedStays ==
  ASSUME base' = base, inputs' = inputs, NEW p
  PROVE  Returned(p)' <=> Returned(p)
BY GoodStays, RewritesStay DEF Returned

LEMMA CheapestStays ==
  ASSUME base' = base, inputs' = inputs, tactics' = tactics, NEW p
  PROVE  Cheapest(p)' <=> Cheapest(p)
<1>1. \A S : Made(S)' = Made(S)
  BY MadeStays
<1>2. \A q : Good(q)' <=> Good(q)
  BY GoodStays
<1> QED BY <1>1, <1>2 DEF Cheapest

LEMMA StartKeeps ==
  ASSUME SynthesisInv, Start
  PROVE  SynthesisInv'
<1> DEFINE r == RunProgram(FALSE, base, inputs)
           ts == Proposed(base, r.tensors)
<1>1. /\ base' = base /\ inputs' = inputs /\ entry' = entry /\ current' = current /\ history' = history
      /\ phase = "start" /\ entry = "synthesize" /\ states' = r.tensors
  BY DEF Start, optimizeVars
<1>2. \/ /\ r.raised /\ phase' = "raised"
         /\ tactics' = tactics /\ depth' = depth /\ remaining' = remaining /\ level' = level
         /\ best' = best
      \/ /\ ~r.raised /\ AnalyzedCorrect(base, r.tensors) /\ phase' = "done"
         /\ best' = [program |-> base, size |-> 0, cost |-> Cost(base), valid |-> TRUE]
         /\ tactics' = tactics /\ depth' = depth /\ remaining' = remaining /\ level' = level
      \/ /\ ~r.raised /\ ~AnalyzedCorrect(base, r.tensors) /\ phase' = "search"
         /\ tactics' = ts /\ depth' = FirstDepth
         /\ remaining' = Combinations(Len(ts), FirstDepth)
         /\ level' = level /\ best' = best
  BY DEF Start, searchVars
<1>3. IsProgram(base) /\ Len(base) \in Nat /\ Setting
  BY Given DEF SynthesisInv, Stages, IsProgram
<1>4. r.raised \in BOOLEAN
  BY <1>3, RunTells
<1>5. /\ Setting' /\ (Assigned' <=> Assigned) /\ (WellFormed' <=> WellFormed)
      /\ (ComputeOnly' <=> ComputeOnly) /\ TacticSet' = TacticSet
  BY <1>1, <1>3, GivenStays
<1>6. /\ entry = "synthesize" /\ best = NoCandidate /\ tactics = << >> /\ level = << >>
      /\ history = << >> /\ tactics \in Seq(TacticSet) /\ history \in Seq(RuleNames)
      /\ Assigned => history \in Seq({"insert_allreduce"})
  BY <1>1 DEF SynthesisInv, Stages
<1>7. ts \in Seq(TacticSet)
  BY <1>3, ProposedAre
<1>8. ~r.raised => Ran(states)'
  BY <1>1, <1>4 DEF Ran
<1>9. tactics' \in Seq(TacticSet)'
  BY <1>2, <1>5, <1>6, <1>7
<1>10. /\ phase' \in {"raised", "done", "search"}
       /\ phase' = "done" => ~r.raised /\ tactics' = tactics
       /\ phase' = "search" => ~r.raised /\ best' = best
  BY <1>2
<1> HIDE DEF r, ts
<1>11. Stages'
  BY <1>1, <1>5, <1>6, <1>8, <1>9, <1>10 DEF Stages
<1>12. CASE r.raised /\ phase' = "raised"
  BY <1>11, <1>12 DEF SynthesisInv, SearchInv, OptimizeInv, DoneInv
<1>13. CASE /\ ~r.raised /\ AnalyzedCorrect(base, r.tensors) /\ phase' = "done"
            /\ best' = [program |-> base, size |-> 0, cost |-> Cost(base), valid |-> TRUE]
            /\ tactics' = tactics
  <2>1. best'.program = base
    BY <1>13
  <2>2. WellFormed /\ ComputeOnly => Returned(base)
    BY <1>3, <1>4, <1>13, BaseReturned DEF r
  <2>3. Cheapest(base)
    BY <1>3, <1>6, BaseIsCheapest
  <2>4. \A p : (Returned(p)' <=> Returned(p)) /\ (Cheapest(p)' <=> Cheapest(p))
    BY <1>1, <1>13, ReturnedStays, CheapestStays
  <2>5. (WellFormed' /\ ComputeOnly' => Returned(best.program)') /\ Cheapest(best.program)'
    BY <1>5, <2>1, <2>2, <2>3, <2>4
  <2> QED BY <1>1, <1>11, <1>13, <2>5 DEF SynthesisInv, SearchInv, OptimizeInv, DoneInv
<1>14. CASE /\ ~r.raised /\ ~AnalyzedCorrect(base, r.tensors) /\ phase' = "search"
            /\ tactics' = ts /\ depth' = FirstDepth
            /\ remaining' = Combinations(Len(ts), FirstDepth)
            /\ level' = level
  <2>1. entry' = "synthesize" /\ ~AnalyzedCorrect(base, states)'
    BY <1>1, <1>14
  <2>2. depth' = 1 /\ depth' \in 1 .. MaxDepth /\ 1 .. (depth' - 1) = {}
    BY <1>14, BoundsAssumption DEF FirstDepth
  <2>3. remaining' = Combinations(Len(tactics), depth)' /\ Tried' /\ NoneSmaller'
    BY <1>14, <2>2 DEF Tried, NoneSmaller
  <2>4. level' \in Seq(Candidates)'
    BY <1>6, <1>14
  <2> QED BY <1>11, <1>14, <2>1, <2>2, <2>3, <2>4
      DEF SynthesisInv, SearchInv, OptimizeInv, DoneInv
<1> QED BY <1>2, <1>12, <1>13, <1>14 DEF r, ts
LEMMA StartFromSpecKeeps ==
  ASSUME SynthesisInv, StartFromSpec
  PROVE  SynthesisInv'
<1> DEFINE r == RunProgram(FALSE, base, inputs)
<1>1. /\ base' = base /\ inputs' = inputs /\ entry' = entry /\ history' = history /\ best' = best
      /\ tactics' = tactics /\ level' = level
      /\ phase = "start" /\ entry # "synthesize" /\ states' = r.tensors
  BY DEF StartFromSpec, searchVars
<1>2. \/ r.raised /\ phase' = "raised"
      \/ ~r.raised /\ phase' = "optimize" /\ current' = base
  BY DEF StartFromSpec
<1>3. IsProgram(base) /\ Len(base) \in Nat /\ Setting /\ Readable(base) /\ HasFirst
  BY Given DEF SynthesisInv, Stages, IsProgram
<1>4. r.raised \in BOOLEAN
  BY <1>3, RunTells
<1>5. /\ Setting' /\ (Assigned' <=> Assigned) /\ (WellFormed' <=> WellFormed)
      /\ (ComputeOnly' <=> ComputeOnly) /\ TacticSet' = TacticSet
  BY <1>1, <1>3, GivenStays
<1>6. /\ entry \in {"synthesize", "from_spec", "parallel"} /\ best = NoCandidate
      /\ tactics = << >> /\ level = << >> /\ tactics \in Seq(TacticSet) /\ history \in Seq(RuleNames)
      /\ Assigned => history \in Seq({"insert_allreduce"})
  BY <1>1 DEF SynthesisInv, Stages
<1>7. ~r.raised => Ran(r.tensors)
  BY <1>4 DEF Ran
<1>8. ~r.raised => Ran(states)'
  BY <1>1, <1>4 DEF Ran
<1> HIDE DEF r
<1>9. Stages'
  BY <1>1, <1>2, <1>5, <1>6, <1>8 DEF Stages
<1>10. CASE r.raised /\ phase' = "raised"
  BY <1>9, <1>10 DEF SynthesisInv, SearchInv, OptimizeInv, DoneInv
<1>11. CASE ~r.raised /\ phase' = "optimize" /\ current' = base
  <2>1. WellFormed' => (\E e : Optimized(current, e))'
    <3> SUFFICES ASSUME WellFormed PROVE (\E e : Optimized(current, e))'
      BY <1>5
    <3>1. Optimized(base, Identity)'
      BY <1>1, <1>3, OptimizedItself, OptimizedAnyway
    <3>2. Optimized(current, Identity)'
      BY <1>1, <1>11, <3>1
    <3> QED BY <3>2
  <2>2. Assigned' => Readable(current)' /\ NotRedundant(current, states)'
    <3> SUFFICES ASSUME Assigned PROVE Readable(base) /\ NotRedundant(base, r.tensors)
      BY <1>1, <1>5, <1>11
    <3> QED BY <1>3, <1>7, <1>11, BaseNotRedundant DEF Assigned
  <2> QED BY <1>1, <1>9, <1>11, <2>1, <2>2 DEF SynthesisInv, SearchInv, OptimizeInv, DoneInv
<1> QED BY <1>2, <1>10, <1>11

LEMMA CandidatesStay ==
  ASSUME base' = base, inputs' = inputs, tactics' = tactics, depth' = depth
  PROVE  Candidates' = Candidates
<1>1. \A S : Made(S)' = Made(S)
  BY MadeStays
<1>2. \A S : (Quietly(S)' <=> Quietly(S)) /\ CandidateOf(S)' = CandidateOf(S)
  BY <1>1 DEF Quietly, CandidateOf, OutputsWhole, OutputNames, ReadNames
<1> QED BY <1>2 DEF Candidates

LEMMA TryCombinationKeeps ==
  ASSUME SynthesisInv, TryCombination
  PROVE  SynthesisInv'
<1> DEFINE S == NextCombination
           p == ApplyTactics(base, tactics, S)
           r == RunProgram(FALSE, p, inputs)
           c == [program |-> p, size |-> Cardinality(S), cost |-> Cost(p),
                 valid |-> AnalyzedCorrect(p, r.tensors) /\ OutputsWhole(p, r.tensors)]
<1>1. /\ base' = base /\ inputs' = inputs /\ entry' = entry /\ states' = states /\ tactics' = tactics
      /\ depth' = depth /\ best' = best /\ current' = current /\ history' = history
      /\ phase = "search" /\ remaining # {}
  BY DEF TryCombination, optimizeVars
<1>2. \/ r.raised /\ phase' = "raised" /\ level' = level
      \/ /\ ~r.raised /\ phase' = phase /\ remaining' = remaining \ {S}
         /\ level' = IF best.valid /\ c.cost >= best.cost THEN level ELSE Append(level, c)
  BY DEF TryCombination
<1>3. IsProgram(base) /\ Len(base) \in Nat /\ Setting
  BY Given DEF SynthesisInv, Stages, IsProgram
<1>4. /\ entry = "synthesize" /\ best = NoCandidate /\ history = << >> /\ Ran(states)
      /\ tactics \in Seq(TacticSet) /\ history \in Seq(RuleNames)
      /\ Assigned => history \in Seq({"insert_allreduce"})
  BY <1>1 DEF SynthesisInv, Stages, SearchInv
<1>5. /\ ~AnalyzedCorrect(base, states) /\ depth \in 1 .. MaxDepth
      /\ remaining \subseteq Combinations(Len(tactics), depth)
      /\ level \in Seq(Candidates) /\ Tried /\ NoneSmaller
  BY <1>1 DEF SynthesisInv, SearchInv
<1>6. Len(tactics) \in Nat /\ depth \in Nat
  BY <1>4, <1>5, BoundsAssumption
<1>7. S \in remaining /\ S \in Combinations(Len(tactics), depth)
  BY <1>1, <1>5, <1>6, NextRemains
<1> HIDE DEF S
<1>8. /\ Setting' /\ (Assigned' <=> Assigned) /\ (WellFormed' <=> WellFormed)
      /\ (ComputeOnly' <=> ComputeOnly) /\ TacticSet' = TacticSet
  BY <1>1, <1>3, GivenStays
<1>9. Ran(states)'
  BY <1>1, <1>4 DEF Ran
<1>10. r.raised \in BOOLEAN
  <2>1. WellShaped(r) \/ r.raised \in BOOLEAN
    <3>1. PICK f : Applies(tactics, S, f) /\ p = f[Len(tactics)]
      BY <1>6, TacticsApply
    <3>2. \A k \in 0 .. Len(tactics) : IsProgram(f[k])
      BY <1>3, <1>4, <3>1, EachInserts
    <3>3. Len(p) \in Nat
      BY <1>6, <3>1, <3>2 DEF IsProgram
    <3> HIDE DEF p
    <3> QED BY <3>3, RunTells
  <2> QED BY <2>1 DEF WellShaped
<1>11. p = Made(S)
  BY DEF Made
<1>12. ~r.raised => Quietly(S) /\ c = CandidateOf(S)
  BY <1>10, <1>11 DEF Quietly, CandidateOf
<1> HIDE DEF c, r, p
<1>13. CASE r.raised /\ phase' = "raised" /\ level' = level
  <2>1. Stages'
    BY <1>1, <1>4, <1>8, <1>9, <1>13 DEF Stages
  <2> QED BY <1>13, <2>1 DEF SynthesisInv, SearchInv, OptimizeInv, DoneInv
<1>14. CASE /\ ~r.raised /\ phase' = phase /\ remaining' = remaining \ {S}
            /\ level' = IF best.valid /\ c.cost >= best.cost THEN level ELSE Append(level, c)
  <2>1. best.valid = FALSE
    BY <1>4 DEF NoCandidate
  <2>2. level' = Append(level, c)
    BY <1>14, <2>1
  <2>3. c \in Candidates
    BY <1>7, <1>12, <1>14 DEF Candidates
  <2>4. level' \in Seq(Candidates)
    BY <1>5, <2>2, <2>3
  <2>5. level' \in Seq(Candidates)'
    BY <1>1, <2>4, CandidatesStay
  <2>6. Stages'
    BY <1>1, <1>4, <1>8, <1>9, <1>14 DEF Stages
  <2>7. /\ \A q : Good(q)' <=> Good(q)
        /\ \A T : Made(T)' = Made(T)
    BY <1>1, GoodStays, MadeStays
  <2>8. Good(Made(S)) => c.valid = TRUE
    BY <1>12, <1>14, CandidateValid
  <2>9. /\ \A j \in DOMAIN level : j \in DOMAIN level' /\ level'[j] = level[j]
        /\ Len(level) + 1 \in DOMAIN level' /\ level'[Len(level) + 1] = c
    BY <1>5, <2>2
  <2>10. ASSUME NEW T \in Combinations(Len(tactics), depth) \ remaining', Good(Made(T))
         PROVE  \E j \in DOMAIN level' : level'[j].valid = TRUE
    <3>1. CASE T = S
      BY <2>8, <2>9, <2>10, <3>1
    <3>2. CASE T # S
      <4>1. T \in Combinations(Len(tactics), depth) \ remaining
        BY <1>14, <2>10, <3>2
      <4>2. PICK j \in DOMAIN level : level[j].valid = TRUE
        BY <1>5, <2>10, <4>1 DEF Tried
      <4> QED BY <2>9, <4>2
    <3> QED BY <3>1, <3>2
  <2>11. Tried'
    BY <1>1, <2>7, <2>10 DEF Tried
  <2>12. NoneSmaller'
    BY <1>1, <1>5, <2>7 DEF NoneSmaller
  <2>13. remaining' \subseteq Combinations(Len(tactics), depth)
    BY <1>5, <1>14
  <2> QED BY <1>1, <1>4, <1>5, <1>14, <2>5, <2>6, <2>11, <2>12, <2>13
      DEF SynthesisInv, SearchInv, OptimizeInv, DoneInv
<1> QED BY <1>2, <1>13, <1>14
LEMMA MadeCosts ==
  ASSUME IsProgram(base), tactics \in Seq(TacticSet), NEW d \in Nat,
         NEW S \in Combinations(Len(tactics), d)
  PROVE  /\ Cost(base) \in Nat /\ Size(d) \in Nat
         /\ Cost(Made(S)) = Cost(base) + 2 * Size(d)
<1>1. Len(tactics) \in Nat
  OBVIOUS
<1>2. S \in SUBSET (1 .. Len(tactics)) /\ Cardinality(S) = Size(d) /\ Size(d) \in Nat
  BY <1>1, CombinationsAre DEF Size
<1> QED BY <1>2, CombinationCosts DEF Made

\* A valid candidate of the first depth that has one is the cheapest there is.
LEMMA FirstIsCheapest ==
  ASSUME IsProgram(base), tactics \in Seq(TacticSet), depth \in Nat, NoneSmaller,
         NEW S \in Combinations(Len(tactics), depth)
  PROVE  Cheapest(Made(S))
<1> SUFFICES ASSUME NEW d \in 1 .. MaxDepth, NEW T \in Combinations(Len(tactics), d), Good(Made(T))
             PROVE  Cost(Made(S)) <= Cost(Made(T))
  BY DEF Cheapest
<1>1. d \in Nat
  BY BoundsAssumption
<1>2. ~(d \in 1 .. (depth - 1))
  BY DEF NoneSmaller
<1>3. depth <= d
  BY <1>2
<1>4. Size(depth) <= Size(d)
  <2>1. Len(tactics) \in Nat
    OBVIOUS
  <2> QED BY <1>1, <1>3, <2>1 DEF Size
<1>5. Cost(base) \in Nat /\ Size(d) \in Nat /\ Cost(Made(T)) = Cost(base) + 2 * Size(d)
  BY <1>1, MadeCosts
<1>6. Size(depth) \in Nat /\ Cost(Made(S)) = Cost(base) + 2 * Size(depth)
  BY MadeCosts
<1> QED BY <1>4, <1>5, <1>6

LEMMA EndLevelKeeps ==
  ASSUME SynthesisInv, EndLevel
  PROVE  SynthesisInv'
<1>1. /\ base' = base /\ inputs' = inputs /\ entry' = entry /\ states' = states
      /\ history' = history /\ tactics' = tactics
      /\ phase = "search" /\ remaining = {}
  BY DEF EndLevel, searchVars
<1>2. \/ ValidInBeam # {} /\ phase' = "done" /\ best' = level[BestOfBeam]
      \/ /\ ValidInBeam = {} /\ depth < MaxDepth /\ depth' = depth + 1
         /\ remaining' = Combinations(Len(tactics), depth + 1)
         /\ level' = << >> /\ phase' = phase /\ best' = best
      \/ ValidInBeam = {} /\ phase' = "optimize" /\ current' = base /\ best' = best
  BY DEF EndLevel
<1>3. IsProgram(base) /\ Setting /\ Readable(base) /\ HasFirst
  BY Given DEF SynthesisInv, Stages
<1>4. /\ entry = "synthesize" /\ best = NoCandidate /\ history = << >> /\ Ran(states)
      /\ tactics \in Seq(TacticSet) /\ history \in Seq(RuleNames)
      /\ Assigned => history \in Seq({"insert_allreduce"})
  BY <1>1 DEF SynthesisInv, Stages, SearchInv
<1>5. /\ ~AnalyzedCorrect(base, states) /\ depth \in 1 .. MaxDepth
      /\ level \in Seq(Candidates) /\ Tried /\ NoneSmaller
  BY <1>1 DEF SynthesisInv, SearchInv
<1>6. Len(tactics) \in Nat /\ depth \in Nat
  BY <1>4, <1>5, BoundsAssumption
<1>7. Alike
  BY <1>3, <1>4, <1>5, <1>6, LevelAlike
<1>8. /\ Setting' /\ (Assigned' <=> Assigned) /\ (WellFormed' <=> WellFormed)
      /\ (ComputeOnly' <=> ComputeOnly) /\ TacticSet' = TacticSet
  BY <1>1, <1>3, GivenStays
<1>9. Ran(states)'
  BY <1>1, <1>4 DEF Ran
<1>10. phase' \in {"done", "search", "optimize"} /\ (phase' # "done" => best' = best)
  BY <1>1, <1>2
<1>11. Stages'
  BY <1>1, <1>4, <1>8, <1>9, <1>10 DEF Stages
<1>12. ValidInBeam = {} => \A S \in Combinations(Len(tactics), depth) : ~Good(Made(S))
  BY <1>1, <1>5, <1>7, BeamHasValid DEF Tried
<1>13. CASE ValidInBeam # {} /\ phase' = "done" /\ best' = level[BestOfBeam]
  <2> DEFINE c == level[BestOfBeam]
  <2>1. BestOfBeam \in ValidInBeam
    BY <1>5, <1>7, <1>13, BestIs
  <2>2. c \in Candidates /\ c.valid
    BY <1>5, <2>1 DEF ValidInBeam, Beam
  <2> HIDE DEF c
  <2>3. PICK S \in Combinations(Len(tactics), depth) :
               /\ c.program = Made(S) /\ c.valid \in BOOLEAN /\ (c.valid = TRUE <=> Good(Made(S)))
    BY <1>3, <1>4, <1>6, <2>2, CandidateIs
  <2>4. Good(Made(S))
    BY <2>2, <2>3
  <2>5. Cheapest(c.program)
    BY <1>3, <1>4, <1>5, <1>6, <2>3, FirstIsCheapest
  <2>6. WellFormed => Returned(c.program)
    BY <1>3, <1>4, <2>3, <2>4, CombinationRewrites DEF Returned, Made
  <2>7. \A p : (Returned(p)' <=> Returned(p)) /\ (Cheapest(p)' <=> Cheapest(p))
    BY <1>1, ReturnedStays, CheapestStays
  <2>8. best' = c
    BY <1>13 DEF c
  <2>9. (WellFormed' => Returned(best.program)') /\ Cheapest(best.program)'
    BY <1>8, <2>5, <2>6, <2>7, <2>8
  <2> QED BY <1>1, <1>4, <1>11, <1>13, <2>9 DEF SynthesisInv, SearchInv, OptimizeInv, DoneInv
<1>14. CASE /\ ValidInBeam = {} /\ depth < MaxDepth /\ depth' = depth + 1
            /\ remaining' = Combinations(Len(tactics), depth + 1)
            /\ level' = << >> /\ phase' = phase
  <2>1. depth' \in 1 .. MaxDepth
    BY <1>5, <1>14, BoundsAssumption
  <2>2. remaining' = Combinations(Len(tactics), depth)' /\ Tried'
    BY <1>1, <1>14 DEF Tried
  <2>3. /\ \A q : Good(q)' <=> Good(q)
        /\ \A T : Made(T)' = Made(T)
    BY <1>1, GoodStays, MadeStays
  <2>4. ASSUME NEW d \in 1 .. depth, NEW S \in Combinations(Len(tactics), d)
        PROVE  ~Good(Made(S))
    <3>1. CASE d = depth
      BY <1>12, <1>14, <3>1
    <3>2. CASE d # depth
      <4>1. d \in 1 .. (depth - 1)
        BY <1>6, <3>2
      <4> QED BY <1>5, <4>1 DEF NoneSmaller
    <3> QED BY <3>1, <3>2
  <2>5. depth' - 1 = depth
    BY <1>6, <1>14
  <2>6. NoneSmaller'
    BY <1>1, <2>3, <2>4, <2>5 DEF NoneSmaller
  <2>7. level' \in Seq(Candidates)'
    BY <1>14
  <2> QED BY <1>1, <1>4, <1>5, <1>11, <1>14, <2>1, <2>2, <2>6, <2>7
      DEF SynthesisInv, SearchInv, OptimizeInv, DoneInv
<1>15. CASE phase' = "optimize" /\ current' = base
  <2>1. WellFormed' => (\E e : Optimized(current, e))'
    <3> SUFFICES ASSUME WellFormed PROVE (\E e : Optimized(current, e))'
      BY <1>8
    <3>1. Optimized(base, Identity)'
      BY <1>1, <1>3, OptimizedItself, OptimizedAnyway
    <3>2. Optimized(current, Identity)'
      BY <1>1, <1>15, <3>1
    <3> QED BY <3>2
  <2>2. Assigned' => Readable(current)' /\ NotRedundant(current, states)'
    <3> SUFFICES ASSUME Assigned PROVE Readable(base) /\ NotRedundant(base, states)
      BY <1>1, <1>8, <1>15
    <3> QED BY <1>3, <1>4, BaseNotRedundant DEF Assigned
  <2>3. ~AnalyzedCorrect(base, states)' /\ current' = base'
    BY <1>1, <1>5, <1>15
  <2> QED BY <1>1, <1>11, <1>15, <2>1, <2>2, <2>3 DEF SynthesisInv, SearchInv, OptimizeInv, DoneInv
<1> QED BY <1>2, <1>13, <1>14, <1>15

\* What a step of the optimizer leaves alone.
LEMMA OptimizerStages ==
  ASSUME SynthesisInv, phase = "optimize", base' = base, inputs' = inputs, entry' = entry,
         states' = states, tactics' = tactics, level' = level,
         phase' \in {"optimize", "done", "raised"}, phase' = "optimize" => best' = best,
         history' \in Seq(RuleNames), Assigned => history' \in Seq({"insert_allreduce"})
  PROVE  /\ Stages'
         /\ (Assigned' <=> Assigned) /\ (WellFormed' <=> WellFormed)
         /\ (ComputeOnly' <=> ComputeOnly)
<1>1. /\ Setting /\ entry \in {"synthesize", "from_spec", "parallel"} /\ best = NoCandidate
      /\ Ran(states) /\ tactics \in Seq(TacticSet)
      /\ entry # "synthesize" => tactics = << >> /\ level = << >>
  BY DEF SynthesisInv, Stages
<1>2. /\ Setting' /\ (Assigned' <=> Assigned) /\ (WellFormed' <=> WellFormed)
      /\ (ComputeOnly' <=> ComputeOnly) /\ TacticSet' = TacticSet
  BY <1>1, GivenStays
<1>3. Ran(states)'
  BY <1>1 DEF Ran
<1>4. Stages'
  BY <1>1, <1>2, <1>3 DEF Stages
<1> QED BY <1>2, <1>4

LEMMA InsertRuleKeeps ==
  ASSUME SynthesisInv, InsertRule
  PROVE  SynthesisInv'
<1> DEFINE i == Min(Missing(current, states))
           q == InsertAllReduce(current, i)
<1>1. /\ base' = base /\ inputs' = inputs /\ entry' = entry /\ states' = states /\ tactics' = tactics
      /\ level' = level /\ best' = best /\ phase = "optimize" /\ phase' = phase
      /\ history' = Append(history, "insert_allreduce") /\ current' = q
      /\ Missing(current, states) # {}
  BY DEF InsertRule, searchVars
<1>2. /\ history \in Seq(RuleNames) /\ (Assigned => history \in Seq({"insert_allreduce"}))
      /\ Setting
  BY DEF SynthesisInv, Stages
<1>3. history' \in Seq(RuleNames) /\ (Assigned => history' \in Seq({"insert_allreduce"}))
      /\ history' # << >>
  BY <1>1, <1>2 DEF RuleNames
<1>4. Stages' /\ (Assigned' <=> Assigned) /\ (WellFormed' <=> WellFormed)
  BY <1>1, <1>3, OptimizerStages
<1>5. /\ WellFormed => \E e : Optimized(current, e)
      /\ Assigned => Readable(current) /\ NotRedundant(current, states)
      /\ entry = "synthesize" => ~AnalyzedCorrect(base, states)
  BY <1>1 DEF SynthesisInv, OptimizeInv
<1>6. Missing(current, states) \subseteq 1 .. Len(current)
  BY DEF Missing, PartialProducts
<1>7. IsProgram(base) /\ HasFirst
  BY <1>2, Given
<1>8. ASSUME Len(current) \in Nat PROVE i \in Missing(current, states)
  <2>1. Missing(current, states) \subseteq Nat
    BY <1>6, <1>8
  <2> QED BY <1>1, <2>1, MinIs
<1> HIDE DEF i
<1>9. WellFormed => \E e : Optimized(q, e)
  <2> SUFFICES ASSUME WellFormed PROVE \E e : Optimized(q, e)
    OBVIOUS
  <2>1. PICK e : Optimized(current, e)
    BY <1>5
  <2>2. Len(current) \in Nat
    BY <2>1 DEF Optimized, Rewrites, Embedding, IsProgram
  <2> QED BY <1>7, <1>8, <2>1, <2>2, InsertOptimized
<1>10. Assigned => Readable(q) /\ NotRedundant(q, states)
  <2> SUFFICES ASSUME Assigned PROVE Readable(q) /\ NotRedundant(q, states)
    OBVIOUS
  <2>1. Readable(current) /\ NotRedundant(current, states) /\ Len(current) \in Nat
    BY <1>5 DEF Readable, IsProgram
  <2> QED BY <1>8, <2>1, InsertNotRedundant
<1> HIDE DEF q
<1>11. (\E e : Optimized(q, e)) => (\E e : Optimized(current, e))'
  <2> SUFFICES ASSUME NEW e, Optimized(q, e) PROVE (\E m : Optimized(current, m))'
    OBVIOUS
  <2>1. \A p : Optimized(p, e)' <=> Optimized(p, e)
    BY <1>1, OptimizedStays
  <2>2. Optimized(current, e)'
    BY <1>1, <2>1
  <2> QED BY <2>2
<1>12. Assigned => Readable(current)' /\ NotRedundant(current, states)'
  BY <1>1, <1>10
<1> QED BY <1>1, <1>3, <1>4, <1>5, <1>9, <1>11, <1>12
    DEF SynthesisInv, SearchInv, OptimizeInv, DoneInv
LEMMA RemoveRuleKeeps ==
  ASSUME SynthesisInv, RemoveRule
  PROVE  SynthesisInv'
<1>1. /\ base' = base /\ inputs' = inputs /\ entry' = entry /\ states' = states /\ tactics' = tactics
      /\ level' = level /\ best' = best /\ phase = "optimize" /\ phase' = phase
      /\ history' = Append(history, "remove_redundant_allreduce")
      /\ Redundant(current, states) # {}
  BY DEF RemoveRule, searchVars
<1>2. /\ history \in Seq(RuleNames)
      /\ Assigned => Readable(current) /\ NotRedundant(current, states)
      /\ entry = "synthesize" => ~AnalyzedCorrect(base, states)
  BY <1>1 DEF SynthesisInv, Stages, OptimizeInv
<1>3. ~Assigned /\ ~WellFormed
  BY <1>1, <1>2, NoneRedundant DEF Assigned, WellFormed
<1>4. history' \in Seq(RuleNames) /\ history' # << >>
  BY <1>1, <1>2 DEF RuleNames
<1>5. Stages' /\ ~Assigned' /\ ~WellFormed'
  BY <1>1, <1>3, <1>4, OptimizerStages
<1> QED BY <1>1, <1>2, <1>4, <1>5 DEF SynthesisInv, SearchInv, OptimizeInv, DoneInv

\* What the fallback takes.
LEMMA FallbackReturns ==
  ASSUME Setting, WellFormed, ComputeOnly, NEW p, NEW e, Optimized(p, e),
         ~RunProgram(FALSE, p, inputs).raised,
         AnalyzedCorrect(p, RunProgram(FALSE, p, inputs).tensors)
  PROVE  Returned(p)
<1>1. IsProgram(base) /\ Typed
  BY Given
<1>2. Rewrites(p, e) /\ Tight(p, e) /\ Len(p) \in Nat
  BY DEF Optimized, Rewrites, Embedding, IsProgram
<1>3. RunProgram(FALSE, p, inputs).raised = FALSE
  BY <1>2, RunTells
<1>4. OutputsWhole(p, RunProgram(FALSE, p, inputs).tensors)
  BY <1>1, <1>2, <1>3, TightIsGood
<1> QED BY <1>2, <1>3, <1>4 DEF Returned, Good

LEMMA EndFallbackKeeps ==
  ASSUME SynthesisInv, EndFallback
  PROVE  SynthesisInv'
<1> DEFINE r == RunProgram(FALSE, current, inputs)
           c == [program |-> current, size |-> Len(history), cost |-> Cost(current), valid |-> TRUE]
<1>1. /\ base' = base /\ inputs' = inputs /\ entry' = entry /\ states' = states /\ tactics' = tactics
      /\ level' = level /\ history' = history /\ phase = "optimize" /\ entry = "synthesize"
      /\ phase' = IF r.raised THEN "raised" ELSE "done"
      /\ best' = IF ~r.raised /\ AnalyzedCorrect(current, r.tensors) THEN c ELSE best
  BY DEF EndFallback, searchVars, optimizeVars
<1>2. /\ history \in Seq(RuleNames) /\ (Assigned => history \in Seq({"insert_allreduce"}))
      /\ best = NoCandidate /\ Setting /\ Ran(states)
  BY <1>1 DEF SynthesisInv, Stages
<1>3. /\ WellFormed => \E e : Optimized(current, e)
      /\ ~AnalyzedCorrect(base, states) /\ (history = << >> => current = base)
  BY <1>1 DEF SynthesisInv, OptimizeInv
<1>4. phase' \in {"done", "raised"}
  BY <1>1
<1>5. /\ Stages' /\ (Assigned' <=> Assigned) /\ (WellFormed' <=> WellFormed)
      /\ (ComputeOnly' <=> ComputeOnly)
  BY <1>1, <1>2, <1>4, OptimizerStages
<1>6. CASE r.raised \/ ~AnalyzedCorrect(current, r.tensors)
  <2>1. best' = NoCandidate
    BY <1>1, <1>2, <1>6
  <2>2. best'.valid = FALSE
    BY <2>1 DEF NoCandidate
  <2> QED BY <1>1, <1>4, <1>5, <2>2 DEF SynthesisInv, SearchInv, OptimizeInv, DoneInv
<1>7. CASE ~r.raised /\ AnalyzedCorrect(current, r.tensors)
  <2>1. best'.program = current
    BY <1>1, <1>7
  <2>2. history # << >>
    <3> SUFFICES ASSUME history = << >> PROVE FALSE
      OBVIOUS
    <3>1. current = base
      BY <1>3
    <3>2. AnalyzedCorrect(base, states)
      BY <1>2, <1>7, <3>1 DEF Ran
    <3> QED BY <1>3, <3>2
  <2>3. WellFormed /\ ComputeOnly => Returned(current)
    BY <1>2, <1>3, <1>7, FallbackReturns
  <2>4. \A p : Returned(p)' <=> Returned(p)
    BY <1>1, ReturnedStays
  <2>5. WellFormed' /\ ComputeOnly' => Returned(best.program)'
    BY <1>5, <2>1, <2>3, <2>4
  <2>6. history' # << >>
    BY <1>1, <2>2
  <2> HIDE DEF r, c
  <2> QED BY <1>1, <1>4, <1>5, <2>5, <2>6 DEF SynthesisInv, SearchInv, OptimizeInv, DoneInv
<1> QED BY <1>6, <1>7

LEMMA EndFromSpecKeeps ==
  ASSUME SynthesisInv, EndFromSpec
  PROVE  SynthesisInv'
<1>1. /\ base' = base /\ inputs' = inputs /\ entry' = entry /\ states' = states /\ tactics' = tactics
      /\ level' = level /\ history' = history /\ phase = "optimize" /\ entry = "from_spec"
      /\ phase' = "done"
  BY DEF EndFromSpec, searchVars, optimizeVars
<1>2. best'.program = current
  BY DEF EndFromSpec
<1>3. history \in Seq(RuleNames) /\ (Assigned => history \in Seq({"insert_allreduce"}))
  BY DEF SynthesisInv, Stages
<1>4. Stages' /\ (WellFormed' <=> WellFormed)
  BY <1>1, <1>3, OptimizerStages
<1>5. WellFormed => \E e : Optimized(current, e)
  BY <1>1 DEF SynthesisInv, OptimizeInv
<1>6. (\E e : Optimized(current, e)) => (\E e : Optimized(best.program, e))'
  <2> SUFFICES ASSUME NEW e, Optimized(current, e) PROVE (\E m : Optimized(best.program, m))'
    OBVIOUS
  <2>1. \A p : Optimized(p, e)' <=> Optimized(p, e)
    BY <1>1, OptimizedStays
  <2>2. Optimized(best.program, e)'
    BY <1>2, <2>1
  <2> QED BY <2>2
<1> QED BY <1>1, <1>4, <1>5, <1>6 DEF SynthesisInv, SearchInv, OptimizeInv, DoneInv

LEMMA GoOnToEngineKeeps ==
  ASSUME SynthesisInv, GoOnToEngine
  PROVE  SynthesisInv'
<1>1. /\ base' = base /\ inputs' = inputs /\ tactics' = tactics /\ level' = level /\ best' = best
      /\ phase = "optimize" /\ entry = "parallel"
      /\ phase' = "start" /\ entry' = "synthesize" /\ history' = << >>
  BY DEF GoOnToEngine, searchVars
<1>2. /\ Setting /\ best = NoCandidate /\ tactics = << >> /\ level = << >>
      /\ tactics \in Seq(TacticSet)
  BY <1>1 DEF SynthesisInv, Stages
<1>3. /\ Setting' /\ TacticSet' = TacticSet
  BY <1>1, <1>2, GivenStays
<1>4. << >> \in Seq(RuleNames) /\ << >> \in Seq({"insert_allreduce"})
  OBVIOUS
<1>5. Stages'
  BY <1>1, <1>2, <1>3, <1>4 DEF Stages
<1> QED BY <1>1, <1>5 DEF SynthesisInv, SearchInv, OptimizeInv, DoneInv

LEMMA StutterKeeps ==
  ASSUME SynthesisInv, UNCHANGED synthesisVars
  PROVE  SynthesisInv'
<1>1. /\ base' = base /\ inputs' = inputs /\ entry' = entry /\ phase' = phase /\ states' = states
      /\ tactics' = tactics /\ depth' = depth /\ remaining' = remaining /\ level' = level
      /\ best' = best /\ current' = current /\ history' = history
  BY DEF synthesisVars
<1>2. /\ (Setting' <=> Setting) /\ (Assigned' <=> Assigned) /\ (WellFormed' <=> WellFormed)
      /\ (ComputeOnly' <=> ComputeOnly) /\ TacticSet' = TacticSet
  BY <1>1, GivenStays
<1>3. Stages'
  BY <1>1, <1>2 DEF SynthesisInv, Stages, Ran
<1>4. /\ \A p : /\ Good(p)' <=> Good(p)
                /\ Returned(p)' <=> Returned(p)
                /\ Cheapest(p)' <=> Cheapest(p)
      /\ \A S : Made(S)' = Made(S)
      /\ \A p, e : Optimized(p, e)' <=> Optimized(p, e)
      /\ Candidates' = Candidates
  BY <1>1, GoodStays, ReturnedStays, CheapestStays, MadeStays, OptimizedStays, CandidatesStay
<1>5. SearchInv'
  BY <1>1, <1>4 DEF SynthesisInv, SearchInv, Tried, NoneSmaller
<1>6. OptimizeInv'
  BY <1>1, <1>2, <1>4 DEF SynthesisInv, OptimizeInv
<1>7. DoneInv'
  BY <1>1, <1>2, <1>4 DEF SynthesisInv, DoneInv
<1> QED BY <1>3, <1>5, <1>6, <1>7 DEF SynthesisInv

LEMMA SynthesisNextInv == SynthesisInv /\ [SynthesisNext]_synthesisVars => SynthesisInv'
BY StartKeeps, StartFromSpecKeeps, TryCombinationKeeps, EndLevelKeeps, InsertRuleKeeps,
   RemoveRuleKeeps, EndFallbackKeeps, EndFromSpecKeeps, GoOnToEngineKeeps, StutterKeeps
   DEF SynthesisNext

THEOREM SynthesisInvariance == SynthesisSpec => []SynthesisInv
BY SynthesisInitInv, SynthesisNextInv, PTL DEF SynthesisSpec

-----------------------------------------------------------------------------
(***************************************************************************)
(* What the invariant says of a call that has ended.                       *)
(***************************************************************************)
LEMMA SoundNow == SynthesisInv => SoundSynthesis
<1> SUFFICES ASSUME SynthesisInv, Succeeded, WellFormed, ComputeOnly
             PROVE  LET r == RunProgram(FALSE, best.program, inputs)
                    IN  ~r.raised /\ OutputsWhole(best.program, r.tensors)
  BY DEF SoundSynthesis
<1>1. Returned(best.program)
  BY DEF SynthesisInv, DoneInv, Succeeded
<1> QED BY <1>1 DEF Returned, Good

LEMMA MeaningNow == SynthesisInv => MeaningKept
<1> SUFFICES ASSUME SynthesisInv, Succeeded, WellFormed, ComputeOnly,
                    NEW n \in OutputNames(base, states)
             PROVE  \E m \in {n, FreshName[n]} :
                      LET final == RunProgram(FALSE, best.program, inputs).tensors
                          terms == Terms(best.program)
                      IN  m \in DOMAIN final /\ ~IsPartial(final[m]) /\ terms[m] = Terms(base)[n]
  BY DEF MeaningKept
<1>1. Returned(best.program) /\ Setting /\ Ran(states)
  BY DEF SynthesisInv, DoneInv, Stages, Succeeded
<1>2. PICK e : Rewrites(best.program, e)
  BY <1>1 DEF Returned
<1>3. Good(best.program)
  BY <1>1 DEF Returned
<1>4. IsProgram(base) /\ HasFirst
  BY <1>1, Given
<1>5. DOMAIN states = DOMAIN inputs \cup WrittenNames(base)
  <2>1. PICK g : RunOfBase(g, states)
    BY <1>1, <1>4, BaseRan DEF WellFormed
  <2> QED BY <2>1 DEF RunOfBase
<1>6. n \in DOMAIN inputs \cup WrittenNames(base) /\ n \notin ReadNames(base)
  BY <1>5 DEF OutputNames
<1> DEFINE final == RunProgram(FALSE, best.program, inputs).tensors
<1>7. \E m \in {n, FreshName[n]} :
        m \in DOMAIN final /\ ~IsPartial(final[m]) /\ Terms(best.program)[m] = Terms(base)[n]
  BY <1>2, <1>3, <1>4, <1>6, MeaningIsKept
<1> QED BY <1>7

LEMMA CheapestNow == SynthesisInv => CheapestOfAll
<1> SUFFICES ASSUME SynthesisInv, Succeeded, history = << >>,
                    NEW d \in 1 .. MaxDepth, NEW c \in Combinations(Len(tactics), d)
             PROVE  LET p == ApplyTactics(base, tactics, c)
                        r == RunProgram(FALSE, p, inputs)
                    IN  (~r.raised /\ AnalyzedCorrect(p, r.tensors) /\ OutputsWhole(p, r.tensors))
                          => Cost(best.program) <= Cost(p)
  BY DEF CheapestOfAll
<1>1. Cheapest(best.program) /\ Setting /\ tactics \in Seq(TacticSet)
  BY DEF SynthesisInv, DoneInv, Stages, Succeeded
<1>2. Good(Made(c)) => Cost(best.program) <= Cost(Made(c))
  BY <1>1 DEF Cheapest
<1>3. RunProgram(FALSE, Made(c), inputs).raised \in BOOLEAN
  <2>1. PICK f : Applies(tactics, c, f) /\ Made(c) = f[Len(tactics)]
    BY <1>1, TacticsApply DEF Made
  <2>2. \A k \in 0 .. Len(tactics) : IsProgram(f[k])
    BY <1>1, <2>1, Given, EachInserts
  <2>3. Len(Made(c)) \in Nat
    BY <1>1, <2>1, <2>2 DEF IsProgram
  <2> QED BY <2>3, RunTells
<1> QED BY <1>2, <1>3 DEF Made, Good

LEMMA NothingRemovedNow == SynthesisInv => NothingRemoved
BY DEF SynthesisInv, Stages, Assigned, NothingRemoved
-----------------------------------------------------------------------------
(***************************************************************************)
(* An optimized program runs.  In its run a tensor is what it was, or      *)
(* replicated where it was partial.                                        *)
(***************************************************************************)
LessAt(a, b) == a = b \/ (b = "P" /\ a = "R")
Less(x, y)   == x \in Placements /\ \A d \in MeshDims : LessAt(x[d], y[d])

LEMMA LessSharded ==
  ASSUME NEW x, NEW y, Less(x, y), NEW k
  PROVE  /\ ShardedOn(x, k) <=> ShardedOn(y, k)
         /\ IsPartial(x) => IsPartial(y)
<1>1. Shard(k) \in {"S0", "S1"}
  BY DEF Shard
<1>2. \A d \in MeshDims : x[d] = Shard(k) <=> y[d] = Shard(k)
  BY <1>1 DEF Less, LessAt
<1> QED BY <1>2 DEF ShardedOn, IsPartial, Less, LessAt

\* Only an AllReduce can raise an exception that it did not raise.
LEMMA LessRaises ==
  ASSUME NEW c, IsOp(c), c.kind # "AllReduce",
         NEW ins \in [DOMAIN c.ins -> Placements], NEW less \in [DOMAIN c.ins -> Placements],
         \A x \in DOMAIN c.ins : Less(less[x], ins[x]), ~Raises(c, ins)
  PROVE  ~Raises(c, less)
<1>1. Less(less[1], ins[1])
  BY DEF IsOp
<1>2. ~(c.kind = "Norm" /\ ShardedOn(less[1], c.dim))
  BY <1>1, LessSharded DEF Raises
<1>3. c.kind \in {"Add", "Multiply"} => Less(less[2], ins[2])
  BY DEF IsOp, BinaryKinds
<1>4. ASSUME c.kind \in {"Add", "Multiply"}, NEW d \in MeshDims
      PROVE  Mergeable(less[1][d], less[2][d])
  <2>1. Mergeable(ins[1][d], ins[2][d])
    BY <1>4 DEF Raises
  <2>2. LessAt(less[1][d], ins[1][d]) /\ LessAt(less[2][d], ins[2][d])
    BY <1>1, <1>3, <1>4 DEF Less
  <2> QED BY <2>1, <2>2 DEF Mergeable, LessAt
<1>5. ~(c.kind = "Multiply" /\ IsPartial(less[1]) /\ IsPartial(less[2]))
  <2> SUFFICES ASSUME c.kind = "Multiply", IsPartial(less[1]), IsPartial(less[2]) PROVE FALSE
    OBVIOUS
  <2>1. IsPartial(ins[1]) /\ IsPartial(ins[2])
    BY <1>1, <1>3, LessSharded
  <2> QED BY <2>1 DEF Raises
<1> QED BY <1>2, <1>4, <1>5 DEF Raises

\* Every operation but a Scatter keeps it so.
LEMMA LessApplied ==
  ASSUME NEW c, IsOp(c), c.kind # "Scatter",
         NEW ins \in [DOMAIN c.ins -> Placements], NEW less \in [DOMAIN c.ins -> Placements],
         \A x \in DOMAIN c.ins : Less(less[x], ins[x]), ~Raises(c, ins)
  PROVE  Less(Apply(c, less), Apply(c, ins))
<1> DEFINE x == less[1]
           y == ins[1]
<1>1. Less(x, y) /\ \A d \in MeshDims : x[d] \in PL /\ y[d] \in PL
  BY DEF IsOp, Placements
<1>2. Apply(c, less) \in Placements
  BY ApplyType
<1> SUFFICES ASSUME NEW d \in MeshDims
             PROVE  LessAt(Apply(c, less)[d], Apply(c, ins)[d])
  BY <1>2 DEF Less
<1>3. /\ LessAt(x[d], y[d]) /\ x[d] \in PL /\ y[d] \in PL
      /\ \A k : ShardedOn(x, k) <=> ShardedOn(y, k)
  BY <1>1, LessSharded DEF Less
<1>4. CASE c.kind \in BinaryKinds
  <2> DEFINE v == less[2]
             w == ins[2]
  <2>1. LessAt(v[d], w[d]) /\ v[d] \in PL /\ w[d] \in PL
    BY <1>4 DEF IsOp, Less, Placements
  <2>2. CASE c.kind = "MatMul"
    <3>1. /\ Apply(c, less)[d] = MatMulPlacement(x[d], v[d])
          /\ Apply(c, ins)[d] = MatMulPlacement(y[d], w[d])
      BY <2>2 DEF Apply
    <3> HIDE DEF x, y, v, w
    <3> QED BY <1>3, <2>1, <3>1 DEF MatMulPlacement, LessAt
  <2>3. CASE c.kind \in {"Add", "Multiply"}
    <3>1. /\ Apply(c, less)[d] = MergePlacement(x[d], v[d])
          /\ Apply(c, ins)[d] = MergePlacement(y[d], w[d])
      BY <2>3 DEF Apply
    <3>2. Mergeable(y[d], w[d])
      BY <2>3 DEF Raises
    <3> HIDE DEF x, y, v, w
    <3> QED BY <1>3, <2>1, <3>1, <3>2 DEF MergePlacement, Mergeable, LessAt
  <2>4. CASE c.kind = "FlashAttention"
    <3>1. /\ Apply(c, less)[d] = AttentionPlacement(x, v, d)
          /\ Apply(c, ins)[d] = AttentionPlacement(y, w, d)
      BY <2>4 DEF Apply
    <3> HIDE DEF x, y, v, w
    <3> QED BY <1>3, <2>1, <3>1 DEF AttentionPlacement, LessAt
  <2>5. CASE c.kind = "Embedding"
    <3>1. /\ Apply(c, less)[d] = EmbeddingPlacement(v[d], c.dim)
          /\ Apply(c, ins)[d] = EmbeddingPlacement(w[d], c.dim)
      BY <2>5 DEF Apply
    <3> HIDE DEF x, y, v, w
    <3> QED BY <1>3, <2>1, <3>1 DEF EmbeddingPlacement, LessAt, Shard
  <2>6. CASE c.kind = "CrossEntropyLoss"
    <3>1. /\ Apply(c, less)[d] = LossPlacement(x[d], c.dim)
          /\ Apply(c, ins)[d] = LossPlacement(y[d], c.dim)
      BY <2>6 DEF Apply
    <3> HIDE DEF x, y, v, w
    <3> QED BY <1>3, <2>1, <3>1 DEF LossPlacement, LessAt, Shard
  <2> QED BY <1>4, <2>2, <2>3, <2>4, <2>5, <2>6 DEF BinaryKinds
<1>5. CASE c.kind \in UnaryKinds
  <2>1. CASE c.kind \in {"Unary", "Norm"}
    <3>1. Apply(c, less) = x /\ Apply(c, ins) = y
      BY <2>1 DEF Apply
    <3> QED BY <1>3, <3>1
  <2>2. CASE c.kind = "Transpose"
    <3>1. Apply(c, less)[d] = SwappedPlacement(x[d]) /\ Apply(c, ins)[d] = SwappedPlacement(y[d])
      BY <2>2 DEF Apply
    <3> HIDE DEF x, y
    <3> QED BY <1>3, <3>1 DEF SwappedPlacement, LessAt, PL
  <2>3. CASE c.kind = "AllReduce"
    <3>1. /\ Apply(c, less)[d] = Changed(c, x, {"P"}, "R")[d]
          /\ Apply(c, ins)[d] = Changed(c, y, {"P"}, "R")[d]
      BY <2>3 DEF Apply
    <3> HIDE DEF x, y
    <3> QED BY <1>3, <3>1 DEF Changed, LessAt
  <2>4. CASE c.kind = "AllGather"
    <3>1. /\ Apply(c, less)[d] = Changed(c, x, {Shard(c.dim)}, "R")[d]
          /\ Apply(c, ins)[d] = Changed(c, y, {Shard(c.dim)}, "R")[d]
      BY <2>4 DEF Apply
    <3> HIDE DEF x, y
    <3> QED BY <1>3, <3>1 DEF Changed, LessAt, Shard
  <2>5. CASE c.kind = "AllToAll"
    <3>1. /\ Apply(c, less)[d] = Changed(c, x, {Shard(c.dim)}, Shard(c.concat_dim))[d]
          /\ Apply(c, ins)[d] = Changed(c, y, {Shard(c.dim)}, Shard(c.concat_dim))[d]
      BY <2>5 DEF Apply
    <3> HIDE DEF x, y
    <3> QED BY <1>3, <3>1 DEF Changed, LessAt, Shard
  <2>6. CASE c.kind = "ReduceScatter"
    <3>1. /\ Apply(c, less)[d] = FirstChanged(c, x, {"R", "P"}, Shard(c.dim))[d]
          /\ Apply(c, ins)[d] = FirstChanged(c, y, {"R", "P"}, Shard(c.dim))[d]
      BY <2>6 DEF Apply
    <3> HIDE DEF x, y
    <3>2. \A e \in MeshDims : x[e] \in {"R", "P"} <=> y[e] \in {"R", "P"}
      BY <1>1 DEF Less, LessAt
    <3> QED BY <1>3, <3>1, <3>2 DEF FirstChanged, LessAt
  <2>7. CASE c.kind = "Broadcast"
    <3>1. Apply(c, less)[d] = "R" /\ Apply(c, ins)[d] = "R"
      BY <2>7 DEF Apply
    <3> QED BY <3>1 DEF LessAt
  <2> QED BY <1>5, <2>1, <2>2, <2>3, <2>4, <2>5, <2>6, <2>7 DEF UnaryKinds
<1> QED BY <1>4, <1>5 DEF IsOp, Kinds

\* What was whole is what it was.
LEMMA LessWhole ==
  ASSUME NEW x, NEW y \in Placements, Less(x, y), ~IsPartial(y)
  PROVE  x = y
<1>1. \A d \in MeshDims : x[d] = y[d]
  BY DEF Less, LessAt, IsPartial
<1> QED BY <1>1 DEF Less, Placements

\* An operation does what its like does.
ActsLike(o, c) == /\ o.kind = c.kind /\ o.dim = c.dim /\ o.concat_dim = c.concat_dim
                /\ o.mesh_dim = c.mesh_dim

LEMMA AlikeApply ==
  ASSUME NEW o, NEW c, ActsLike(o, c), NEW ins
  PROVE  Apply(o, ins) = Apply(c, ins) /\ (Raises(o, ins) <=> Raises(c, ins))
<1>1. Raises(o, ins) <=> Raises(c, ins)
  BY DEF Raises, ActsLike
<1>2. Apply(o, ins) = Apply(c, ins)
  <2>1. \A x, from, to : /\ Changed(o, x, from, to) = Changed(c, x, from, to)
                         /\ FirstChanged(o, x, from, to) = FirstChanged(c, x, from, to)
    BY DEF Changed, FirstChanged, ActsLike
  <2> QED BY <2>1 DEF Apply, ActsLike
<1> QED BY <1>1, <1>2
\* What the run of the given program makes of its tensors.
LEMMA BaseStates ==
  ASSUME IsProgram(base), SingleAssignment(base), ReadsEarlier(base), Typed, NEW st, Ran(st)
  PROVE  /\ DOMAIN st = DOMAIN inputs \cup WrittenNames(base)
         /\ \A n \in DOMAIN inputs : st[n] = inputs[n]
         /\ \A n \in DOMAIN st : st[n] \in Placements
         /\ \A k \in Ops : /\ ReadOf(st, base[k]) \in [DOMAIN base[k].ins -> Placements]
                           /\ st[base[k].out] = Apply(base[k], ReadOf(st, base[k]))
                           /\ ~Raises(base[k], ReadOf(st, base[k]))
<1>0. PICK g : RunOfBase(g, st)
  BY BaseRan
<1>1. /\ st = g[Len(base)] /\ g[0] = inputs /\ Writing(base, g)
      /\ DOMAIN st = DOMAIN inputs \cup WrittenNames(base)
      /\ \A i \in Ops : /\ Present(g[i - 1], base[i])
                        /\ QuietStep(g[i - 1], base[i], g[i])
                        /\ st[base[i].out] = g[i][base[i].out]
                        /\ ReadOf(g[i - 1], base[i]) = ReadOf(st, base[i])
  BY <1>0 DEF RunOfBase
<1>2. \A n \in DOMAIN inputs : st[n] = inputs[n]
  BY <1>1, BaseKept
<1>3. ASSUME NEW i \in Ops
      PROVE  /\ ~Raises(base[i], ReadOf(g[i - 1], base[i]))
             /\ g[i] = Put(g[i - 1], base[i].out, Apply(base[i], ReadOf(g[i - 1], base[i])))
  BY <1>1 DEF QuietStep
<1>4. Len(base) \in Nat
  BY DEF IsProgram
<1> DEFINE S == {i \in Nat : i <= Len(base) => \A n \in DOMAIN g[i] : g[i][n] \in Placements}
<1>5. 0 \in S
  BY <1>1 DEF Typed
<1>6. ASSUME NEW i \in Nat, i \in S PROVE i + 1 \in S
  <2> SUFFICES ASSUME i + 1 <= Len(base) PROVE \A n \in DOMAIN g[i + 1] : g[i + 1][n] \in Placements
    OBVIOUS
  <2>1. i + 1 \in Ops /\ (i + 1) - 1 = i
    BY <1>4 DEF Ops
  <2> DEFINE o == base[i + 1]
             new == Apply(o, ReadOf(g[i], o))
  <2>2. \A n \in DOMAIN g[i] : g[i][n] \in Placements
    BY <1>4, <1>6
  <2>3. Present(g[i], o) /\ IsOp(o)
    BY <1>1, <2>1 DEF Typed
  <2>4. ReadOf(g[i], o) \in [DOMAIN o.ins -> Placements]
    BY <2>2, <2>3 DEF ReadOf, Present, ToSet
  <2>5. new \in Placements
    BY <2>3, <2>4, ApplyType
  <2>6. g[i + 1] = Put(g[i], o.out, new)
    BY <1>3, <2>1
  <2> HIDE DEF new
  <2>7. IsPut(Put(g[i], o.out, new), g[i], o.out, new)
    BY PutIs
  <2>8. IsPut(g[i + 1], g[i], o.out, new)
    BY <2>6, <2>7
  <2> QED BY <2>2, <2>5, <2>8 DEF IsPut
<1> HIDE DEF S
<1>7. Nat \subseteq S
  BY <1>5, <1>6, Induction
<1>8. Len(base) \in S
  BY <1>4, <1>7
<1>9. \A n \in DOMAIN g[Len(base)] : g[Len(base)][n] \in Placements
  BY <1>4, <1>8 DEF S
<1>10. \A n \in DOMAIN st : st[n] \in Placements
  BY <1>1, <1>9
<1>11. ASSUME NEW k \in Ops
       PROVE  /\ ReadOf(st, base[k]) \in [DOMAIN base[k].ins -> Placements]
              /\ st[base[k].out] = Apply(base[k], ReadOf(st, base[k]))
              /\ ~Raises(base[k], ReadOf(st, base[k]))
  <2>1. g[k] = Put(g[k - 1], base[k].out, Apply(base[k], ReadOf(st, base[k])))
    BY <1>1, <1>3
  <2>2. IsPut(g[k], g[k - 1], base[k].out, Apply(base[k], ReadOf(st, base[k])))
    BY <2>1, PutIs
  <2>3. st[base[k].out] = Apply(base[k], ReadOf(st, base[k]))
    BY <1>1, <2>2 DEF IsPut
  <2>4. ~Raises(base[k], ReadOf(st, base[k]))
    BY <1>1, <1>3
  <2>5. \A x \in DOMAIN base[k].ins : base[k].ins[x] \in DOMAIN st
    <3>1. \A x \in DOMAIN base[k].ins :
            base[k].ins[x] \in DOMAIN inputs \/ \E j \in Ops : base[k].ins[x] = base[j].out
      BY <1>4 DEF ReadsEarlier, ToSet, Ops, IsProgram
    <3> QED BY <1>1, <3>1 DEF WrittenNames, Ops, IsProgram
  <2>6. ReadOf(st, base[k]) \in [DOMAIN base[k].ins -> Placements]
    BY <1>10, <2>5 DEF ReadOf
  <2> QED BY <2>3, <2>4, <2>6
<1> QED BY <1>1, <1>2, <1>10, <1>11

\* After i operations of an optimized program.
Near(e, t, i) ==
  /\ \A n \in DOMAIN inputs : t[n] = states[n]
  /\ \A k \in Ops : e[k] <= i => Less(t[base[k].out], states[base[k].out])
  /\ \A k \in Ops : e[k] <= i /\ Product(k) /\ KnownPartial(states, base[k].out) =>
       t[base[k].out] = states[base[k].out]
  /\ \A k \in Ops : SumOf(k) \in DOMAIN t => Less(t[SumOf(k)], states[base[k].out])

Fits(t, o) == /\ Present(t, o)
              /\ ~Raises(o, ReadOf(t, o))

After(t, o) == Put(t, o.out, Apply(o, ReadOf(t, o)))

\* An operation of the given program.
LEMMA NearOps ==
  ASSUME IsProgram(base), WellFormed, HasFirst, Typed, Ran(states), IndependentProducts, SumsOfProducts,
         NEW p, NEW e, Optimized(p, e), NEW i \in Nat, i + 1 \in 1 .. Len(p),
         NEW t, Tracks(p, e, t, i), Near(e, t, i), NEW k \in Ops, e[k] = i + 1
  PROVE  Fits(t, p[i + 1]) /\ Near(e, After(t, p[i + 1]), i + 1)
<1> DEFINE o == p[i + 1]
           c == base[k]
           ins == ReadOf(states, c)
           less == ReadOf(t, o)
           new == Apply(o, less)
           u == After(t, o)
<1>1. Rewrites(p, e) /\ Embedding(p, e) /\ ReadsSame(p, e)
  BY DEF Optimized, Rewrites
<1>2. Similar(o, c) /\ IsOp(c) /\ ActsLike(o, c)
  BY <1>1 DEF Embedding, Typed, Similar, ActsLike
<1>3. /\ ins \in [DOMAIN c.ins -> Placements]
      /\ states[c.out] = Apply(c, ins) /\ ~Raises(c, ins)
      /\ \A n \in DOMAIN inputs : states[n] \in Placements
  BY BaseStates DEF WellFormed
<1>4. Present(t, o)
  BY <1>1, AllPresent
<1>5. ASSUME NEW x \in DOMAIN c.ins
      PROVE  Less(t[o.ins[x]], states[c.ins[x]])
  <2>1. \/ c.ins[x] \in DOMAIN inputs /\ o.ins[x] = c.ins[x]
        \/ \E j \in Ops : /\ c.ins[x] = base[j].out /\ e[j] <= i
                          /\ o.ins[x] \in {base[j].out, SumOf(j)} /\ o.ins[x] \in DOMAIN t
    BY <1>1, ReadsThere
  <2>2. CASE c.ins[x] \in DOMAIN inputs /\ o.ins[x] = c.ins[x]
    <3>1. t[o.ins[x]] = states[c.ins[x]] /\ states[c.ins[x]] \in Placements
      BY <1>3, <2>2 DEF Near
    <3> QED BY <3>1 DEF Less, LessAt
  <2>3. CASE \E j \in Ops : /\ c.ins[x] = base[j].out /\ e[j] <= i
                            /\ o.ins[x] \in {base[j].out, SumOf(j)} /\ o.ins[x] \in DOMAIN t
    BY <2>3 DEF Near
  <2> QED BY <2>1, <2>2, <2>3
<1>6. DOMAIN o.ins = DOMAIN c.ins
  BY <1>2 DEF Similar
<1>7. \A x \in DOMAIN c.ins : ins[x] = states[c.ins[x]] /\ less[x] = t[o.ins[x]]
  BY <1>6 DEF ReadOf
<1>8. \A x \in DOMAIN c.ins : Less(less[x], ins[x])
  BY <1>5, <1>7
<1>9. less \in [DOMAIN c.ins -> Placements]
  <2>1. less = [x \in DOMAIN c.ins |-> t[o.ins[x]]]
    BY <1>6 DEF ReadOf
  <2>2. \A x \in DOMAIN c.ins : t[o.ins[x]] \in Placements
    BY <1>5 DEF Less
  <2> HIDE DEF less
  <2> QED BY <2>1, <2>2
<1> HIDE DEF ins, less, c, o
<1>10. c.kind # "Scatter"
  BY DEF SumsOfProducts, Ops, IsProgram, c
<1>11. new = Apply(c, less) /\ (Raises(o, less) <=> Raises(c, less))
  BY <1>2, AlikeApply
<1>12. Less(Apply(c, less), Apply(c, ins))
  BY <1>2, <1>3, <1>8, <1>9, <1>10, LessApplied
<1>13. Less(new, states[c.out])
  BY <1>3, <1>11, <1>12
<1>14. ~Raises(o, less)
  <2>1. CASE c.kind # "AllReduce"
    BY <1>2, <1>3, <1>8, <1>9, <1>11, <2>1, LessRaises
  <2>2. CASE c.kind = "AllReduce"
    <3>1. 1 \in DOMAIN c.ins /\ o.ins[1] = c.ins[1]
      BY <1>1, <2>2 DEF ReadsSame, HasFirst, c, o
    <3>2. PICK j \in Ops : Product(j) /\ base[j].out = c.ins[1]
      BY <2>2 DEF SumsOfProducts, Ops, IsProgram, c, Product
    <3>3. e[j] <= i
      <4>1. \/ c.ins[1] \in DOMAIN inputs
            \/ \E m \in Ops : c.ins[1] = base[m].out /\ e[m] <= i
        BY <1>1, <3>1, ReadsThere DEF c
      <4>2. c.ins[1] \notin DOMAIN inputs
        BY <3>2, NamesApart DEF WellFormed
      <4>3. PICK m \in Ops : c.ins[1] = base[m].out /\ e[m] <= i
        BY <4>1, <4>2
      <4>4. m = j
        BY <3>2, <4>3, NamesApart DEF WellFormed
      <4> QED BY <4>3, <4>4
    <3>4. IsPartial(ins[1])
      BY <1>3, <2>2 DEF Raises
    <3>5. ins[1] = states[base[j].out] /\ less[1] = t[base[j].out]
      BY <1>7, <3>1, <3>2
    <3>6. KnownPartial(states, base[j].out)
      <4>1. base[j].out \in DOMAIN states
        <5>1. DOMAIN states = DOMAIN inputs \cup WrittenNames(base)
          BY BaseStates DEF WellFormed
        <5>2. base[j].out \in WrittenNames(base)
          BY DEF WrittenNames, Ops, IsProgram
        <5> QED BY <5>1, <5>2
      <4> QED BY <3>4, <3>5, <4>1 DEF KnownPartial
    <3>7. t[base[j].out] = states[base[j].out]
      BY <3>2, <3>3, <3>6 DEF Near
    <3>8. IsPartial(less[1])
      BY <3>4, <3>5, <3>7
    <3>9. ~Raises(c, less)
      BY <2>2, <3>8 DEF Raises
    <3> QED BY <1>11, <3>9
  <2> QED BY <2>1, <2>2
<1>15. Product(k) /\ KnownPartial(states, c.out) => new = states[c.out]
  <2> SUFFICES ASSUME Product(k), KnownPartial(states, c.out) PROVE new = states[c.out]
    OBVIOUS
  <2>1. k \in PartialProducts(base, states)
    BY DEF PartialProducts, Ops, Product, c
  <2>2. \A x \in DOMAIN c.ins : ~IsPartial(ins[x]) /\ ins[x] \in Placements
    <3>1. \A x \in DOMAIN c.ins : KnownWhole(states, c.ins[x])
      BY <2>1 DEF IndependentProducts, ToSet, c
    <3> QED BY <1>3, <1>7, <3>1 DEF KnownWhole
  <2>3. \A x \in DOMAIN c.ins : less[x] = ins[x]
    BY <1>8, <2>2, LessWhole
  <2>4. less = ins
    BY <1>3, <1>9, <2>3
  <2> QED BY <1>3, <1>11, <2>4
<1> HIDE DEF new
<1>16. o.out = c.out
  BY <1>2 DEF Similar
<1>17. IsPut(u, t, c.out, new)
  <2>1. u = Put(t, c.out, new)
    BY <1>16 DEF After, new, less
  <2> HIDE DEF u
  <2> QED BY <2>1, PutIs
<1> HIDE DEF u
<1>18. /\ c.out \notin DOMAIN inputs
       /\ \A j \in Ops : SumOf(j) # c.out /\ (base[j].out = c.out => j = k)
  BY NamesApart DEF WellFormed, c
<1>19. \A j \in Ops : e[j] <= i + 1 => j = k \/ e[j] <= i
  <2>1. \A j \in Ops : e[j] \in Nat /\ (e[j] = e[k] => j = k)
    BY <1>1 DEF Embedding, Ops, IsProgram
  <2> QED BY <2>1
<1>20. /\ DOMAIN inputs \subseteq DOMAIN t
       /\ \A j \in Ops : e[j] <= i => base[j].out \in DOMAIN t
  BY DEF Tracks
<1>21. \A n \in DOMAIN inputs : u[n] = states[n]
  BY <1>17, <1>18, <1>20 DEF IsPut, Near
<1>22. ASSUME NEW j \in Ops, e[j] <= i + 1
       PROVE  /\ Less(u[base[j].out], states[base[j].out])
              /\ Product(j) /\ KnownPartial(states, base[j].out) =>
                   u[base[j].out] = states[base[j].out]
  <2>1. CASE j = k
    BY <1>13, <1>15, <1>17, <2>1 DEF IsPut, c
  <2>2. CASE j # k
    <3>1. e[j] <= i /\ base[j].out # c.out /\ base[j].out \in DOMAIN t
      BY <1>18, <1>19, <1>20, <1>22, <2>2
    <3>2. u[base[j].out] = t[base[j].out]
      BY <1>17, <3>1 DEF IsPut
    <3> QED BY <3>1, <3>2 DEF Near
  <2> QED BY <2>1, <2>2
<1>23. ASSUME NEW j \in Ops, SumOf(j) \in DOMAIN u
       PROVE  Less(u[SumOf(j)], states[base[j].out])
  <2>1. SumOf(j) \in DOMAIN t /\ u[SumOf(j)] = t[SumOf(j)]
    BY <1>17, <1>18, <1>23 DEF IsPut
  <2> QED BY <2>1 DEF Near
<1>24. Near(e, u, i + 1)
  BY <1>21, <1>22, <1>23 DEF Near
<1> QED BY <1>4, <1>14, <1>24 DEF Fits, o, u, less
\* An AllReduce that was inserted.
LEMMA NearSums ==
  ASSUME IsProgram(base), WellFormed, Typed, Ran(states),
         NEW p, NEW e, Optimized(p, e), NEW i \in Nat, i + 1 \in 1 .. Len(p),
         NEW t, Tracks(p, e, t, i), Near(e, t, i), ~(\E k \in Ops : e[k] = i + 1)
  PROVE  Fits(t, p[i + 1]) /\ Near(e, After(t, p[i + 1]), i + 1)
<1> DEFINE o == p[i + 1]
           less == ReadOf(t, o)
           new == Apply(o, less)
           u == After(t, o)
<1>1. PICK k \in Ops : /\ Product(k) /\ KnownPartial(states, base[k].out) /\ e[k] < i + 1
                       /\ o = AllReduceOp(base[k].out, SumOf(k))
  BY DEF Optimized, Ordered
<1>2. /\ o.kind = "AllReduce" /\ o.out = SumOf(k) /\ o.mesh_dim = NoDim
      /\ DOMAIN o.ins = {1} /\ o.ins[1] = base[k].out
  BY <1>1, SumFields
<1>3. Rewrites(p, e) /\ Embedding(p, e)
  BY DEF Optimized, Rewrites
<1>4. e[k] \in Nat /\ e[k] <= i
  BY <1>1, <1>3 DEF Embedding, IsProgram
<1>5. base[k].out \in DOMAIN t
  BY <1>4 DEF Tracks
<1>6. Present(t, o)
  BY <1>2, <1>5 DEF Present, ToSet
<1>7. t[base[k].out] = states[base[k].out] /\ IsPartial(states[base[k].out])
  BY <1>1, <1>4 DEF Near, KnownPartial
<1>8. less[1] = states[base[k].out]
  BY <1>2, <1>7 DEF ReadOf
<1>9. ~Raises(o, less)
  BY <1>2, <1>7, <1>8 DEF Raises
<1>10. states[base[k].out] \in Placements
  <2>1. \A n \in DOMAIN states : states[n] \in Placements
    BY BaseStates DEF WellFormed
  <2> QED BY <1>1, <2>1 DEF KnownPartial
<1>11. new = Changed(o, states[base[k].out], {"P"}, "R")
  BY <1>2, <1>8 DEF Apply
<1>12. Less(new, states[base[k].out])
  <2>1. new \in Placements
    BY <1>10, <1>11, ChangedType DEF PL
  <2>2. \A d \in MeshDims : LessAt(new[d], states[base[k].out][d])
    BY <1>11 DEF Changed, LessAt
  <2> HIDE DEF new
  <2> QED BY <2>1, <2>2 DEF Less
<1>13. IsPut(u, t, SumOf(k), new)
  <2>1. u = Put(t, SumOf(k), new)
    BY <1>2 DEF After
  <2> HIDE DEF u, new
  <2> QED BY <2>1, PutIs
<1> HIDE DEF u, new, o
<1>14. /\ SumOf(k) \notin DOMAIN inputs
       /\ \A j \in Ops : SumOf(k) # base[j].out /\ (SumOf(j) = SumOf(k) => j = k)
  BY NamesApart DEF WellFormed
<1>15. \A j \in Ops : e[j] <= i + 1 => e[j] <= i
  BY <1>3 DEF Embedding, IsProgram
<1>16. /\ DOMAIN inputs \subseteq DOMAIN t
       /\ \A j \in Ops : e[j] <= i => base[j].out \in DOMAIN t
  BY DEF Tracks
<1>17. \A n \in DOMAIN inputs : u[n] = states[n]
  BY <1>13, <1>14, <1>16 DEF IsPut, Near
<1>18. ASSUME NEW j \in Ops, e[j] <= i + 1
       PROVE  /\ Less(u[base[j].out], states[base[j].out])
              /\ Product(j) /\ KnownPartial(states, base[j].out) =>
                   u[base[j].out] = states[base[j].out]
  <2>1. e[j] <= i /\ base[j].out # SumOf(k) /\ base[j].out \in DOMAIN t
    BY <1>14, <1>15, <1>16, <1>18
  <2>2. u[base[j].out] = t[base[j].out]
    BY <1>13, <2>1 DEF IsPut
  <2> QED BY <2>1, <2>2 DEF Near
<1>19. ASSUME NEW j \in Ops, SumOf(j) \in DOMAIN u
       PROVE  Less(u[SumOf(j)], states[base[j].out])
  <2>1. CASE j = k
    BY <1>12, <1>13, <2>1 DEF IsPut
  <2>2. CASE j # k
    <3>1. SumOf(j) \in DOMAIN t /\ u[SumOf(j)] = t[SumOf(j)]
      BY <1>13, <1>14, <1>19, <2>2 DEF IsPut
    <3> QED BY <3>1 DEF Near
  <2> QED BY <2>1, <2>2
<1>20. Near(e, u, i + 1)
  BY <1>17, <1>18, <1>19 DEF Near
<1> QED BY <1>6, <1>9, <1>20 DEF Fits, o, u, less

\* So it runs to its end, even if the executor is strict.
LEMMA OptimizedRuns ==
  ASSUME IsProgram(base), WellFormed, HasFirst, Typed, Ran(states), IndependentProducts, SumsOfProducts,
         NEW p, NEW e, Optimized(p, e)
  PROVE  ~RunProgram(TRUE, p, inputs).raised
<1>1. Rewrites(p, e) /\ Len(p) \in Nat
  BY DEF Optimized, Rewrites, Embedding, IsProgram
<1>2. PICK f : Passes(TRUE, p, inputs, f) /\ RunProgram(TRUE, p, inputs) = f[Len(p)]
  BY <1>1, RunPasses
<1>3. \A i \in 0 .. Len(p) : WellShaped(f[i])
  BY <1>1, <1>2, PassesShaped
<1> DEFINE Runs(i) == /\ f[i].raised = FALSE
                      /\ Tracks(p, e, f[i].tensors, i)
                      /\ Near(e, f[i].tensors, i)
           S == {i \in Nat : i <= Len(p) => Runs(i)}
<1>4. 0 \in S
  <2>1. f[0].raised = FALSE /\ f[0].tensors = inputs
    BY <1>2 DEF Passes
  <2>2. Tracks(p, e, inputs, 0)
    BY <1>1, TracksStart
  <2>3. \A k \in Ops : ~(e[k] <= 0)
    BY <1>1 DEF Rewrites, Embedding
  <2>4. \A n \in DOMAIN inputs : inputs[n] = states[n]
    BY BaseStates DEF WellFormed
  <2>5. \A k \in Ops : SumOf(k) \notin DOMAIN inputs
    BY NamesApart DEF WellFormed
  <2>6. Near(e, inputs, 0)
    BY <2>3, <2>4, <2>5 DEF Near
  <2> QED BY <2>1, <2>2, <2>6
<1>5. ASSUME NEW i \in Nat, i \in S PROVE i + 1 \in S
  <2> HIDE DEF Runs
  <2> SUFFICES ASSUME i + 1 <= Len(p) PROVE Runs(i + 1)
    OBVIOUS
  <2>0. Runs(i)
    BY <1>1, <1>5
  <2> USE DEF Runs
  <2> DEFINE t == f[i].tensors
             o == p[i + 1]
  <2>2. i + 1 \in 1 .. Len(p) /\ (i + 1) - 1 = i /\ i \in 0 .. Len(p)
    BY <1>1
  <2>3. f[i + 1] = RunOp(TRUE, f[i], o) /\ WellShaped(f[i])
    BY <1>2, <1>3, <2>2 DEF Passes
  <2>4. f[i].raised = FALSE /\ Tracks(p, e, t, i) /\ Near(e, t, i)
    BY <2>0
  <2> HIDE DEF t, o
  <2>5. Fits(t, o) /\ Near(e, After(t, o), i + 1)
    BY <2>2, <2>4, NearOps, NearSums DEF o
  <2>6. Present(t, o) /\ ~Raises(o, ReadOf(t, o))
    BY <2>5 DEF Fits
  <2>7. f[i + 1].raised = FALSE /\ QuietStep(t, o, f[i + 1].tensors)
    <3>1. /\ f[i].raised = FALSE /\ Present(f[i].tensors, o)
          /\ ~Raises(o, ReadOf(f[i].tensors, o))
      BY <2>4, <2>6 DEF t
    <3>2. f[i + 1].raised = FALSE
      <4> DEFINE r == f[i]
                 s == f[i + 1]
      <4>1. s = RunOp(TRUE, r, o) /\ WellShaped(r)
        BY <2>3
      <4>2. r.raised = FALSE /\ Present(r.tensors, o) /\ ~Raises(o, ReadOf(r.tensors, o))
        BY <3>1
      <4> HIDE DEF r, s
      <4>3. r.raised = FALSE /\ Present(r.tensors, o) /\ ~Raises(o, ReadOf(r.tensors, o))
              => s.raised = FALSE
        BY <4>1, StepPasses
      <4> QED BY <4>2, <4>3 DEF s
    <3>3. QuietStep(f[i].tensors, o, f[i + 1].tensors)
      BY <2>3, <3>2, StepPasses
    <3> QED BY <3>2, <3>3 DEF t
  <2>8. f[i + 1].tensors = After(t, o)
    BY <2>6, <2>7 DEF QuietStep, After
  <2>9. WriteStep(t, o, f[i + 1].tensors)
    BY <2>6, <2>8, PutWrites DEF After
  <2>10. Tracks(p, e, f[i + 1].tensors, i + 1)
    BY <1>1, <2>2, <2>4, <2>9, TracksStep DEF o
  <2> QED BY <2>5, <2>7, <2>8, <2>10
<1> HIDE DEF S
<1>6. Nat \subseteq S
  BY <1>4, <1>5, Induction
<1>7. Len(p) \in S
  BY <1>1, <1>6
<1>8. Runs(Len(p))
  BY <1>1, <1>7 DEF S
<1> QED BY <1>2, <1>8

LEMMA OptimizedNow == SynthesisInv => OptimizedIsRight
<1> SUFFICES ASSUME SynthesisInv, phase = "done", entry = "from_spec",
                    WellFormed, IndependentProducts, SumsOfProducts
             PROVE  /\ ~RunProgram(TRUE, best.program, inputs).raised
                    /\ \A n \in DOMAIN Terms(base) : /\ n \in DOMAIN Terms(best.program)
                                                     /\ Terms(best.program)[n] = Terms(base)[n]
  BY DEF OptimizedIsRight
<1> DEFINE p == best.program
<1>1. Setting /\ Ran(states) /\ \E e : Optimized(p, e)
  BY DEF SynthesisInv, Stages, DoneInv
<1>2. IsProgram(base) /\ HasFirst /\ Typed
  BY <1>1, Given
<1>3. PICK e : Optimized(p, e)
  BY <1>1
<1> HIDE DEF p
<1>4. ~RunProgram(TRUE, p, inputs).raised
  BY <1>1, <1>2, <1>3, OptimizedRuns
<1>5. Rewrites(p, e) /\ \A k \in Ops : e[k] <= Len(p)
  BY <1>3 DEF Optimized, Rewrites, Embedding, IsProgram
<1>6. Tracks(p, e, Terms(p), Len(p)) /\ TermsOf(e, Terms(p), Len(p), Terms(base))
  BY <1>2, <1>5, SameTerms
<1>7. DOMAIN Terms(base) = DOMAIN inputs \cup WrittenNames(base)
  BY <1>2, BaseTerms
<1>8. ASSUME NEW n \in DOMAIN Terms(base)
      PROVE  n \in DOMAIN Terms(p) /\ Terms(p)[n] = Terms(base)[n]
  <2>1. CASE n \in DOMAIN inputs
    BY <1>6, <2>1 DEF Tracks, TermsOf
  <2>2. CASE n \in WrittenNames(base)
    <3>1. PICK k \in Ops : n = base[k].out
      BY <1>2, <2>2 DEF WrittenNames, Ops, IsProgram
    <3> QED BY <1>5, <1>6, <3>1 DEF Tracks, TermsOf
  <2> QED BY <1>7, <2>1, <2>2
<1> QED BY <1>4, <1>8 DEF p

-----------------------------------------------------------------------------
(***************************************************************************)
(* Theorems.                                                               *)
(***************************************************************************)

\* SynthesisEngine.synthesize leaves no output partial: the executor that skips
\* what it lacks runs what it returns, and every output is whole; for programs
\* without collectives that write each name once.
THEOREM SynthesisIsSound == SynthesisSpec => []SoundSynthesis
BY SynthesisInvariance, SoundNow, PTL

\* And it computes each output of the given program, by the same operations.
THEOREM SynthesisKeepsMeaning == SynthesisSpec => []MeaningKept
BY SynthesisInvariance, MeaningNow, PTL

\* _search_level stops at the first depth with a valid candidate and loses none
\* by it: none of the other depths costs less.
THEOREM SynthesisIsCheapest == SynthesisSpec => []CheapestOfAll
BY SynthesisInvariance, CheapestNow, PTL

\* RemoveRedundantAllReduceRule is never applied to a program that assigns each
\* name once and reads it after that.
THEOREM OptimizerRemovesNothing == SynthesisSpec => []NothingRemoved
BY SynthesisInvariance, NothingRemovedNow, PTL

\* What ProgramOptimizer.optimize returns to synthesize_from_spec runs on the
\* strict executor, and computes all that the given program computed.
THEOREM OptimizerIsRight == SynthesisSpec => []OptimizedIsRight
BY SynthesisInvariance, OptimizedNow, PTL


-----------------------------------------------------------------------------
(***************************************************************************)
(* The frontend loop.                                                      *)
(***************************************************************************)
\* Between two answers the loop variable tells how many there have been.
Counted == /\ pc = "extract" => iteration = 0 /\ answers = 0
           /\ pc \in {"judge", "judged", "ask"} => answers = iteration + 1 /\ iteration < MaxIterations
           /\ pc = "ask" => ~LastIteration
           /\ pc = "raised" => answers <= MaxIterations \/ answers = 0

\* What is judged is an answer, and an answer that was not parsed is not run.
Judged == pc \in {"judge", "judged"} => response \in Answers
JudgedOnce == pc = "judged" => (judgement # "unparsed" => Parses(response))

Reported == pc = "done" /\ MaxIterations > 0 =>
              /\ answers <= MaxIterations
              /\ result.iterations = answers
              /\ result.success <=> judgement = "right"
              /\ result.final_program = NoProgram <=> judgement = "unparsed"

Inv == FrontendTypeOK /\ Counted /\ Judged /\ JudgedOnce /\ Reported

\* Only an answer that parses is judged.
LEMMA JudgementParses ==
  ASSUME NEW a, NEW given, Judgement(a, given) # "unparsed"
  PROVE  Parses(a)
BY DEF Judgement

\* The loop starts with an empty record.
LEMMA InitInv == Init => Inv
<1> SUFFICES ASSUME Init PROVE Inv
  OBVIOUS
<1>1. pc = "extract" /\ iteration = 0 /\ answers = 0 /\ caught = FALSE
  BY DEF Init
<1>2. FrontendTypeOK /\ Counted
  BY <1>1 DEF FrontendTypeOK, Counted
<1>3. Judged /\ JudgedOnce /\ Reported
  BY <1>1 DEF Judged, JudgedOnce, Reported
<1> QED BY <1>2, <1>3 DEF Inv

\* A verdict that is no success: the loop asks again or reports it.
LEMMA GoOnInv ==
  ASSUME Inv, pc = "judged", NEW program, GoOn(program),
         judgement # "right", program = NoProgram <=> judgement = "unparsed",
         caught' \in BOOLEAN,
         UNCHANGED <<response, judgement, iteration, answers>>
  PROVE  Inv'
<1>1. iteration \in Nat /\ answers = iteration + 1 /\ iteration < MaxIterations /\ MaxIterations \in Nat
  BY MaxIterationsAssumption DEF Inv, FrontendTypeOK, Counted
<1>2. CASE LastIteration
  <2>1. pc' = "done" /\ result' = Failed(iteration + 1, program)
    BY <1>2 DEF GoOn
  <2>2. answers' <= MaxIterations /\ answers' \in Nat
    BY <1>1
  <2>3. Reported'
    BY <1>1, <2>1, <2>2 DEF Reported, Failed, NoProgram
  <2> QED BY <1>1, <2>1, <2>2, <2>3 DEF Inv, FrontendTypeOK, Counted, Judged, JudgedOnce
<1>3. CASE ~LastIteration
  <2>1. pc' = "ask" /\ ~LastIteration'
    BY <1>3 DEF GoOn, LastIteration
  <2> QED BY <1>1, <2>1 DEF Inv, FrontendTypeOK, Counted, Judged, JudgedOnce, Reported
<1> QED BY <1>2, <1>3

\* What has been judged has a forward program.
LEMMA ProgramOfJudged ==
  ASSUME Inv, pc = "judged", judgement # "unparsed"
  PROVE  Fwd(response) # NoProgram
BY AnswersAssumption DEF Inv, Judged, JudgedOnce

\* Every attempt keeps the loop's invariant.
LEMMA NextInv == Inv /\ [Next]_vars => Inv'
<1> SUFFICES ASSUME Inv, [Next]_vars PROVE Inv'
  OBVIOUS
<1> USE MaxIterationsAssumption
<1>1. CASE Extract
  BY <1>1 DEF Extract, Inv, FrontendTypeOK, Counted, Judged, JudgedOnce, Reported
<1>2. CASE Judge
  <2>1. JudgedOnce'
    BY <1>2, JudgementParses DEF Judge, JudgedOnce, Parses
  <2> QED BY <1>2, <2>1 DEF Judge, Inv, FrontendTypeOK, Counted, Judged, Reported, LastIteration
<1>3. CASE ParseFails
  BY <1>3, GoOnInv DEF ParseFails
<1>4. CASE ExecutionFails
  BY <1>4, GoOnInv, ProgramOfJudged DEF ExecutionFails
<1>5. CASE Rejected
  BY <1>5, GoOnInv, ProgramOfJudged DEF Rejected
<1>6. CASE Accepted
  <2>1. Fwd(response) # NoProgram
    BY <1>6, ProgramOfJudged DEF Accepted
  <2>2. /\ iteration \in Nat /\ answers = iteration + 1 /\ iteration < MaxIterations
    BY <1>6 DEF Accepted, Inv, FrontendTypeOK, Counted
  <2>3. Reported'
    BY <1>6, <2>1, <2>2 DEF Accepted, Reported, NoProgram
  <2> QED BY <1>6, <2>2, <2>3 DEF Accepted, Inv, FrontendTypeOK, Counted, Judged, JudgedOnce
<1>7. CASE Feedback
  <2>1. iteration \in Nat /\ answers = iteration + 1 /\ iteration < MaxIterations - 1
    BY <1>7 DEF Feedback, Inv, FrontendTypeOK, Counted, LastIteration
  <2> QED BY <1>7, <2>1 DEF Feedback, Inv, FrontendTypeOK, Counted, Judged, JudgedOnce, Reported
<1>8. CASE ModelRaises /\ UNCHANGED <<tensor_states, response, judgement, iteration, answers, result>>
  <2>1. pc \in {"extract", "ask"} /\ pc' \in {"raised", pc} /\ caught' \in BOOLEAN
    BY <1>8 DEF ModelRaises, Inv, FrontendTypeOK
  <2>2. FrontendTypeOK'
    BY <1>8, <2>1 DEF Inv, FrontendTypeOK
  <2>3. Counted'
    BY <1>8, <2>1 DEF Inv, FrontendTypeOK, Counted, LastIteration
  <2>4. Judged' /\ JudgedOnce' /\ Reported'
    BY <1>8, <2>1 DEF Judged, JudgedOnce, Reported
  <2> QED BY <2>2, <2>3, <2>4 DEF Inv
<1>9. CASE UNCHANGED vars
  BY <1>9 DEF vars, Inv, FrontendTypeOK, Counted, Judged, JudgedOnce, Reported, LastIteration, Parses
<1> QED BY <1>1, <1>2, <1>3, <1>4, <1>5, <1>6, <1>7, <1>8, <1>9 DEF Next

(***************************************************************************)
(* No answer is asked for in vain or lost: the loop asks at most           *)
(* max_iterations times, and what it returns tells of the last answer.     *)
(***************************************************************************)
THEOREM LoopWastesNothing == Spec => []NoneWasted
<1>1. Inv => NoneWasted
  BY MaxIterationsAssumption DEF Inv, FrontendTypeOK, Counted, Reported, NoneWasted, LastIteration
<1> QED BY <1>1, InitInv, NextInv, PTL DEF Spec
-----------------------------------------------------------------------------
(***************************************************************************)
(* The program of an answer.                                               *)
(***************************************************************************)
\* The steps of to_program.
ParseSteps(ds, n, f) ==
  f = [i \in 0 .. n |-> IF i = 0 THEN << >> ELSE Parsed(f[i - 1], ds[i])]

\* They exist for every number of entries.
LEMMA ParseStepsExist == ASSUME NEW ds, NEW n \in Nat PROVE \E f : ParseSteps(ds, n, f)
<1> DEFINE S == {m \in Nat : \E f : ParseSteps(ds, m, f)}
<1>1. 0 \in S
  <2> DEFINE f == [i \in 0 .. 0 |-> << >>]
  <2>1. ParseSteps(ds, 0, f)
    BY DEF ParseSteps
  <2> QED BY <2>1
<1>2. ASSUME NEW m \in Nat, m \in S PROVE m + 1 \in S
  <2>1. PICK f : ParseSteps(ds, m, f)
    BY <1>2
  <2> DEFINE g == [i \in 0 .. (m + 1) |-> IF i <= m THEN f[i] ELSE Parsed(f[m], ds[m + 1])]
  <2>2. \A i \in 0 .. (m + 1) : g[i] = IF i = 0 THEN << >> ELSE Parsed(g[i - 1], ds[i])
    <3> TAKE i \in 0 .. (m + 1)
    <3>1. i <= m => f[i] = IF i = 0 THEN << >> ELSE Parsed(f[i - 1], ds[i])
      BY <2>1 DEF ParseSteps
    <3> QED BY <3>1
  <2>3. g = [i \in 0 .. (m + 1) |-> g[i]]
    OBVIOUS
  <2> HIDE DEF g
  <2>4. ParseSteps(ds, m + 1, g)
    BY <2>2, <2>3 DEF ParseSteps
  <2> QED BY <2>4
<1> HIDE DEF S
<1>3. Nat \subseteq S
  BY <1>1, <1>2, Induction
<1> QED BY <1>3 DEF S

\* A program is a sequence, and its collectives have an input.
LEMMA ProgramIs ==
  ASSUME NEW ds, Len(ds) \in Nat
  PROVE  LET p == ToProgram(ds)
         IN  /\ Len(p) \in Nat /\ DOMAIN p = 1 .. Len(p)
             /\ \A i \in DOMAIN p : p[i].kind \in {"AllReduce", "AllGather", "ReduceScatter"} =>
                                      1 \in DOMAIN p[i].ins
<1> DEFINE n == Len(ds)
           f == CHOOSE f : ParseSteps(ds, n, f)
           Listed == {ParseOp(ds[i]) : i \in 1 .. n}
           S == {i \in Nat : i <= n => f[i] \in Seq(Listed)}
<1>1. ParseSteps(ds, n, f)
  BY ParseStepsExist
<1>2. ToProgram(ds) = f[n]
  BY DEF ToProgram, ParseSteps
<1> HIDE DEF f
<1>3. 0 \in S
  BY <1>1 DEF ParseSteps
<1>4. ASSUME NEW i \in Nat, i \in S PROVE i + 1 \in S
  <2> SUFFICES ASSUME i + 1 <= n PROVE f[i + 1] \in Seq(Listed)
    OBVIOUS
  <2>1. f[i + 1] = Parsed(f[i], ds[i + 1]) /\ f[i] \in Seq(Listed) /\ ParseOp(ds[i + 1]) \in Listed
    BY <1>1, <1>4 DEF ParseSteps
  <2> HIDE DEF Listed
  <2> QED BY <2>1 DEF Parsed
<1>5. f[n] \in Seq(Listed)
  <2> HIDE DEF S, Listed
  <2>1. Nat \subseteq S
    BY <1>3, <1>4, Induction
  <2> QED BY <2>1 DEF S
<1>6. \A o \in Listed : o.kind \in {"AllReduce", "AllGather", "ReduceScatter"} => 1 \in DOMAIN o.ins
  <2> SUFFICES ASSUME NEW i \in 1 .. n,
                      ParseOp(ds[i]).kind \in {"AllReduce", "AllGather", "ReduceScatter"}
               PROVE  1 \in DOMAIN ParseOp(ds[i]).ins
    OBVIOUS
  <2>1. ds[i]["type"] \in {"AllReduce", "AllGather", "ReduceScatter"}
    BY DEF ParseOp
  <2>2. InputKeys(ds[i]) = <<"x">>
    BY <2>1 DEF InputKeys
  <2> QED BY <2>2 DEF ParseOp
<1> HIDE DEF Listed, S
<1> QED BY <1>2, <1>5, <1>6

-----------------------------------------------------------------------------
(***************************************************************************)
(* The strict run of a program.                                            *)
(***************************************************************************)
\* What an operation reads of the tensors.
PlacedFor(tensors, o) == [k \in DOMAIN o.ins |-> tensors[o.ins[k]].pl]

\* What a step of a run that does not raise does.
Stepped(r, o, s) ==
  /\ ToSet(o.ins) \subseteq DOMAIN r.tensors
  /\ ~Raises(o, PlacedFor(r.tensors, o))
  /\ DOMAIN s.tensors = DOMAIN r.tensors \cup {o.out}
  /\ s.tensors[o.out].pl = Apply(o, PlacedFor(r.tensors, o))
  /\ \A n \in DOMAIN r.tensors : n # o.out => s.tensors[n] = r.tensors[n]
  /\ s.read = Append(r.read, PlacedFor(r.tensors, o))

Shaped(r) == /\ r = [tensors |-> r.tensors, raised |-> r.raised, read |-> r.read]
             /\ r.raised \in BOOLEAN

\* Once raised, an exception stays.
LEMMA StepOfRun ==
  ASSUME NEW r, Shaped(r), NEW o
  PROVE  LET s == RunStrictly(r, o)
         IN  Shaped(s) /\ (s.raised = FALSE => r.raised = FALSE /\ Stepped(r, o, s))
<1> DEFINE ins == [k \in DOMAIN o.ins |-> r.tensors[o.ins[k]]]
           pls == [k \in DOMAIN o.ins |-> ins[k].pl]
           bad == \/ ~(ToSet(o.ins) \subseteq DOMAIN r.tensors)
                  \/ ShapesClash(o, ins) \/ Raises(o, pls)
                  \/ ~Divides(mesh, OutShape(o, ins), Apply(o, pls))
           t == [shape |-> OutShape(o, ins), pl |-> Apply(o, pls)]
           s == RunStrictly(r, o)
<1> SUFFICES Shaped(s) /\ (s.raised = FALSE => r.raised = FALSE /\ Stepped(r, o, s))
  OBVIOUS
<1>0. pls = PlacedFor(r.tensors, o)
  BY DEF PlacedFor
<1>1. s = IF r.raised THEN r ELSE IF bad THEN [r EXCEPT !.raised = TRUE]
          ELSE [r EXCEPT !.tensors = [n \in DOMAIN r.tensors \cup {o.out} |->
                                        IF n # o.out THEN r.tensors[n] ELSE t],
                         !.read = Append(@, pls)]
  BY DEF RunStrictly
<1> HIDE DEF s, bad, t
<1>5. r.raised \in BOOLEAN
  BY DEF Shaped
<1>2. CASE r.raised
  BY <1>1, <1>2
<1>3. CASE ~r.raised /\ bad
  <2>1. s = [r EXCEPT !.raised = TRUE]
    BY <1>1, <1>3
  <2> QED BY <2>1 DEF Shaped
<1>4. CASE ~r.raised /\ ~bad
  <2> DEFINE new == [n \in DOMAIN r.tensors \cup {o.out} |-> IF n # o.out THEN r.tensors[n] ELSE t]
  <2>1. s = [r EXCEPT !.tensors = new, !.read = Append(r.read, pls)]
    BY <1>1, <1>4
  <2>2. /\ DOMAIN new = DOMAIN r.tensors \cup {o.out} /\ new[o.out] = t
        /\ \A n \in DOMAIN r.tensors : n # o.out => new[n] = r.tensors[n]
    OBVIOUS
  <2> HIDE DEF new
  <2>3. Shaped(s) /\ s.tensors = new /\ s.read = Append(r.read, pls)
    BY <2>1, <1>5 DEF Shaped
  <2>4. ToSet(o.ins) \subseteq DOMAIN r.tensors /\ ~Raises(o, pls)
    BY <1>4 DEF bad
  <2>5. t.pl = Apply(o, pls)
    BY DEF t
  <2> HIDE DEF pls
  <2>6. Stepped(r, o, s)
    BY <1>0, <2>2, <2>3, <2>4, <2>5 DEF Stepped
  <2> QED BY <1>4, <1>5, <2>3, <2>6
<1> QED BY <1>2, <1>3, <1>4, <1>5

\* The steps of run_program.
RunSteps(p, tensors, n, f) ==
  f = [i \in 0 .. n |-> IF i = 0 THEN Started(tensors) ELSE RunStrictly(f[i - 1], p[i])]

\* They exist for every number of operations.
LEMMA RunStepsExist ==
  ASSUME NEW p, NEW tensors, NEW n \in Nat
  PROVE  \E f : RunSteps(p, tensors, n, f)
<1> DEFINE S == {m \in Nat : \E f : RunSteps(p, tensors, m, f)}
<1>1. 0 \in S
  <2> DEFINE f == [i \in 0 .. 0 |-> Started(tensors)]
  <2>1. RunSteps(p, tensors, 0, f)
    BY DEF RunSteps
  <2> QED BY <2>1
<1>2. ASSUME NEW m \in Nat, m \in S PROVE m + 1 \in S
  <2>1. PICK f : RunSteps(p, tensors, m, f)
    BY <1>2
  <2> DEFINE g == [i \in 0 .. (m + 1) |-> IF i <= m THEN f[i] ELSE RunStrictly(f[m], p[m + 1])]
  <2>2. \A i \in 0 .. (m + 1) :
          g[i] = IF i = 0 THEN Started(tensors) ELSE RunStrictly(g[i - 1], p[i])
    <3> TAKE i \in 0 .. (m + 1)
    <3>1. i <= m => f[i] = IF i = 0 THEN Started(tensors) ELSE RunStrictly(f[i - 1], p[i])
      BY <2>1 DEF RunSteps
    <3> QED BY <3>1
  <2>3. g = [i \in 0 .. (m + 1) |-> g[i]]
    OBVIOUS
  <2> HIDE DEF g
  <2>4. RunSteps(p, tensors, m + 1, g)
    BY <2>2, <2>3 DEF RunSteps
  <2> QED BY <2>4
<1> HIDE DEF S
<1>3. Nat \subseteq S
  BY <1>1, <1>2, Induction
<1> QED BY <1>3 DEF S

\* A run in which nothing raises.
RunOf(p, tensors, f) == /\ f[0] = Started(tensors)
                        /\ \A i \in 1 .. Len(p) : Stepped(f[i - 1], p[i], f[i])

\* A run that has not raised at its end has not raised before.
LEMMA RunIs ==
  ASSUME NEW p, Len(p) \in Nat, NEW tensors, ~StrictRun(p, tensors).raised
  PROVE  \E f : RunOf(p, tensors, f) /\ StrictRun(p, tensors) = f[Len(p)]
<1> DEFINE n == Len(p)
           f == CHOOSE f : RunSteps(p, tensors, n, f)
           S == {i \in Nat : i <= n => Shaped(f[i])}
           Fine(k) == \A i \in 0 .. n : i + k = n => f[i].raised = FALSE
           T == {k \in Nat : Fine(k)}
<1>1. RunSteps(p, tensors, n, f)
  BY RunStepsExist
<1>2. StrictRun(p, tensors) = f[n]
  BY DEF StrictRun, RunSteps
<1> HIDE DEF f
<1>3. f[0] = Started(tensors) /\ \A i \in 1 .. n : f[i] = RunStrictly(f[i - 1], p[i])
  BY <1>1 DEF RunSteps
<1>4. \A i \in 0 .. n : Shaped(f[i])
  <2>1. 0 \in S
    <3>1. Shaped(Started(tensors))
      BY DEF Shaped, Started
    <3> QED BY <1>3, <3>1
  <2>2. ASSUME NEW i \in Nat, i \in S PROVE i + 1 \in S
    <3> SUFFICES ASSUME i + 1 <= n PROVE Shaped(f[i + 1])
      OBVIOUS
    <3>1. Shaped(f[i]) /\ f[i + 1] = RunStrictly(f[i], p[i + 1])
      BY <1>3, <2>2
    <3> QED BY <3>1, StepOfRun
  <2> HIDE DEF S
  <2>3. Nat \subseteq S
    BY <2>1, <2>2, Induction
  <2> QED BY <2>3 DEF S
<1>5. ASSUME NEW i \in 1 .. n, f[i].raised = FALSE
      PROVE  f[i - 1].raised = FALSE /\ Stepped(f[i - 1], p[i], f[i])
  <2>1. i - 1 \in 0 .. n /\ f[i] = RunStrictly(f[i - 1], p[i])
    BY <1>3
  <2>2. Shaped(f[i - 1])
    BY <1>4, <2>1
  <2> QED BY <1>5, <2>1, <2>2, StepOfRun
<1>6. Nat \subseteq T
  <2>1. 0 \in T
    <3>1. Shaped(f[n]) /\ ~f[n].raised
      BY <1>2, <1>4
    <3> QED BY <3>1 DEF Shaped
  <2>2. ASSUME NEW k \in Nat, k \in T PROVE k + 1 \in T
    <3>1. ASSUME NEW i \in 0 .. n, i + (k + 1) = n PROVE f[i].raised = FALSE
      <4>1. i + 1 \in 1 .. n /\ (i + 1) + k = n /\ (i + 1) - 1 = i
        BY <3>1
      <4>2. f[i + 1].raised = FALSE
        BY <2>2, <4>1
      <4> QED BY <1>5, <4>1, <4>2
    <3>2. Fine(k + 1)
      BY <3>1
    <3> HIDE DEF Fine
    <3> QED BY <3>2
  <2> HIDE DEF T
  <2> QED BY <2>1, <2>2, Induction
<1>7. ASSUME NEW i \in 1 .. n PROVE Stepped(f[i - 1], p[i], f[i])
  <2>1. n - i \in Nat /\ i + (n - i) = n /\ i \in 0 .. n
    OBVIOUS
  <2>2. f[i].raised = FALSE
    BY <1>6, <2>1
  <2> QED BY <1>5, <2>2
<1> HIDE DEF S, T
<1> QED BY <1>2, <1>3, <1>7 DEF RunOf

\* What operation i reads in it.
Reading(p, f, i) == PlacedFor(f[i - 1].tensors, p[i])

\* The run has kept what its operations read.
LEMMA ReadIs ==
  ASSUME NEW p, Len(p) \in Nat, NEW tensors, NEW f, RunOf(p, tensors, f), NEW i \in 1 .. Len(p)
  PROVE  f[Len(p)].read[i] = Reading(p, f, i)
<1> DEFINE n == Len(p)
           Readings == {Reading(p, f, j) : j \in 1 .. n}
           Holds(k) == /\ f[k].read \in Seq(Readings) /\ Len(f[k].read) = k
                      /\ \A j \in 1 .. k : f[k].read[j] = Reading(p, f, j)
           S == {k \in Nat : k <= n => Holds(k)}
<1>1. 0 \in S
  <2>1. f[0].read = << >>
    BY DEF RunOf, Started
  <2> HIDE DEF Readings
  <2>2. f[0].read \in Seq(Readings) /\ Len(f[0].read) = 0
    BY <2>1
  <2> QED BY <2>2
<1>2. ASSUME NEW k \in Nat, k \in S PROVE k + 1 \in S
  <2> SUFFICES ASSUME k + 1 <= n PROVE Holds(k + 1)
    OBVIOUS
  <2>1. k + 1 \in 1 .. n /\ (k + 1) - 1 = k /\ Holds(k)
    BY <1>2
  <2>2. Stepped(f[k], p[k + 1], f[k + 1]) /\ Reading(p, f, k + 1) \in Readings
    BY <2>1 DEF RunOf
  <2>3. f[k + 1].read = Append(f[k].read, Reading(p, f, k + 1))
    BY <2>1, <2>2 DEF Stepped, Reading
  <2> HIDE DEF Readings
  <2> QED BY <2>1, <2>2, <2>3
<1> HIDE DEF S, Readings
<1>3. Nat \subseteq S
  BY <1>1, <1>2, Induction
<1> QED BY <1>3 DEF S

\* A tensor that is not written any more stays as it is.
LEMMA Unwritten ==
  ASSUME NEW p, Len(p) \in Nat, NEW tensors, NEW f, RunOf(p, tensors, f),
         NEW i \in 0 .. Len(p), NEW n \in DOMAIN f[i].tensors,
         \A j \in (i + 1) .. Len(p) : p[j].out # n
  PROVE  n \in DOMAIN f[Len(p)].tensors /\ f[Len(p)].tensors[n] = f[i].tensors[n]
<1> DEFINE Holds(k) == n \in DOMAIN f[k].tensors /\ f[k].tensors[n] = f[i].tensors[n]
           S == {k \in Nat : i <= k /\ k <= Len(p) => Holds(k)}
<1>1. 0 \in S
  OBVIOUS
<1>2. ASSUME NEW k \in Nat, k \in S PROVE k + 1 \in S
  <2> SUFFICES ASSUME i <= k + 1, k + 1 <= Len(p) PROVE Holds(k + 1)
    OBVIOUS
  <2>1. CASE i = k + 1
    BY <2>1
  <2>2. CASE i <= k
    <3>1. Holds(k) /\ Stepped(f[k], p[k + 1], f[k + 1]) /\ p[k + 1].out # n
      BY <1>2, <2>2 DEF RunOf
    <3> QED BY <3>1 DEF Stepped
  <2> QED BY <2>1, <2>2
<1> HIDE DEF S
<1>3. Nat \subseteq S
  BY <1>1, <1>2, Induction
<1> QED BY <1>3 DEF S

\* A tensor that is never written has been registered.
LEMMA RegisteredThen ==
  ASSUME NEW p, Len(p) \in Nat, NEW tensors, NEW f, RunOf(p, tensors, f),
         NEW n \in DOMAIN f[Len(p)].tensors, \A j \in 1 .. Len(p) : p[j].out # n
  PROVE  n \in DOMAIN f[0].tensors
<1> DEFINE S == {k \in Nat : k <= Len(p) /\ n \in DOMAIN f[k].tensors => n \in DOMAIN f[0].tensors}
<1>1. 0 \in S
  OBVIOUS
<1>2. ASSUME NEW k \in Nat, k \in S PROVE k + 1 \in S
  <2> SUFFICES ASSUME k + 1 <= Len(p), n \in DOMAIN f[k + 1].tensors PROVE n \in DOMAIN f[0].tensors
    OBVIOUS
  <2>1. Stepped(f[k], p[k + 1], f[k + 1]) /\ p[k + 1].out # n
    BY DEF RunOf
  <2>2. n \in DOMAIN f[k].tensors
    BY <2>1 DEF Stepped
  <2> QED BY <1>2, <2>2
<1> HIDE DEF S
<1>3. Nat \subseteq S
  BY <1>1, <1>2, Induction
<1> QED BY <1>3 DEF S

\* In a program that writes a name once, the final tensor is the one computed.
LEMMA ResultIs ==
  ASSUME NEW p, Len(p) \in Nat, DOMAIN p = 1 .. Len(p), WritesOnce(p),
         NEW tensors, NEW f, RunOf(p, tensors, f), NEW i \in 1 .. Len(p)
  PROVE  LET n == p[i].out
         IN  /\ n \in DOMAIN f[i].tensors /\ n \in DOMAIN f[Len(p)].tensors
             /\ f[i].tensors[n].pl = Apply(p[i], Reading(p, f, i))
             /\ f[Len(p)].tensors[n].pl = f[i].tensors[n].pl
<1>1. Stepped(f[i - 1], p[i], f[i])
  BY DEF RunOf
<1>2. p[i].out \in DOMAIN f[i].tensors /\ f[i].tensors[p[i].out].pl = Apply(p[i], Reading(p, f, i))
  BY <1>1 DEF Stepped, Reading
<1>3. \A j \in (i + 1) .. Len(p) : p[j].out # p[i].out
  BY DEF WritesOnce
<1>4. i \in 0 .. Len(p)
  OBVIOUS
<1>5. /\ p[i].out \in DOMAIN f[Len(p)].tensors
      /\ f[Len(p)].tensors[p[i].out] = f[i].tensors[p[i].out]
  BY <1>2, <1>3, <1>4, Unwritten
<1> QED BY <1>2, <1>5

-----------------------------------------------------------------------------
(***************************************************************************)
(* The replay of verify_communication_legality.                            *)
(***************************************************************************)
\* The verifier goes by the same rules as the run.
LEMMA SameRules ==
  ASSUME NEW p, NEW found, NEW live, NEW o, NEW ins
  PROVE  /\ Check(p, found, live)!Raises(o, ins) = Raises(o, ins)
         /\ Check(p, found, live)!Apply(o, ins) = Apply(o, ins)
BY DEF Check!Raises, Check!Apply, Raises, Apply, Check!IsPartial, IsPartial,
       Check!ShardedOn, ShardedOn, Check!Shard, Shard, Check!MeshDims, MeshDims,
       Check!MatMulPlacement, MatMulPlacement, Check!MergePlacement, MergePlacement,
       Check!Mergeable, Mergeable, Check!SwappedPlacement, SwappedPlacement,
       Check!AttentionPlacement, AttentionPlacement, Check!EmbeddingPlacement,
       EmbeddingPlacement, Check!LossPlacement, LossPlacement, Check!Changed, Changed,
       Check!FirstChanged, FirstChanged

\* The operation reads no name twice.
ReadEach(o) == \A j, k \in DOMAIN o.ins : o.ins[j] = o.ins[k] => j = k

\* What an operation of the replay writes.
ReplayedOut(found, live, o) ==
  LET ins == [k \in DOMAIN o.ins |-> live[o.ins[k]]]
  IN  IF ReadEach(o) /\ ToSet(o.ins) \subseteq DOMAIN live /\ ~Raises(o, ins)
      THEN Apply(o, ins) ELSE found[o.out]

Replays(found, live, o, next) ==
  /\ DOMAIN next = DOMAIN live \cup {o.out}
  /\ next[o.out] = ReplayedOut(found, live, o)
  /\ \A n \in DOMAIN live : n # o.out => next[n] = live[n]

\* An operation of the replay writes its output and nothing else.
LEMMA ReplayedIs ==
  ASSUME NEW p, NEW found, NEW live, NEW o
  PROVE  Replays(found, live, o, Check(p, found, live)!Replayed(o))
<1> DEFINE out == ReplayedOut(found, live, o)
<1>1. Check(p, found, live)!Replayed(o) =
        [n \in DOMAIN live \cup {o.out} |-> IF n = o.out THEN out ELSE live[n]]
  BY SameRules DEF Check!Replayed, Check!ReadsApart, ReadEach, Check!SeqSet, ToSet, ReplayedOut
<1> HIDE DEF out
<1> QED BY <1>1 DEF out, Replays

\* What the check demands of a collective.
LEMMA LegalIs ==
  ASSUME NEW p, NEW found, NEW live, NEW o, Check(p, found, live)!Legal(o)
  PROVE  /\ o.kind = "AllReduce" => o.ins[1] \in DOMAIN live /\ IsPartial(live[o.ins[1]])
         /\ o.kind = "AllGather" => o.ins[1] \in DOMAIN live /\ ShardedOn(live[o.ins[1]], o.dim)
         /\ o.kind = "ReduceScatter" => /\ o.ins[1] \in DOMAIN live
                                        /\ ~ShardedOn(live[o.ins[1]], o.dim)
BY DEF Check!Legal, Check!Needs, Check!IsPartial, IsPartial, Check!ShardedOn, ShardedOn,
       Check!Shard, Shard, Check!MeshDims, MeshDims

\* The replay starts from what no operation produces, if none works in place.
LEMMA SeedIs ==
  ASSUME NEW p, DOMAIN p = 1 .. Len(p), WritesOnce(p), NEW found
  PROVE  \A n \in DOMAIN Seed(p, found) :
           /\ n \in DOMAIN found /\ Seed(p, found)[n] = found[n]
           /\ \A i \in 1 .. Len(p) : p[i].out # n
<1>1. Check(p, found, << >>)!ProducedByOther = {p[i].out : i \in 1 .. Len(p)}
  <2>1. Check(p, found, << >>)!ProducedByOther =
          {p[i].out : i \in {j \in 1 .. Len(p) : p[j].out \notin ToSet(p[j].ins)}}
    BY DEF Check!ProducedByOther, Check!Indices, Check!SeqSet, ToSet
  <2>2. {j \in 1 .. Len(p) : p[j].out \notin ToSet(p[j].ins)} = 1 .. Len(p)
    BY DEF WritesOnce
  <2> QED BY <2>1, <2>2
<1> QED BY <1>1 DEF Seed, Restrict

\* The steps of the replay.
ReplaySteps(p, found, n, f) ==
  f = [i \in 0 .. n |-> IF i = 0 THEN Seed(p, found)
                        ELSE Check(p, found, f[i - 1])!Replayed(p[i])]

\* They exist for every number of operations.
LEMMA ReplayStepsExist ==
  ASSUME NEW p, NEW found, NEW n \in Nat
  PROVE  \E f : ReplaySteps(p, found, n, f)
<1> DEFINE S == {m \in Nat : \E f : ReplaySteps(p, found, m, f)}
<1>1. 0 \in S
  <2> DEFINE f == [i \in 0 .. 0 |-> Seed(p, found)]
  <2>1. ReplaySteps(p, found, 0, f)
    BY DEF ReplaySteps
  <2> QED BY <2>1
<1>2. ASSUME NEW m \in Nat, m \in S PROVE m + 1 \in S
  <2>1. PICK f : ReplaySteps(p, found, m, f)
    BY <1>2
  <2> DEFINE g == [i \in 0 .. (m + 1) |-> IF i <= m THEN f[i]
                                         ELSE Check(p, found, f[m])!Replayed(p[m + 1])]
  <2>2. \A i \in 0 .. (m + 1) :
          g[i] = IF i = 0 THEN Seed(p, found) ELSE Check(p, found, g[i - 1])!Replayed(p[i])
    <3> TAKE i \in 0 .. (m + 1)
    <3>1. i <= m => f[i] = IF i = 0 THEN Seed(p, found)
                           ELSE Check(p, found, f[i - 1])!Replayed(p[i])
      BY <2>1 DEF ReplaySteps
    <3> QED BY <3>1
  <2>3. g = [i \in 0 .. (m + 1) |-> g[i]]
    OBVIOUS
  <2> HIDE DEF g
  <2>4. ReplaySteps(p, found, m + 1, g)
    BY <2>2, <2>3 DEF ReplaySteps
  <2> QED BY <2>4
<1> HIDE DEF S
<1>3. Nat \subseteq S
  BY <1>1, <1>2, Induction
<1> QED BY <1>3 DEF S

\* All operations were legal at their turn.
LEMMA LegallyUsedIs ==
  ASSUME NEW p, Len(p) \in Nat, NEW found, LegallyUsed(p, found)
  PROVE  \E g : /\ g[0] = Seed(p, found)
                /\ \A i \in 1 .. Len(p) : /\ g[i] = Check(p, found, g[i - 1])!Replayed(p[i])
                                          /\ Check(p, found, g[i - 1])!Legal(p[i])
<1> DEFINE n == Len(p)
           g == CHOOSE f : ReplaySteps(p, found, n, f)
<1>1. ReplaySteps(p, found, n, g)
  BY ReplayStepsExist
<1>2. \A i \in 1 .. n : Check(p, found, g[i - 1])!Legal(p[i])
  BY DEF LegallyUsed, ReplaySteps
<1> HIDE DEF g
<1>3. g[0] = Seed(p, found) /\ \A i \in 1 .. n : g[i] = Check(p, found, g[i - 1])!Replayed(p[i])
  BY <1>1 DEF ReplaySteps
<1> QED BY <1>2, <1>3

\* What the replay has, the run had after the same operations.
LEMMA ReplayAgrees ==
  ASSUME NEW p, Len(p) \in Nat, DOMAIN p = 1 .. Len(p), WritesOnce(p),
         NEW tensors, NEW f, RunOf(p, tensors, f), NEW found, found = PlacedIn(f[Len(p)]),
         NEW g, g[0] = Seed(p, found),
         \A i \in 1 .. Len(p) : g[i] = Check(p, found, g[i - 1])!Replayed(p[i]),
         NEW i \in 0 .. Len(p), NEW n \in DOMAIN g[i]
  PROVE  n \in DOMAIN f[i].tensors /\ g[i][n] = f[i].tensors[n].pl
<1> DEFINE Agree(k) == \A m \in DOMAIN g[k] : /\ m \in DOMAIN f[k].tensors
                                              /\ g[k][m] = f[k].tensors[m].pl
           S == {k \in Nat : k <= Len(p) => Agree(k)}
<1>1. 0 \in S
  <2>1. ASSUME NEW m \in DOMAIN g[0]
        PROVE  m \in DOMAIN f[0].tensors /\ g[0][m] = f[0].tensors[m].pl
    <3>1. m \in DOMAIN found /\ g[0][m] = found[m] /\ \A j \in 1 .. Len(p) : p[j].out # m
      BY <2>1, SeedIs
    <3>2. m \in DOMAIN f[Len(p)].tensors /\ found[m] = f[Len(p)].tensors[m].pl
      BY <3>1 DEF PlacedIn
    <3>3. m \in DOMAIN f[0].tensors
      BY <3>1, <3>2, RegisteredThen
    <3>4. f[Len(p)].tensors[m] = f[0].tensors[m]
      BY <3>1, <3>3, Unwritten
    <3> QED BY <3>1, <3>2, <3>3, <3>4
  <2> QED BY <2>1
<1>2. ASSUME NEW k \in Nat, k \in S PROVE k + 1 \in S
  <2> SUFFICES ASSUME k + 1 <= Len(p) PROVE Agree(k + 1)
    OBVIOUS
  <2> DEFINE o == p[k + 1]
  <2>1. Agree(k) /\ k + 1 \in 1 .. Len(p) /\ (k + 1) - 1 = k
    BY <1>2
  <2>2. Stepped(f[k], o, f[k + 1]) /\ g[k + 1] = Check(p, found, g[k])!Replayed(o)
    BY <2>1 DEF RunOf
  <2>3. /\ DOMAIN g[k + 1] = DOMAIN g[k] \cup {o.out}
        /\ g[k + 1][o.out] = ReplayedOut(found, g[k], o)
        /\ \A m \in DOMAIN g[k] : m # o.out => g[k + 1][m] = g[k][m]
    <3>1. Replays(found, g[k], o, Check(p, found, g[k])!Replayed(o))
      BY ReplayedIs
    <3>2. Replays(found, g[k], o, g[k + 1])
      BY <2>2, <3>1
    <3> QED BY <3>2 DEF Replays
  <2>4. /\ o.out \in DOMAIN f[k + 1].tensors /\ o.out \in DOMAIN f[Len(p)].tensors
        /\ f[k + 1].tensors[o.out].pl = Apply(o, PlacedFor(f[k].tensors, o))
        /\ f[Len(p)].tensors[o.out].pl = f[k + 1].tensors[o.out].pl
    BY <2>1, ResultIs DEF Reading
  <2>5. g[k + 1][o.out] = f[k + 1].tensors[o.out].pl
    <3> DEFINE ins == [j \in DOMAIN o.ins |-> g[k][o.ins[j]]]
    <3>1. CASE ReadEach(o) /\ ToSet(o.ins) \subseteq DOMAIN g[k] /\ ~Raises(o, ins)
      <4>1. \A j \in DOMAIN o.ins : g[k][o.ins[j]] = f[k].tensors[o.ins[j]].pl
        BY <2>1, <3>1 DEF ToSet
      <4>2. ins = PlacedFor(f[k].tensors, o)
        BY <4>1 DEF PlacedFor
      <4>3. ReplayedOut(found, g[k], o) = Apply(o, ins)
        BY <3>1 DEF ReplayedOut
      <4> HIDE DEF ins
      <4> QED BY <2>3, <2>4, <4>2, <4>3
    <3>2. CASE ~(ReadEach(o) /\ ToSet(o.ins) \subseteq DOMAIN g[k] /\ ~Raises(o, ins))
      <4>1. ReplayedOut(found, g[k], o) = found[o.out]
        BY <3>2 DEF ReplayedOut
      <4>2. found[o.out] = f[Len(p)].tensors[o.out].pl
        BY <2>4 DEF PlacedIn
      <4> QED BY <2>3, <2>4, <4>1, <4>2
    <3> QED BY <3>1, <3>2
  <2>6. ASSUME NEW m \in DOMAIN g[k + 1], m # o.out
        PROVE  m \in DOMAIN f[k + 1].tensors /\ g[k + 1][m] = f[k + 1].tensors[m].pl
    BY <2>1, <2>2, <2>3, <2>6 DEF Stepped
  <2> QED BY <2>4, <2>5, <2>6
<1> HIDE DEF S
<1>3. Nat \subseteq S
  BY <1>1, <1>2, Induction
<1> QED BY <1>3 DEF S

-----------------------------------------------------------------------------
\* What AcceptedIsSound says of the program of an answer.
Sound(a, given) ==
  LET p       == Fwd(a)
      read(i) == Executed(a, given).read[i]
  IN  \A i \in DOMAIN p :
        /\ p[i].kind = "AllReduce" => IsPartial(read(i)[1])
        /\ p[i].kind = "AllGather" => ShardedOn(read(i)[1], p[i].dim)
        /\ p[i].kind = "ReduceScatter" => ~ShardedOn(read(i)[1], p[i].dim)
        /\ p[i].kind = "MatMul" /\ IsPartial(Apply(p[i], read(i))) =>
             \E j \in DOMAIN p : j > i /\ p[j].kind = "AllReduce" /\ p[j].ins[1] = p[i].out

\* An answer that is found right is.
LEMMA RightIsSound ==
  ASSUME NEW a, Len(a.fwd_ops) \in Nat, NEW given, Judgement(a, given) = "right",
         WritesOnce(Fwd(a))
  PROVE  Fwd(a) # << >> /\ Sound(a, given)
<1> DEFINE p == Fwd(a)
           r == Executed(a, given)
           tensors == Registered(a, given)
           N == Len(p)
<1>1. ~r.raised /\ p # << >> /\ AnalyzedCorrect(p, PlacedIn(r)) /\ LegallyUsed(p, PlacedIn(r))
  BY DEF Judgement
<1>2. /\ N \in Nat /\ DOMAIN p = 1 .. N
      /\ \A i \in DOMAIN p : p[i].kind \in {"AllReduce", "AllGather", "ReduceScatter"} =>
                               1 \in DOMAIN p[i].ins
  BY ProgramIs DEF Fwd
<1>3. r = StrictRun(p, tensors)
  BY DEF Executed
<1> HIDE DEF p, r, tensors
<1>4. PICK f : RunOf(p, tensors, f) /\ r = f[N]
  BY <1>1, <1>2, <1>3, RunIs
<1> DEFINE found == PlacedIn(r)
<1>5. PICK g : /\ g[0] = Seed(p, found)
               /\ \A i \in 1 .. N : /\ g[i] = Check(p, found, g[i - 1])!Replayed(p[i])
                                    /\ Check(p, found, g[i - 1])!Legal(p[i])
  BY <1>1, <1>2, LegallyUsedIs
<1>6. WritesOnce(p)
  BY DEF p
<1>7. ASSUME NEW i \in 1 .. N
      PROVE  LET x == r.read[i]
             IN  /\ p[i].kind = "AllReduce" => IsPartial(x[1])
                 /\ p[i].kind = "AllGather" => ShardedOn(x[1], p[i].dim)
                 /\ p[i].kind = "ReduceScatter" => ~ShardedOn(x[1], p[i].dim)
                 /\ p[i].kind = "MatMul" /\ IsPartial(Apply(p[i], x)) =>
                      \E j \in DOMAIN p : j > i /\ p[j].kind = "AllReduce" /\ p[j].ins[1] = p[i].out
  <2> DEFINE x == Reading(p, f, i)
             n == p[i].ins[1]
  <2>1. r.read[i] = x
    BY <1>2, <1>4, ReadIs
  <2>2. i - 1 \in 0 .. N
    BY <1>2
  <2>3. 1 \in DOMAIN p[i].ins => x[1] = f[i - 1].tensors[n].pl
    BY DEF Reading, PlacedFor
  <2>4. n \in DOMAIN g[i - 1] => g[i - 1][n] = f[i - 1].tensors[n].pl
    <3> HIDE DEF found
    <3>1. found = PlacedIn(f[Len(p)])
      BY <1>4 DEF found
    <3> QED BY <1>2, <1>4, <1>5, <1>6, <2>2, <3>1, ReplayAgrees
  <2>5. /\ p[i].kind = "AllReduce" => n \in DOMAIN g[i - 1] /\ IsPartial(g[i - 1][n])
        /\ p[i].kind = "AllGather" => n \in DOMAIN g[i - 1] /\ ShardedOn(g[i - 1][n], p[i].dim)
        /\ p[i].kind = "ReduceScatter" => /\ n \in DOMAIN g[i - 1]
                                          /\ ~ShardedOn(g[i - 1][n], p[i].dim)
    BY <1>5, LegalIs
  <2>6. ASSUME p[i].kind \in {"AllReduce", "AllGather", "ReduceScatter"}, n \in DOMAIN g[i - 1]
        PROVE  x[1] = g[i - 1][n]
    BY <1>2, <2>3, <2>4, <2>6
  <2>7. ASSUME p[i].kind = "MatMul", IsPartial(Apply(p[i], x))
        PROVE  \E j \in DOMAIN p : j > i /\ p[j].kind = "AllReduce" /\ p[j].ins[1] = p[i].out
    <3>1. /\ p[i].out \in DOMAIN f[N].tensors
          /\ f[N].tensors[p[i].out].pl = Apply(p[i], x)
      BY <1>2, <1>4, <1>6, ResultIs
    <3>2. p[i].out \in DOMAIN found /\ found[p[i].out] = Apply(p[i], x)
      BY <1>4, <3>1 DEF PlacedIn
    <3> HIDE DEF found, x
    <3>3. i \in PartialProducts(p, found)
      BY <2>7, <3>2 DEF PartialProducts, KnownPartial
    <3>4. Missing(p, found) = {}
      BY <1>1 DEF AnalyzedCorrect, found
    <3>5. ReducedAfter(p, i, p[i].out)
      BY <3>3, <3>4 DEF Missing
    <3> QED BY <1>2, <3>5 DEF ReducedAfter
  <2> HIDE DEF x, n, found
  <2> QED BY <2>1, <2>5, <2>6, <2>7
<1> HIDE DEF found, N
<1>8. Sound(a, given)
  BY <1>2, <1>7 DEF Sound, p, r, N
<1> QED BY <1>1, <1>8 DEF p

\* The verdict is that on the last answer, and a success is a verdict.
JudgedRight ==
  /\ pc = "judged" => judgement = Judgement(response, tensor_states)
  /\ result.success \in BOOLEAN
  /\ result.success => /\ pc = "done" /\ Judgement(response, tensor_states) = "right"
                              /\ response \in Answers /\ result.final_program = Fwd(response)

\* The loop keeps to it.
LEMMA JudgedRightNext == Inv /\ JudgedRight /\ [Next]_vars => JudgedRight'
<1> SUFFICES ASSUME Inv, JudgedRight, [Next]_vars PROVE JudgedRight'
  OBVIOUS
<1> USE DEF JudgedRight
<1>1. CASE Extract
  BY <1>1 DEF Extract
<1>2. CASE Judge
  BY <1>2 DEF Judge
<1>3. CASE ParseFails \/ ExecutionFails \/ Rejected
  <2>1. pc = "judged" /\ result.success = FALSE /\ UNCHANGED <<response, tensor_states>>
    BY <1>3 DEF ParseFails, ExecutionFails, Rejected
  <2>2. pc' \in {"done", "ask"} /\ (result' = result \/ result'.success = FALSE)
    BY <1>3 DEF ParseFails, ExecutionFails, Rejected, GoOn, Failed
  <2>3. result'.success = FALSE
    BY <2>1, <2>2
  <2> QED BY <2>1, <2>2, <2>3
<1>4. CASE Accepted
  <2>1. response \in Answers
    BY <1>4 DEF Accepted, Inv, Judged
  <2> QED BY <1>4, <2>1 DEF Accepted
<1>5. CASE Feedback
  BY <1>5 DEF Feedback
<1>6. CASE ModelRaises /\ UNCHANGED <<tensor_states, response, judgement, iteration, answers, result>>
  BY <1>6 DEF ModelRaises
<1>7. CASE UNCHANGED vars
  BY <1>7 DEF vars
<1> QED BY <1>1, <1>2, <1>3, <1>4, <1>5, <1>6, <1>7 DEF Next

(***************************************************************************)
(* What verify_code returns as right is right, for every answer of the     *)
(* language model and every tensors of the caller: its collectives read    *)
(* what they are for, and its partial products are reduced.                *)
(***************************************************************************)
THEOREM AcceptedSoundness == Spec => []AcceptedIsSound
<1>1. Init => JudgedRight
  BY DEF Init, JudgedRight, NoResult
<1>2. Inv /\ JudgedRight => AcceptedIsSound
  <2> SUFFICES ASSUME JudgedRight, result.success, WritesOnce(Fwd(response))
               PROVE  /\ result.final_program = Fwd(response) /\ Fwd(response) # << >>
                      /\ Sound(response, tensor_states)
    BY DEF AcceptedIsSound, Sound, Read
  <2>1. /\ response \in Answers /\ Judgement(response, tensor_states) = "right"
        /\ result.final_program = Fwd(response)
    BY DEF JudgedRight
  <2>2. Parses(response)
    BY <2>1, JudgementParses
  <2>3. Len(response.fwd_ops) \in Nat
    BY <2>1, <2>2, AnswersAssumption DEF Parses
  <2> QED BY <2>1, <2>3, RightIsSound
<1> QED BY <1>1, <1>2, InitInv, NextInv, JudgedRightNext, PTL DEF Spec
===============================================================================
