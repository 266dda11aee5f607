---------------------------- MODULE Autograd_proofs ----------------------------
(***************************************************************************)
(* What the engine's backward pass yields, for every menu of operations    *)
(* and every number of them: the gradients are the sums over the ways from *)
(* the loss, they are placed like their tensors, and the duals are those   *)
(* of the collectives that the loss depends on, in reverse.                *)
(***************************************************************************)
EXTENDS Autograd, TensorOps_proofs, SequenceTheorems

-----------------------------------------------------------------------------
(***************************************************************************)
(* The books: the tape is a prefix of the program, operations read what    *)
(* was there, and everything is placed.                                    *)
(***************************************************************************)
Programmed(p) ==
  /\ p \in Seq(Menu)
  /\ \A i \in DOMAIN p : \A n \in Range(p[i].ins) :
       n \in Inputs \/ \E j \in 1 .. (i - 1) : p[j].out = n

IsSequence(t) == \E S : t \in Seq(S)

Books ==
  /\ Programmed(program)
  /\ IsSequence(tape) /\ Len(tape) <= Len(program)
  /\ \A i \in 1 .. Len(tape) : tape[i].op = program[i]
  /\ DOMAIN tensors = Inputs \cup {program[i].out : i \in DOMAIN program}
  /\ \A n \in DOMAIN tensors : tensors[n].pl \in Placements
  /\ generations \in Nat

Single(p) == /\ \A i, j \in DOMAIN p : p[i].out = p[j].out => i = j
             /\ \A i \in DOMAIN p : p[i].out \notin Inputs

\* What was saved is still so, and a cast did to its tensor what it does.
Saved == \A i \in 1 .. Len(tape) : \A n \in Range(tape[i].op.ins) \cup {tape[i].op.out} :
           tape[i].saved[n] = tensors[n]
CastIsRun(o) == /\ tensors[o.out].pl = tensors[o.ins[1]].pl
                /\ tensors[o.ins[1]].dtype \in {"none", o.src_dtype}
CastsRun == \A i \in 1 .. Len(program) : program[i].kind \in Casts => CastIsRun(program[i])

Kept == Single(program) => Saved /\ CastsRun

LEMMA SingleIsWritesOnce == WritesOnce <=> Single(program)
BY DEF WritesOnce, Single

\* The result of an operation of the menu is placed.
LEMMA ResultIsPlaced ==
  ASSUME NEW o \in Menu, \A n \in Range(o.ins) : tensors[n].pl \in Placements
  PROVE  ResultPlacement(o) \in Placements
<1> DEFINE x == Placed(o)
<1>1. x \in [DOMAIN o.ins -> Placements]
  BY DEF Placed, Range
<1>2. /\ o.kind \in UnaryKinds \cup BinaryKinds \cup OtherKinds
      /\ {"kind", "ins"} \subseteq DOMAIN o /\ 1 \in DOMAIN o.ins
      /\ "mesh_dim" \in DOMAIN o
      /\ o.kind \in BinaryKinds => 2 \in DOMAIN o.ins
      /\ o.mesh_dim \in MeshDims \cup {NoDim}
  BY MenuAssumption
<1>3. CASE o.kind = "ZeROPartitionOptState"
  <2>1. x[1] \in Placements
    BY <1>1, <1>2
  <2>2. Changed(o, x[1], {"R"}, Shard(o.dim)) \in Placements
    BY <2>1, ChangedType, ShardType
  <2> QED BY <1>3, <2>2 DEF ResultPlacement
<1>4. CASE o.kind # "ZeROPartitionOptState"
  <2> DEFINE r == RuleOf(o)
  <2>1. \/ r = o /\ o.kind \in UnaryKinds \cup BinaryKinds
        \/ \E k \in UnaryKinds : r = [o EXCEPT !.kind = k]
    <3>1. CASE o.kind = "ZeROGatherParam"
      <4>1. r = [o EXCEPT !.kind = "AllGather"]
        BY <3>1 DEF RuleOf, UnaryKinds, BinaryKinds, Casts
      <4> QED BY <4>1 DEF UnaryKinds
    <3>2. CASE o.kind = "ZeROScatterGrad"
      <4>1. r = [o EXCEPT !.kind = "ReduceScatter"]
        BY <3>2 DEF RuleOf, UnaryKinds, BinaryKinds, Casts
      <4> QED BY <4>1 DEF UnaryKinds
    <3>3. CASE o.kind \in {"MoEDispatch", "MoECombine"}
      <4>1. r = [o EXCEPT !.kind = "AllToAll"]
        BY <3>3 DEF RuleOf, UnaryKinds, BinaryKinds, Casts
      <4> QED BY <4>1 DEF UnaryKinds
    <3>4. CASE o.kind = "AmaxUpdate"
      <4>1. r = [o EXCEPT !.kind = "Broadcast"]
        BY <3>4 DEF RuleOf, UnaryKinds, BinaryKinds, Casts
      <4> QED BY <4>1 DEF UnaryKinds
    <3>5. CASE o.kind \in {"Send", "Recv", "RingRotate"} \cup Casts
      <4>1. r = [o EXCEPT !.kind = "Unary"]
        BY <3>5 DEF RuleOf, UnaryKinds, BinaryKinds, Casts
      <4> QED BY <4>1 DEF UnaryKinds
    <3>6. CASE o.kind \in UnaryKinds \cup BinaryKinds
      <4>1. r = o
        BY <3>6 DEF RuleOf, UnaryKinds, BinaryKinds, Casts
      <4> QED BY <3>6, <4>1
    <3> QED BY <1>2, <1>4, <3>1, <3>2, <3>3, <3>4, <3>5, <3>6 DEF OtherKinds
  <2> HIDE DEF r
  <2>2. r.ins = o.ins /\ r.mesh_dim = o.mesh_dim /\ r.kind \in UnaryKinds \cup BinaryKinds
        /\ (r.kind \in BinaryKinds => r = o)
    BY <1>2, <2>1 DEF UnaryKinds, BinaryKinds
  <2>3. IsOp(r)
    BY <1>2, <2>2 DEF IsOp, Kinds
  <2>4. Apply(r, x) \in Placements
    BY <1>1, <2>2, <2>3, ApplyType
  <2> QED BY <1>4, <2>4 DEF ResultPlacement, r
<1> QED BY <1>3, <1>4

\* A cast places its result as its tensor.
LEMMA CastKeeps ==
  ASSUME NEW o \in Menu, o.kind \in Casts
  PROVE  ResultPlacement(o) = tensors[o.ins[1]].pl
<1>1. "kind" \in DOMAIN o /\ 1 \in DOMAIN o.ins
  BY MenuAssumption
<1>2. RuleOf(o) = [o EXCEPT !.kind = "Unary"]
  BY DEF RuleOf, UnaryKinds, BinaryKinds, Casts
<1>3. RuleOf(o).kind = "Unary"
  BY <1>1, <1>2
<1>4. Apply(RuleOf(o), Placed(o)) = Placed(o)[1]
  BY <1>3 DEF Apply
<1> QED BY <1>1, <1>4 DEF ResultPlacement, Casts, Placed

\* A program grows by an operation that can be run.
LEMMA ProgramGrows ==
  ASSUME NEW p, Programmed(p), NEW o \in Menu,
         Range(o.ins) \subseteq Inputs \cup {p[i].out : i \in DOMAIN p}
  PROVE  /\ Programmed(Append(p, o))
         /\ Len(Append(p, o)) = Len(p) + 1 /\ Len(p) \in Nat
         /\ DOMAIN p = 1 .. Len(p) /\ DOMAIN Append(p, o) = 1 .. (Len(p) + 1)
         /\ Append(p, o)[Len(p) + 1] = o
         /\ \A i \in 1 .. Len(p) : Append(p, o)[i] = p[i]
<1> DEFINE q == Append(p, o)
<1>1. p \in Seq(Menu)
  BY DEF Programmed
<1>2. /\ q \in Seq(Menu) /\ Len(q) = Len(p) + 1 /\ Len(p) \in Nat
      /\ DOMAIN p = 1 .. Len(p) /\ DOMAIN q = 1 .. (Len(p) + 1)
      /\ q[Len(p) + 1] = o /\ \A i \in 1 .. Len(p) : q[i] = p[i]
  BY <1>1
<1> HIDE DEF q
<1>3. ASSUME NEW i \in DOMAIN q, NEW n \in Range(q[i].ins)
      PROVE  n \in Inputs \/ \E j \in 1 .. (i - 1) : q[j].out = n
  <2>1. CASE i \in 1 .. Len(p)
    <3>1. n \in Inputs \/ \E j \in 1 .. (i - 1) : p[j].out = n
      BY <1>2, <1>3, <2>1 DEF Programmed
    <3> QED BY <1>2, <2>1, <3>1
  <2>2. CASE i = Len(p) + 1
    <3>1. n \in Inputs \/ \E j \in 1 .. Len(p) : p[j].out = n
      BY <1>2, <1>3, <2>2
    <3> QED BY <1>2, <2>2, <3>1
  <2> QED BY <1>2, <2>1, <2>2
<1>4. Programmed(q)
  BY <1>2, <1>3 DEF Programmed
<1> QED BY <1>2, <1>4 DEF q

\* The operation run is one of the menu on tensors that are there, and its
\* result is placed.
LEMMA RunKeepsBooks ==
  ASSUME Books, NEW o \in Menu, Range(o.ins) \subseteq DOMAIN tensors,
         tensors' = Put(tensors, o.out, [pl |-> ResultPlacement(o), dtype |-> ResultDtype(o)]),
         program' = Append(program, o), UNCHANGED <<tape, generations>>
  PROVE  Books'
<1>1. Range(o.ins) \subseteq Inputs \cup {program[i].out : i \in DOMAIN program}
  BY DEF Books
<1>2. /\ Programmed(program') /\ Len(program') = Len(program) + 1 /\ Len(program) \in Nat
      /\ DOMAIN program = 1 .. Len(program) /\ DOMAIN program' = 1 .. (Len(program) + 1)
      /\ program'[Len(program) + 1] = o
      /\ \A i \in 1 .. Len(program) : program'[i] = program[i]
  BY <1>1, ProgramGrows DEF Books
<1>3. ResultPlacement(o) \in Placements
  BY ResultIsPlaced DEF Books
<1>4. DOMAIN tensors' = DOMAIN tensors \cup {o.out}
  BY DEF Put
<1>5. \A n \in DOMAIN tensors' : tensors'[n].pl \in Placements
  BY <1>3, <1>4 DEF Put, Books
<1>6. IsSequence(tape') /\ generations' \in Nat /\ Len(tape') \in Nat /\ Len(tape') <= Len(program)
  BY DEF Books, IsSequence
<1>7. Len(tape') <= Len(program') /\ \A i \in 1 .. Len(tape') : tape'[i].op = program'[i]
  BY <1>2, <1>6 DEF Books
<1>8. DOMAIN tensors' = Inputs \cup {program'[i].out : i \in DOMAIN program'}
  <2>1. {program'[i].out : i \in DOMAIN program'}
          = {program[i].out : i \in DOMAIN program} \cup {o.out}
    BY <1>2
  <2> QED BY <1>4, <2>1 DEF Books
<1> QED BY <1>2, <1>5, <1>6, <1>7, <1>8 DEF Books

\* An entry is added to the tape.
LEMMA TapeGrows ==
  ASSUME Books, NEW e, Len(tape) < Len(program), e.op = program[Len(tape) + 1],
         tape' = Append(tape, e), UNCHANGED <<tensors, program, generations>>
  PROVE  /\ Books' /\ Len(tape') = Len(tape) + 1 /\ Len(tape) \in Nat
         /\ tape'[Len(tape) + 1] = e
         /\ \A i \in 1 .. Len(tape) : tape'[i] = tape[i]
<1>1. PICK S : tape \in Seq(S)
  BY DEF Books, IsSequence
<1>2. tape' \in Seq(S \cup {e})
  <2>1. tape \in Seq(S \cup {e}) /\ e \in S \cup {e}
    BY <1>1
  <2> QED BY <2>1
<1>3. /\ Len(tape') = Len(tape) + 1 /\ Len(tape) \in Nat
      /\ tape'[Len(tape) + 1] = e
      /\ \A i \in 1 .. Len(tape) : tape'[i] = tape[i]
  BY <1>1
<1>4. IsSequence(tape')
  BY <1>2 DEF IsSequence
<1>5. \A i \in 1 .. Len(tape') : tape'[i].op = program'[i]
  BY <1>3 DEF Books
<1>6. Len(program) \in Nat
  BY DEF Books, Programmed
<1>7. Len(tape') <= Len(program')
  BY <1>3, <1>6
<1>8. DOMAIN tensors' = Inputs \cup {program'[i].out : i \in DOMAIN program'}
  BY DEF Books
<1> QED BY <1>3, <1>4, <1>5, <1>7, <1>8 DEF Books

\* Nothing is run or recorded at first and after a reset.
LEMMA BooksCleared ==
  ASSUME program' = << >>, tape' = << >>, generations' \in Nat, DOMAIN tensors' = Inputs,
         \A n \in Inputs : tensors'[n].pl \in Placements
  PROVE  Books' /\ Kept'
<1>1. Programmed(program') /\ IsSequence(tape') /\ Len(program') = 0 /\ Len(tape') = 0
  BY DEF Programmed, IsSequence
<1>2. DOMAIN tensors' = Inputs \cup {program'[i].out : i \in DOMAIN program'}
  OBVIOUS
<1>3. Books'
  BY <1>1, <1>2 DEF Books
<1> QED BY <1>1, <1>3 DEF Kept, Saved, CastsRun

-----------------------------------------------------------------------------
\* Without an earlier one, names are written once.
LEMMA SingleBefore ==
  ASSUME NEW p, Len(p) \in Nat, DOMAIN p = 1 .. Len(p), NEW q, DOMAIN q = 1 .. (Len(p) + 1),
         \A i \in 1 .. Len(p) : q[i] = p[i], Single(q)
  PROVE  /\ Single(p)
         /\ q[Len(p) + 1].out \notin Inputs \cup {p[i].out : i \in DOMAIN p}
BY DEF Single

\* A result overwrites nothing that is read later as it was, if names are
\* written once.
LEMMA RunKeeps ==
  ASSUME Books, Kept, NEW o \in Menu, Range(o.ins) \subseteq DOMAIN tensors, ~RunRaises(o),
         tensors' = Put(tensors, o.out, [pl |-> ResultPlacement(o), dtype |-> ResultDtype(o)]),
         program' = Append(program, o), UNCHANGED tape, Single(program')
  PROVE  /\ Saved' /\ CastsRun' /\ Single(program) /\ o.out \notin DOMAIN tensors
         /\ \A n \in DOMAIN tensors : tensors'[n] = tensors[n]
<1>1. Range(o.ins) \subseteq Inputs \cup {program[i].out : i \in DOMAIN program}
  BY DEF Books
<1>2. /\ Len(program') = Len(program) + 1 /\ Len(program) \in Nat
      /\ DOMAIN program = 1 .. Len(program) /\ DOMAIN program' = 1 .. (Len(program) + 1)
      /\ program'[Len(program) + 1] = o
      /\ \A i \in 1 .. Len(program) : program'[i] = program[i]
  BY <1>1, ProgramGrows DEF Books
<1>3. Single(program) /\ o.out \notin Inputs \cup {program[i].out : i \in DOMAIN program}
  BY <1>2, SingleBefore
<1>4. o.out \notin DOMAIN tensors
  BY <1>3 DEF Books
<1>5. \A n \in DOMAIN tensors : tensors'[n] = tensors[n]
  BY <1>4 DEF Put
<1>6. ASSUME NEW i \in 1 .. Len(program)
      PROVE  program[i].out \in DOMAIN tensors /\ Range(program[i].ins) \subseteq DOMAIN tensors
  <2>1. program[i].out \in DOMAIN tensors
    BY <1>2 DEF Books
  <2>2. \A n \in Range(program[i].ins) : n \in Inputs \/ \E j \in 1 .. (i - 1) : program[j].out = n
    BY <1>2 DEF Books, Programmed
  <2>3. \A j \in 1 .. (i - 1) : j \in DOMAIN program
    BY <1>2
  <2>4. \A n \in Range(program[i].ins) : n \in Inputs \cup {program[j].out : j \in DOMAIN program}
    BY <2>2, <2>3
  <2> QED BY <2>1, <2>4 DEF Books
<1>7. Saved'
  <2>1. Len(tape) \in Nat
    BY DEF Books, IsSequence
  <2>2. ASSUME NEW i \in 1 .. Len(tape), NEW n \in Range(tape[i].op.ins) \cup {tape[i].op.out}
        PROVE  tape[i].saved[n] = tensors'[n]
    <3>1. tape[i].op = program[i] /\ i \in 1 .. Len(program)
      BY <1>2, <2>1 DEF Books
    <3>2. n \in DOMAIN tensors
      BY <1>6, <2>2, <3>1
    <3>3. tape[i].saved[n] = tensors[n]
      BY <1>3, <2>2 DEF Kept, Saved
    <3> QED BY <1>5, <3>2, <3>3
  <2> QED BY <2>2 DEF Saved
<1>8. CastsRun'
  <2>1. ASSUME NEW i \in 1 .. Len(program), program[i].kind \in Casts
        PROVE  /\ tensors'[program[i].out].pl = tensors'[program[i].ins[1]].pl
               /\ tensors'[program[i].ins[1]].dtype \in {"none", program[i].src_dtype}
    <3>1. 1 \in DOMAIN program[i].ins
      BY <1>2, MenuAssumption DEF Books, Programmed
    <3>2. program[i].out \in DOMAIN tensors /\ program[i].ins[1] \in DOMAIN tensors
      BY <1>6, <3>1 DEF Range
    <3>3. CastIsRun(program[i])
      BY <1>3, <2>1 DEF Kept, CastsRun
    <3> QED BY <1>5, <3>2, <3>3 DEF CastIsRun
  <2>2. ASSUME o.kind \in Casts
        PROVE  /\ tensors'[o.out].pl = tensors'[o.ins[1]].pl
               /\ tensors'[o.ins[1]].dtype \in {"none", o.src_dtype}
    <3>1. 1 \in DOMAIN o.ins
      BY MenuAssumption
    <3>2. o.ins[1] \in DOMAIN tensors
      BY <3>1 DEF Range
    <3>3. tensors'[o.out].pl = tensors[o.ins[1]].pl
      BY <2>2, CastKeeps DEF Put
    <3>4. tensors[o.ins[1]].dtype \in {"none", o.src_dtype}
      BY <2>2 DEF RunRaises
    <3> QED BY <1>5, <3>2, <3>3, <3>4
  <2>3. \A i \in 1 .. Len(program') : i \in 1 .. Len(program) \/ i = Len(program) + 1
    BY <1>2
  <2> QED BY <1>2, <2>1, <2>2, <2>3 DEF CastsRun, CastIsRun
<1> QED BY <1>3, <1>4, <1>5, <1>7, <1>8

-----------------------------------------------------------------------------
(***************************************************************************)
(* A path of program p from its loss l to n, over entries after i up to g, *)
(* behind the number gen of the generation.                                *)
(***************************************************************************)
IsPath(p, l, gen, path, n, i, g) ==
  /\ path \in Seq(Nat) /\ Len(path) >= 1 /\ path[1] = gen
  /\ \A k \in 2 .. Len(path) : path[k] \in (i + 1) .. g
  /\ Len(path) = 1 => n = l
  /\ Len(path) > 1 => p[path[2]].out = l /\ n \in Differentiated(p[path[Len(path)]])
  /\ \A k \in 2 .. (Len(path) - 1) : p[path[k + 1]].out \in Differentiated(p[path[k]])

LEMMA OneOrMore == \A m \in Nat : m >= 1 => m = 1 \/ m > 1
OBVIOUS

\* A gradient is that of something read.
LEMMA DifferentiatedIsRead ==
  ASSUME NEW o \in Menu
  PROVE  Differentiated(o) \subseteq Range(o.ins)
<1>1. /\ o.kind \in UnaryKinds \cup BinaryKinds \cup OtherKinds /\ 1 \in DOMAIN o.ins
      /\ o.kind \in BinaryKinds => 2 \in DOMAIN o.ins
  BY MenuAssumption
<1>2. CASE o.kind = "Embedding"
  <2>1. Differentiated(o) = {o.ins[2]}
    BY <1>2 DEF Differentiated
  <2> QED BY <1>1, <1>2, <2>1 DEF Range, BinaryKinds
<1>3. CASE o.kind = "CrossEntropyLoss"
  <2>1. Differentiated(o) = {o.ins[1]}
    BY <1>3 DEF Differentiated
  <2> QED BY <1>1, <2>1 DEF Range
<1>4. CASE o.kind \in {"AmaxUpdate", "ZeROPartitionOptState"}
  <2>1. Differentiated(o) = {}
    BY <1>4 DEF Differentiated
  <2> QED BY <2>1
<1>5. CASE o.kind \notin {"Embedding", "CrossEntropyLoss", "AmaxUpdate", "ZeROPartitionOptState"}
  <2>1. Differentiated(o) = Range(o.ins)
    BY <1>5 DEF Differentiated
  <2> QED BY <2>1
<1> QED BY <1>2, <1>3, <1>4, <1>5

\* What an entry's gradient goes to was written before it.
LEMMA WrittenBefore ==
  ASSUME NEW p, Programmed(p), Single(p), NEW i \in 1 .. Len(p), NEW j \in 1 .. Len(p),
         p[j].out \in Differentiated(p[i])
  PROVE  j < i
<1>1. p \in Seq(Menu) /\ DOMAIN p = 1 .. Len(p) /\ Len(p) \in Nat /\ p[i] \in Menu
  BY DEF Programmed
<1>2. p[j].out \in Range(p[i].ins)
  BY <1>1, DifferentiatedIsRead
<1>3. p[j].out \in Inputs \/ \E k \in 1 .. (i - 1) : p[k].out = p[j].out
  BY <1>1, <1>2 DEF Programmed
<1>4. p[j].out \notin Inputs
  BY <1>1 DEF Single
<1>5. PICK k \in 1 .. (i - 1) : p[k].out = p[j].out
  BY <1>3, <1>4
<1>6. k = j
  BY <1>1, <1>5 DEF Single
<1> QED BY <1>5, <1>6

\* The steps of a path go back on the tape.
LEMMA PathGoesBack ==
  ASSUME NEW p, Programmed(p), Single(p), NEW l, NEW gen, NEW path, NEW n,
         NEW i \in Nat, NEW g \in 0 .. Len(p), IsPath(p, l, gen, path, n, i, g),
         NEW k \in 2 .. (Len(path) - 1)
  PROVE  path[k + 1] < path[k] /\ path[k] \in 1 .. Len(p) /\ path[k + 1] \in 1 .. Len(p)
<1>1. Len(p) \in Nat /\ Len(path) \in Nat
  BY DEF Programmed, IsPath
<1>2. k \in 2 .. Len(path) /\ k + 1 \in 2 .. Len(path)
  BY <1>1
<1>3. path[k] \in (i + 1) .. g /\ path[k + 1] \in (i + 1) .. g
  BY <1>2 DEF IsPath
<1>4. path[k] \in 1 .. Len(p) /\ path[k + 1] \in 1 .. Len(p)
  BY <1>1, <1>3
<1>5. p[path[k + 1]].out \in Differentiated(p[path[k]])
  BY DEF IsPath
<1> QED BY <1>4, <1>5, WrittenBefore

\* A path with another entry at its end.
LEMMA PathGoesOn ==
  ASSUME NEW p, Programmed(p), NEW l, NEW gen, NEW q, NEW n,
         NEW g \in 0 .. Len(p), NEW i \in 1 .. g, IsPath(p, l, gen, q, p[i].out, i, g), n \in Differentiated(p[i])
  PROVE  IsPath(p, l, gen, Append(q, i), n, i - 1, g)
<1> DEFINE r == Append(q, i)
<1>1. Len(p) \in Nat
  BY DEF Programmed
<1>2. /\ q \in Seq(Nat) /\ Len(q) \in Nat /\ Len(q) >= 1
      /\ r \in Seq(Nat) /\ Len(r) = Len(q) + 1 /\ r[Len(q) + 1] = i
      /\ \A k \in 1 .. Len(q) : r[k] = q[k]
  BY <1>1 DEF IsPath
<1> HIDE DEF r
<1>3. r[1] = gen
  BY <1>2 DEF IsPath
<1>4. ASSUME NEW k \in 2 .. Len(r) PROVE r[k] \in (i - 1 + 1) .. g
  <2>1. CASE k \in 2 .. Len(q)
    <3>1. q[k] \in (i + 1) .. g /\ r[k] = q[k]
      BY <1>2, <2>1 DEF IsPath
    <3> QED BY <1>1, <3>1
  <2>2. CASE k = Len(q) + 1
    BY <1>1, <1>2, <2>2
  <2> QED BY <1>2, <2>1, <2>2
<1>5. p[r[2]].out = l
  <2>1. CASE Len(q) = 1
    <3>1. p[i].out = l
      BY <2>1 DEF IsPath
    <3> QED BY <1>2, <2>1, <3>1
  <2>2. CASE Len(q) > 1
    <3>1. p[q[2]].out = l
      BY <2>2 DEF IsPath
    <3>2. 2 \in 1 .. Len(q)
      BY <1>2, <2>2
    <3>3. r[2] = q[2]
      BY <1>2, <3>2
    <3> QED BY <3>1, <3>3
  <2>3. Len(q) = 1 \/ Len(q) > 1
    BY <1>2, OneOrMore, Zenon
  <2> QED BY <2>1, <2>2, <2>3
<1>6. ASSUME NEW k \in 2 .. (Len(r) - 1) PROVE p[r[k + 1]].out \in Differentiated(p[r[k]])
  <2>1. CASE k \in 2 .. (Len(q) - 1)
    <3>1. p[q[k + 1]].out \in Differentiated(p[q[k]])
      BY <2>1 DEF IsPath
    <3>2. r[k] = q[k] /\ r[k + 1] = q[k + 1]
      BY <1>2, <2>1
    <3> QED BY <3>1, <3>2
  <2>2. CASE k = Len(q)
    <3>1. p[i].out \in Differentiated(p[q[Len(q)]])
      BY <1>2, <2>2 DEF IsPath
    <3> QED BY <1>2, <2>2, <3>1
  <2> QED BY <1>2, <2>1, <2>2
<1>7. n \in Differentiated(p[r[Len(r)]]) /\ Len(r) > 1
  BY <1>2
<1>8. IsPath(p, l, gen, r, n, i - 1, g)
  BY <1>2, <1>3, <1>4, <1>5, <1>6, <1>7 DEF IsPath
<1> QED BY <1>8 DEF r

\* A path over more entries.
LEMMA PathStays ==
  ASSUME NEW p, NEW l, NEW gen, NEW path, NEW n, NEW g \in Nat, NEW i \in 1 .. g,
         IsPath(p, l, gen, path, n, i, g)
  PROVE  IsPath(p, l, gen, path, n, i - 1, g)
<1>1. \A k \in 2 .. Len(path) : path[k] \in (i - 1 + 1) .. g
  <2> TAKE k \in 2 .. Len(path)
  <2>1. path[k] \in (i + 1) .. g
    BY DEF IsPath
  <2> QED BY <2>1
<1> QED BY <1>1 DEF IsPath

\* A path with entry i at its end.
PassesLast(p, l, gen, path, n, i, g) ==
  /\ n \in Differentiated(p[i])
  /\ \E q : IsPath(p, l, gen, q, p[i].out, i, g) /\ path = Append(q, i)

\* A path over the entries from i on passes i last or not at all.
LEMMA PathEnds ==
  ASSUME NEW p, Programmed(p), Single(p), NEW l, NEW gen, NEW path, NEW n,
         NEW g \in 0 .. Len(p), NEW i \in 1 .. g, IsPath(p, l, gen, path, n, i - 1, g)
  PROVE  IsPath(p, l, gen, path, n, i, g) \/ PassesLast(p, l, gen, path, n, i, g)
<1> DEFINE m == Len(path)
<1>1. Len(p) \in Nat /\ m \in Nat /\ m >= 1 /\ path \in Seq(Nat)
  BY DEF Programmed, IsPath
<1>2. ASSUME NEW k \in 2 .. (m - 1) PROVE path[k] \in (i + 1) .. g
  <2>1. path[k + 1] < path[k]
    BY <1>1, <1>2, PathGoesBack
  <2>2. path[k] \in (i - 1 + 1) .. g /\ path[k + 1] \in (i - 1 + 1) .. g
    <3>1. k \in 2 .. m /\ k + 1 \in 2 .. m
      BY <1>1
    <3> QED BY <3>1 DEF IsPath
  <2> QED BY <1>1, <2>1, <2>2
<1>3. CASE m = 1
  <2>1. \A k \in 2 .. m : path[k] \in (i + 1) .. g
    BY <1>3
  <2> QED BY <2>1 DEF IsPath
<1>4. CASE m > 1 /\ path[m] # i
  <2>1. path[m] \in (i - 1 + 1) .. g
    BY <1>1, <1>4 DEF IsPath
  <2>2. path[m] \in (i + 1) .. g
    BY <1>1, <1>4, <2>1
  <2>3. \A k \in 2 .. m : path[k] \in (i + 1) .. g
    <3> TAKE k \in 2 .. m
    <3>1. k = m \/ k \in 2 .. (m - 1)
      BY <1>1
    <3> QED BY <1>2, <2>2, <3>1
  <2> QED BY <2>3 DEF IsPath
<1>5. CASE m > 1 /\ path[m] = i
  <2> DEFINE q == [k \in 1 .. (m - 1) |-> path[k]]
  <2>1. q \in Seq(Nat) /\ Len(q) = m - 1 /\ \A k \in 1 .. (m - 1) : q[k] = path[k]
    BY <1>1, <1>5
  <2>2. path = Append(q, i)
    <3>1. Append(q, i) \in Seq(Nat) /\ Len(Append(q, i)) = m /\ Append(q, i)[m] = i
          /\ \A k \in 1 .. (m - 1) : Append(q, i)[k] = path[k]
      BY <1>1, <2>1
    <3> HIDE DEF q
    <3>2. \A k \in 1 .. m : Append(q, i)[k] = path[k]
      <4> TAKE k \in 1 .. m
      <4>1. k = m \/ k \in 1 .. (m - 1)
        BY <1>1
      <4> QED BY <1>5, <3>1, <4>1
    <3> QED BY <1>1, <3>1, <3>2, SeqEqual
  <2> HIDE DEF q
  <2>3. n \in Differentiated(p[i])
    BY <1>5 DEF IsPath
  <2>4. q[1] = gen /\ Len(q) >= 1
    BY <1>1, <1>5, <2>1 DEF IsPath
  <2>5. \A k \in 2 .. Len(q) : q[k] \in (i + 1) .. g
    BY <1>2, <2>1
  <2>6. Len(q) = 1 => p[i].out = l
    <3> HAVE Len(q) = 1
    <3>1. \A k \in Nat : k - 1 = 1 => k = 2
      OBVIOUS
    <3>2. m = 2
      BY <1>1, <2>1, <3>1, Zenon
    <3>3. p[path[2]].out = l
      BY <1>5 DEF IsPath
    <3> QED BY <1>5, <3>2, <3>3
  <2>7. Len(q) > 1 => p[q[2]].out = l /\ p[i].out \in Differentiated(p[q[Len(q)]])
    <3> HAVE Len(q) > 1
    <3>1. p[path[2]].out = l /\ m - 1 \in 2 .. (m - 1) /\ (m - 1) + 1 = m
      BY <1>1, <1>5, <2>1 DEF IsPath
    <3>2. p[path[m - 1 + 1]].out \in Differentiated(p[path[m - 1]])
      BY <3>1 DEF IsPath
    <3>3. q[2] = path[2] /\ q[Len(q)] = path[m - 1]
      BY <2>1, <3>1
    <3> QED BY <1>5, <3>1, <3>2, <3>3
  <2>8. ASSUME NEW k \in 2 .. (Len(q) - 1) PROVE p[q[k + 1]].out \in Differentiated(p[q[k]])
    <3>1. k \in 2 .. (m - 1) /\ q[k] = path[k] /\ q[k + 1] = path[k + 1]
      BY <1>1, <2>1
    <3>2. p[path[k + 1]].out \in Differentiated(p[path[k]])
      BY <3>1 DEF IsPath
    <3> QED BY <3>1, <3>2
  <2>9. IsPath(p, l, gen, q, p[i].out, i, g)
    BY <2>1, <2>4, <2>5, <2>6, <2>7, <2>8 DEF IsPath
  <2> QED BY <2>2, <2>3, <2>9 DEF PassesLast
<1>6. m = 1 \/ m > 1
  BY <1>1, OneOrMore, Zenon
<1> QED BY <1>3, <1>4, <1>5, <1>6

-----------------------------------------------------------------------------
(***************************************************************************)
(* What the walk maintains, when the entries after i up to g have been     *)
(* visited: each gradient is the sum over the paths to its tensor,         *)
(***************************************************************************)
IsGradient(p, l, gen, n, i, g, x) ==
  /\ x.paths # {} /\ \A path \in x.paths : IsPath(p, l, gen, path, n, i, g)
  /\ DOMAIN x = {"pl", "dtype", "paths"}

Summed(p, t, l, gen, i, g, map) ==
  /\ \A n, path : IsPath(p, l, gen, path, n, i, g) => n \in DOMAIN map /\ path \in map[n].paths
  /\ \A n \in DOMAIN map : n \in DOMAIN t /\ IsGradient(p, l, gen, n, i, g, map[n])

\* it is placed like its tensor, if nothing passes another placement on,
PlacedAs(t, n, x) == x.pl = t[n].pl /\ t[n].dtype \in {"none", x.dtype}

Alike(p, t, l, g) == \A i \in 1 .. g :
  /\ p[i].kind \in {"Add", "Cast"} => p[i].out # l
  /\ p[i].kind = "Add" => \A n \in Range(p[i].ins) : t[n] = t[p[i].out]
  /\ p[i].kind = "ReduceScatter" => ~IsPartial(t[p[i].ins[1]].pl)

PlacedLike(p, t, l, g, map) ==
  Alike(p, t, l, g) => \A n \in DOMAIN map \ {l} : PlacedAs(t, n, map[n])

\* and the backward program has the duals of the entries with a gradient.
Sources(p, i, g, map, b, src) ==
  /\ src \in [1 .. Len(b) -> (i + 1) .. g]
  /\ \A j, k \in 1 .. Len(b) : j < k => src[k] < src[j]
  /\ \A j \in 1 .. Len(b) : /\ p[src[j]].kind \in EngineKinds /\ p[src[j]].out \in DOMAIN map
                            /\ b[j] = Dual(p[src[j]])
  /\ \A k \in (i + 1) .. g : p[k].kind \in EngineKinds /\ p[k].out \in DOMAIN map =>
                               \E j \in 1 .. Len(b) : src[j] = k

InReverse(p, i, g, map, b) == IsSequence(b) /\ \E src : Sources(p, i, g, map, b, src)

Walking(p, t, l, gen, i, g, w) == /\ Summed(p, t, l, gen, i, g, w.grads)
                                  /\ PlacedLike(p, t, l, g, w.grads)
                                  /\ InReverse(p, i, g, w.grads, w.bwd)

\* The gradient that an entry's vjp yields for n, of the gradient x.
LEMMA VjpIs ==
  ASSUME Books, Saved, NEW i \in 1 .. Len(tape), NEW x
  PROVE  /\ DOMAIN Vjp(i, x) = Differentiated(program[i])
         /\ \A n \in Differentiated(program[i]) :
              Vjp(i, x)[n] = [pl    |-> GradPlacement(program[i], tensors[n].pl, x.pl),
                              dtype |-> GradDtype(program[i], tensors[n].dtype, x.dtype),
                              paths |-> {Append(q, i) : q \in x.paths}]
         /\ program[i] \in Menu /\ i \in 1 .. Len(program)
<1>1. tape[i].op = program[i] /\ Len(tape) \in Nat /\ Len(program) \in Nat
      /\ Len(tape) <= Len(program) /\ program \in Seq(Menu)
  BY DEF Books, IsSequence, Programmed
<1>2. i \in 1 .. Len(program) /\ program[i] \in Menu
  BY <1>1
<1>3. \A n \in Differentiated(program[i]) : tape[i].saved[n] = tensors[n]
  BY <1>1, <1>2, DifferentiatedIsRead DEF Saved
<1> QED BY <1>1, <1>2, <1>3 DEF Vjp

\* Entry i is skipped: there is no path to its output.
LEMMA SkippedIsSummed ==
  ASSUME Books, Single(program), NEW l, NEW gen, NEW g \in 1 .. Len(tape), NEW i \in 1 .. g,
         NEW map, Summed(program, tensors, l, gen, i, g, map), program[i].out \notin DOMAIN map
  PROVE  Summed(program, tensors, l, gen, i - 1, g, map)
<1>1. g \in 0 .. Len(program) /\ Programmed(program) /\ g \in Nat
  BY DEF Books, IsSequence, Programmed
<1>2. ASSUME NEW n, NEW path, IsPath(program, l, gen, path, n, i - 1, g)
      PROVE  n \in DOMAIN map /\ path \in map[n].paths
  <2>1. ~ \E q : IsPath(program, l, gen, q, program[i].out, i, g)
    BY DEF Summed
  <2>2. IsPath(program, l, gen, path, n, i, g)
    BY <1>1, <1>2, <2>1, PathEnds DEF PassesLast
  <2> QED BY <2>2 DEF Summed
<1>3. ASSUME NEW n \in DOMAIN map
      PROVE  n \in DOMAIN tensors /\ IsGradient(program, l, gen, n, i - 1, g, map[n])
  <2>1. n \in DOMAIN tensors /\ IsGradient(program, l, gen, n, i, g, map[n])
    BY DEF Summed
  <2>2. \A path \in map[n].paths : IsPath(program, l, gen, path, n, i - 1, g)
    BY <1>1, <2>1, PathStays DEF IsGradient
  <2> QED BY <2>1, <2>2 DEF IsGradient
<1> QED BY <1>2, <1>3 DEF Summed

\* The inputs of an entry are tensors.
LEMMA NamesAreTensors ==
  ASSUME Books, NEW i \in 1 .. Len(program)
  PROVE  program[i].out \in DOMAIN tensors /\ Range(program[i].ins) \subseteq DOMAIN tensors
<1>1. program \in Seq(Menu) /\ DOMAIN program = 1 .. Len(program) /\ Len(program) \in Nat
  BY DEF Books, Programmed
<1>2. program[i].out \in DOMAIN tensors
  BY <1>1 DEF Books
<1>3. \A n \in Range(program[i].ins) : n \in Inputs \/ \E j \in 1 .. (i - 1) : program[j].out = n
  BY <1>1 DEF Books, Programmed
<1>4. \A j \in 1 .. (i - 1) : j \in DOMAIN program
  BY <1>1
<1>5. \A n \in Range(program[i].ins) : n \in Inputs \cup {program[j].out : j \in DOMAIN program}
  BY <1>3, <1>4
<1> QED BY <1>2, <1>5 DEF Books

\* Entry i is visited: its contributions are those of the paths through it.
LEMMA VisitedIsSummed ==
  ASSUME Books, Single(program), Saved, NEW l, NEW gen, NEW g \in 1 .. Len(tape), NEW i \in 1 .. g,
         NEW map, Summed(program, tensors, l, gen, i, g, map), program[i].out \in DOMAIN map
  PROVE  Summed(program, tensors, l, gen, i - 1, g,
                Accumulated(map, Vjp(i, map[program[i].out])))
<1> DEFINE x == map[program[i].out]
           new == Vjp(i, x)
           sum == Accumulated(map, new)
<1>1. g \in 0 .. Len(program) /\ Programmed(program) /\ g \in Nat /\ i \in 1 .. Len(tape)
  BY DEF Books, IsSequence, Programmed
<1>2. /\ DOMAIN new = Differentiated(program[i])
      /\ \A n \in DOMAIN new : /\ new[n].paths = {Append(q, i) : q \in x.paths}
                               /\ DOMAIN new[n] = {"pl", "dtype", "paths"}
      /\ program[i] \in Menu /\ i \in 1 .. Len(program)
  <2>1. /\ DOMAIN new = Differentiated(program[i])
        /\ \A n \in Differentiated(program[i]) :
             new[n] = [pl    |-> GradPlacement(program[i], tensors[n].pl, x.pl),
                       dtype |-> GradDtype(program[i], tensors[n].dtype, x.dtype),
                       paths |-> {Append(q, i) : q \in x.paths}]
        /\ program[i] \in Menu /\ i \in 1 .. Len(program)
    BY <1>1, VjpIs
  <2> HIDE DEF new, x
  <2>2. ASSUME NEW n \in Differentiated(program[i])
        PROVE  /\ new[n].paths = {Append(q, i) : q \in x.paths}
               /\ DOMAIN new[n] = {"pl", "dtype", "paths"}
    BY <2>1
  <2> QED BY <2>1, <2>2, Zenon
<1>3. /\ DOMAIN sum = DOMAIN map \cup DOMAIN new
      /\ \A n \in DOMAIN sum :
           sum[n] = IF n \notin DOMAIN map THEN new[n]
                    ELSE IF n \notin DOMAIN new THEN map[n]
                    ELSE [map[n] EXCEPT !.paths = @ \cup new[n].paths]
  BY DEF Accumulated
<1> HIDE DEF sum, new
<1>4. /\ x.paths # {}
      /\ \A q \in x.paths : IsPath(program, l, gen, q, program[i].out, i, g)
      /\ \A q : IsPath(program, l, gen, q, program[i].out, i, g) => q \in x.paths
  BY DEF Summed, IsGradient
<1> HIDE DEF x
<1>5. \A n \in DOMAIN map : DOMAIN map[n] = {"pl", "dtype", "paths"}
  BY DEF Summed, IsGradient
<1>6. ASSUME NEW n \in DOMAIN sum
      PROVE  /\ DOMAIN sum[n] = {"pl", "dtype", "paths"}
             /\ n \in DOMAIN map \/ n \in DOMAIN new
             /\ n \in DOMAIN map => \A path \in map[n].paths : path \in sum[n].paths
             /\ n \in DOMAIN new => \A path \in new[n].paths : path \in sum[n].paths
             /\ \A path \in sum[n].paths : \/ n \in DOMAIN map /\ path \in map[n].paths
                                           \/ n \in DOMAIN new /\ path \in new[n].paths
  <2>1. CASE n \notin DOMAIN map
    <3>1. sum[n] = new[n] /\ n \in DOMAIN new
      BY <1>3, <2>1
    <3> QED BY <1>2, <2>1, <3>1
  <2>2. CASE n \in DOMAIN map /\ n \notin DOMAIN new
    <3>1. sum[n] = map[n]
      BY <1>3, <2>2
    <3> QED BY <1>5, <2>2, <3>1
  <2>3. CASE n \in DOMAIN map /\ n \in DOMAIN new
    <3>1. sum[n] = [map[n] EXCEPT !.paths = @ \cup new[n].paths]
      BY <1>3, <2>3
    <3>2. sum[n].paths = map[n].paths \cup new[n].paths /\ DOMAIN sum[n] = {"pl", "dtype", "paths"}
      BY <1>5, <2>3, <3>1
    <3> QED BY <2>3, <3>2
  <2> QED BY <2>1, <2>2, <2>3
<1>7. ASSUME NEW n, NEW path, IsPath(program, l, gen, path, n, i - 1, g)
      PROVE  n \in DOMAIN sum /\ path \in sum[n].paths
  <2>1. CASE IsPath(program, l, gen, path, n, i, g)
    <3>1. n \in DOMAIN map /\ path \in map[n].paths
      BY <2>1 DEF Summed
    <3> QED BY <1>3, <1>6, <3>1
  <2>2. CASE PassesLast(program, l, gen, path, n, i, g)
    <3>1. PICK q : q \in x.paths /\ path = Append(q, i)
      BY <1>4, <2>2 DEF PassesLast
    <3>2. n \in DOMAIN new /\ path \in new[n].paths
      BY <1>2, <2>2, <3>1 DEF PassesLast
    <3> QED BY <1>3, <1>6, <3>2
  <2>3. IsPath(program, l, gen, path, n, i, g) \/ PassesLast(program, l, gen, path, n, i, g)
    BY <1>1, <1>7, PathEnds
  <2> QED BY <2>1, <2>2, <2>3
<1>8. ASSUME NEW n \in DOMAIN sum
      PROVE  n \in DOMAIN tensors /\ IsGradient(program, l, gen, n, i - 1, g, sum[n])
  <2>1. \A path : n \in DOMAIN map /\ path \in map[n].paths
                    => IsPath(program, l, gen, path, n, i - 1, g)
    BY <1>1, PathStays DEF Summed, IsGradient
  <2>2. ASSUME NEW path, n \in DOMAIN new, path \in new[n].paths
        PROVE  IsPath(program, l, gen, path, n, i - 1, g)
    <3>1. PICK q \in x.paths : path = Append(q, i)
      BY <1>2, <2>2
    <3> QED BY <1>1, <1>2, <1>4, <2>2, <3>1, PathGoesOn
  <2>3. \A path \in sum[n].paths : IsPath(program, l, gen, path, n, i - 1, g)
    BY <1>6, <2>1, <2>2
  <2>4. n \in DOMAIN tensors
    <3>1. n \in DOMAIN new => n \in DOMAIN tensors
      BY <1>2, DifferentiatedIsRead, NamesAreTensors
    <3> QED BY <1>6, <3>1 DEF Summed
  <2>5. sum[n].paths # {}
    <3>1. n \in DOMAIN map => map[n].paths # {}
      BY DEF Summed, IsGradient
    <3>2. n \in DOMAIN new => new[n].paths # {}
      <4> SUFFICES ASSUME n \in DOMAIN new PROVE new[n].paths # {}
        OBVIOUS
      <4>1. PICK q : q \in x.paths
        BY <1>4
      <4>2. Append(q, i) \in new[n].paths
        BY <1>2, <4>1
      <4> QED BY <4>2
    <3> QED BY <1>6, <3>1, <3>2
  <2> QED BY <1>6, <2>3, <2>4, <2>5 DEF IsGradient
<1>9. Summed(program, tensors, l, gen, i - 1, g, sum)
  BY <1>7, <1>8 DEF Summed
<1> QED BY <1>9 DEF sum, new, x

\* What an entry's vjp yields is placed like the tensor.
LEMMA ContributionIsPlaced ==
  ASSUME Books, Saved, CastsRun, NEW l, NEW g \in 1 .. Len(tape), NEW i \in 1 .. g, NEW x,
         Alike(program, tensors, l, g),
         program[i].out # l => PlacedAs(tensors, program[i].out, x),
         NEW n \in Differentiated(program[i])
  PROVE  PlacedAs(tensors, n, Vjp(i, x)[n])
<1> DEFINE o == program[i]
           y == Vjp(i, x)[n]
<1>1. i \in 1 .. Len(tape) /\ i \in 1 .. Len(program)
  BY DEF Books, IsSequence, Programmed
<1>2. o \in Menu /\ n \in Range(o.ins) /\ n \in DOMAIN tensors
  <2>1. o \in Menu
    BY <1>1, VjpIs
  <2>2. n \in Range(o.ins)
    BY <2>1, DifferentiatedIsRead
  <2> QED BY <1>1, <2>1, <2>2, NamesAreTensors
<1>3. y = [pl    |-> GradPlacement(o, tensors[n].pl, x.pl),
           dtype |-> GradDtype(o, tensors[n].dtype, x.dtype),
           paths |-> {Append(q, i) : q \in x.paths}]
  BY <1>1, VjpIs
<1>4. y.pl = GradPlacement(o, tensors[n].pl, x.pl)
      /\ y.dtype = GradDtype(o, tensors[n].dtype, x.dtype)
  BY <1>3
<1>5. o.kind \in Casts \cup {"ReduceScatter"} => n = o.ins[1]
  BY <1>2, MenuAssumption DEF Range
<1>6. o.kind \in Casts => CastIsRun(o)
  BY <1>1 DEF CastsRun
<1>7. /\ o.kind \in {"Add", "Cast"} => o.out # l
      /\ o.kind = "Add" => tensors[n] = tensors[o.out]
      /\ o.kind = "ReduceScatter" => ~IsPartial(tensors[o.ins[1]].pl)
  BY <1>2 DEF Alike
<1> HIDE DEF o, y
<1>8. CASE o.kind = "Add"
  <2>1. y.pl = x.pl /\ y.dtype = x.dtype
    BY <1>4, <1>8 DEF GradPlacement, GradDtype, Casts
  <2>2. PlacedAs(tensors, o.out, x)
    BY <1>7, <1>8 DEF o
  <2> QED BY <1>7, <1>8, <2>1, <2>2 DEF PlacedAs, y
<1>9. CASE o.kind \in Casts
  <2>1. y.dtype = o.src_dtype /\ tensors[n].dtype \in {"none", o.src_dtype}
    BY <1>4, <1>5, <1>6, <1>9 DEF GradDtype, CastIsRun
  <2>2. y.pl = tensors[n].pl
    <3>1. CASE o.kind = "Cast"
      <4>1. y.pl = x.pl
        BY <1>4, <3>1 DEF GradPlacement
      <4>2. PlacedAs(tensors, o.out, x)
        BY <1>7, <3>1 DEF o
      <4> QED BY <1>5, <1>6, <1>9, <4>1, <4>2 DEF PlacedAs, CastIsRun
    <3>2. CASE o.kind # "Cast"
      BY <1>4, <1>9, <3>2 DEF GradPlacement, Casts
    <3> QED BY <3>1, <3>2
  <2> QED BY <2>1, <2>2 DEF PlacedAs, y
<1>10. CASE o.kind = "ReduceScatter"
  <2> DEFINE z == tensors[n].pl
  <2>1. z \in Placements
    BY <1>2 DEF Books
  <2>2. \A d \in MeshDims : z[d] # "P"
    BY <1>5, <1>7, <1>10 DEF IsPartial
  <2>3. GatheredPlacement(o, z) = z
    <3> HIDE DEF z
    <3> QED BY <2>1, <2>2 DEF GatheredPlacement, Changed, Placements
  <2>4. y.pl = z /\ y.dtype = tensors[n].dtype
    BY <1>4, <1>10, <2>3 DEF GradPlacement, GradDtype, Casts
  <2> QED BY <2>4 DEF PlacedAs, y
<1>11. CASE o.kind \notin Casts \cup {"Add", "ReduceScatter"}
  <2>1. y.pl = tensors[n].pl /\ y.dtype = tensors[n].dtype
    BY <1>4, <1>11 DEF GradPlacement, GradDtype, Casts
  <2> QED BY <2>1 DEF PlacedAs, y
<1> QED BY <1>8, <1>9, <1>10, <1>11

\* The first contribution's placement and type stay.
LEMMA VisitedIsPlaced ==
  ASSUME Books, Saved, CastsRun, NEW l, NEW g \in 1 .. Len(tape), NEW i \in 1 .. g, NEW map,
         \A n \in DOMAIN map : DOMAIN map[n] = {"pl", "dtype", "paths"},
         PlacedLike(program, tensors, l, g, map), program[i].out \in DOMAIN map
  PROVE  PlacedLike(program, tensors, l, g, Accumulated(map, Vjp(i, map[program[i].out])))
<1> DEFINE x == map[program[i].out]
           new == Vjp(i, x)
           sum == Accumulated(map, new)
<1>1. i \in 1 .. Len(tape)
  BY DEF Books, IsSequence
<1>2. DOMAIN new = Differentiated(program[i])
  BY <1>1, VjpIs
<1>3. /\ DOMAIN sum = DOMAIN map \cup DOMAIN new
      /\ \A n \in DOMAIN sum :
           sum[n] = IF n \notin DOMAIN map THEN new[n]
                    ELSE IF n \notin DOMAIN new THEN map[n]
                    ELSE [map[n] EXCEPT !.paths = @ \cup new[n].paths]
  BY DEF Accumulated
<1> HIDE DEF sum
<1>4. ASSUME Alike(program, tensors, l, g), NEW n \in DOMAIN sum \ {l}
      PROVE  PlacedAs(tensors, n, sum[n])
  <2>1. CASE n \in DOMAIN map
    <3>1. sum[n].pl = map[n].pl /\ sum[n].dtype = map[n].dtype
      <4> HIDE DEF new
      <4> QED BY <1>3, <2>1
    <3>2. PlacedAs(tensors, n, map[n])
      BY <1>4, <2>1 DEF PlacedLike
    <3> QED BY <3>1, <3>2 DEF PlacedAs
  <2>2. CASE n \notin DOMAIN map
    <3>1. sum[n] = new[n] /\ n \in Differentiated(program[i])
      BY <1>2, <1>3, <2>2
    <3>2. program[i].out # l => PlacedAs(tensors, program[i].out, x)
      BY <1>4 DEF PlacedLike
    <3>3. PlacedAs(tensors, n, new[n])
      <4> HIDE DEF x
      <4> QED BY <1>4, <3>1, <3>2, ContributionIsPlaced
    <3> QED BY <3>1, <3>3
  <2> QED BY <2>1, <2>2
<1>5. PlacedLike(program, tensors, l, g, sum)
  BY <1>4 DEF PlacedLike
<1> QED BY <1>5 DEF sum

-----------------------------------------------------------------------------
\* A skipped entry has no dual.
LEMMA SkippedInReverse ==
  ASSUME NEW p, NEW g \in Nat, NEW i \in 1 .. g, NEW map, NEW b, InReverse(p, i, g, map, b),
         p[i].out \notin DOMAIN map
  PROVE  InReverse(p, i - 1, g, map, b)
<1>1. PICK src : Sources(p, i, g, map, b, src)
  BY DEF InReverse
<1>2. \A k \in (i - 1 + 1) .. g : k = i \/ k \in (i + 1) .. g
  OBVIOUS
<1>3. \A k \in (i + 1) .. g : k \in (i - 1 + 1) .. g
  OBVIOUS
<1>4. src \in [1 .. Len(b) -> (i - 1 + 1) .. g]
  BY <1>1, <1>3 DEF Sources
<1>5. \A k \in (i - 1 + 1) .. g : p[k].kind \in EngineKinds /\ p[k].out \in DOMAIN map =>
                                    \E j \in 1 .. Len(b) : src[j] = k
  BY <1>1, <1>2 DEF Sources
<1>6. Sources(p, i - 1, g, map, b, src)
  BY <1>1, <1>4, <1>5 DEF Sources
<1> QED BY <1>6 DEF InReverse

\* A visited collective is the next that has one, and no entry visited
\* before gets a gradient now.
LEMMA VisitedInReverse ==
  ASSUME NEW p, Programmed(p), Single(p), NEW g \in 0 .. Len(p), NEW i \in 1 .. g, NEW map, NEW b,
         InReverse(p, i, g, map, b), p[i].out \in DOMAIN map,
         NEW sum, DOMAIN sum = DOMAIN map \cup Differentiated(p[i])
  PROVE  InReverse(p, i - 1, g, sum, WithDual(b, p[i]))
<1>1. Len(p) \in Nat
  BY DEF Programmed
<1>2. ASSUME NEW k \in i .. g PROVE p[k].out \in DOMAIN sum <=> p[k].out \in DOMAIN map
  <2>1. i \in 1 .. Len(p) /\ k \in 1 .. Len(p) /\ ~ (k < i)
    BY <1>1
  <2>2. p[k].out \notin Differentiated(p[i])
    BY <2>1, WrittenBefore
  <2> QED BY <2>2
<1>3. PICK src : Sources(p, i, g, map, b, src)
  BY DEF InReverse
<1>4. /\ i - 1 + 1 = i /\ i \in i .. g
      /\ \A k \in (i - 1 + 1) .. g : k = i \/ k \in (i + 1) .. g
      /\ \A k \in (i + 1) .. g : k \in i .. g /\ i < k
  BY <1>1
<1>5. PICK S : b \in Seq(S)
  BY DEF InReverse, IsSequence
<1>6. CASE p[i].kind \notin EngineKinds
  <2>1. src \in [1 .. Len(b) -> (i - 1 + 1) .. g]
    BY <1>3, <1>4 DEF Sources
  <2>2. \A j \in 1 .. Len(b) : src[j] \in i .. g
    BY <2>1, <1>4
  <2>3. \A j \in 1 .. Len(b) : /\ p[src[j]].kind \in EngineKinds /\ p[src[j]].out \in DOMAIN sum
                               /\ b[j] = Dual(p[src[j]])
    BY <1>2, <1>3, <2>2 DEF Sources
  <2>4. \A k \in (i - 1 + 1) .. g : p[k].kind \in EngineKinds /\ p[k].out \in DOMAIN sum =>
                                      \E j \in 1 .. Len(b) : src[j] = k
    BY <1>2, <1>3, <1>4, <1>6 DEF Sources
  <2>5. Sources(p, i - 1, g, sum, b, src)
    BY <1>3, <2>1, <2>3, <2>4 DEF Sources
  <2>6. WithDual(b, p[i]) = b
    BY <1>6 DEF WithDual
  <2> QED BY <2>5, <2>6 DEF InReverse
<1>7. CASE p[i].kind \in EngineKinds
  <2> DEFINE m == Len(b)
             c == Append(b, Dual(p[i]))
             f == [j \in 1 .. (m + 1) |-> IF j = m + 1 THEN i ELSE src[j]]
  <2>1. /\ m \in Nat /\ Len(c) = m + 1 /\ c[m + 1] = Dual(p[i])
        /\ \A j \in 1 .. m : c[j] = b[j]
    BY <1>5
  <2>2. IsSequence(c)
    <3>1. b \in Seq(S \cup {Dual(p[i])}) /\ Dual(p[i]) \in S \cup {Dual(p[i])}
      BY <1>5
    <3>2. c \in Seq(S \cup {Dual(p[i])})
      BY <3>1
    <3> QED BY <3>2 DEF IsSequence
  <2>3. WithDual(b, p[i]) = c
    BY <1>7 DEF WithDual
  <2>4. /\ f[m + 1] = i
        /\ \A j \in 1 .. m : f[j] = src[j] /\ src[j] \in (i + 1) .. g
        /\ \A j \in 1 .. (m + 1) : j = m + 1 \/ j \in 1 .. m
        /\ f = [j \in 1 .. (m + 1) |-> f[j]]
    BY <1>3, <2>1 DEF Sources
  <2> HIDE DEF m, c, f
  <2>5. \A j \in 1 .. (m + 1) : f[j] \in i .. g
    BY <1>4, <2>4
  <2>6. f \in [1 .. (m + 1) -> (i - 1 + 1) .. g]
    BY <1>4, <2>4, <2>5
  <2>7. ASSUME NEW j \in 1 .. (m + 1), NEW k \in 1 .. (m + 1), j < k PROVE f[k] < f[j]
    <3>1. j \in 1 .. m
      BY <2>1, <2>7
    <3>2. CASE k = m + 1
      <4>1. f[k] = i /\ f[j] = src[j] /\ src[j] \in (i + 1) .. g
        BY <2>4, <3>1, <3>2
      <4>2. i < src[j]
        BY <1>4, <4>1
      <4> QED BY <4>1, <4>2
    <3>3. CASE k \in 1 .. m
      <4>1. src[k] < src[j]
        BY <1>3, <2>7, <3>1, <3>3 DEF Sources, m
      <4> QED BY <2>4, <3>1, <3>3, <4>1
    <3> QED BY <2>4, <3>2, <3>3
  <2>8. ASSUME NEW j \in 1 .. (m + 1)
        PROVE  p[f[j]].kind \in EngineKinds /\ p[f[j]].out \in DOMAIN sum /\ c[j] = Dual(p[f[j]])
    <3>1. CASE j = m + 1
      BY <1>7, <2>1, <2>4, <3>1
    <3>2. CASE j \in 1 .. m
      <4>1. p[src[j]].kind \in EngineKinds /\ p[src[j]].out \in DOMAIN map /\ b[j] = Dual(p[src[j]])
        BY <1>3, <3>2 DEF Sources, m
      <4> QED BY <2>1, <2>4, <3>2, <4>1
    <3> QED BY <2>4, <3>1, <3>2
  <2>9. ASSUME NEW k \in (i - 1 + 1) .. g, p[k].kind \in EngineKinds, p[k].out \in DOMAIN sum
        PROVE  \E j \in 1 .. (m + 1) : f[j] = k
    <3>1. CASE k = i
      <4>1. m + 1 \in 1 .. (m + 1)
        BY <2>1
      <4> QED BY <2>4, <3>1, <4>1
    <3>2. CASE k \in (i + 1) .. g
      <4>1. p[k].out \in DOMAIN map
        BY <1>2, <1>4, <2>9, <3>2
      <4>2. PICK j \in 1 .. m : src[j] = k
        BY <1>3, <2>9, <3>2, <4>1 DEF Sources, m
      <4>3. j \in 1 .. (m + 1)
        BY <2>1
      <4> QED BY <2>4, <4>2, <4>3
    <3> QED BY <1>4, <3>1, <3>2
  <2>10. Sources(p, i - 1, g, sum, c, f)
    BY <2>1, <2>6, <2>7, <2>8, <2>9 DEF Sources
  <2> QED BY <2>2, <2>3, <2>10 DEF InReverse
<1> QED BY <1>6, <1>7

-----------------------------------------------------------------------------
\* The visit of an entry maintains all three.
LEMMA VisitKeeps ==
  ASSUME Books, Single(program), Saved, CastsRun, NEW l, NEW gen,
         NEW g \in 1 .. Len(tape), NEW i \in 1 .. g,
         NEW w, Walking(program, tensors, l, gen, i, g, w)
  PROVE  Walking(program, tensors, l, gen, i - 1, g, Visited(w, i))
<1> DEFINE v == Visited(w, i)
<1>1. /\ tape[i].op = program[i] /\ i \in 1 .. Len(tape) /\ g \in Nat
      /\ Programmed(program) /\ g \in 0 .. Len(program)
  BY DEF Books, IsSequence, Programmed
<1>2. /\ Summed(program, tensors, l, gen, i, g, w.grads)
      /\ PlacedLike(program, tensors, l, g, w.grads)
      /\ InReverse(program, i, g, w.grads, w.bwd)
  BY DEF Walking
<1>3. CASE program[i].out \notin DOMAIN w.grads
  <2>1. v = w
    BY <1>1, <1>3 DEF Visited
  <2>2. Summed(program, tensors, l, gen, i - 1, g, w.grads)
    BY <1>2, <1>3, SkippedIsSummed
  <2>3. InReverse(program, i - 1, g, w.grads, w.bwd)
    BY <1>1, <1>2, <1>3, SkippedInReverse
  <2> QED BY <1>2, <2>1, <2>2, <2>3 DEF Walking
<1>4. CASE program[i].out \in DOMAIN w.grads
  <2> DEFINE sum == Accumulated(w.grads, Vjp(i, w.grads[program[i].out]))
  <2>1. v = [grads |-> sum, bwd |-> WithDual(w.bwd, program[i])]
    BY <1>1, <1>4 DEF Visited
  <2>2. v.grads = sum /\ v.bwd = WithDual(w.bwd, program[i])
    <3> HIDE DEF sum, v
    <3> QED BY <2>1
  <2>3. Summed(program, tensors, l, gen, i - 1, g, sum)
    BY <1>2, <1>4, VisitedIsSummed
  <2>4. PlacedLike(program, tensors, l, g, sum)
    <3>1. \A n \in DOMAIN w.grads : DOMAIN w.grads[n] = {"pl", "dtype", "paths"}
      BY <1>2 DEF Summed, IsGradient
    <3> QED BY <1>2, <1>4, <3>1, VisitedIsPlaced
  <2>5. DOMAIN sum = DOMAIN w.grads \cup Differentiated(program[i])
    BY <1>1, VjpIs DEF Accumulated
  <2> HIDE DEF sum
  <2>6. InReverse(program, i - 1, g, sum, WithDual(w.bwd, program[i]))
    BY <1>1, <1>2, <1>4, <2>5, VisitedInReverse
  <2> HIDE DEF v
  <2>7. Walking(program, tensors, l, gen, i - 1, g, v)
    BY <2>2, <2>3, <2>4, <2>6 DEF Walking
  <2> QED BY <2>7 DEF v
<1> QED BY <1>3, <1>4

\* The steps of the walk.
WalkSteps(start, n, f) ==
  f = [k \in 0 .. n |-> IF k = 0 THEN start ELSE Visited(f[k - 1], Len(tape) - k + 1)]

\* They exist for every number of entries.
LEMMA WalkStepsExist ==
  ASSUME NEW start, NEW n \in Nat
  PROVE  \E f : WalkSteps(start, n, f)
<1> DEFINE S == {m \in Nat : \E f : WalkSteps(start, m, f)}
<1>1. 0 \in S
  <2> DEFINE f == [k \in 0 .. 0 |-> start]
  <2>1. WalkSteps(start, 0, f)
    BY DEF WalkSteps
  <2> QED BY <2>1
<1>2. ASSUME NEW m \in Nat, m \in S PROVE m + 1 \in S
  <2>1. PICK f : WalkSteps(start, m, f)
    BY <1>2
  <2> DEFINE h == [k \in 0 .. (m + 1) |-> IF k <= m THEN f[k]
                                          ELSE Visited(f[m], Len(tape) - (m + 1) + 1)]
  <2>2. \A k \in 0 .. (m + 1) :
          h[k] = IF k = 0 THEN start ELSE Visited(h[k - 1], Len(tape) - k + 1)
    <3> TAKE k \in 0 .. (m + 1)
    <3>1. k <= m => f[k] = IF k = 0 THEN start ELSE Visited(f[k - 1], Len(tape) - k + 1)
      BY <2>1 DEF WalkSteps
    <3> QED BY <3>1
  <2>3. h = [k \in 0 .. (m + 1) |-> h[k]]
    OBVIOUS
  <2> HIDE DEF h
  <2>4. WalkSteps(start, m + 1, h)
    BY <2>2, <2>3 DEF WalkSteps
  <2> QED BY <2>4
<1> HIDE DEF S
<1>3. Nat \subseteq S
  BY <1>1, <1>2, Induction
<1> QED BY <1>3 DEF S

\* What the walk makes of the loss's gradient.
LEMMA WalkKeeps ==
  ASSUME Books, Single(program), Saved, CastsRun, NEW l, NEW gen, Len(tape) > 0,
         NEW start, Walking(program, tensors, l, gen, Len(tape), Len(tape), start)
  PROVE  Walking(program, tensors, l, gen, 0, Len(tape), Walked(start))
<1> DEFINE n == Len(tape)
           f == CHOOSE f : WalkSteps(start, n, f)
           S == {k \in Nat : \A i \in 0 .. n :
                               i + k = n => Walking(program, tensors, l, gen, i, n, f[k])}
<1>1. n \in Nat /\ n \in 1 .. n
  BY DEF Books, IsSequence
<1>2. WalkSteps(start, n, f)
  BY <1>1, WalkStepsExist
<1>3. Walked(start) = f[n]
  BY DEF Walked, WalkSteps
<1> HIDE DEF f
<1>4. f[0] = start /\ \A k \in 1 .. n : f[k] = Visited(f[k - 1], n - k + 1)
  BY <1>1, <1>2 DEF WalkSteps
<1>5. 0 \in S
  <2>1. \A i \in 0 .. n : i + 0 = n => i = n
    BY <1>1
  <2> QED BY <1>4, <2>1
<1>6. ASSUME NEW k \in Nat, k \in S PROVE k + 1 \in S
  <2> SUFFICES ASSUME NEW i \in 0 .. n, i + (k + 1) = n
               PROVE  Walking(program, tensors, l, gen, i, n, f[k + 1])
    OBVIOUS
  <2>1. /\ k + 1 \in 1 .. n /\ i + 1 \in 0 .. n /\ (i + 1) + k = n /\ i + 1 \in 1 .. n
        /\ (k + 1) - 1 = k /\ n - (k + 1) + 1 = i + 1 /\ (i + 1) - 1 = i
    BY <1>1
  <2>2. Walking(program, tensors, l, gen, i + 1, n, f[k])
    BY <1>6, <2>1
  <2>3. f[k + 1] = Visited(f[k], i + 1)
    BY <1>4, <2>1
  <2>4. Walking(program, tensors, l, gen, (i + 1) - 1, n, Visited(f[k], i + 1))
    BY <1>1, <2>1, <2>2, VisitKeeps
  <2> QED BY <2>1, <2>3, <2>4
<1> HIDE DEF S
<1>7. Nat \subseteq S
  BY <1>5, <1>6, Induction
<1>8. n \in S /\ 0 \in 0 .. n /\ 0 + n = n
  BY <1>1, <1>7
<1>9. Walking(program, tensors, l, gen, 0, n, f[n])
  BY <1>8 DEF S
<1> QED BY <1>3, <1>9

\* The walk begins with the gradient of the loss, at the end of the tape.
LEMMA WalkBegins ==
  ASSUME Books, NEW l \in DOMAIN tensors, NEW start,
         start = [grads |-> Put(<< >>, l, Seed), bwd |-> << >>]
  PROVE  Walking(program, tensors, l, generations + 1, Len(tape), Len(tape), start)
<1> DEFINE n == Len(tape)
           gen == generations + 1
           map == Put(<< >>, l, Seed)
<1>1. n \in Nat /\ gen \in Nat
  BY DEF Books, IsSequence
<1>2. DOMAIN map = {l} /\ map[l] = Seed
  BY DEF Put
<1>3. Seed.paths = {<<gen>>} /\ DOMAIN Seed = {"pl", "dtype", "paths"}
  BY DEF Seed
<1>4. start.grads = map /\ start.bwd = << >>
  OBVIOUS
<1> HIDE DEF map
<1>5. ASSUME NEW m, NEW path, IsPath(program, l, gen, path, m, n, n)
      PROVE  m = l /\ path = <<gen>>
  <2>1. path \in Seq(Nat) /\ Len(path) \in Nat /\ Len(path) >= 1
    BY <1>5 DEF IsPath
  <2>2. ASSUME Len(path) > 1 PROVE FALSE
    <3>1. 2 \in 2 .. Len(path)
      BY <2>1, <2>2
    <3>2. path[2] \in (n + 1) .. n
      BY <1>5, <3>1 DEF IsPath
    <3> QED BY <1>1, <3>2
  <2>3. Len(path) = 1
    BY <2>1, <2>2, OneOrMore
  <2>4. m = l /\ path[1] = gen
    BY <1>5, <2>3 DEF IsPath
  <2>5. path = <<gen>>
    <3>1. <<gen>> \in Seq(Nat) /\ Len(<<gen>>) = 1
      BY <1>1
    <3>2. \A k \in 1 .. 1 : path[k] = <<gen>>[k]
      BY <2>4
    <3> QED BY <2>1, <2>3, <3>1, <3>2, SeqEqual
  <2> QED BY <2>4, <2>5
<1>6. IsPath(program, l, gen, <<gen>>, l, n, n)
  <2>1. <<gen>> \in Seq(Nat) /\ Len(<<gen>>) = 1 /\ <<gen>>[1] = gen
    BY <1>1
  <2> HIDE DEF gen
  <2> QED BY <2>1 DEF IsPath
<1>7. Summed(program, tensors, l, gen, n, n, map)
  <2>1. IsGradient(program, l, gen, l, n, n, map[l])
    BY <1>2, <1>3, <1>6 DEF IsGradient
  <2>2. \A m, path : IsPath(program, l, gen, path, m, n, n) =>
                       m \in DOMAIN map /\ path \in map[m].paths
    BY <1>2, <1>3, <1>5
  <2> QED BY <1>2, <2>1, <2>2 DEF Summed
<1>8. PlacedLike(program, tensors, l, n, map)
  BY <1>2 DEF PlacedLike
<1>9. InReverse(program, n, n, map, << >>)
  <2>1. Len(<< >>) = 0
    OBVIOUS
  <2>2. Sources(program, n, n, map, << >>, << >>)
    BY <1>1 DEF Sources
  <2> QED BY <2>2 DEF InReverse, IsSequence
<1> QED BY <1>4, <1>7, <1>8, <1>9 DEF Walking

-----------------------------------------------------------------------------
(***************************************************************************)
(* What was generated stays right when more operations are run or recorded.*)
(***************************************************************************)
SameUpTo(p, q, g) == \A k \in 1 .. g : q[k] = p[k]

LEMMA PathIsSame ==
  ASSUME NEW p, NEW q, NEW g, SameUpTo(p, q, g),
         NEW l, NEW gen, NEW path, NEW n, IsPath(p, l, gen, path, n, 0, g)
  PROVE  IsPath(q, l, gen, path, n, 0, g)
<1>1. Len(path) \in Nat /\ \A k \in 2 .. Len(path) : path[k] \in 1 .. g
  BY DEF IsPath
<1>2. \A k \in 2 .. Len(path) : q[path[k]] = p[path[k]]
  BY <1>1 DEF SameUpTo
<1>3. Len(path) > 1 => 2 \in 2 .. Len(path) /\ Len(path) \in 2 .. Len(path)
  BY <1>1
<1>4. Len(path) > 1 => q[path[2]].out = l /\ n \in Differentiated(q[path[Len(path)]])
  BY <1>2, <1>3 DEF IsPath
<1>5. ASSUME NEW k \in 2 .. (Len(path) - 1)
      PROVE  q[path[k + 1]].out \in Differentiated(q[path[k]])
  <2>1. k \in 2 .. Len(path) /\ k + 1 \in 2 .. Len(path)
    BY <1>1
  <2>2. p[path[k + 1]].out \in Differentiated(p[path[k]])
    BY DEF IsPath
  <2> QED BY <1>2, <2>1, <2>2
<1> QED BY <1>4, <1>5 DEF IsPath

LEMMA WalkingStays ==
  ASSUME NEW p, NEW q, NEW g \in Nat, SameUpTo(p, q, g), NEW t, NEW u,
         DOMAIN t \subseteq DOMAIN u, \A n \in DOMAIN t : u[n] = t[n],
         \A k \in 1 .. g : /\ p[k].out \in DOMAIN t /\ Range(p[k].ins) \subseteq DOMAIN t
                           /\ 1 \in DOMAIN p[k].ins,
         NEW l, NEW gen, NEW w, Walking(p, t, l, gen, 0, g, w)
  PROVE  Walking(q, u, l, gen, 0, g, w)
<1>1. SameUpTo(q, p, g)
  BY DEF SameUpTo
<1>2. \A path, n : IsPath(q, l, gen, path, n, 0, g) <=> IsPath(p, l, gen, path, n, 0, g)
  BY <1>1, PathIsSame
<1>3. Summed(p, t, l, gen, 0, g, w.grads)
  BY DEF Walking
<1>4. Summed(q, u, l, gen, 0, g, w.grads)
  <2>1. \A n \in DOMAIN w.grads : n \in DOMAIN u /\ IsGradient(q, l, gen, n, 0, g, w.grads[n])
    BY <1>2, <1>3 DEF Summed, IsGradient
  <2> QED BY <1>2, <1>3, <2>1 DEF Summed
<1>5. PlacedLike(q, u, l, g, w.grads)
  <2> SUFFICES ASSUME Alike(q, u, l, g), NEW n \in DOMAIN w.grads \ {l}
               PROVE  PlacedAs(u, n, w.grads[n])
    BY DEF PlacedLike
  <2>1. ASSUME NEW k \in 1 .. g
        PROVE  /\ p[k].kind \in {"Add", "Cast"} => p[k].out # l
               /\ p[k].kind = "Add" => \A m \in Range(p[k].ins) : t[m] = t[p[k].out]
               /\ p[k].kind = "ReduceScatter" => ~IsPartial(t[p[k].ins[1]].pl)
    <3>1. q[k] = p[k]
      BY DEF SameUpTo
    <3>2. u[p[k].out] = t[p[k].out] /\ \A m \in Range(p[k].ins) : u[m] = t[m]
      OBVIOUS
    <3>3. u[p[k].ins[1]] = t[p[k].ins[1]]
      BY <3>2 DEF Range
    <3>4. /\ p[k].kind \in {"Add", "Cast"} => p[k].out # l
          /\ p[k].kind = "Add" => \A m \in Range(p[k].ins) : u[m] = u[p[k].out]
          /\ p[k].kind = "ReduceScatter" => ~IsPartial(u[p[k].ins[1]].pl)
      BY <3>1 DEF Alike
    <3> QED BY <3>2, <3>3, <3>4
  <2>2. Alike(p, t, l, g)
    BY <2>1 DEF Alike
  <2>3. PlacedAs(t, n, w.grads[n])
    BY <2>2 DEF Walking, PlacedLike
  <2>4. n \in DOMAIN t
    BY <1>3 DEF Summed
  <2> QED BY <2>3, <2>4 DEF PlacedAs
<1>6. InReverse(q, 0, g, w.grads, w.bwd)
  <2>1. PICK src : Sources(p, 0, g, w.grads, w.bwd, src)
    BY DEF Walking, InReverse
  <2>2. \A j \in 1 .. Len(w.bwd) : src[j] \in 1 .. g
    BY <2>1 DEF Sources
  <2>3. Sources(q, 0, g, w.grads, w.bwd, src)
    <3>1. \A j \in 1 .. Len(w.bwd) : q[src[j]] = p[src[j]]
      BY <2>2 DEF SameUpTo
    <3>2. \A k \in (0 + 1) .. g : q[k] = p[k]
      BY DEF SameUpTo
    <3> QED BY <2>1, <3>1, <3>2 DEF Sources
  <2> QED BY <2>3 DEF Walking, InReverse
<1> QED BY <1>4, <1>5, <1>6 DEF Walking

-----------------------------------------------------------------------------
(***************************************************************************)
(* The invariant: if the gradients are of one call and names are written   *)
(* once, they are those of a walk over the tape as it was then.            *)
(***************************************************************************)
Backward == [grads |-> grads, bwd |-> bwd]

WalkedTo(g) == /\ \E k \in 1 .. g : program[k].out = loss
               /\ Walking(program, tensors, loss, generations, 0, g, Backward)

GradsRight == clean /\ Single(program) => \E g \in 1 .. Len(tape) : WalkedTo(g)

Inv == Books /\ Kept /\ GradsRight

LEMMA InitInv == Init => Inv
<1> SUFFICES ASSUME Init PROVE Inv
  OBVIOUS
<1>1. /\ program = << >> /\ tape = << >> /\ generations = 0 /\ clean = FALSE
      /\ tensors \in [Inputs -> InputTensors]
  BY DEF Init
<1>2. Programmed(program) /\ IsSequence(tape) /\ Len(program) = 0 /\ Len(tape) = 0
  BY <1>1 DEF Programmed, IsSequence
<1>3. /\ DOMAIN tensors = Inputs \cup {program[i].out : i \in DOMAIN program}
      /\ \A n \in DOMAIN tensors : tensors[n].pl \in Placements
  BY <1>1, InputsAssumption
<1>4. Books
  BY <1>1, <1>2, <1>3 DEF Books
<1> QED BY <1>1, <1>2, <1>4 DEF Inv, Kept, Saved, CastsRun, GradsRight

LEMMA RunOpInv == Inv /\ RunOp => Inv'
<1> SUFFICES ASSUME Inv, RunOp PROVE Inv'
  OBVIOUS
<1>1. PICK o \in Menu :
        /\ Range(o.ins) \subseteq DOMAIN tensors /\ ~RunRaises(o)
        /\ tensors' = Put(tensors, o.out, [pl |-> ResultPlacement(o), dtype |-> ResultDtype(o)])
        /\ program' = Append(program, o)
  BY DEF RunOp
<1>2. UNCHANGED <<tape, grads, bwd, loss, generations, clean>>
  BY DEF RunOp
<1>3. Books /\ Kept /\ GradsRight
  BY DEF Inv
<1>4. Books'
  BY <1>1, <1>2, <1>3, RunKeepsBooks
<1>5. Single(program') => /\ Saved' /\ CastsRun' /\ Single(program) /\ o.out \notin DOMAIN tensors
                          /\ \A n \in DOMAIN tensors : tensors'[n] = tensors[n]
  BY <1>1, <1>2, <1>3, RunKeeps
<1>6. Kept'
  BY <1>5 DEF Kept
<1>7. GradsRight'
  <2> SUFFICES ASSUME clean, Single(program') PROVE \E g \in 1 .. Len(tape) : WalkedTo(g)'
    BY <1>2 DEF GradsRight
  <2>1. PICK g \in 1 .. Len(tape) : WalkedTo(g)
    BY <1>3, <1>5 DEF GradsRight
  <2>2. /\ Len(tape) \in Nat /\ Len(program) \in Nat /\ Len(tape) <= Len(program)
        /\ program \in Seq(Menu) /\ g \in Nat
    BY <1>3 DEF Books, IsSequence, Programmed
  <2>3. \A k \in 1 .. g : k \in 1 .. Len(program) /\ program[k] \in Menu
    BY <2>2
  <2>4. SameUpTo(program, program', g)
    BY <1>1, <2>2 DEF SameUpTo
  <2>5. DOMAIN tensors \subseteq DOMAIN tensors'
    BY <1>1 DEF Put
  <2>6. \A k \in 1 .. g : /\ program[k].out \in DOMAIN tensors
                          /\ Range(program[k].ins) \subseteq DOMAIN tensors
                          /\ 1 \in DOMAIN program[k].ins
    BY <1>3, <2>3, NamesAreTensors, MenuAssumption
  <2>7. Walking(program', tensors', loss, generations, 0, g, Backward)
    <3>1. Walking(program, tensors, loss, generations, 0, g, Backward)
      BY <2>1 DEF WalkedTo
    <3>2. \A n \in DOMAIN tensors : tensors'[n] = tensors[n]
      BY <1>5
    <3> QED BY <2>2, <2>4, <2>5, <2>6, <3>1, <3>2, WalkingStays
  <2>8. \E k \in 1 .. g : program'[k].out = loss
    BY <2>1, <2>4 DEF WalkedTo, SameUpTo
  <2>9. Backward' = Backward
    BY <1>2 DEF Backward
  <2> QED BY <1>2, <2>7, <2>8, <2>9 DEF WalkedTo
<1> QED BY <1>4, <1>6, <1>7 DEF Inv

LEMMA RecordInv == Inv /\ Record => Inv'
<1> SUFFICES ASSUME Inv, Record PROVE Inv'
  OBVIOUS
<1> DEFINE o == program[Len(tape) + 1]
           e == [op |-> o, saved |-> Restrict(tensors, Range(o.ins) \cup {o.out})]
<1>1. /\ Len(tape) < Len(program) /\ tape' = Append(tape, e)
      /\ UNCHANGED <<tensors, program, grads, bwd, loss, generations, clean>>
  BY DEF Record
<1>2. Books /\ Kept /\ GradsRight
  BY DEF Inv
<1>3. e.op = o /\ e.saved = Restrict(tensors, Range(o.ins) \cup {o.out})
  OBVIOUS
<1> HIDE DEF e
<1>4. /\ Books' /\ Len(tape') = Len(tape) + 1 /\ Len(tape) \in Nat
      /\ tape'[Len(tape) + 1] = e
      /\ \A i \in 1 .. Len(tape) : tape'[i] = tape[i]
  BY <1>1, <1>2, <1>3, TapeGrows
<1>5. Kept'
  <2> SUFFICES ASSUME Single(program) PROVE Saved' /\ CastsRun'
    BY <1>1 DEF Kept
  <2>1. Saved /\ CastsRun
    BY <1>2 DEF Kept
  <2>2. CastsRun'
    BY <1>1, <2>1 DEF CastsRun, CastIsRun
  <2>3. Len(tape) + 1 \in 1 .. Len(program)
    BY <1>1, <1>4 DEF Books, Programmed
  <2>4. o.out \in DOMAIN tensors /\ Range(o.ins) \subseteq DOMAIN tensors
    BY <1>2, <2>3, NamesAreTensors
  <2>5. ASSUME NEW i \in 1 .. Len(tape'), NEW n \in Range(tape'[i].op.ins) \cup {tape'[i].op.out}
        PROVE  tape'[i].saved[n] = tensors[n]
    <3>1. CASE i \in 1 .. Len(tape)
      BY <1>4, <2>1, <2>5, <3>1 DEF Saved
    <3>2. CASE i = Len(tape) + 1
      <4>1. tape'[i] = e
        BY <1>4, <3>2
      <4>2. n \in Range(o.ins) \cup {o.out}
        BY <1>3, <2>5, <4>1
      <4>3. e.saved[n] = tensors[n]
        <5> HIDE DEF o
        <5> QED BY <1>3, <2>4, <4>2 DEF Restrict
      <4> QED BY <4>1, <4>3
    <3> QED BY <1>4, <3>1, <3>2
  <2>6. Saved'
    BY <1>1, <2>5 DEF Saved
  <2> QED BY <2>2, <2>6
<1>6. GradsRight'
  <2> SUFFICES ASSUME clean, Single(program) PROVE \E g \in 1 .. Len(tape') : WalkedTo(g)'
    BY <1>1 DEF GradsRight
  <2>1. PICK g \in 1 .. Len(tape) : WalkedTo(g)
    BY <1>2 DEF GradsRight
  <2>2. g \in 1 .. Len(tape')
    BY <1>4
  <2>3. Backward' = Backward
    BY <1>1 DEF Backward
  <2> QED BY <1>1, <2>1, <2>2, <2>3 DEF WalkedTo
<1> QED BY <1>4, <1>5, <1>6 DEF Inv

LEMMA GenerateBackwardInv == Inv /\ GenerateBackward => Inv'
<1> SUFFICES ASSUME Inv, GenerateBackward PROVE Inv'
  OBVIOUS
<1>1. PICK n \in {tape[i].op.out : i \in DOMAIN tape} :
        LET w == Walked([grads |-> Put(grads, n, Seed), bwd |-> << >>])
        IN  grads' = w.grads /\ bwd' = w.bwd /\ loss' = n
  BY DEF GenerateBackward
<1>2. /\ generations' = generations + 1 /\ clean' = (grads = << >>)
      /\ UNCHANGED <<tensors, program, tape>> /\ tape # << >>
  BY DEF GenerateBackward
<1>3. Books /\ Kept
  BY DEF Inv
<1>4. Books'
  BY <1>2, <1>3 DEF Books
<1>5. Kept'
  BY <1>2, <1>3 DEF Kept, Saved, CastsRun, CastIsRun
<1>6. GradsRight'
  <2> SUFFICES ASSUME clean', Single(program) PROVE \E g \in 1 .. Len(tape) : WalkedTo(g)'
    BY <1>2 DEF GradsRight
  <2> DEFINE start == [grads |-> Put(<< >>, n, Seed), bwd |-> << >>]
             w == Walked(start)
  <2>1. grads = << >>
    BY <1>2
  <2>2. grads' = w.grads /\ bwd' = w.bwd /\ loss' = n
    BY <1>1, <2>1
  <2>3. /\ Len(tape) \in Nat /\ Len(program) \in Nat /\ Len(tape) <= Len(program)
        /\ DOMAIN tape = 1 .. Len(tape) /\ Len(tape) > 0
    BY <1>2, <1>3 DEF Books, IsSequence, Programmed
  <2>4. PICK k \in 1 .. Len(tape) : program[k].out = n
    BY <1>3, <2>3 DEF Books
  <2>5. n \in DOMAIN tensors
    BY <1>3, <2>3, <2>4, NamesAreTensors
  <2>6. Walking(program, tensors, n, generations + 1, Len(tape), Len(tape), start)
    BY <1>3, <2>5, WalkBegins
  <2>7. Saved /\ CastsRun
    BY <1>3 DEF Kept
  <2> HIDE DEF start
  <2>8. Walking(program, tensors, n, generations + 1, 0, Len(tape), w)
    BY <1>3, <2>3, <2>6, <2>7, WalkKeeps
  <2> HIDE DEF w
  <2>9. Backward'.grads = w.grads /\ Backward'.bwd = w.bwd
    BY <2>2 DEF Backward
  <2>10. Walking(program, tensors, n, generations + 1, 0, Len(tape), Backward')
    BY <2>8, <2>9 DEF Walking
  <2>11. Len(tape) \in 1 .. Len(tape)
    BY <2>3
  <2>12. WalkedTo(Len(tape))'
    BY <1>2, <2>2, <2>4, <2>10 DEF WalkedTo
  <2> QED BY <1>2, <2>11, <2>12
<1> QED BY <1>4, <1>5, <1>6 DEF Inv

LEMMA ResetInv == Inv /\ Reset => Inv'
<1> SUFFICES ASSUME Inv, Reset PROVE Inv'
  OBVIOUS
<1>1. /\ program' = << >> /\ tape' = << >> /\ tensors' = Restrict(tensors, Inputs)
      /\ clean' = FALSE /\ generations' = generations
  BY DEF Reset
<1>2. Books
  BY DEF Inv
<1>3. Inputs \subseteq DOMAIN tensors
  BY <1>2 DEF Books
<1>4. DOMAIN tensors' = Inputs /\ \A n \in Inputs : tensors'[n].pl \in Placements
  BY <1>1, <1>2, <1>3 DEF Books, Restrict
<1>5. Books' /\ Kept'
  BY <1>1, <1>2, <1>4, BooksCleared DEF Books
<1> QED BY <1>1, <1>5 DEF Inv, GradsRight

\* The engine's books and gradients are right in every reachable state.
THEOREM EngineInvariance == Spec => []Inv
<1>1. Init => Inv
  BY InitInv
<1>2. Inv /\ [Next]_vars => Inv'
  <2> SUFFICES ASSUME Inv, [Next]_vars PROVE Inv'
    OBVIOUS
  <2>1. CASE UNCHANGED vars
    BY <2>1 DEF vars, Inv, Books, Kept, Saved, CastsRun, CastIsRun, GradsRight, WalkedTo, Backward
  <2> QED BY <2>1, RunOpInv, RecordInv, GenerateBackwardInv, ResetInv DEF Next
<1> QED BY <1>1, <1>2, PTL DEF Spec

-----------------------------------------------------------------------------
(***************************************************************************)
(* Gradients are placed like their tensors and of their types, under the   *)
(* condition that no sum in the program changes what a gradient passes:    *)
(* generate_backward keeps the first contribution's placement and type.    *)
(***************************************************************************)
THEOREM PlacedGradients == Spec => []GradientsPlaced
<1>1. Inv => GradientsPlaced
  <2> SUFFICES ASSUME Inv, clean, Single(program), PassedOnAlike, ScattersWhole
               PROVE  Misplaced \subseteq {loss} /\ Mistyped = {}
    BY SingleIsWritesOnce DEF GradientsPlaced
  <2>1. PICK g \in 1 .. Len(tape) : WalkedTo(g)
    BY DEF Inv, GradsRight
  <2>2. /\ DOMAIN tape = 1 .. Len(tape) /\ Len(tape) \in Nat
        /\ \A i \in 1 .. Len(tape) : tape[i].op = program[i] /\ program[i] \in Menu
    BY DEF Inv, Books, IsSequence, Programmed
  <2>3. Saved
    BY DEF Inv, Kept
  <2>4. Alike(program, tensors, loss, g)
    <3> SUFFICES ASSUME NEW i \in 1 .. g
                 PROVE  /\ program[i].kind \in {"Add", "Cast"} => program[i].out # loss
                        /\ program[i].kind = "Add" =>
                             \A n \in Range(program[i].ins) : tensors[n] = tensors[program[i].out]
                        /\ program[i].kind = "ReduceScatter" =>
                             ~IsPartial(tensors[program[i].ins[1]].pl)
      BY DEF Alike
    <3>1. i \in 1 .. Len(tape) /\ i \in DOMAIN tape
      BY <2>2
    <3>2. tape[i].op = program[i] /\ program[i] \in Menu
      BY <2>2, <3>1
    <3>3. \A n \in Range(program[i].ins) \cup {program[i].out} : tape[i].saved[n] = tensors[n]
      BY <2>3, <3>1, <3>2 DEF Saved
    <3>4. program[i].ins[1] \in Range(program[i].ins)
      BY <3>2, MenuAssumption DEF Range
    <3>5. program[i].kind \in {"Add", "Cast"} => program[i].out # loss
      BY <3>1, <3>2 DEF PassedOnAlike
    <3>6. program[i].kind = "Add" =>
            \A n \in Range(program[i].ins) : tape[i].saved[n] = tape[i].saved[program[i].out]
      BY <3>1, <3>2 DEF PassedOnAlike
    <3>7. program[i].kind = "ReduceScatter" => ~IsPartial(tape[i].saved[program[i].ins[1]].pl)
      BY <3>1, <3>2 DEF ScattersWhole
    <3> QED BY <3>3, <3>4, <3>5, <3>6, <3>7
  <2>5. \A n \in DOMAIN grads \ {loss} : PlacedAs(tensors, n, grads[n])
    <3>1. PlacedLike(program, tensors, loss, g, grads)
      BY <2>1 DEF WalkedTo, Walking, Backward
    <3> QED BY <2>4, <3>1 DEF PlacedLike
  <2>6. ASSUME NEW n \in DOMAIN grads \ {loss}, NEW i \in DOMAIN tape, n \in Range(tape[i].op.ins)
        PROVE  /\ grads[n].pl = tape[i].saved[n].pl
               /\ tape[i].saved[n].dtype \in {"none", grads[n].dtype}
    <3>1. tape[i].saved[n] = tensors[n]
      BY <2>2, <2>3, <2>6 DEF Saved
    <3> QED BY <2>5, <3>1 DEF PlacedAs
  <2> QED BY <2>6 DEF Misplaced, Mistyped
<1> QED BY <1>1, EngineInvariance, PTL

-----------------------------------------------------------------------------
\* An entry with a gradient was there when the gradients were generated.
LEMMA UsedIsWalked ==
  ASSUME Books, Single(program), NEW g \in 1 .. Len(tape), WalkedTo(g),
         NEW i \in 1 .. Len(program), program[i].out \in DOMAIN grads
  PROVE  i \in 1 .. g
<1>1. /\ Programmed(program) /\ program \in Seq(Menu) /\ Len(program) \in Nat
      /\ DOMAIN program = 1 .. Len(program) /\ \A k \in 1 .. g : k \in 1 .. Len(program)
  BY DEF Books, IsSequence, Programmed
<1>2. PICK path : IsPath(program, loss, generations, path, program[i].out, 0, g)
  BY DEF WalkedTo, Walking, Summed, IsGradient, Backward
<1>3. Len(path) \in Nat /\ Len(path) >= 1
  BY <1>2 DEF IsPath
<1>4. CASE Len(path) = 1
  <2>1. program[i].out = loss
    BY <1>2, <1>4 DEF IsPath
  <2>2. PICK k \in 1 .. g : program[k].out = loss
    BY DEF WalkedTo
  <2>3. k = i
    BY <1>1, <2>1, <2>2 DEF Single
  <2> QED BY <2>3
<1>5. CASE Len(path) > 1
  <2> DEFINE k == path[Len(path)]
  <2>1. program[i].out \in Differentiated(program[k])
    BY <1>2, <1>5 DEF IsPath
  <2>2. k \in 1 .. g
    BY <1>2, <1>3, <1>5 DEF IsPath
  <2>3. i < k
    <3> HIDE DEF k
    <3> QED BY <1>1, <2>1, <2>2, WrittenBefore
  <2> QED BY <1>1, <2>2, <2>3
<1> QED BY <1>3, <1>4, <1>5, OneOrMore

\* What a dual is.
LEMMA DualIs ==
  ASSUME NEW o \in Menu, o.kind \in EngineKinds
  PROVE  /\ Dual(o).kind = DualKind[o.kind] /\ Dual(o).kind \in EngineKinds
         /\ Dual(o).out = <<DualKind[o.kind], o.ins[1]>>
         /\ o.kind \in {"AllGather", "ReduceScatter", "ZeROGatherParam", "ZeROScatterGrad"} =>
              Dual(o).dim = o.dim
         /\ o.kind \in {"Send", "Recv"} => Dual(o).src = o.dst /\ Dual(o).dst = o.src
         /\ o.kind \in {"MoEDispatch", "MoECombine"} =>
              Dual(o).dim = o.concat_dim /\ Dual(o).concat_dim = o.dim
<1> DEFINE r == Renamed(o)
<1>1. /\ {"kind", "ins", "out", "dim", "concat_dim"} \subseteq DOMAIN o
      /\ o.kind \in {"Send", "Recv"} => {"src", "dst"} \subseteq DOMAIN o
  BY MenuAssumption
<1>2. DualKind[o.kind] \in EngineKinds
  BY DEF DualKind, EngineKinds
<1>3. /\ r.kind = DualKind[o.kind] /\ r.out = <<DualKind[o.kind], o.ins[1]>>
      /\ r.dim = o.dim /\ r.concat_dim = o.concat_dim /\ DOMAIN r = DOMAIN o
  BY <1>1 DEF Renamed
<1> HIDE DEF r
<1>4. CASE o.kind \in {"Send", "Recv"}
  <2>1. Dual(o) = [r EXCEPT !.src = o.dst, !.dst = o.src]
    BY <1>4 DEF Dual, r
  <2> QED BY <1>1, <1>2, <1>3, <1>4, <2>1
<1>5. CASE o.kind \in {"MoEDispatch", "MoECombine"}
  <2>1. Dual(o) = [r EXCEPT !.dim = o.concat_dim, !.concat_dim = o.dim]
    BY <1>5 DEF Dual, r
  <2> QED BY <1>1, <1>2, <1>3, <1>5, <2>1
<1>6. CASE o.kind \notin {"Send", "Recv", "MoEDispatch", "MoECombine"}
  <2>1. Dual(o) = r
    BY <1>6 DEF Dual, r
  <2> QED BY <1>1, <1>2, <1>3, <1>6, <2>1
<1> QED BY <1>4, <1>5, <1>6

(***************************************************************************)
(* The backward program sends before it receives, for every number of      *)
(* messages, if the program does: generate_backward goes through the tape  *)
(* in reverse and _generate_dual_collective swaps the two sides.           *)
(***************************************************************************)
THEOREM SendsComeFirst == Spec => []SendsFirst
<1>1. Inv => SendsFirst
  <2> SUFFICES ASSUME Inv, clean, Single(program),
                      \A f \in CollectivesOf(program) : Used(f), Received(program)
               PROVE  SentFirst(bwd)
    BY SingleIsWritesOnce DEF SendsFirst
  <2>1. PICK g \in 1 .. Len(tape) : WalkedTo(g)
    BY DEF Inv, GradsRight
  <2>2. PICK src : Sources(program, 0, g, grads, bwd, src)
    BY <2>1 DEF WalkedTo, Walking, InReverse, Backward
  <2>3. IsSequence(bwd)
    BY <2>1 DEF WalkedTo, Walking, InReverse, Backward
  <2>4. DOMAIN bwd = 1 .. Len(bwd) /\ Len(bwd) \in Nat
    BY <2>3 DEF IsSequence
  <2>5. /\ program \in Seq(Menu) /\ DOMAIN program = 1 .. Len(program) /\ Len(program) \in Nat
        /\ g \in Nat /\ \A k \in 1 .. g : k \in 1 .. Len(program) /\ program[k] \in Menu
    BY DEF Inv, Books, IsSequence, Programmed
  <2> SUFFICES ASSUME NEW j \in 1 .. Len(bwd), bwd[j].kind = "Recv"
               PROVE  \E i \in 1 .. (j - 1) : /\ bwd[i].kind = "Send"
                                              /\ bwd[i].src = bwd[j].src /\ bwd[i].dst = bwd[j].dst
    BY <2>4 DEF SentFirst
  <2> DEFINE e == src[j]
             o == program[e]
  <2>6. /\ e \in 1 .. g /\ o.kind \in EngineKinds /\ bwd[j] = Dual(o)
    BY <2>2 DEF Sources
  <2>7. o \in Menu /\ e \in 1 .. Len(program)
    BY <2>5, <2>6
  <2> HIDE DEF e
  <2>8. o.kind = "Send"
    <3>1. DualKind[o.kind] = "Recv"
      BY <2>6, <2>7, DualIs
    <3> HIDE DEF o
    <3> QED BY <2>6, <3>1 DEF DualKind, EngineKinds
  <2>9. bwd[j].src = o.dst /\ bwd[j].dst = o.src
    <3> HIDE DEF o
    <3> QED BY <2>6, <2>7, <2>8, DualIs
  <2>10. PICK d \in (e + 1) .. Len(program) : /\ program[d].kind = "Recv"
                                              /\ o.src = program[d].src /\ o.dst = program[d].dst
    BY <2>5, <2>7, <2>8 DEF Received
  <2>11. d \in 1 .. Len(program) /\ e < d
    BY <2>5, <2>7
  <2>12. program[d].kind \in EngineKinds
    BY <2>10 DEF EngineKinds
  <2>13. program[d].out \in DOMAIN grads
    <3>1. program[d] \in CollectivesOf(program)
      BY <2>5, <2>11, <2>12 DEF CollectivesOf, Collectives
    <3> QED BY <3>1 DEF Used
  <2>14. d \in 1 .. g
    BY <2>1, <2>11, <2>13, UsedIsWalked DEF Inv
  <2>15. PICK i \in 1 .. Len(bwd) : src[i] = d
    BY <2>2, <2>12, <2>13, <2>14 DEF Sources
  <2>16. i \in 1 .. (j - 1)
    <3>1. ~ (j < i) /\ i # j
      BY <2>2, <2>5, <2>6, <2>11, <2>15 DEF Sources, e
    <3> QED BY <2>4, <3>1
  <2>17. bwd[i] = Dual(program[d])
    BY <2>2, <2>15 DEF Sources
  <2>18. bwd[i].kind = "Send" /\ bwd[i].src = program[d].dst /\ bwd[i].dst = program[d].src
    <3>1. program[d] \in Menu
      BY <2>5, <2>14
    <3> QED BY <2>10, <2>12, <2>17, <3>1, DualIs DEF DualKind
  <2> QED BY <2>9, <2>10, <2>16, <2>18
<1> QED BY <1>1, EngineInvariance, PTL

\* A collective's dual is what the checks look for.
LEMMA DualMatches ==
  ASSUME NEW o \in Menu, o.kind \in EngineKinds
  PROVE  Matches(o, Dual(o))
<1> DEFINE d == Dual(o)
<1>1. /\ d.kind = DualKind[o.kind]
      /\ o.kind \in {"AllGather", "ReduceScatter", "ZeROGatherParam", "ZeROScatterGrad"} =>
              d.dim = o.dim
      /\ o.kind \in {"Send", "Recv"} => d.src = o.dst /\ d.dst = o.src
      /\ o.kind \in {"MoEDispatch", "MoECombine"} => d.dim = o.concat_dim /\ d.concat_dim = o.dim
  BY DualIs
<1> HIDE DEF d
<1>2. Matches(o, d)
  BY <1>1 DEF Matches
<1> QED BY <1>2 DEF d

(***************************************************************************)
(* verify_gradient_correctness and verify_gradient_duality report of the   *)
(* engine's own backward program the collectives it has no dual for, and   *)
(* nothing else, although the former looks at one operation for each name. *)
(***************************************************************************)
THEOREM DualsAreFound == Spec => []DualsFound
<1>1. Inv => DualsFound
  <2> DEFINE NoDual == {f \in CollectivesOf(program) : f.kind \notin EngineKinds}
  <2> SUFFICES ASSUME Inv, clean, Single(program), \A f \in CollectivesOf(program) : Used(f),
                      \A f, h \in CollectivesOf(program) : f.ins[1] = h.ins[1] => f = h
               PROVE  EngineErrors = NoDual /\ SolverErrors = NoDual
    BY SingleIsWritesOnce DEF DualsFound
  <2>1. PICK g \in 1 .. Len(tape) : WalkedTo(g)
    BY DEF Inv, GradsRight
  <2>2. PICK src : Sources(program, 0, g, grads, bwd, src)
    BY <2>1 DEF WalkedTo, Walking, InReverse, Backward
  <2>3. DOMAIN bwd = 1 .. Len(bwd) /\ Len(bwd) \in Nat
    BY <2>1 DEF WalkedTo, Walking, InReverse, Backward, IsSequence
  <2>4. /\ program \in Seq(Menu) /\ DOMAIN program = 1 .. Len(program) /\ Len(program) \in Nat
        /\ g \in Nat /\ \A k \in 1 .. g : k \in 1 .. Len(program)
        /\ \A k \in 1 .. Len(program) : program[k] \in Menu
    BY DEF Inv, Books, IsSequence, Programmed
  <2>5. LastWritten(program) = CollectivesOf(program)
    <3>1. ASSUME NEW j \in DOMAIN program, NEW k \in (j + 1) .. Len(program)
          PROVE  program[k].out # program[j].out
      <4>1. k \in DOMAIN program /\ k # j
        BY <2>4
      <4> QED BY <4>1 DEF Single
    <3> QED BY <3>1 DEF LastWritten, CollectivesOf
  <2>6. \A j \in 1 .. Len(bwd) :
          /\ src[j] \in 1 .. g /\ program[src[j]] \in Menu /\ program[src[j]].kind \in EngineKinds
          /\ bwd[j] = Dual(program[src[j]])
    BY <2>2, <2>4 DEF Sources
  <2>7. ASSUME NEW j \in 1 .. Len(bwd), NEW k \in 1 .. Len(bwd), j < k
        PROVE  bwd[j].out # bwd[k].out
    <3> DEFINE f == program[src[j]]
               h == program[src[k]]
    <3>1. f.kind \in EngineKinds /\ h.kind \in EngineKinds /\ f \in Menu /\ h \in Menu
          /\ bwd[j] = Dual(f) /\ bwd[k] = Dual(h)
      BY <2>6
    <3>2. f \in CollectivesOf(program) /\ h \in CollectivesOf(program)
      <4>1. src[j] \in DOMAIN program /\ src[k] \in DOMAIN program
        BY <2>4, <2>6
      <4> QED BY <3>1, <4>1 DEF CollectivesOf, Collectives
    <3>3. f # h
      <4>1. src[k] < src[j] /\ src[j] \in 1 .. g /\ src[k] \in 1 .. g
        BY <2>2, <2>6, <2>7 DEF Sources
      <4>2. src[j] # src[k] /\ src[j] \in DOMAIN program /\ src[k] \in DOMAIN program
        BY <2>4, <4>1
      <4> QED BY <4>2 DEF Single
    <3>4. f.ins[1] # h.ins[1]
      BY <3>2, <3>3
    <3> HIDE DEF f, h
    <3>5. bwd[j].out = <<DualKind[f.kind], f.ins[1]>> /\ bwd[k].out = <<DualKind[h.kind], h.ins[1]>>
      BY <3>1, DualIs
    <3> QED BY <3>4, <3>5
  <2>8. ASSUME NEW f \in CollectivesOf(program), f.kind \in EngineKinds
        PROVE  \E b \in LastWritten(bwd) : Matches(f, b) /\ b \in CollectivesOf(bwd)
    <3>1. PICK e \in 1 .. Len(program) : program[e] = f
      BY <2>4 DEF CollectivesOf
    <3>2. program[e].out \in DOMAIN grads
      BY <3>1 DEF Used
    <3>3. e \in 1 .. g
      BY <2>1, <3>2, UsedIsWalked DEF Inv
    <3>4. PICK j \in 1 .. Len(bwd) : src[j] = e
      BY <2>2, <2>8, <3>1, <3>2, <3>3 DEF Sources
    <3>5. bwd[j] = Dual(f) /\ f \in Menu
      BY <2>6, <3>1, <3>4
    <3>6. Matches(f, bwd[j])
      BY <2>8, <3>5, DualMatches
    <3>7. bwd[j].kind \in Collectives
      BY <2>8, <3>5, DualIs DEF Collectives
    <3>8. \A k \in (j + 1) .. Len(bwd) : bwd[k].out # bwd[j].out
      <4> TAKE k \in (j + 1) .. Len(bwd)
      <4>1. k \in 1 .. Len(bwd) /\ j < k
        BY <2>3
      <4> QED BY <2>7, <4>1
    <3>9. bwd[j] \in LastWritten(bwd)
      BY <2>3, <3>7, <3>8 DEF LastWritten
    <3>10. bwd[j] \in CollectivesOf(bwd)
      BY <2>3, <3>7 DEF CollectivesOf
    <3> QED BY <3>6, <3>9, <3>10
  <2>9. \A f, b : f.kind \notin EngineKinds => ~Matches(f, b)
    BY DEF Matches
  <2>10. EngineErrors = NoDual
    BY <2>5, <2>8, <2>9 DEF EngineErrors
  <2>11. SolverErrors = NoDual
    BY <2>8, <2>9 DEF SolverErrors
  <2> QED BY <2>10, <2>11
<1> QED BY <1>1, EngineInvariance, PTL

-----------------------------------------------------------------------------
\* A sequence that goes down has as many steps as its first member allows.
LEMMA GoesDown ==
  ASSUME NEW m \in Nat, NEW s, \A j \in 1 .. m : s[j] \in Nat,
         \A j \in 1 .. (m - 1) : s[j + 1] < s[j]
  PROVE  \A j \in 1 .. m : s[j] + j <= s[1] + 1
<1> DEFINE S == {j \in Nat : j + 1 \in 1 .. m => s[j + 1] + (j + 1) <= s[1] + 1}
<1>1. 0 \in S
  <2>1. 1 \in 1 .. m => s[1] \in Nat
    OBVIOUS
  <2> QED BY <2>1
<1>2. ASSUME NEW j \in Nat, j \in S PROVE j + 1 \in S
  <2> SUFFICES ASSUME (j + 1) + 1 \in 1 .. m PROVE s[(j + 1) + 1] + ((j + 1) + 1) <= s[1] + 1
    OBVIOUS
  <2>1. j + 1 \in 1 .. m /\ j + 1 \in 1 .. (m - 1) /\ 1 \in 1 .. m
    OBVIOUS
  <2>2. /\ s[j + 1] \in Nat /\ s[(j + 1) + 1] \in Nat /\ s[1] \in Nat
        /\ s[(j + 1) + 1] < s[j + 1]
    BY <2>1
  <2>3. s[j + 1] + (j + 1) <= s[1] + 1
    BY <1>2, <2>1
  <2> QED BY <2>2, <2>3
<1> HIDE DEF S
<1>3. Nat \subseteq S
  BY <1>1, <1>2, Induction
<1>4. ASSUME NEW j \in 1 .. m PROVE s[j] + j <= s[1] + 1
  <2>1. j - 1 \in Nat /\ (j - 1) + 1 = j
    OBVIOUS
  <2>2. j - 1 \in S
    BY <1>3, <2>1
  <2>3. (j - 1) + 1 \in 1 .. m => s[(j - 1) + 1] + ((j - 1) + 1) <= s[1] + 1
    BY <2>2 DEF S
  <2> QED BY <2>1, <2>3
<1> QED BY <1>4

\* The number of a generation before a way.
LEMMA Prefixed ==
  ASSUME NEW gen \in Nat, NEW m \in Nat, NEW s \in [1 .. m -> Nat]
  PROVE  /\ <<gen>> \o s \in Seq(Nat) /\ Len(<<gen>> \o s) = m + 1
         /\ (<<gen>> \o s)[1] = gen
         /\ \A k \in 1 .. m : (<<gen>> \o s)[k + 1] = s[k]
<1> DEFINE r == <<gen>> \o s
<1>1. s \in Seq(Nat) /\ Len(s) = m /\ <<gen>> \in Seq(Nat) /\ Len(<<gen>>) = 1
  OBVIOUS
<1>2. /\ r \in Seq(Nat) /\ Len(r) = 1 + m
      /\ \A k \in 1 .. (1 + m) : r[k] = IF k <= 1 THEN <<gen>>[k] ELSE s[k - 1]
  BY <1>1, ConcatProperties
<1> HIDE DEF r
<1>3. r[1] = gen
  BY <1>2
<1>4. ASSUME NEW k \in 1 .. m PROVE r[k + 1] = s[k]
  <2>1. k + 1 \in 1 .. (1 + m) /\ ~ (k + 1 <= 1) /\ (k + 1) - 1 = k
    OBVIOUS
  <2> QED BY <1>2, <2>1
<1>5. r \in Seq(Nat) /\ Len(r) = m + 1
  BY <1>2
<1> QED BY <1>3, <1>4, <1>5 DEF r

\* The ways from the loss are paths,
LEMMA WayIsPath ==
  ASSUME Books, Single(program), Len(tape) = Len(program), NEW g \in 1 .. Len(tape), WalkedTo(g),
         NEW n, NEW s \in Ways(n)
  PROVE  IsPath(program, loss, generations, <<generations>> \o s, n, 0, g)
<1> DEFINE r == <<generations>> \o s
<1>1. /\ Programmed(program) /\ Len(program) \in Nat /\ DOMAIN program = 1 .. Len(program)
      /\ DOMAIN tape = 1 .. Len(program) /\ \A i \in 1 .. Len(program) : tape[i].op = program[i]
      /\ generations \in Nat
  BY DEF Books, IsSequence, Programmed
<1>2. PICK m \in 1 .. Len(tape) : s \in [1 .. m -> 1 .. Len(program)]
  BY <1>1 DEF Ways
<1>3. m \in Nat /\ 1 \in 1 .. m /\ m \in 1 .. m /\ Len(s) = m /\ s \in [1 .. m -> Nat]
  <2>1. m \in Nat /\ 1 \in 1 .. m /\ m \in 1 .. m
    BY <1>1
  <2> QED BY <1>2, <2>1
<1>4. /\ program[s[1]].out = loss
      /\ \A k \in 1 .. (m - 1) : program[s[k + 1]].out \in Differentiated(program[s[k]])
      /\ n \in Differentiated(program[s[m]])
  <2>1. /\ tape[s[1]].op.out = loss /\ n \in Differentiated(tape[s[m]].op)
        /\ \A k \in 1 .. (m - 1) : tape[s[k + 1]].op.out \in Differentiated(tape[s[k]].op)
    BY <1>3 DEF Ways, Leads, StepsTo
  <2>2. \A k \in 1 .. m : tape[s[k]].op = program[s[k]]
    BY <1>1, <1>2
  <2>3. \A k \in 1 .. (m - 1) : k \in 1 .. m /\ k + 1 \in 1 .. m
    BY <1>3
  <2> QED BY <1>3, <2>1, <2>2, <2>3
<1>5. s[1] <= g /\ s[1] \in Nat
  <2>1. PICK k \in 1 .. g : program[k].out = loss
    BY DEF WalkedTo
  <2>2. k \in DOMAIN program /\ s[1] \in DOMAIN program
    BY <1>1, <1>2, <1>3
  <2>3. k = s[1]
    BY <1>4, <2>1, <2>2 DEF Single
  <2> QED BY <2>3
<1>6. \A k \in 1 .. (m - 1) : s[k + 1] < s[k]
  <2> TAKE k \in 1 .. (m - 1)
  <2>1. s[k] \in 1 .. Len(program) /\ s[k + 1] \in 1 .. Len(program)
    BY <1>2, <1>3
  <2> QED BY <1>1, <1>4, <2>1, WrittenBefore
<1>7. \A k \in 1 .. m : s[k] \in (0 + 1) .. g
  <2>1. \A k \in 1 .. m : s[k] \in Nat
    BY <1>3
  <2>2. \A k \in 1 .. m : s[k] + k <= s[1] + 1
    BY <1>3, <1>6, <2>1, GoesDown
  <2> TAKE k \in 1 .. m
  <2>3. s[k] + k <= s[1] + 1 /\ s[k] \in 1 .. Len(program) /\ g \in Nat
    BY <1>1, <1>2, <2>2
  <2> QED BY <1>5, <2>3
<1>8. /\ r \in Seq(Nat) /\ Len(r) = m + 1 /\ r[1] = generations
      /\ \A k \in 1 .. m : r[k + 1] = s[k]
  BY <1>1, <1>3, Prefixed
<1> HIDE DEF r
<1>9. \A k \in 2 .. Len(r) : k - 1 \in 1 .. m /\ (k - 1) + 1 = k
  BY <1>3, <1>8
<1>10. \A k \in 2 .. Len(r) : r[k] = s[k - 1]
  BY <1>8, <1>9
<1>11. \A k \in 2 .. Len(r) : r[k] \in (0 + 1) .. g
  BY <1>7, <1>9, <1>10
<1>12. r[2] = s[1] /\ r[Len(r)] = s[m] /\ Len(r) >= 1 /\ Len(r) # 1
  <2>1. 1 + 1 = 2 /\ m + 1 >= 1 /\ m + 1 # 1
    BY <1>3
  <2>2. r[1 + 1] = s[1] /\ r[m + 1] = s[m]
    BY <1>3, <1>8
  <2> QED BY <1>8, <2>1, <2>2
<1>13. ASSUME NEW k \in 2 .. (Len(r) - 1)
       PROVE  program[r[k + 1]].out \in Differentiated(program[r[k]])
  <2>1. k - 1 \in 1 .. (m - 1) /\ k \in 1 .. m /\ (k - 1) + 1 = k /\ k \in 2 .. Len(r)
    BY <1>3, <1>8
  <2>2. program[s[(k - 1) + 1]].out \in Differentiated(program[s[k - 1]])
    BY <1>4, <2>1
  <2>3. r[k + 1] = s[k] /\ r[k] = s[k - 1]
    BY <1>8, <1>10, <2>1
  <2> QED BY <2>1, <2>2, <2>3
<1>14. IsPath(program, loss, generations, r, n, 0, g)
  BY <1>4, <1>8, <1>11, <1>12, <1>13 DEF IsPath
<1> QED BY <1>14 DEF r

\* and the paths to other tensors than the loss are ways.
LEMMA PathIsWay ==
  ASSUME Books, Single(program), Len(tape) = Len(program), NEW g \in 1 .. Len(tape),
         NEW n, n # loss, NEW path, IsPath(program, loss, generations, path, n, 0, g)
  PROVE  \E s \in Ways(n) : path = <<generations>> \o s
<1> DEFINE m == Len(path) - 1
           s == [k \in 1 .. m |-> path[k + 1]]
<1>1. /\ Programmed(program) /\ Len(program) \in Nat /\ DOMAIN program = 1 .. Len(program)
      /\ DOMAIN tape = 1 .. Len(program) /\ \A i \in 1 .. Len(program) : tape[i].op = program[i]
      /\ generations \in Nat /\ g \in Nat /\ g <= Len(program)
  BY DEF Books, IsSequence, Programmed
<1>2. /\ path \in Seq(Nat) /\ Len(path) \in Nat /\ Len(path) >= 1 /\ path[1] = generations
      /\ Len(path) # 1
  BY DEF IsPath
<1>3. m \in Nat /\ m >= 1 /\ Len(path) = m + 1
  <2>1. \A k \in Nat : k >= 1 /\ k # 1 => k - 1 \in Nat /\ k - 1 >= 1 /\ k = (k - 1) + 1
    OBVIOUS
  <2> QED BY <1>2, <2>1, Zenon
<1>4. \A k \in 1 .. m : s[k] = path[k + 1]
  OBVIOUS
<1>5. \A k \in 1 .. m : s[k] \in 1 .. g
  <2> TAKE k \in 1 .. m
  <2>1. k + 1 \in 2 .. Len(path)
    BY <1>3
  <2> HIDE DEF m, s
  <2>2. path[k + 1] \in (0 + 1) .. g
    BY <2>1 DEF IsPath
  <2> QED BY <1>4, <2>2
<1>6. s \in [1 .. m -> 1 .. Len(program)] /\ s \in [1 .. m -> Nat]
  <2>1. \A k \in 1 .. m : path[k + 1] \in 1 .. Len(program) /\ path[k + 1] \in Nat
    BY <1>1, <1>4, <1>5
  <2> HIDE DEF m
  <2> QED BY <2>1
<1> HIDE DEF m, s
<1>7. Len(s) = m
  BY <1>3, <1>6
<1>8. 1 \in 1 .. m /\ m \in 1 .. m /\ Len(path) > 1
  BY <1>3
<1>9. program[s[1]].out = loss /\ n \in Differentiated(program[s[m]])
  <2>1. program[path[2]].out = loss /\ n \in Differentiated(program[path[m + 1]])
    BY <1>3, <1>8 DEF IsPath
  <2>2. s[1] = path[1 + 1] /\ s[m] = path[m + 1] /\ 1 + 1 = 2
    BY <1>4, <1>8
  <2> QED BY <2>1, <2>2
<1>10. ASSUME NEW k \in 1 .. (m - 1)
       PROVE  program[s[k + 1]].out \in Differentiated(program[s[k]])
  <2>1. k + 1 \in 2 .. (Len(path) - 1) /\ k \in 1 .. m /\ k + 1 \in 1 .. m
    BY <1>3
  <2>2. program[path[(k + 1) + 1]].out \in Differentiated(program[path[k + 1]])
    BY <2>1 DEF IsPath
  <2> QED BY <1>4, <2>1, <2>2
<1>11. m \in 1 .. Len(tape)
  <2>1. \A k \in 1 .. (m - 1) : s[k + 1] < s[k]
    <3> TAKE k \in 1 .. (m - 1)
    <3>1. k \in 1 .. m /\ k + 1 \in 1 .. m
      BY <1>3
    <3>2. s[k] \in 1 .. Len(program) /\ s[k + 1] \in 1 .. Len(program)
      BY <1>6, <3>1
    <3> QED BY <1>1, <1>10, <3>2, WrittenBefore
  <2>2. \A k \in 1 .. m : s[k] \in Nat
    BY <1>6
  <2>3. \A k \in 1 .. m : s[k] + k <= s[1] + 1
    BY <1>3, <2>1, <2>2, GoesDown
  <2>4. s[m] + m <= s[1] + 1 /\ s[m] \in 1 .. g /\ s[1] \in 1 .. g
    BY <1>5, <1>8, <2>3
  <2> QED BY <1>1, <1>3, <2>4
<1>12. Leads(s, n)
  <2>1. \A k \in 1 .. m : tape[s[k]].op = program[s[k]]
    BY <1>1, <1>6
  <2>2. \A k \in 1 .. (m - 1) : k \in 1 .. m /\ k + 1 \in 1 .. m
    BY <1>3
  <2>3. \A k \in 1 .. (m - 1) : tape[s[k + 1]].op.out \in Differentiated(tape[s[k]].op)
    BY <1>10, <2>1, <2>2
  <2>4. tape[s[1]].op.out = loss /\ n \in Differentiated(tape[s[m]].op)
    BY <1>8, <1>9, <2>1
  <2> QED BY <1>7, <2>3, <2>4 DEF Leads, StepsTo
<1>13. s \in Ways(n)
  <2>1. s \in [1 .. m -> DOMAIN tape]
    BY <1>1, <1>6
  <2> QED BY <1>11, <1>12, <2>1 DEF Ways
<1>14. path = <<generations>> \o s
  <2> DEFINE r == <<generations>> \o s
  <2>1. /\ r \in Seq(Nat) /\ Len(r) = m + 1 /\ r[1] = generations
        /\ \A k \in 1 .. m : r[k + 1] = s[k]
    BY <1>1, <1>3, <1>6, Prefixed
  <2> HIDE DEF r
  <2>2. ASSUME NEW k \in 1 .. Len(path) PROVE path[k] = r[k]
    <3>1. CASE k = 1
      BY <1>2, <2>1, <3>1
    <3>2. CASE k # 1
      <4>1. k - 1 \in 1 .. m /\ (k - 1) + 1 = k
        BY <1>3, <3>2
      <4>2. r[(k - 1) + 1] = s[k - 1] /\ s[k - 1] = path[(k - 1) + 1]
        BY <1>4, <2>1, <4>1
      <4> QED BY <4>1, <4>2
    <3> QED BY <3>1, <3>2
  <2>3. path = r
    BY <1>2, <1>3, <2>1, <2>2, SeqEqual
  <2> QED BY <2>3 DEF r
<1> QED BY <1>13, <1>14

(***************************************************************************)
(* The chain rule: what generate_backward accumulates for a tensor is the  *)
(* sum over all ways from the loss back to it and over nothing else, and   *)
(* only tensors that the loss depends on have a gradient.                  *)
(***************************************************************************)
THEOREM ChainRuleHolds == Spec => []ChainRule
<1>1. Inv => ChainRule
  <2> SUFFICES ASSUME Inv, clean, Len(tape) = Len(program), Single(program),
                      NEW n \in DOMAIN tensors \ {loss}
               PROVE  IF n \in DOMAIN grads
                      THEN /\ grads[n].paths = {<<generations>> \o s : s \in Ways(n)}
                           /\ Ways(n) # {}
                      ELSE Ways(n) = {}
    BY SingleIsWritesOnce DEF ChainRule
  <2>1. PICK g \in 1 .. Len(tape) : WalkedTo(g)
    BY DEF Inv, GradsRight
  <2> DEFINE Path(path) == IsPath(program, loss, generations, path, n, 0, g)
  <2>2. /\ \A path : Path(path) => n \in DOMAIN grads /\ path \in grads[n].paths
        /\ n \in DOMAIN grads => grads[n].paths # {} /\ \A path \in grads[n].paths : Path(path)
    BY <2>1 DEF WalkedTo, Walking, Summed, IsGradient, Backward
  <2>3. \A s \in Ways(n) : Path(<<generations>> \o s)
    BY <2>1, WayIsPath DEF Inv
  <2>4. \A path : Path(path) => \E s \in Ways(n) : path = <<generations>> \o s
    BY PathIsWay DEF Inv
  <2> HIDE DEF Path
  <2>5. CASE n \in DOMAIN grads
    <3>1. \A path \in grads[n].paths : path \in {<<generations>> \o s : s \in Ways(n)}
      BY <2>2, <2>4, <2>5
    <3>2. \A path \in {<<generations>> \o s : s \in Ways(n)} : path \in grads[n].paths
      BY <2>2, <2>3
    <3>3. Ways(n) # {}
      BY <2>2, <2>4, <2>5
    <3>4. grads[n].paths = {<<generations>> \o s : s \in Ways(n)}
      BY <3>1, <3>2
    <3> QED BY <2>5, <3>3, <3>4
  <2>6. CASE n \notin DOMAIN grads
    <3>1. \A s \in Ways(n) : FALSE
      BY <2>2, <2>3, <2>6
    <3> QED BY <2>6, <3>1
  <2> QED BY <2>5, <2>6
<1> QED BY <1>1, EngineInvariance, PTL
=============================================================================
