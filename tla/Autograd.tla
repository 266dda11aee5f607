------------------------------- MODULE Autograd -------------------------------
(***************************************************************************)
(* AutogradEngine (verifier/autograd.py): operations are recorded on a tape*)
(* as they run or after the run, the tape is walked backward, applying the *)
(* vjp of each operation (verifier/ir), and yields the gradients and, for  *)
(* each collective, its dual.  The engine and DistributedVerifier both     *)
(* check that every collective of the program has a dual in the backward   *)
(* program, the engine also that a gradient is placed like its tensor.     *)
(*                                                                         *)
(* Operations are those of TensorOps on a line of devices, and             *)
(* "ZeROGatherParam", "ZeROScatterGrad", "ZeROPartitionOptState" with dim, *)
(* "MoEDispatch", "MoECombine" with dim and concat_dim, "Send" and "Recv"  *)
(* with src and dst, "RingRotate", "AmaxUpdate", and "Cast", "FP8Quantize",*)
(* "FP8Dequantize" with src_dtype and dst_dtype.  LossScale is "Unary".    *)
(***************************************************************************)
EXTENDS TensorOps, SequencesExt, FiniteSetsExt

CONSTANTS Inputs,         \* the names of the program's inputs
          InputTensors,   \* what they may be: a placement pl and a dtype, "none" for None
          Menu,           \* the operations programs are made of
          MaxOps,         \* the longest program considered
          MaxGenerations  \* bound on the calls of generate_backward

Casts      == {"Cast", "FP8Quantize", "FP8Dequantize"}
OtherKinds == Casts \cup {"ZeROGatherParam", "ZeROScatterGrad", "ZeROPartitionOptState", "MoEDispatch",
                          "MoECombine", "Send", "Recv", "RingRotate", "AmaxUpdate"}

\* What the caller registers has placements, and the classes make operations
\* with the fields of their kinds.
ASSUME InputsAssumption == \A t \in InputTensors : t.pl \in Placements
ASSUME MenuAssumption ==
  \A o \in Menu :
    /\ {"kind", "ins", "out", "dim", "concat_dim", "mesh_dim"} \subseteq DOMAIN o
    /\ o.kind \in UnaryKinds \cup BinaryKinds \cup OtherKinds
    /\ 1 \in DOMAIN o.ins
    /\ o.kind \in BinaryKinds => 2 \in DOMAIN o.ins
    /\ o.kind \in Casts \cup {"ReduceScatter"} => DOMAIN o.ins = {1}
    /\ o.mesh_dim \in MeshDims \cup {NoDim}
    /\ o.kind \in {"Send", "Recv"} => {"src", "dst"} \subseteq DOMAIN o

VARIABLES tensors,     \* the tensors of the run
          program,     \* the operations run so far
          tape,        \* self.tape: [op, saved], saved the tensors by name
          grads,       \* self.gradient_map: [pl, dtype, paths], pl = Scalar for the loss
          bwd,         \* the last backward program
          loss,        \* the tensor it was generated for
          generations, \* calls of generate_backward
          clean        \* not in the code: the last call was the first since reset

vars == <<tensors, program, tape, grads, bwd, loss, generations, clean>>

Scalar == << >>   \* the placement of the loss gradient, which has a mesh of its own

Init == /\ tensors \in [Inputs -> InputTensors]
        /\ program = << >> /\ tape = << >>
        /\ grads = << >> /\ bwd = << >> /\ loss = NoDim
        /\ generations = 0 /\ clean = FALSE

-----------------------------------------------------------------------------
Put(f, n, x) == [m \in DOMAIN f \cup {n} |-> IF m = n THEN x ELSE f[m]]

\* The rule of TensorOps that has the effect of o.
RuleOf(o) ==
  CASE o.kind = "ZeROGatherParam" -> [o EXCEPT !.kind = "AllGather"]
    [] o.kind = "ZeROScatterGrad" -> [o EXCEPT !.kind = "ReduceScatter"]
    [] o.kind \in {"MoEDispatch", "MoECombine"} -> [o EXCEPT !.kind = "AllToAll"]
    [] o.kind = "AmaxUpdate"                    -> [o EXCEPT !.kind = "Broadcast"]
    [] o.kind \in {"Send", "Recv", "RingRotate"} \cup Casts -> [o EXCEPT !.kind = "Unary"]
    [] o.kind \in UnaryKinds \cup BinaryKinds   -> o

Placed(o) == [k \in DOMAIN o.ins |-> tensors[o.ins[k]].pl]

\* A ZeROPartitionOptState shards all that is replicated.
ResultPlacement(o) ==
  IF o.kind = "ZeROPartitionOptState" THEN Changed(o, Placed(o)[1], {"R"}, Shard(o.dim))
  ELSE Apply(RuleOf(o), Placed(o))

ResultDtype(o) == CASE o.kind \in Casts     -> o.dst_dtype
                    [] o.kind = "AmaxUpdate" -> "fp32"
                    [] o.kind = "Embedding"  -> tensors[o.ins[2]].dtype
                    [] o.kind \notin Casts \cup {"AmaxUpdate", "Embedding"} -> tensors[o.ins[1]].dtype

RunRaises(o) ==
  LET dtype == tensors[o.ins[1]].dtype
  IN  \/ o.kind # "ZeROPartitionOptState" /\ Raises(RuleOf(o), Placed(o))
      \/ o.kind \in Casts /\ dtype \notin {"none", o.src_dtype}
      \/ o.kind = "AmaxUpdate" /\ dtype \notin {"fp8e4m3", "fp8e5m2"}

\* The next operation is run.
RunOp ==
  /\ Len(program) < MaxOps
  /\ \E o \in Menu :
       /\ Range(o.ins) \subseteq DOMAIN tensors
       /\ ~RunRaises(o)
       /\ tensors' = Put(tensors, o.out, [pl |-> ResultPlacement(o), dtype |-> ResultDtype(o)])
       /\ program' = Append(program, o)
  /\ UNCHANGED <<tape, grads, bwd, loss, generations, clean>>

\* record: the next operation of the program is recorded, with the tensors of
\* now; the caller may have run further.
Record ==
  /\ Len(tape) < Len(program)
  /\ LET o == program[Len(tape) + 1]
     IN  tape' = Append(tape, [op |-> o,
                               saved |-> Restrict(tensors, Range(o.ins) \cup {o.out})])
  /\ UNCHANGED <<tensors, program, grads, bwd, loss, generations, clean>>

-----------------------------------------------------------------------------
(***************************************************************************)
(* The vjp of an operation: for each input that gets one, its gradient.    *)
(* paths says what a gradient is the sum of: sequences of the tape entries *)
(* whose vjps have been applied, after the number of the generation.       *)
(***************************************************************************)
Differentiated(o) == CASE o.kind = "Embedding"        -> {o.ins[2]}
                       [] o.kind = "CrossEntropyLoss" -> {o.ins[1]}
                       [] o.kind \in {"AmaxUpdate", "ZeROPartitionOptState"} -> {}
                       [] o.kind \notin {"Embedding", "CrossEntropyLoss", "AmaxUpdate",
                                         "ZeROPartitionOptState"} -> Range(o.ins)

\* What a ReduceScatter makes of its input's placement, for the gradient.
GatheredPlacement(o, x) == Changed(o, x, {"R", "P"}, "R")

\* Faulty: a transpose passes its output's placement on, as an Add does.
GradPlacementSame(o, x, g) == IF o.kind \in {"Add", "Cast", "Transpose"} THEN g
                              ELSE IF o.kind = "ReduceScatter" THEN GatheredPlacement(o, x)
                              ELSE x

\* Of the saved input's placement x and of that of the output's gradient, g.
GradPlacement(o, x, g) == IF o.kind \in {"Add", "Cast"} THEN g
                          ELSE IF o.kind = "ReduceScatter" THEN GatheredPlacement(o, x)
                          ELSE x

GradDtype(o, x, g) == IF o.kind \in Casts THEN o.src_dtype ELSE IF o.kind = "Add" THEN g ELSE x

Vjp(i, g) ==
  LET o == tape[i].op
  IN  [n \in Differentiated(o) |->
         [pl    |-> GradPlacement(o, tape[i].saved[n].pl, g.pl),
          dtype |-> GradDtype(o, tape[i].saved[n].dtype, g.dtype),
          paths |-> {Append(p, i) : p \in g.paths}]]

\* Faulty: the last contribution replaces the others.
AccumulatedLast(map, new) == new @@ map

\* Contributions are added up; the first one's placement stays.
Accumulated(map, new) ==
  [n \in DOMAIN map \cup DOMAIN new |->
     IF n \notin DOMAIN map THEN new[n]
     ELSE IF n \notin DOMAIN new THEN map[n]
     ELSE [map[n] EXCEPT !.paths = @ \cup new[n].paths]]

-----------------------------------------------------------------------------
(***************************************************************************)
(* _generate_dual_collective: operation o's dual in the backward program,  *)
(* if it has one.                                                          *)
(***************************************************************************)
Grad(x) == <<"grad", x>>

EngineKinds == {"AllReduce", "AllGather", "ReduceScatter", "Send", "Recv", "ZeROGatherParam",
                "ZeROScatterGrad", "RingRotate", "MoEDispatch", "MoECombine"}
Collectives == EngineKinds \cup {"Broadcast", "AllToAll", "Scatter"}

DualKind == [AllReduce |-> "AllReduce", AllGather |-> "ReduceScatter", ReduceScatter |-> "AllGather",
             Send |-> "Recv", Recv |-> "Send", ZeROGatherParam |-> "ZeROScatterGrad",
             ZeROScatterGrad |-> "ZeROGatherParam", RingRotate |-> "RingRotate",
             MoEDispatch |-> "MoECombine", MoECombine |-> "MoEDispatch"]

Renamed(o) == [o EXCEPT !.kind = DualKind[o.kind],
                        !.ins = <<Grad(o.ins[1])>>,
                        !.out = <<DualKind[o.kind], o.ins[1]>>]

\* Faulty: a message is sent the same way again.
DualForward(o) ==
  CASE o.kind \in {"MoEDispatch", "MoECombine"} ->
         [Renamed(o) EXCEPT !.dim = o.concat_dim, !.concat_dim = o.dim]
    [] o.kind \notin {"MoEDispatch", "MoECombine"} -> Renamed(o)

Dual(o) ==
  CASE o.kind \in {"Send", "Recv"} -> [Renamed(o) EXCEPT !.src = o.dst, !.dst = o.src]
    [] o.kind \in {"MoEDispatch", "MoECombine"} ->
         [Renamed(o) EXCEPT !.dim = o.concat_dim, !.concat_dim = o.dim]
    [] o.kind \notin {"Send", "Recv", "MoEDispatch", "MoECombine"} -> Renamed(o)

\* The backward program b with the dual of o.
WithDual(b, o) == IF o.kind \in EngineKinds THEN Append(b, Dual(o)) ELSE b

\* Faulty: duals are put in front of what there is, in the order of the tape.
VisitedFront(w, i) ==
  LET o == tape[i].op
  IN  IF o.out \notin DOMAIN w.grads THEN w
      ELSE [grads |-> Accumulated(w.grads, Vjp(i, w.grads[o.out])),
            bwd   |-> IF o.kind \in EngineKinds THEN <<Dual(o)>> \o w.bwd ELSE w.bwd]

\* The visit of entry i, which is skipped if its output needs no gradient.
Visited(w, i) ==
  LET o == tape[i].op
  IN  IF o.out \notin DOMAIN w.grads THEN w
      ELSE [grads |-> Accumulated(w.grads, Vjp(i, w.grads[o.out])),
            bwd   |-> WithDual(w.bwd, o)]

\* The tape is visited from its end.
Walked(start) ==
  LET walked[k \in 0 .. Len(tape)] ==
        IF k = 0 THEN start ELSE Visited(walked[k - 1], Len(tape) - k + 1)
  IN  walked[Len(tape)]

\* The gradient of the loss.
Seed == [pl |-> Scalar, dtype |-> "none", paths |-> {<<generations + 1>>}]

\* generate_backward.  The gradients of an earlier call are still there.
GenerateBackward ==
  /\ tape # << >> /\ generations < MaxGenerations
  /\ \E n \in {tape[i].op.out : i \in DOMAIN tape} :
       LET w == Walked([grads |-> Put(grads, n, Seed), bwd |-> << >>])
       IN  /\ grads' = w.grads
           /\ bwd' = w.bwd
           /\ loss' = n
  /\ generations' = generations + 1
  /\ clean' = (grads = << >>)
  /\ UNCHANGED <<tensors, program, tape>>

\* reset, and another program with it.
Reset ==
  /\ generations > 0 /\ generations < MaxGenerations
  /\ tape' = << >> /\ grads' = << >>
  /\ program' = << >> /\ tensors' = Restrict(tensors, Inputs)
  /\ bwd' = << >> /\ loss' = NoDim /\ clean' = FALSE
  /\ UNCHANGED generations

Next == RunOp \/ Record \/ GenerateBackward \/ Reset

Spec == Init /\ [][Next]_vars

-----------------------------------------------------------------------------
(***************************************************************************)
(* verify_gradient_correctness, where each operation is kept under its     *)
(* output's name, and verify_gradient_duality, where all are.              *)
(***************************************************************************)
Matches(f, b) ==
  /\ f.kind \in EngineKinds /\ b.kind = DualKind[f.kind]
  /\ f.kind \in {"AllGather", "ReduceScatter", "ZeROGatherParam", "ZeROScatterGrad"} => f.dim = b.dim
  /\ f.kind \in {"Send", "Recv"} => f.src = b.dst /\ f.dst = b.src
  /\ f.kind \in {"MoEDispatch", "MoECombine"} => f.dim = b.concat_dim /\ f.concat_dim = b.dim

CollectivesOf(p) == {p[i] : i \in {j \in DOMAIN p : p[j].kind \in Collectives}}
LastWritten(p)   == {p[i] : i \in {j \in DOMAIN p : /\ p[j].kind \in Collectives
                                                    /\ \A k \in (j + 1) .. Len(p) :
                                                         p[k].kind \in Collectives => p[k].out # p[j].out}}

EngineErrors == {f \in LastWritten(program) : \A b \in LastWritten(bwd) : ~Matches(f, b)}
SolverErrors == {f \in CollectivesOf(program) : \A b \in CollectivesOf(bwd) : ~Matches(f, b)}

\* The entries' inputs whose gradient is not placed as they were.
Misplaced == {n \in DOMAIN grads : \E i \in DOMAIN tape :
                n \in Range(tape[i].op.ins) /\ grads[n].pl # tape[i].saved[n].pl}

-----------------------------------------------------------------------------
WritesOnce == /\ \A i, j \in DOMAIN program : program[i].out = program[j].out => i = j
              /\ \A i \in DOMAIN program : program[i].out \notin Inputs
OperandsDiffer == \A i \in DOMAIN tape : IsInjective(tape[i].op.ins)

\* The ways from the loss back to a tensor: an entry of the tape for each step.
StepsTo(i, n) == n \in Differentiated(tape[i].op)
Leads(s, n) == /\ tape[s[1]].op.out = loss
               /\ \A k \in 1 .. (Len(s) - 1) : StepsTo(s[k], tape[s[k + 1]].op.out)
               /\ StepsTo(s[Len(s)], n)
Ways(n) == {s \in UNION {[1 .. k -> DOMAIN tape] : k \in 1 .. Len(tape)} : Leads(s, n)}

(***************************************************************************)
(* A gradient is the sum over all ways from the loss to the tensor and     *)
(* over nothing else, and a tensor that the loss does not depend on has    *)
(* none; if the map was clear before, every name is written once and no    *)
(* operation reads a name twice.                                           *)
(***************************************************************************)
ChainRule ==
  clean /\ Len(tape) = Len(program) /\ WritesOnce /\ OperandsDiffer =>
    \A n \in DOMAIN tensors \ {loss} :
      IF n \in DOMAIN grads
      THEN grads[n].paths = {<<generations>> \o s : s \in Ways(n)} /\ Ways(n) # {}
      ELSE Ways(n) = {}

Used(o) == o.out \in DOMAIN grads

(***************************************************************************)
(* Both checks find the duals that the engine generates: what they report  *)
(* are the collectives the engine has no dual for.  If a tensor is read by *)
(* one collective only: duals with the same output hide one another.       *)
(***************************************************************************)
DualsFound ==
  /\ clean /\ Len(tape) = Len(program) /\ WritesOnce
  /\ \A f \in CollectivesOf(program) : Used(f)
  /\ \A f, g \in CollectivesOf(program) : f.ins[1] = g.ins[1] => f = g
  => /\ EngineErrors = {f \in CollectivesOf(program) : f.kind \notin EngineKinds}
     /\ SolverErrors = {f \in CollectivesOf(program) : f.kind \notin EngineKinds}

SentFirst(p) == \A j \in DOMAIN p : p[j].kind = "Recv" =>
                  \E i \in 1 .. (j - 1) : /\ p[i].kind = "Send"
                                          /\ p[i].src = p[j].src /\ p[i].dst = p[j].dst
Received(p) == \A i \in DOMAIN p : p[i].kind = "Send" =>
                  \E j \in (i + 1) .. Len(p) : /\ p[j].kind = "Recv"
                                               /\ p[i].src = p[j].src /\ p[i].dst = p[j].dst

(***************************************************************************)
(* In the backward program, too, messages are sent before they are         *)
(* received: if those of the program are, all of them received, and the    *)
(* loss depends on them.                                                   *)
(***************************************************************************)
SendsFirst ==
  /\ clean /\ Len(tape) = Len(program) /\ WritesOnce
  /\ \A f \in CollectivesOf(program) : Used(f)
  /\ SentFirst(program) /\ Received(program)
  => SentFirst(bwd)

\* An Add and a Cast pass on the placement of their output's gradient.
PassedOnAlike == \A i \in DOMAIN tape :
  /\ tape[i].op.kind \in {"Add", "Cast"} => tape[i].op.out # loss
  /\ tape[i].op.kind = "Add" =>
       \A n \in Range(tape[i].op.ins) : tape[i].saved[n] = tape[i].saved[tape[i].op.out]
ScattersWhole == \A i \in DOMAIN tape : tape[i].op.kind = "ReduceScatter" =>
                   ~IsPartial(tape[i].saved[tape[i].op.ins[1]].pl)

\* The inputs whose gradient is of another type: nothing checks this.
Mistyped == {n \in DOMAIN grads \ {loss} : \E i \in DOMAIN tape :
               n \in Range(tape[i].op.ins) /\ tape[i].saved[n].dtype \notin {"none", grads[n].dtype}}

(***************************************************************************)
(* Gradients are placed like their tensors and of their types, whichever   *)
(* contribution came first and however late the operations were recorded:  *)
(* if no sum changes a placement or a type, neither a sum nor a Cast is the*)
(* loss, and no partial tensor is scattered.                               *)
(***************************************************************************)
GradientsPlaced ==
  clean /\ WritesOnce /\ PassedOnAlike /\ ScattersWhole => Misplaced \subseteq {loss} /\ Mistyped = {}
=============================================================================
