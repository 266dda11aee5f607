------------------------------- MODULE Executor -------------------------------
(***************************************************************************)
(* MultiDeviceExecutor (verifier/executor.py): a program is run            *)
(* symbolically on all devices of a mesh.  Each device has its own tensors *)
(* and knows of some of them which slice of the whole tensor it holds;     *)
(* collectives are applied on each device alone, only point-to-point       *)
(* operations and ring rotations move tensors from device to device.       *)
(*                                                                         *)
(* A tensor is a record: its global shape, its placements pl, and from, the*)
(* inputs in its expression: pairs of a name and the device it was         *)
(* registered on.  Its local shape is always that of its placements        *)
(* (TensorState.__post_init__).  An operation is a record of TensorOps, and*)
(* of a few more kinds: "Send", "Recv", "SendAsync", "RecvAsync" have src  *)
(* and dst, "Wait" reads and writes one name, "WaitAll" has outs,          *)
(* "RingRotate" has ring_size, "RingAttention" too, "TopKGate" has         *)
(* indices_output and top_k, "OverlapRegion" has compute_ops and comm_ops. *)
(* A RingAttentionStep has the rule of FlashAttention and is of that kind. *)
(* A name is a tuple: of one string, or as RingAttention.expand makes it.  *)
(***************************************************************************)
EXTENDS DeviceMesh, SequencesExt

CONSTANTS Meshes,   \* the meshes considered
          Setups,   \* sequences of register_tensor calls: [name, shape, pl, device_ids],
                    \* device_ids = {} if the argument is None
          Menu,     \* the operations programs are made of
          MaxOps,   \* bound on the operations of all programs run, those of a
                    \* composite operation not counted
          MaxResets \* bound on the calls of reset_devices

VARIABLES mesh, strict,
          setup,      \* the tensors to register
          registered, \* how many of them are
          tensors,    \* tensors[d]: DeviceState.tensors of device d
          slices,     \* slices[d]: DeviceState.slices
          history,    \* op_history
          todo,       \* operations of a composite operation that are yet to run
          left,       \* MaxOps - operations run
          resets,     \* calls of reset_devices
          phase,      \* "setup", "run", "done", "raised"
          warned,     \* an operation was skipped on a device, with a warning
          exact       \* not in the code: <<d, n>> if n's slice on d was set with n,
                      \* by a rule that is right for n's placements

vars == <<mesh, strict, setup, registered, tensors, slices, history, todo, left, resets,
          phase, warned, exact>>

Devices == 0 .. (NumDevices(mesh) - 1)
Has(d, n) == n \in DOMAIN tensors[d]
\* The devices that op reads names on.
HasAll(d, names) == \A k \in DOMAIN names : Has(d, names[k])

Init ==
  /\ mesh \in Meshes /\ strict \in BOOLEAN
  /\ setup \in {s \in Setups : \A k \in DOMAIN s : Divides(mesh, s[k].shape, s[k].pl)}
  /\ registered = 0
  /\ tensors = [d \in Devices |-> << >>]
  /\ slices = [d \in Devices |-> << >>]
  /\ history = << >> /\ todo = << >> /\ left = MaxOps /\ resets = 0
  /\ phase = "setup" /\ warned = FALSE /\ exact = {}

-----------------------------------------------------------------------------
\* A dictionary f after f[n] = t.
Put(f, n, t) == [m \in DOMAIN f \cup {n} |-> IF m = n THEN t ELSE f[m]]

\* DeviceState.set: of one tensor on some devices.
Stored(S, n, t) ==
  [d \in Devices |-> IF d \in S THEN Put(tensors[d], n, t[d]) ELSE tensors[d]]

\* No mesh dimension shards a tensor dimension together with another one.
SinglySharded(pl) == \A k \in TensorDims : Cardinality(ShardDims(pl, k)) <= 1

Register ==
  /\ phase = "setup" /\ registered < Len(setup)
  /\ LET r == setup[registered + 1]
         S == IF r.device_ids = {} THEN Devices ELSE r.device_ids
         placed == S \cap Devices \cap Range(mesh.device_ids)
     IN  /\ tensors' = Stored(S, r.name, [d \in S |-> [shape |-> r.shape, pl |-> r.pl,
                                                       from |-> {<<r.name, d>>}]])
         /\ slices' = [d \in Devices |->
                         IF d \in placed
                         THEN Put(slices[d], r.name, [at |-> Offsets(mesh, r.shape, r.pl, d),
                                                      size |-> LocalShape(mesh, r.shape, r.pl)])
                         ELSE slices[d]]
         /\ exact' = (exact \ (S \X {r.name}))
                       \cup (IF SinglySharded(r.pl) THEN placed \X {r.name} ELSE {})
  /\ registered' = registered + 1
  /\ UNCHANGED <<mesh, strict, setup, history, todo, left, resets, phase, warned>>

\* run_program begins.
RunProgram ==
  /\ phase = "setup" /\ registered = Len(setup)
  /\ phase' = "run"
  /\ history' = << >>
  /\ UNCHANGED <<mesh, strict, setup, registered, tensors, slices, todo, left, resets,
                 warned, exact>>

EndProgram ==
  /\ phase = "run" /\ todo = << >>
  /\ phase' = "done"
  /\ UNCHANGED <<mesh, strict, setup, registered, tensors, slices, history, todo, left,
                 resets, warned, exact>>

\* reset_devices, after which the executor is set up anew.  The slices stay.
ResetDevices ==
  /\ phase = "done" /\ resets < MaxResets /\ left > 0
  /\ resets' = resets + 1
  /\ tensors' = [d \in Devices |-> << >>]
  /\ setup' \in {s \in Setups : \A k \in DOMAIN s : Divides(mesh, s[k].shape, s[k].pl)}
  /\ registered' = 0 /\ phase' = "setup"
  /\ warned' = FALSE
  /\ UNCHANGED <<mesh, strict, slices, history, todo, left, exact>>

-----------------------------------------------------------------------------
(***************************************************************************)
(* What apply does to the shapes, and when it raises an exception.         *)
(***************************************************************************)
Placed(ins) == [k \in DOMAIN ins |-> ins[k].pl]

\* Faulty: whether a result can be cut into whole parts is not looked at.
ShapeRaisesIfClash(o, ins) == ShapesClash(o, ins)

\* Shapes that clash, or a result that cannot be cut into whole parts.
ShapeRaises(o, ins) ==
  ShapesClash(o, ins) \/ ~Divides(mesh, OutShape(o, ins), Apply(o, Placed(ins)))

ApplyRaises(o, ins) == Raises(o, Placed(ins)) \/ ShapeRaises(o, ins)

Result(o, ins) == [shape |-> OutShape(o, ins), pl |-> Apply(o, Placed(ins)),
                   from |-> UNION {ins[k].from : k \in DOMAIN ins}]

Ins(d, o) == [k \in DOMAIN o.ins |-> tensors[d][o.ins[k]]]

-----------------------------------------------------------------------------
(***************************************************************************)
(* _propagate_slice.  Each class has a rule for the offsets; some have none*)
(* and leave a slice of an earlier tensor of that name as it is.           *)
(***************************************************************************)
NoSliceKinds  == {"AllGather", "ReduceScatter", "AllToAll", "Scatter", "Gather", "Reduce",
                  "AllReduceAsync", "Embedding", "CrossEntropyLoss"}
ZeroOffset    == {"AllReduce", "Broadcast"}
InheritAny    == {"Add", "Multiply"}

SlicedIns(d, o) == {k \in DOMAIN o.ins : o.ins[k] \in DOMAIN slices[d]}

SliceKnown(d, o) ==
  CASE o.kind \in NoSliceKinds -> FALSE
    [] o.kind \in ZeroOffset   -> TRUE
    [] o.kind = "MatMul"       -> {1, 2} \subseteq SlicedIns(d, o)
    [] o.kind \in InheritAny   -> SlicedIns(d, o) # {}
    [] o.kind \notin NoSliceKinds \cup ZeroOffset \cup InheritAny \cup {"MatMul"} ->
         1 \in SlicedIns(d, o)

\* Faulty: the columns of a product start where those of the left operand do.
OffsetsOfLeft(d, o) ==
  LET At(k) == slices[d][o.ins[k]].at
  IN  IF o.kind \in ZeroOffset THEN Rows(0, 0)
      ELSE IF o.kind \in InheritAny THEN At(Min(SlicedIns(d, o)))
      ELSE At(1)

OffsetsOf(d, o) ==
  LET At(k) == slices[d][o.ins[k]].at
  IN  CASE o.kind \in ZeroOffset -> Rows(0, 0)
        [] o.kind = "MatMul"     -> Rows(At(1)[0], At(2)[1])
        [] o.kind \in InheritAny -> At(Min(SlicedIns(d, o)))
        [] o.kind \notin ZeroOffset \cup InheritAny \cup {"MatMul"} -> At(1)

\* Where the rule is right: the inputs' slices are, a product's operands
\* are not both sharded outside, a sum's are sharded alike or the second less,
\* an AllReduce leaves nothing sharded, a transpose has nothing to swap.
RuleIsRight(d, o, ins) ==
  LET out == Apply(o, Placed(ins))
      x   == ins[1].pl
  IN  /\ o.kind \notin NoSliceKinds
      /\ o.kind \notin ZeroOffset => \A k \in DOMAIN o.ins : <<d, o.ins[k]>> \in exact
      /\ o.kind = "MatMul" =>
           \A m \in MeshDims : <<x[m], ins[2].pl[m]>> \notin
                                 {<<"S0", "S1">>, <<"S1", "R">>, <<"S1", "P">>}
      /\ o.kind \in InheritAny => \A m \in MeshDims : x[m] = "R" => ins[2].pl[m] \in {"R", "P"}
      /\ o.kind \in ZeroOffset => ~ShardedOn(out, 0) /\ ~ShardedOn(out, 1)
      /\ o.kind = "Transpose"  => ~ShardedOn(x, 0) /\ ~ShardedOn(x, 1)
      /\ o.kind = "FlashAttention" => \A m \in MeshDims : out[m] = "P" => x[m] \in {"R", "P"}

-----------------------------------------------------------------------------
(***************************************************************************)
(* _execute_op: the next operation is one of the program, or the next one  *)
(* of the composite operation that is running.                             *)
(***************************************************************************)
Current == IF todo # << >> THEN {Head(todo)} ELSE IF left > 0 THEN Menu ELSE {}

Executes(o, subs) ==
  /\ phase = "run" /\ o \in Current
  /\ history' = Append(history, o)
  /\ todo' = IF phase' = "raised" THEN << >>
             ELSE subs \o (IF todo = << >> THEN << >> ELSE Tail(todo))
  /\ left' = IF todo = << >> THEN left - 1 ELSE left
  /\ UNCHANGED <<mesh, strict, setup, registered, resets>>

Unsliced(S, n) == /\ slices' = slices
                  /\ exact' = exact \ (S \X {n})

Raised == phase' = "raised" /\ UNCHANGED <<tensors, slices, warned, exact>>
Ignored == UNCHANGED <<phase, tensors, slices, warned, exact>>

CrossKinds == {"Send", "Recv", "SendAsync", "RecvAsync", "RingRotate"}
OtherKinds == CrossKinds \cup {"Wait", "WaitAll", "TopKGate", "RingAttention", "OverlapRegion"}

Missing(d, o) == ~HasAll(d, o.ins)
Stops(d, o)   == IF Missing(d, o) THEN strict ELSE ApplyRaises(o, Ins(d, o))
Before(d, S)  == \A e \in S : d < e

\* Faulty: no warning of an input that is missing on a device other than 0.
SkipsOnZero(o, reached) == \E d \in reached \cap {0} : Missing(d, o)

\* The devices up to one where the operation raises; those that lack an input
\* are skipped if the executor is not strict.
Skips(o, reached) == \E d \in reached : Missing(d, o)

\* _exec_per_device
PerDevice(o) ==
  /\ o.kind \notin OtherKinds
  /\ LET stops   == {d \in Devices : Stops(d, o)}
         reached == {d \in Devices : Before(d, stops)}
         S       == {d \in reached : ~Missing(d, o)}
         res     == [d \in S |-> Result(o, Ins(d, o))]
         right   == {d \in S : RuleIsRight(d, o, Ins(d, o))}
     IN  /\ phase' = IF stops # {} THEN "raised" ELSE phase
         /\ tensors' = Stored(S, o.out, res)
         /\ slices' = [d \in Devices |->
                         IF d \in S /\ SliceKnown(d, o)
                         THEN Put(slices[d], o.out,
                                  [at |-> OffsetsOf(d, o),
                                   size |-> LocalShape(mesh, res[d].shape, res[d].pl)])
                         ELSE slices[d]]
         /\ exact' = (exact \ (S \X {o.out})) \cup (right \X {o.out})
         /\ warned' = (warned \/ Skips(o, reached))
  /\ Executes(o, << >>)

-----------------------------------------------------------------------------
(***************************************************************************)
(* Point-to-point operations.  A tensor that is sent is written on the     *)
(* destination, where the receive finds it under the name the send gave.   *)
(***************************************************************************)
Moved(o, x, dst) == /\ tensors' = Stored({dst}, o.out, [d \in {dst} |-> x])
                    /\ Unsliced({dst}, o.out)
                    /\ UNCHANGED <<phase, warned>>

Send(o) ==
  /\ o.kind = "Send"
  /\ IF {o.src, o.dst} \subseteq Devices
     THEN IF Has(o.src, o.ins[1]) THEN Moved(o, tensors[o.src][o.ins[1]], o.dst) ELSE Raised
     ELSE Ignored
  /\ Executes(o, << >>)

Recv(o) ==
  /\ o.kind = "Recv"
  /\ IF o.dst \in Devices
     THEN IF Has(o.dst, o.ins[1]) THEN Moved(o, tensors[o.dst][o.ins[1]], o.dst) ELSE Raised
     ELSE Ignored
  /\ Executes(o, << >>)

RaisedIfStrict == IF strict THEN Raised ELSE Ignored

SendAsync(o) ==
  /\ o.kind = "SendAsync"
  /\ IF {o.src, o.dst} \subseteq Devices
     THEN IF Has(o.src, o.ins[1]) THEN Moved(o, tensors[o.src][o.ins[1]], o.dst)
          ELSE RaisedIfStrict
     ELSE RaisedIfStrict
  /\ Executes(o, << >>)

\* RecvAsync.apply makes a tensor with no sharding, which raises, if there is
\* nothing to receive, and one with no expression otherwise.
RecvAsync(o) ==
  /\ o.kind = "RecvAsync"
  /\ IF o.dst \in Devices
     THEN IF Has(o.dst, o.ins[1])
          THEN LET x == tensors[o.dst][o.ins[1]]
               IN  Moved(o, [shape |-> x.shape, pl |-> x.pl, from |-> {}], o.dst)
          ELSE Raised
     ELSE RaisedIfStrict
  /\ Executes(o, << >>)

-----------------------------------------------------------------------------
\* _exec_sync.  A Wait for a tensor that is not there raises an exception.
Wait(o) ==
  /\ o.kind = "Wait"
  /\ LET S == {d \in Devices : Before(d, {e \in Devices : Missing(e, o)})}
     IN  /\ phase' = IF S # Devices THEN "raised" ELSE phase
         /\ tensors' = Stored(S, o.out, [d \in S |-> tensors[d][o.ins[1]]])
         /\ Unsliced(S, o.out)
  /\ UNCHANGED warned
  /\ Executes(o, << >>)

\* What a device has after the first k of the pairs of a WaitAll.
WaitedFor(d, o) ==
  LET f[k \in 0 .. Len(o.outs)] ==
        IF k = 0 THEN tensors[d]
        ELSE LET ctx == f[k - 1]
             IN  IF o.ins[k] \in DOMAIN ctx THEN Put(ctx, o.outs[k], ctx[o.ins[k]]) ELSE ctx
  IN  f[Len(o.outs)]

WaitAll(o) ==
  /\ o.kind = "WaitAll"
  /\ tensors' = [d \in Devices |-> WaitedFor(d, o)]
  /\ slices' = slices
  /\ exact' = exact \ (Devices \X Range(o.outs))
  /\ UNCHANGED <<phase, warned>>
  /\ Executes(o, << >>)

\* Faulty: device 0 has no predecessor.
PreviousOnLine(d, ring_size) == d - 1

Previous(d, ring_size) == (d - 1) % ring_size

\* Faulty: each device reads its predecessor's tensor after it was replaced.
RotatedInPlace(o) ==
  LET prev(d) == (d - 1) % o.ring_size
      S == {d \in Devices : prev(d) \in Devices /\ Has(prev(d), o.ins[1])}
      f[d \in S] == IF o.out = o.ins[1] /\ prev(d) < d /\ prev(d) \in S THEN f[prev(d)]
                    ELSE tensors[prev(d)][o.ins[1]]
  IN  f

Rotated(o) ==
  LET S == {d \in Devices : Previous(d, o.ring_size) \in Devices
                            /\ Has(Previous(d, o.ring_size), o.ins[1])}
  IN  [d \in S |-> tensors[Previous(d, o.ring_size)][o.ins[1]]]

\* _exec_ring_rotate: all devices read before any of them writes.
RingRotate(o) ==
  /\ o.kind = "RingRotate"
  /\ tensors' = Stored(DOMAIN Rotated(o), o.out, Rotated(o))
  /\ Unsliced(DOMAIN Rotated(o), o.out)
  /\ UNCHANGED <<phase, warned>>
  /\ Executes(o, << >>)

\* _exec_topk_gate: weights and indices; a device without the inputs is
\* skipped, without a warning and even if the executor is strict.
TopKGate(o) ==
  /\ o.kind = "TopKGate"
  /\ LET Indices(d) == Rows(tensors[d][o.ins[1]].shape[0], o.top_k)
         there == {d \in Devices : ~Missing(d, o)}
         stops == {d \in there : ~Divides(mesh, Indices(d), tensors[d][o.ins[1]].pl)}
         S     == {d \in there : Before(d, stops)}
     IN  /\ phase' = IF stops # {} THEN "raised" ELSE phase
         /\ tensors' = [d \in Devices |->
              IF d \in S
              THEN LET x == tensors[d][o.ins[1]]
                       i == [shape |-> Indices(d), pl |-> x.pl, from |-> x.from]
                   IN  Put(Put(tensors[d], o.indices_output, i), o.out, x)
              ELSE tensors[d]]
         /\ slices' = slices
         /\ exact' = exact \ (S \X {o.out, o.indices_output})
  /\ UNCHANGED warned
  /\ Executes(o, << >>)

-----------------------------------------------------------------------------
Op(kind, ins, out) ==
  [kind |-> kind, ins |-> ins, out |-> out, dim |-> 0, concat_dim |-> 0, mesh_dim |-> NoDim]
Rotation(x, out, n) == [kind |-> "RingRotate", ins |-> <<x>>, out |-> out, ring_size |-> n]


\* The name of the keys or the values after i rotations.
RotatedName(x, rot, i) == IF i = 0 THEN x ELSE <<rot, i>>

\* Faulty: each rotation is one of the device's own tensor.
RotatedOwn(x, rot, i) == x

\* What the next rotation passes on.
PassedOn(x, rot, i) == RotatedName(x, rot, i)

\* RingAttention.expand: one step for each position of the keys and values.
Expansion(o) ==
  LET n == o.ring_size
      Step(i) == <<"step", i, o.out>>
      Sum(i)  == IF i = 0 THEN Step(0) ELSE <<"accum", i, o.out>>
      Ring(i) ==
        <<Op("FlashAttention", <<o.ins[1], RotatedName(o.ins[2], "k_rot", i),
                                 RotatedName(o.ins[3], "v_rot", i)>>, Step(i))>>
        \o (IF i = 0 THEN << >> ELSE <<Op("Add", <<Sum(i - 1), Step(i)>>, Sum(i))>>)
        \o (IF i = n - 1 THEN << >>
            ELSE <<Rotation(PassedOn(o.ins[2], "k_rot", i), <<"k_rot", i + 1>>, n),
                   Rotation(PassedOn(o.ins[3], "v_rot", i), <<"v_rot", i + 1>>, n)>>)
  IN  FlattenSeq([i \in 1 .. n |-> Ring(i - 1)])
        \o <<Op("AllReduce", <<Sum(n - 1)>>, o.out)>>

\* _exec_expand
RingAttention(o) == /\ o.kind = "RingAttention"
                    /\ Ignored
                    /\ Executes(o, Expansion(o))

\* _exec_overlap: the compute operations, then the communication.
OverlapRegion(o) == /\ o.kind = "OverlapRegion"
                    /\ Ignored
                    /\ Executes(o, o.compute_ops \o o.comm_ops)

-----------------------------------------------------------------------------
(***************************************************************************)
(* The operations that the classes of verifier/ir can make: as many        *)
(* operands as apply reads.  A region holds no other region.               *)
(***************************************************************************)
WellFormed(o) ==
  /\ o.kind \in UnaryKinds \cup BinaryKinds \cup OtherKinds
  /\ o.ins \in Seq(Range(o.ins))
  /\ o.kind \in UnaryKinds \cup BinaryKinds => o.mesh_dim \in MeshDims \cup {NoDim}
  /\ o.kind \in BinaryKinds => {1, 2} \subseteq DOMAIN o.ins
  /\ o.kind \notin {"WaitAll", "OverlapRegion"} => 1 \in DOMAIN o.ins
  /\ o.kind = "WaitAll" => o.outs \in Seq(Range(o.outs))
  /\ o.kind = "RingAttention" => {1, 2, 3} \subseteq DOMAIN o.ins /\ o.ring_size \in Nat \ {0}
  /\ o.kind = "TopKGate" => o.top_k \in Nat

RegionOps(o) == Range(o.compute_ops) \cup Range(o.comm_ops)

Writes(o) == {o.out} \cup (IF o.kind = "WaitAll" THEN Range(o.outs)
                           ELSE IF o.kind = "TopKGate" THEN {o.indices_output} ELSE {})

\* A name that expand does not make: those begin with an underscore.
ProgramName(n) == n = <<n[1]>>

NamesOf(o) == Range(o.ins) \cup Writes(o)

ASSUME MeshesAssumption == \A m \in Meshes : IsMesh(m)

ASSUME SetupsAssumption ==
  \A s \in Setups : /\ s \in Seq(Range(s))
                    /\ \A k \in DOMAIN s : /\ s[k].shape \in [TensorDims -> Nat]
                                            /\ s[k].pl \in Placements

ASSUME MaxOpsAssumption == MaxOps \in Nat

ASSUME MenuAssumption ==
  \A o \in Menu :
    /\ WellFormed(o)
    /\ o.kind = "OverlapRegion" =>
         /\ o.compute_ops \in Seq(RegionOps(o)) /\ o.comm_ops \in Seq(RegionOps(o))
         /\ \A p \in RegionOps(o) : WellFormed(p) /\ p.kind # "OverlapRegion"

ASSUME NamesAssumption ==
  \A o \in Menu :
    /\ \A n \in NamesOf(o) : ProgramName(n)
    /\ o.kind = "OverlapRegion" => \A p \in RegionOps(o) : \A n \in NamesOf(p) : ProgramName(n)

ExecuteOp == \E o \in Current :
               \/ PerDevice(o)
               \/ Send(o)
               \/ Recv(o)
               \/ SendAsync(o)
               \/ RecvAsync(o)
               \/ Wait(o)
               \/ WaitAll(o)
               \/ RingRotate(o)
               \/ TopKGate(o)
               \/ RingAttention(o)
               \/ OverlapRegion(o)

Next == Register \/ RunProgram \/ EndProgram \/ ResetDevices \/ ExecuteOp

Spec == Init /\ [][Next]_vars

-----------------------------------------------------------------------------
ExecutorTypeOK ==
  /\ \A d \in Devices : \A n \in DOMAIN tensors[d] :
       /\ tensors[d][n].shape \in [TensorDims -> Nat] /\ tensors[d][n].pl \in Placements
       /\ Divides(mesh, tensors[d][n].shape, tensors[d][n].pl)
  /\ registered \in 0 .. Len(setup) /\ left \in 0 .. MaxOps
  /\ phase \in {"setup", "run", "done", "raised"} /\ strict \in BOOLEAN /\ warned \in BOOLEAN
  /\ todo # << >> => phase = "run"
  /\ \A p \in exact : p[2] \in DOMAIN slices[p[1]]

-----------------------------------------------------------------------------
\* The operations that do the same on every device that has the same.
Symmetric(o) == /\ o.kind \notin {"Send", "Recv", "SendAsync", "RecvAsync"}
                /\ o.kind = "RingRotate" => o.ring_size = NumDevices(mesh)

AllSymmetric == \A i \in DOMAIN history : Symmetric(history[i])

\* The operations that warn or raise where an input is missing.
Loud(o) == Symmetric(o) /\ o.kind \notin {"RingRotate", "TopKGate", "WaitAll"}

RegisteredEverywhere == \A k \in 1 .. registered : setup[k].device_ids = {}

Leaves(d, n) == {p[1] : p \in tensors[d][n].from}

Alike(n, d, e) == /\ Has(d, n) <=> Has(e, n)
                  /\ Has(d, n) => /\ tensors[d][n].shape = tensors[e][n].shape
                                  /\ tensors[d][n].pl = tensors[e][n].pl
                                  /\ Leaves(d, n) = Leaves(e, n)

Names == UNION {DOMAIN tensors[d] : d \in Devices}

(***************************************************************************)
(* The verifier looks at the tensors of device 0.  This is enough if every *)
(* input is registered on all devices and no operation tells devices apart:*)
(* then all have the same tensors, with the same placements, also when the *)
(* program raises an exception.                                            *)
(***************************************************************************)
DevicesAgree ==
  RegisteredEverywhere /\ AllSymmetric => \A n \in Names : \A d \in Devices : Alike(n, 0, d)

Written == {history[i].out : i \in {j \in DOMAIN history : history[j].kind \notin OtherKinds}}

\* A name that is registered more than once, on other devices, is the same tensor.
RegisteredAlike ==
  \A j, k \in 1 .. registered : setup[j].name = setup[k].name =>
    setup[j].shape = setup[k].shape /\ setup[j].pl = setup[k].pl

(***************************************************************************)
(* In non-strict mode an operation is skipped on the devices that lack an  *)
(* input, and what reads its result there reads an older tensor of that    *)
(* name.  Whoever has seen no warning need not fear that: what the program *)
(* wrote is on all devices, computed from the same inputs, wherever the    *)
(* inputs were registered.                                                 *)
(***************************************************************************)
QuietRunsAgree ==
  ~warned /\ phase \in {"run", "done"} /\ RegisteredAlike
    /\ (\A i \in DOMAIN history : Loud(history[i]))
    => \A n \in Written : \A d \in Devices : Has(d, n) /\ Alike(n, 0, d)

(***************************************************************************)
(* The devices of D that data of device d may have reached when the        *)
(* operations h have run.                                                  *)
(***************************************************************************)
Hops(o, D) == IF o.kind \in {"Send", "SendAsync"} THEN {<<o.src, o.dst>>}
              ELSE IF o.kind = "RingRotate" THEN {<<(d - 1) % o.ring_size, d>> : d \in D}
              ELSE {}

ReachedFrom(h, D, d) ==
  LET f[i \in 0 .. Len(h)] ==
        IF i = 0 THEN {d}
        ELSE LET R == f[i - 1]
             IN  R \cup {hop[2] : hop \in {g \in Hops(h[i], D) : g[1] \in R}}
  IN  f[Len(h)]

(***************************************************************************)
(* Data gets from device to device by sends and rotations only, one hop for*)
(* each: a rotation whose devices read what others have just written would *)
(* pass data on further.                                                   *)
(***************************************************************************)
MovesByMessagesOnly ==
  \A e \in Devices : \A d \in Devices \ ReachedFrom(history, Devices, e) :
    \A n \in DOMAIN tensors[d] : \A leaf \in tensors[d][n].from : leaf[2] # e

(***************************************************************************)
(* Ring attention on a ring of all devices: when it has ended, without a   *)
(* warning, each device's output has been computed from the keys and the   *)
(* values of all of them, wherever in a program it is.  Its inputs are not *)
(* computed by the program, and nothing has overwritten the output since.  *)
(***************************************************************************)
MeetsAll(o) ==
  \A d, e \in Devices :
    Has(d, o.out) /\ {<<o.ins[2], e>>, <<o.ins[3], e>>} \subseteq tensors[d][o.out].from

RingMeetsAll ==
  todo = << >> /\ phase \in {"run", "done"} /\ ~warned =>
    \A i \in DOMAIN history :
      LET o == history[i]
      IN  /\ o.kind = "RingAttention" /\ o.ring_size = NumDevices(mesh)
          /\ \A j \in 1 .. (i - 1) : Writes(history[j]) \cap Range(o.ins) = {}
          /\ \A j \in (i + Len(Expansion(o)) + 1) .. Len(history) :
               o.out \notin Writes(history[j])
          => MeetsAll(o)

(***************************************************************************)
(* The slices that are propagated from operation to operation are the      *)
(* slices of the tensor: as large as its local shape, and those of all     *)
(* devices cover the tensor evenly, no element more often than another.    *)
(***************************************************************************)
Copies(n, p) == Cardinality({d \in Devices : p \in Elements(slices[d][n])})

SlicesTile ==
  \A n \in Names :
    (\A d \in Devices : Has(d, n) /\ <<d, n>> \in exact /\ Alike(n, 0, d)) =>
      LET t == tensors[0][n]
      IN  /\ \A d \in Devices : slices[d][n].size = LocalShape(mesh, t.shape, t.pl)
          /\ \E c \in 1 .. NumDevices(mesh) :
               \A p \in (0 .. (t.shape[0] - 1)) \X (0 .. (t.shape[1] - 1)) : Copies(n, p) = c

\* "What slice of a global tensor a specific device holds", of any placements.
RegisteredSlicesTile ==
  phase = "setup" /\ RegisteredEverywhere => \A k \in 1 .. registered :
    \A p \in (0 .. (setup[k].shape[0] - 1)) \X (0 .. (setup[k].shape[1] - 1)) :
      Copies(setup[k].name, p) > 0
=============================================================================
