----------------------------- MODULE ShapeSolver -----------------------------
(***************************************************************************)
(* The shape level of Z3PlacementSolver (verifier/solver.py), as           *)
(* DistributedVerifier._verify_shape_z3 uses it on a program that has run  *)
(* on all devices of a mesh.  Programs are not renamed here, so that a name*)
(* is one set of variables: an operation that writes a name anew constrains*)
(* the old one.                                                            *)
(*                                                                         *)
(* A solution gives each name its shape and its placements.  Shapes are    *)
(* functions on TensorDims as in DeviceMesh; a size that no constraint     *)
(* fixes is one of FreeSizes.                                              *)
(***************************************************************************)
EXTENDS Executor

CONSTANT FreeSizes

ASSUME FreeSizesAssumption == FreeSizes \subseteq Nat \ {0}

\* The placement constraints of encode_program.
Placement == INSTANCE PlacementSolver WITH ops <- history,
                                           tensors <- [n \in DOMAIN tensors[0] |-> tensors[0][n].pl]

EncodedPlacement(o, ins) ==
  [d \in MeshDims |-> Placement!Encoded(o, d, [k \in DOMAIN ins |-> ins[k].pl[d]])]

Demanded(o, ins) ==
  \A d \in MeshDims : Placement!Demands(o, [k \in DOMAIN ins |-> ins[k].pl[d]])

-----------------------------------------------------------------------------
\* The parts of a tensor dimension: with more than two mesh dimensions, those
\* after the first are not looked at.
LocalParts(pl, k) == IF MeshNdim <= 2 THEN Parts(mesh, pl, k)
                     ELSE IF pl[0] = Shard(k) THEN mesh.shape[0] ELSE 1

\* _add_local_shape_constraints, and that local sizes are positive: whole
\* parts are not asked for.
LocalPositive(shape, pl) == \A k \in TensorDims : shape[k] >= LocalParts(pl, k)

PassThrough == {"Unary", "Norm", "Transpose", "Wait"}
Preserving  == {"AllReduce", "Broadcast", "AllGather", "ReduceScatter", "AllToAll", "Scatter"}
Elementwise == {"Add", "Multiply"}

\* Faulty: the rows of a product are those of the right operand.
ShapesEncodedSwapped(o, ins) ==
  CASE o.kind = "MatMul" -> {Rows(ins[2].shape[0], ins[2].shape[1])}
    [] o.kind \in PassThrough \cup Preserving \cup Elementwise -> {ins[1].shape}
    [] o.kind = "FlashAttention" -> {Rows(ins[1].shape[0], n) : n \in FreeSizes}
    [] o.kind = "Embedding" -> {Rows(n, ins[2].shape[1]) : n \in FreeSizes}

\* encode_shape_constraints: the shapes an operation's output may have.  A
\* transpose is taken to keep the shape, attention to keep the rows only.
ShapesEncoded(o, ins) ==
  CASE o.kind = "MatMul" -> {Rows(ins[1].shape[0], ins[2].shape[1])}
    [] o.kind \in PassThrough \cup Preserving \cup Elementwise -> {ins[1].shape}
    [] o.kind = "FlashAttention" -> {Rows(ins[1].shape[0], n) : n \in FreeSizes}
    [] o.kind = "Embedding" -> {Rows(n, ins[2].shape[1]) : n \in FreeSizes}

\* ... and what it asks of the inputs.
EqualSizes(o, ins) ==
  /\ o.kind = "MatMul"       => ins[1].shape[1] = ins[2].shape[0]
  /\ o.kind \in Elementwise  => ins[1].shape = ins[2].shape

\* Without a mesh dimension an AllReduce or a Broadcast is local = global.
WholeKinds == {"AllReduce", "Broadcast"}
LocalEncoded(o, shape, pl) ==
  (o.kind \in WholeKinds /\ o.mesh_dim = NoDim) \/ LocalPositive(shape, pl)

\* The solutions s extended by the output of o.
Extended(s, o) ==
  LET ins == [k \in DOMAIN o.ins |-> s[o.ins[k]]]
      new == {[shape |-> shape, pl |-> EncodedPlacement(o, ins)] : shape \in ShapesEncoded(o, ins)}
  IN  IF EqualSizes(o, ins) /\ Demanded(o, ins)
      THEN {Put(s, o.out, t) : t \in {u \in new : /\ LocalEncoded(o, u.shape, u.pl)
                                                   /\ o.out \in DOMAIN s => s[o.out] = u}}
      ELSE {}

\* Each placement of an input must divide its size, one at a time.
InputsWhole(given) ==
  \A n \in DOMAIN given : \A m \in MeshDims : \A k \in TensorDims :
    given[n].pl[m] = Shard(k) => given[n].shape[k] % mesh.shape[m] = 0

\* The models of all constraints on a program with the given inputs.
Solutions(program, given) ==
  LET f[i \in 0 .. Len(program)] ==
        IF i > 0 THEN UNION {Extended(s, program[i]) : s \in f[i - 1]}
        ELSE IF /\ InputsWhole(given)
                /\ \A n \in DOMAIN given : LocalPositive(given[n].shape, given[n].pl)
             THEN {given} ELSE {}
  IN  f[Len(program)]

-----------------------------------------------------------------------------
\* check_shape_consistency: some model, and none where a sharded size is not
\* divisible.
AlwaysDivisible(models) ==
  \A s \in models : \A n \in DOMAIN s : \A m \in MeshDims : \A k \in TensorDims :
    s[n].pl[m] = Shard(k) => s[n].shape[k] % mesh.shape[m] = 0

\* check_slice_alignment, the part that can fail.
ContractionsMatch(program, models) ==
  \A s \in models : \A i \in DOMAIN program :
    program[i].kind = "MatMul" =>
      s[program[i].ins[1]].shape[1] = s[program[i].ins[2]].shape[0]

ShapesPass(program, given) ==
  LET models == Solutions(program, given)
  IN  models # {} /\ AlwaysDivisible(models) /\ ContractionsMatch(program, models)

-----------------------------------------------------------------------------
\* The program's inputs as registered: initial_shapes and their placements.
Given == [n \in {setup[k].name : k \in DOMAIN setup} |->
            LET k == CHOOSE j \in DOMAIN setup : setup[j].name = n
            IN  [shape |-> setup[k].shape, pl |-> setup[k].pl]]

\* Where the encoding has the rule of the operation; every name is written once.
EncodedKinds == {"MatMul", "Unary", "AllGather", "ReduceScatter", "AllReduce"} \cup Elementwise

WrittenOnce ==
  \A i, j \in DOMAIN history : /\ history[i].kind \in EncodedKinds
                               /\ history[i].out \notin DOMAIN Given
                               /\ history[i].out = history[j].out => i = j

\* The encoding has a solution for the placements of the run, and it is that of
\* the run: an Add of two partial tensors runs and has none.  If the run raised
\* an exception then it was for the shapes.
EncodingIsRule ==
  \A i \in 1 .. Len(history) :
    LET o == history[i]
    IN  /\ HasAll(0, o.ins)
        /\ ~Raises(o, Placed(Ins(0, o)))
        /\ Demanded(o, Ins(0, o))
        /\ EncodedPlacement(o, Ins(0, o)) = Apply(o, Placed(Ins(0, o)))

\* The inputs are what the solver takes them for: no size is zero, which the
\* run accepts and the solver rejects, and a name registered for several
\* devices has one shape, where the solver keeps one per name.
InputsAlike ==
  \A j, k \in DOMAIN setup :
    /\ \A d \in TensorDims : setup[j].shape[d] > 0
    /\ setup[j].name = setup[k].name =>
         setup[j].shape = setup[k].shape /\ setup[j].pl = setup[k].pl

InLine == \A m, k \in MeshDims : mesh.shape[m] > 1 /\ mesh.shape[k] > 1 => m = k

\* The solver is asked only if some mesh dimension has two devices.
Asked == \E m \in MeshDims : mesh.shape[m] > 1

Comparable == /\ phase \in {"done", "raised"} /\ ~warned /\ RegisteredEverywhere /\ history # << >>
              /\ Asked /\ InLine /\ InputsAlike /\ WrittenOnce /\ EncodingIsRule

(***************************************************************************)
(* The shape checks say what the run says: on a line of devices they pass  *)
(* iff no operation raised an exception, and every solution then has the   *)
(* shapes and the placements of the run.                                   *)
(***************************************************************************)
ShapesAsRun ==
  Comparable =>
    /\ ShapesPass(history, Given) <=> phase = "done"
    /\ phase = "done" =>
         \A s \in Solutions(history, Given) : \A n \in DOMAIN s :
           s[n].shape = tensors[0][n].shape /\ s[n].pl = tensors[0][n].pl
=============================================================================
