------------------------------ MODULE DeviceMesh ------------------------------
(***************************************************************************)
(* A mesh of devices and the part of a tensor that each of them holds:     *)
(* DeviceMesh of verifier/state/device.py, compute_local_shape and         *)
(* compute_tensor_slices of verifier/state/sharding.py, and what apply of  *)
(* verifier/ir does to shapes.                                             *)
(*                                                                         *)
(* A mesh is a record: shape, its size in each dimension, and device_ids,  *)
(* the devices in the order of their coordinates.  A shape is a function   *)
(* on TensorDims, and so are the offsets of a slice.                       *)
(***************************************************************************)
EXTENDS TensorOps, FiniteSetsExt, Functions

Times(a, b) == a * b

TensorDims == {0, 1}
Rows(a, b) == [k \in TensorDims |-> IF k = 0 THEN a ELSE b]

-----------------------------------------------------------------------------
\* The number of devices in one step along dimension d.
Stride(mesh, d) == FoldFunctionOnSet(Times, 1, mesh.shape, {e \in MeshDims : e > d})

NumDevices(mesh) == Stride(mesh, -1)

\* What __post_init__ makes sure of.
IsMesh(mesh) == /\ mesh.shape \in [MeshDims -> Nat \ {0}]
                /\ mesh.device_ids \in Seq(Range(mesh.device_ids))
                /\ Len(mesh.device_ids) = NumDevices(mesh)

DeviceToCoord(mesh, id) ==
  LET flat == (CHOOSE i \in DOMAIN mesh.device_ids : mesh.device_ids[i] = id) - 1
  IN  [d \in MeshDims |-> (flat \div Stride(mesh, d)) % mesh.shape[d]]

-----------------------------------------------------------------------------
\* The mesh dimensions that dimension k of a tensor is sharded over.
ShardDims(pl, k) == {d \in MeshDims : pl[d] = Shard(k)}

\* The number of parts that a tensor dimension is cut into.
Parts(mesh, pl, k) == FoldFunctionOnSet(Times, 1, mesh.shape, ShardDims(pl, k))

\* compute_local_shape, which raises an exception if a part is not whole.
Divides(mesh, shape, pl) == \A k \in TensorDims : shape[k] % Parts(mesh, pl, k) = 0
LocalShape(mesh, shape, pl) == [k \in TensorDims |-> shape[k] \div Parts(mesh, pl, k)]

\* compute_tensor_slices, for one device.  Of two mesh dimensions that shard
\* the same tensor dimension the later one decides on the offset alone.
Offsets(mesh, shape, pl, id) ==
  [k \in TensorDims |->
     IF ShardDims(pl, k) = {} THEN 0
     ELSE LET d == Max(ShardDims(pl, k))
          IN  DeviceToCoord(mesh, id)[d] * (shape[k] \div mesh.shape[d])]

\* TensorSlice.ranges: the elements of a slice.
Elements(slice) ==
  (slice.at[0] .. (slice.at[0] + slice.size[0] - 1)) \X
  (slice.at[1] .. (slice.at[1] + slice.size[1] - 1))
-----------------------------------------------------------------------------
\* The shape of the tensor that apply returns, and when it raises an exception
\* because of the shapes it is given.
OutShape(o, ins) ==
  CASE o.kind = "MatMul"    -> Rows(ins[1].shape[0], ins[2].shape[1])
    [] o.kind = "Transpose" -> Rows(ins[1].shape[1], ins[1].shape[0])
    [] o.kind \notin {"MatMul", "Transpose"} -> ins[1].shape

ShapesClash(o, ins) ==
  \/ o.kind = "MatMul" /\ ins[1].shape[1] # ins[2].shape[0]
  \/ o.kind \in {"Add", "Multiply"} /\ ins[1].shape # ins[2].shape
=============================================================================
