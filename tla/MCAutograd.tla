------------------------------ MODULE MCAutograd ------------------------------
(***************************************************************************)
(* Operations for TLC: products, sums and collectives on three names, an   *)
(* in-place reduction, a message there and back, duals of every kind, and  *)
(* casts to a type of 8 bits and back.                                     *)
(***************************************************************************)
EXTENDS Autograd

MCInputTensors == [pl : Placements, dtype : {"fp32"}]
                    \cup {[pl |-> [d \in MeshDims |-> "R"], dtype |-> "none"]}

Op(kind, ins, out, dim) ==
  [kind |-> kind, ins |-> ins, out |-> out, dim |-> dim, concat_dim |-> 1 - dim,
   mesh_dim |-> NoDim, src |-> 0, dst |-> 1]

CastOp(kind, x, out, from, to) ==
  [kind |-> kind, ins |-> <<x>>, out |-> out, dim |-> 0, concat_dim |-> 0, mesh_dim |-> NoDim,
   src |-> 0, dst |-> 0, src_dtype |-> from, dst_dtype |-> to]

MCMenu == {
  Op("MatMul", <<"x", "w">>, "y", 0),
  Op("MatMul", <<"y", "w">>, "z", 0),
  Op("Add", <<"y", "x">>, "z", 0),
  Op("Multiply", <<"y", "y">>, "z", 0),
  Op("Transpose", <<"x">>, "y", 0),
  Op("Unary", <<"z">>, "u", 0),
  Op("Embedding", <<"x", "w">>, "y", 0),
  Op("CrossEntropyLoss", <<"y", "x">>, "z", 0),
  Op("AllReduce", <<"y">>, "z", 0),
  Op("AllReduce", <<"y">>, "y", 0),
  Op("AllGather", <<"z">>, "u", 1),
  Op("ReduceScatter", <<"y">>, "z", 0),
  Op("Broadcast", <<"y">>, "z", 0),
  Op("ZeROGatherParam", <<"w">>, "y", 0),
  Op("ZeROScatterGrad", <<"z">>, "u", 0),
  Op("MoEDispatch", <<"x">>, "y", 0),
  Op("MoECombine", <<"y">>, "z", 1),
  Op("Send", <<"x">>, "y", 0),
  Op("Recv", <<"y">>, "z", 0),
  Op("RingRotate", <<"z">>, "u", 0),
  CastOp("Cast", "w", "y", "fp32", "bf16"),
  CastOp("Cast", "z", "u", "fp32", "bf16"),
  CastOp("FP8Quantize", "y", "z", "bf16", "fp8e4m3"),
  CastOp("FP8Dequantize", "z", "u", "fp8e4m3", "bf16"),
  Op("AmaxUpdate", <<"z">>, "u", 0),
  Op("ZeROPartitionOptState", <<"w">>, "z", 0)}
=============================================================================
