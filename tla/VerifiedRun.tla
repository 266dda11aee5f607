----------------------------- MODULE VerifiedRun -----------------------------
(***************************************************************************)
(* What a verdict about placements is worth: an accepted program is run on *)
(* the devices of a mesh of one dimension, next to a run of the same       *)
(* program on one device.  The repository has no such run, its operations  *)
(* compute placements only; the local computations here are what the       *)
(* classes' docstrings say an operation does to the data.                  *)
(*                                                                         *)
(* A matrix is a function on pairs <<row, column>>; the part of it that a  *)
(* device holds is that function on fewer pairs.                           *)
(***************************************************************************)
EXTENDS DistributedVerifier

CONSTANTS Size,        \* the matrices are Size x Size, on as many devices
          InputValue,  \* the value of each input
          PartialShare \* what the devices but the first hold of a partial input

ASSUME SizeAssumption == MeshNdim = 1 /\ Size \in Nat \ {0}

VARIABLES value,   \* the tensors of the run on one device
          local,   \* local[n][dev]: what a device holds of the tensor n
          step     \* how many operations have run

dataVars == <<value, local, step>>

Range0  == 0 .. (Size - 1)
Devices == Range0
Pairs   == Range0 \X Range0

ASSUME DataAssumption ==
  \A n \in Inputs : /\ InputValue[n] \in [Pairs -> Int]
                    /\ PartialShare[n] \in [Devices \ {0} -> [Pairs -> Int]]

\* A matrix has two dimensions.
ASSUME DimsAssumption ==
  \A o \in Menu : /\ o.kind \in {"AllGather", "AllToAll", "ReduceScatter", "Scatter"} =>
                       o.dim \in {0, 1}
                  /\ o.kind = "AllToAll" => o.concat_dim \in {0, 1}

\* The sum of f over a subset of Range0.
SumOver(S, f) ==
  LET upto[k \in 0 .. Size] ==
        IF k = 0 THEN 0 ELSE upto[k - 1] + (IF k - 1 \in S THEN f[k - 1] ELSE 0)
  IN  upto[Size]

Part(v, dim, dev) == [p \in {q \in DOMAIN v : q[dim + 1] = dev} |-> v[p]]

\* The first device holds what is left of a partial tensor v.
PartialHeld(v, share, dev) ==
  [p \in Pairs |->
     IF dev # 0 THEN share[dev][p]
     ELSE v[p] - SumOver(Devices \ {0}, [d \in Devices \ {0} |-> share[d][p]])]

\* What a device holds of the value v of a tensor with the given placement.
Held(v, placement, share, dev) ==
  CASE placement = "R"  -> v
    [] placement = "S0" -> Part(v, 0, dev)
    [] placement = "S1" -> Part(v, 1, dev)
    [] placement = "P"  -> PartialHeld(v, share, dev)

-----------------------------------------------------------------------------
Product(a, b) ==
  LET Rows == {p[1] : p \in DOMAIN a}
      Cols == {p[2] : p \in DOMAIN b}
      Ks   == {p[2] : p \in DOMAIN a} \cap {p[1] : p \in DOMAIN b}
  IN  [p \in Rows \X Cols |->
         SumOver(Ks, [k \in Ks |-> a[<<p[1], k>>] * b[<<k, p[2]>>]])]

\* What an operation without communication computes from what a device holds.
\* Of a replicated operand only the part that meets the other is used.
Compute(o, x) ==
  CASE o.kind = "MatMul"    -> Product(x[1], x[2])
    [] o.kind = "Add"       -> [p \in DOMAIN x[1] \cap DOMAIN x[2] |-> x[1][p] + x[2][p]]
    [] o.kind = "Multiply"  -> [p \in DOMAIN x[1] \cap DOMAIN x[2] |-> x[1][p] * x[2][p]]
    [] o.kind = "Unary"     -> [p \in DOMAIN x[1] |-> IF x[1][p] > 0 THEN x[1][p] ELSE 0]
    [] o.kind = "Transpose" -> [p \in {<<q[2], q[1]>> : q \in DOMAIN x[1]} |-> x[1][<<p[2], p[1]>>]]

Communicates(o) ==
  o.kind \in {"AllReduce", "AllGather", "ReduceScatter", "AllToAll", "Scatter", "Broadcast"}

Reduced(x) ==
  [p \in UNION {DOMAIN x[dev] : dev \in Devices} |->
     LET holders == {dev \in Devices : p \in DOMAIN x[dev]}
     IN  SumOver(holders, [dev \in holders |-> x[dev][p]])]

\* The devices' parts in the order of the devices along dimension dim: the
\* tensor if those parts are its slices along dim.
Gathered(x, dim) ==
  [p \in {q \in Pairs : q \in DOMAIN x[q[dim + 1]]} |-> x[p[dim + 1]][p]]

\* What a collective leaves on a device, from what all devices hold.
Exchange(o, x, dev) ==
  CASE o.kind = "AllReduce"     -> Reduced(x)
    [] o.kind = "AllGather"     -> Gathered(x, o.dim)
    [] o.kind = "ReduceScatter" -> Part(Reduced(x), o.dim, dev)
    [] o.kind = "AllToAll"      -> Part(Gathered(x, o.dim), o.concat_dim, dev)
    [] o.kind = "Scatter"       -> Part(x[0], o.dim, dev)
    [] o.kind = "Broadcast"     -> x[0]

-----------------------------------------------------------------------------
Init == /\ VerifierInit
        /\ value = [n \in Inputs |-> InputValue[n]]
        /\ local = [n \in Inputs |-> [dev \in Devices |->
                      Held(InputValue[n], tensors[n][0], PartialShare[n], dev)]]
        /\ step = 0

Verifier == VerifierNext /\ UNCHANGED dataVars

\* The operations whose data is modelled.
Computable == {"MatMul", "Add", "Multiply", "Unary", "Transpose", "AllReduce",
               "AllGather", "ReduceScatter", "AllToAll", "Scatter", "Broadcast"}

Run ==
  /\ Accepted /\ step < Len(ops)
  /\ \A i \in Indices : ops[i].kind \in Computable
  /\ LET o == ops[step + 1]
         single == IF Communicates(o) THEN value[o.ins[1]]
                   ELSE Compute(o, [k \in DOMAIN o.ins |-> value[o.ins[k]]])
         spread == [dev \in Devices |->
                      IF Communicates(o) THEN Exchange(o, local[o.ins[1]], dev)
                      ELSE Compute(o, [k \in DOMAIN o.ins |-> local[o.ins[k]][dev]])]
     IN  /\ value' = [n \in DOMAIN value \cup {o.out} |-> IF n = o.out THEN single ELSE value[n]]
         /\ local' = [n \in DOMAIN local \cup {o.out} |-> IF n = o.out THEN spread ELSE local[n]]
  /\ step' = step + 1
  /\ UNCHANGED verifierVars

Next == Verifier \/ Run

vars == <<verifierVars, dataVars>>
Spec == Init /\ [][Next]_vars

-----------------------------------------------------------------------------
(***************************************************************************)
(* Where the placement rules are true of the data.  Nothing in the code    *)
(* checks these: a matrix product needs matching parts of its operands, a  *)
(* replicated summand is counted on every device, a nonlinear function of  *)
(* a sum is not the sum of its values, a reduction of a replicated tensor  *)
(* multiplies it, and the root of a broadcast or a scatter must have all.  *)
(***************************************************************************)
RuleHolds(o, ins) ==
  LET x == ins[1][0]
  IN  CASE o.kind = "MatMul" ->
             <<x, ins[2][0]>> \in {<<"R", "R">>, <<"S0", "R">>, <<"R", "S1">>,
                                  <<"S1", "S0">>, <<"P", "R">>}
        [] o.kind = "Add" -> x = "P" <=> ins[2][0] = "P"
        [] o.kind = "Unary" -> x # "P"
        [] o.kind = "ReduceScatter" -> x = "P"
        [] o.kind \in {"Scatter", "Broadcast"} -> x = "R"
        [] o.kind \in {"Multiply", "Transpose", "AllReduce", "AllGather", "AllToAll"} -> TRUE

RulesHold == \A i \in Indices : RuleHolds(ops[i], history[i])

-----------------------------------------------------------------------------
\* What the devices hold is the value v, distributed by the placement.
Represents(x, v, placement) ==
  /\ placement = "R"  => \A dev \in Devices : x[dev] = v
  /\ placement = "S0" => \A dev \in Devices : x[dev] = Part(v, 0, dev)
  /\ placement = "S1" => \A dev \in Devices : x[dev] = Part(v, 1, dev)
  /\ placement = "P"  =>
       /\ \A dev \in Devices : x[dev] \in [Pairs -> Int]
       /\ \A p \in Pairs : v[p] = SumOver(Devices, [dev \in Devices |-> x[dev][p]])

\* The data of a tensor is what its placement after the last write says.
TensorRight(n) ==
  /\ value[n] \in [Pairs -> Int]
  /\ \/ NotWritten(n, step) /\ Represents(local[n], value[n], tensors[n][0])
     \/ \E j \in 1 .. step :
          /\ LastWrite(n, step, j)
          /\ Represents(local[n], value[n], Apply(ops[j], history[j])[0])

DataInv == InputsKept /\ (step > 0 => RulesHold /\ Replayable) =>
             \A n \in DOMAIN value : TensorRight(n)

\* The inductive invariant: the books of the symbolic run, and the run on the
\* devices has computed the tensors of the operations it has gone by, each as
\* its placement says if the rules used are true of the data.
IInv == /\ RunInv
        /\ step \in 0 .. Len(ops)
        /\ step > 0 => Accepted
        /\ DOMAIN value = Inputs \cup {ops[i].out : i \in 1 .. step}
        /\ DOMAIN local = DOMAIN value
        /\ DataInv

-----------------------------------------------------------------------------
Finished == Accepted /\ step > 0 /\ step = Len(ops)

Agrees(n) == \A dev \in Devices : local[n][dev] = value[n]

\* Every device ends with the tensors of the run on one device, if each rule
\* that the program uses is true of the data and the program keeps its inputs
\* and what the replay cannot apply.
EquivalentIfRulesHold ==
  Finished /\ RulesHold /\ InputsKept /\ Replayable =>
    \A n \in OutputNames \cap WrittenNames : Agrees(n)

\* "Z3 proved: always Replicate (equivalent to single-GPU)", of any program.
ProvedEquivalent == Finished => \A n \in OutputNames \cap WrittenNames : Agrees(n)
=============================================================================
