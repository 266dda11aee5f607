--------------------------- MODULE Executor_proofs ---------------------------
(***************************************************************************)
(* Theorems about the executor, for every mesh, every setup and every      *)
(* program:                                                                *)
(*   Agreement              the devices agree if nothing tells them apart; *)
(*   Locality               data moves between devices by messages only;   *)
(*   QuietAgreement         the devices agree if there was no warning;     *)
(*   TypeCorrect            tensors, books and queues keep their shape;    *)
(*   RingAttentionMeetsAll  ring attention reads the keys and the values   *)
(*                          of all devices;                                *)
(*   ExactSlicesTile        slices that are propagated by rules that are   *)
(*                          right tile the tensor;                         *)
(*   ShapesFollowRun        the shape level of the solver passes a program *)
(*                          iff it runs, with the shapes of the run.       *)
(* WaitAll, the expansion of ring attention, ReachedFrom and Solutions are *)
(* recursive functions; each is tied to the relation of its steps first.   *)
(***************************************************************************)
EXTENDS ShapeSolver, TensorOps_proofs, FiniteSetTheorems

-----------------------------------------------------------------------------
(***************************************************************************)
(* Products over a set of indices do not depend on the order in which they *)
(* are formed.                                                             *)
(***************************************************************************)
Product(f, S) == FoldFunctionOnSet(Times, 1, f, S)

Chosen(S) == CHOOSE x \in S : TRUE

Multiplies(f, S, g) ==
  \A s \in SUBSET S : g[s] = IF s = {} THEN 1 ELSE f[Chosen(s)] * g[s \ {Chosen(s)}]

\* The sizes of sets that are handled by taking out elements.
LEMMA TakenOut ==
  ASSUME NEW S, IsFiniteSet(S)
  PROVE  \A s \in SUBSET S : /\ IsFiniteSet(s) /\ Cardinality(s) \in Nat
                             /\ Cardinality(s) = 0 <=> s = {}
                             /\ \A x \in s : Cardinality(s \ {x}) = Cardinality(s) - 1
                             /\ s # {} => Chosen(s) \in s
BY FS_Subset, FS_CardinalityType, FS_RemoveElement, FS_EmptySet DEF Chosen

\* There is a function that multiplies, on the sets of up to n elements.
Multiplier(f, S, g) ==
  g = [s \in SUBSET S |-> IF s = {} THEN 1 ELSE f[Chosen(s)] * g[s \ {Chosen(s)}]]

\* It exists, by adding one element at a time.
LEMMA MultiplierExists ==
  ASSUME NEW f, NEW S, IsFiniteSet(S)
  PROVE  \E g : Multiplier(f, S, g)
<1> DEFINE U(n) == {s \in SUBSET S : Cardinality(s) <= n}
           Is(n, g) == g = [s \in U(n) |-> IF s = {} THEN 1
                                           ELSE f[Chosen(s)] * g[s \ {Chosen(s)}]]
           T == {n \in Nat : \E g : Is(n, g)}
<1>1. 0 \in T
  <2>1. {} \in SUBSET S /\ \A s \in SUBSET S : Cardinality(s) <= 0 <=> s = {}
    BY TakenOut
  <2>2. U(0) = {{}}
    BY <2>1
  <2>3. Is(0, [s \in U(0) |-> 1])
    BY <2>2
  <2> QED BY <2>3
<1>2. ASSUME NEW n \in Nat, n \in T PROVE n + 1 \in T
  <2>1. PICK g : Is(n, g)
    BY <1>2
  <2>2. ASSUME NEW s \in U(n) PROVE s \in U(n + 1)
    <3>1. Cardinality(s) \in Nat /\ Cardinality(s) <= n
      BY TakenOut
    <3> QED BY <3>1
  <2>3. ASSUME NEW s \in U(n + 1), s # {} PROVE s \ {Chosen(s)} \in U(n)
    <3>1. Cardinality(s) \in Nat /\ Cardinality(s \ {Chosen(s)}) = Cardinality(s) - 1
      BY <2>3, TakenOut
    <3> QED BY <3>1
  <2> DEFINE h == [s \in U(n + 1) |-> IF s = {} THEN 1 ELSE f[Chosen(s)] * g[s \ {Chosen(s)}]]
  <2>4. \A s \in U(n) : h[s] = g[s]
    BY <2>1, <2>2
  <2> HIDE DEF U
  <2>5. \A s \in U(n + 1) : h[s] = IF s = {} THEN 1 ELSE f[Chosen(s)] * h[s \ {Chosen(s)}]
    BY <2>3, <2>4
  <2>6. h = [s \in U(n + 1) |-> h[s]]
    OBVIOUS
  <2> HIDE DEF h
  <2>7. [s \in U(n + 1) |-> h[s]]
          = [s \in U(n + 1) |-> IF s = {} THEN 1 ELSE f[Chosen(s)] * h[s \ {Chosen(s)}]]
    BY <2>5
  <2>8. Is(n + 1, h)
    BY <2>6, <2>7, Zenon
  <2> HIDE DEF Is
  <2> QED BY <2>8
<1> HIDE DEF T
<1>3. Cardinality(S) \in T
  BY <1>1, <1>2, Induction, FS_CardinalityType
<1>4. U(Cardinality(S)) = SUBSET S
  BY FS_Subset
<1> QED BY <1>3, <1>4 DEF T, Multiplier

\* The product over a set is the value of such a function.
LEMMA ProductIs ==
  ASSUME NEW f, NEW S, IsFiniteSet(S)
  PROVE  \E g : Multiplies(f, S, g) /\ Product(f, S) = g[S]
<1> DEFINE it == CHOOSE g : Multiplier(f, S, g)
<1>1. Multiplier(f, S, it)
  BY MultiplierExists
<1>2. Product(f, S) = it[S]
  BY DEF Product, FoldFunctionOnSet, MapThenFoldSet, Times, Chosen, Multiplier
<1> HIDE DEF it
<1>3. Multiplies(f, S, it)
  BY <1>1 DEF Multiplies, Multiplier
<1> QED BY <1>2, <1>3

\* Two such functions agree.
LEMMA MultipliersAgree ==
  ASSUME NEW f, NEW S, NEW T, IsFiniteSet(S), NEW g, NEW h,
         Multiplies(f, S, g), Multiplies(f, T, h)
  PROVE  \A u \in (SUBSET S) \cap (SUBSET T) : g[u] = h[u]
<1> DEFINE Q == {n \in Nat : \A u \in (SUBSET S) \cap (SUBSET T) : Cardinality(u) = n => g[u] = h[u]}
<1>1. 0 \in Q
  BY TakenOut DEF Multiplies
<1>2. ASSUME NEW n \in Nat, n \in Q PROVE n + 1 \in Q
  <2> SUFFICES ASSUME NEW u \in (SUBSET S) \cap (SUBSET T), Cardinality(u) = n + 1 PROVE g[u] = h[u]
    OBVIOUS
  <2>1. u # {} /\ Cardinality(u \ {Chosen(u)}) = n
    BY TakenOut
  <2>2. g[u \ {Chosen(u)}] = h[u \ {Chosen(u)}]
    BY <1>2, <2>1
  <2> HIDE DEF Q
  <2>3. g[u] = f[Chosen(u)] * g[u \ {Chosen(u)}]
    BY <2>1, Zenon DEF Multiplies
  <2>4. h[u] = f[Chosen(u)] * h[u \ {Chosen(u)}]
    BY <2>1, Zenon DEF Multiplies
  <2> QED BY <2>2, <2>3, <2>4
<1> HIDE DEF Q
<1>3. Nat \subseteq Q
  BY <1>1, <1>2, Induction
<1> QED BY <1>3, TakenOut DEF Q

\* A product is that of a chosen element and of the rest.
LEMMA ProductChosen ==
  ASSUME NEW f, NEW S, IsFiniteSet(S)
  PROVE  /\ S = {} => Product(f, S) = 1
         /\ S # {} => Product(f, S) = f[Chosen(S)] * Product(f, S \ {Chosen(S)})
<1>1. PICK g : Multiplies(f, S, g) /\ Product(f, S) = g[S]
  BY ProductIs
<1>2. CASE S = {}
  BY <1>1, <1>2 DEF Multiplies
<1>3. CASE S # {}
  <2> DEFINE T == S \ {Chosen(S)}
  <2>1. IsFiniteSet(T)
    BY FS_Subset
  <2>2. PICK h : Multiplies(f, T, h) /\ Product(f, T) = h[T]
    BY <2>1, ProductIs
  <2>3. g[T] = h[T]
    <3>1. T \in (SUBSET S) \cap (SUBSET T)
      OBVIOUS
    <3> HIDE DEF T
    <3> QED BY <1>1, <2>2, <3>1, MultipliersAgree
  <2>4. g[S] = f[Chosen(S)] * g[T]
    BY <1>1, <1>3 DEF Multiplies
  <2> QED BY <1>1, <1>3, <2>2, <2>3, <2>4
<1> QED BY <1>2, <1>3

\* A product of positive numbers is one.
LEMMA ProductType ==
  ASSUME NEW f, NEW S, IsFiniteSet(S), \A x \in S : f[x] \in Nat \ {0}
  PROVE  Product(f, S) \in Nat \ {0}
<1> DEFINE Q == {n \in Nat : \A s \in SUBSET S : Cardinality(s) = n => Product(f, s) \in Nat \ {0}}
<1>1. 0 \in Q
  <2>1. Product(f, {}) = 1
    BY FS_EmptySet, ProductChosen
  <2> QED BY <2>1, TakenOut
<1>2. ASSUME NEW n \in Nat, n \in Q PROVE n + 1 \in Q
  <2> SUFFICES ASSUME NEW s \in SUBSET S, Cardinality(s) = n + 1 PROVE Product(f, s) \in Nat \ {0}
    OBVIOUS
  <2> DEFINE c == Chosen(s)
  <2>1. s # {} /\ c \in s /\ IsFiniteSet(s) /\ Cardinality(s \ {c}) = n
    BY TakenOut
  <2>2. Product(f, s) = f[c] * Product(f, s \ {c})
    BY <2>1, ProductChosen
  <2> HIDE DEF c
  <2>3. Product(f, s \ {c}) \in Nat \ {0} /\ f[c] \in Nat \ {0}
    BY <1>2, <2>1
  <2> QED BY <2>2, <2>3
<1> HIDE DEF Q
<1>3. Nat \subseteq Q
  BY <1>1, <1>2, Induction
<1> QED BY <1>3, TakenOut DEF Q

\* Any element can be taken out of a product first.
LEMMA ProductTakes ==
  ASSUME NEW f, NEW S, IsFiniteSet(S), \A x \in S : f[x] \in Nat \ {0}
  PROVE  \A x \in S : Product(f, S) = f[x] * Product(f, S \ {x})
<1> DEFINE P(s) == \A x \in s : Product(f, s) = f[x] * Product(f, s \ {x})
           Q == {n \in Nat : \A s \in SUBSET S : Cardinality(s) = n => P(s)}
<1>1. 0 \in Q
  BY TakenOut
<1>2. ASSUME NEW n \in Nat, n \in Q PROVE n + 1 \in Q
  <2> SUFFICES ASSUME NEW s \in SUBSET S, Cardinality(s) = n + 1 PROVE P(s)
    OBVIOUS
  <2> DEFINE c == Chosen(s)
  <2>1. s # {} /\ c \in s /\ IsFiniteSet(s)
    BY TakenOut
  <2>2. Product(f, s) = f[c] * Product(f, s \ {c})
    BY <2>1, ProductChosen
  <2> HIDE DEF c
  <2>3. \A x \in s : P(s \ {x})
    <3> TAKE x \in s
    <3>1. Cardinality(s \ {x}) = n /\ s \ {x} \in SUBSET S
      BY TakenOut
    <3> QED BY <1>2, <3>1
  <2>4. ASSUME NEW x \in s, x # c PROVE Product(f, s) = f[x] * Product(f, s \ {x})
    <3> DEFINE r == Product(f, s \ {c, x})
    <3>1. (s \ {c}) \ {x} = s \ {c, x} /\ (s \ {x}) \ {c} = s \ {c, x}
      OBVIOUS
    <3>2. Product(f, s \ {c}) = f[x] * r
      BY <2>1, <2>3, <2>4, <3>1
    <3>3. Product(f, s \ {x}) = f[c] * r
      BY <2>1, <2>3, <2>4, <3>1
    <3>4. IsFiniteSet(s \ {c, x}) /\ s \ {c, x} \subseteq S
      BY TakenOut
    <3>5. f[x] \in Nat /\ f[c] \in Nat /\ r \in Nat
      BY <2>1, <3>4, ProductType
    <3> HIDE DEF r
    <3>6. f[c] * (f[x] * r) = f[x] * (f[c] * r)
      BY <3>5
    <3> QED BY <2>2, <3>2, <3>3, <3>6
  <2> QED BY <2>2, <2>4
<1> HIDE DEF Q
<1>3. Nat \subseteq Q
  BY <1>1, <1>2, Induction
<1> QED BY <1>3, TakenOut DEF Q
-----------------------------------------------------------------------------
(***************************************************************************)
(* Division.                                                               *)
(***************************************************************************)
\* What the quotient and the remainder are.
LEMMA DivMod ==
  ASSUME NEW i \in Int, NEW A \in Nat \ {0}
  PROVE  /\ i \div A \in Int /\ i % A \in Nat
         /\ i = A * (i \div A) + (i % A) /\ 0 <= i % A /\ i % A < A
OBVIOUS

\* A product of two numbers, one of them below the other factor's multiple.
LEMMA Multiple ==
  ASSUME NEW A \in Nat \ {0}, NEW c \in Int, 0 < A * c + A, A * c < A
  PROVE  c = 0
<1>1. ASSUME c >= 1 PROVE FALSE
  <2>1. A * c >= A * 1
    BY <1>1
  <2> QED BY <2>1
<1>2. ASSUME c <= -1 PROVE FALSE
  <2>1. A * c <= A * (-1)
    BY <1>2
  <2> QED BY <2>1
<1> QED BY <1>1, <1>2

\* The quotient and the remainder are the only ones.
LEMMA DivIs ==
  ASSUME NEW A \in Nat \ {0}, NEW q \in Int, NEW r \in Int, 0 <= r, r < A
  PROVE  (A * q + r) \div A = q /\ (A * q + r) % A = r
<1> DEFINE i == A * q + r
           p == i \div A
           s == i % A
<1>1. i \in Int
  OBVIOUS
<1>2. p \in Int /\ s \in Int /\ i = A * p + s /\ 0 <= s /\ s < A
  BY <1>1, DivMod
<1>3. A * p + s = A * q + r
  BY <1>2
<1> HIDE DEF p, s, i
<1>4. A * (p - q) = r - s
  <2>1. A * (p - q) = A * p - A * q
    BY <1>2
  <2>2. A * p \in Int /\ A * q \in Int
    BY <1>2
  <2> QED BY <1>2, <1>3, <2>1, <2>2
<1>5. p - q = 0
  BY <1>2, <1>4, Multiple
<1>6. p = q /\ s = r
  <2>1. p = q
    BY <1>2, <1>5
  <2>2. A * q \in Int
    OBVIOUS
  <2> QED BY <1>2, <1>3, <2>1, <2>2
<1> QED BY <1>6 DEF p, s, i

\* Adding multiples of the divisor.
LEMMA DivAdds ==
  ASSUME NEW A \in Nat \ {0}, NEW i \in Int, NEW c \in Int
  PROVE  (i + A * c) \div A = i \div A + c /\ (i + A * c) % A = i % A
<1> DEFINE q == i \div A
           r == i % A
<1>1. q \in Int /\ r \in Int /\ i = A * q + r /\ 0 <= r /\ r < A
  BY DivMod
<1> HIDE DEF q, r
<1>2. A * (q + c) = A * q + A * c /\ A * q \in Int /\ A * c \in Int
  BY <1>1
<1>3. i + A * c = A * (q + c) + r
  BY <1>1, <1>2
<1>4. q + c \in Int
  BY <1>1
<1>5. (A * (q + c) + r) \div A = q + c /\ (A * (q + c) + r) % A = r
  BY <1>1, <1>4, DivIs
<1> QED BY <1>3, <1>5 DEF q, r

\* Dividing twice.
LEMMA DivTwice ==
  ASSUME NEW A \in Nat \ {0}, NEW B \in Nat \ {0}, NEW i \in Int
  PROVE  i \div (A * B) = (i \div A) \div B
<1> DEFINE q == i \div A
           r == i % A
           p == q \div B
           s == q % B
<1>1. q \in Int /\ r \in Int /\ i = A * q + r /\ 0 <= r /\ r < A
  BY DivMod
<1> HIDE DEF q, r
<1>2. p \in Int /\ s \in Int /\ q = B * p + s /\ 0 <= s /\ s < B
  BY <1>1, DivMod
<1> HIDE DEF p, s
<1>3. A * q = (A * B) * p + A * s
  <2>1. A * (B * p + s) = A * (B * p) + A * s
    BY <1>2
  <2>2. A * (B * p) = (A * B) * p
    BY <1>2
  <2> QED BY <1>2, <2>1, <2>2
<1>4. 0 <= A * s /\ A * s + A <= A * B
  <2>1. s + 1 <= B /\ s + 1 \in Nat
    BY <1>2
  <2>2. A * (s + 1) <= A * B
    BY <2>1
  <2>3. A * (s + 1) = A * s + A
    BY <1>2
  <2>4. 0 <= A * s
    BY <1>2
  <2> QED BY <2>2, <2>3, <2>4
<1>5. A * B \in Nat \ {0} /\ A * s \in Int
  BY <1>2
<1> DEFINE t == A * s + r
           C == A * B
<1>6. t \in Int /\ 0 <= t /\ t < C /\ C \in Nat \ {0}
  BY <1>1, <1>4, <1>5
<1>7. i = C * p + t
  <2>1. C * p \in Int
    BY <1>2, <1>6
  <2> QED BY <1>1, <1>3, <1>5, <2>1
<1> HIDE DEF t, C
<1>8. (C * p + t) \div C = p
  BY <1>2, <1>6, DivIs
<1> QED BY <1>7, <1>8 DEF C, p, q
-----------------------------------------------------------------------------
(***************************************************************************)
(* The coordinates of a device are the digits of its place in the mesh.    *)
(***************************************************************************)
Digit(M, i, d) == (i \div Stride(M, d)) % M.shape[d]

\* There are finitely many mesh dimensions.
LEMMA DimsFinite == \A S : S \subseteq MeshDims => IsFiniteSet(S)
<1>1. 0 \in Int /\ MeshNdim - 1 \in Int
  BY MeshAssumption
<1>2. IsFiniteSet(MeshDims)
  BY <1>1, FS_Interval DEF MeshDims
<1> QED BY <1>2, FS_Subset

\* Strides are positive, and grow by the size of a dimension.
LEMMA StrideIs ==
  ASSUME NEW M, IsMesh(M)
  PROVE  /\ \A d : Stride(M, d) \in Nat \ {0}
         /\ NumDevices(M) \in Nat \ {0}
         /\ \A d \in MeshDims : Stride(M, d - 1) = M.shape[d] * Stride(M, d)
<1>1. \A S : S \subseteq MeshDims => Product(M.shape, S) \in Nat \ {0}
  BY DimsFinite, ProductType DEF IsMesh
<1>2. \A d : Stride(M, d) = Product(M.shape, {e \in MeshDims : e > d})
  BY DEF Stride, Product
<1>3. ASSUME NEW d \in MeshDims PROVE Stride(M, d - 1) = M.shape[d] * Stride(M, d)
  <2> DEFINE S == {e \in MeshDims : e > d - 1}
             T == {e \in MeshDims : e > d}
  <2>1. S \ {d} = T /\ d \in S /\ S \subseteq MeshDims
    BY MeshAssumption DEF MeshDims
  <2> HIDE DEF S, T
  <2>2. Product(M.shape, S) = M.shape[d] * Product(M.shape, S \ {d})
    BY <2>1, DimsFinite, ProductTakes DEF IsMesh
  <2> QED BY <1>2, <2>1, <2>2 DEF S, T
<1> QED BY <1>1, <1>2, <1>3 DEF NumDevices

\* A larger stride is a multiple of what the smaller one counts.
LEMMA StrideDivides ==
  ASSUME NEW M, IsMesh(M), NEW m \in MeshDims, NEW e \in (-1) .. (m - 1)
  PROVE  \E K \in Nat \ {0} : Stride(M, e) = (Stride(M, m) * M.shape[m]) * K
<1> DEFINE Is(n) == \E K \in Nat \ {0} : Stride(M, n) = (Stride(M, m) * M.shape[m]) * K
           Q == {j \in Nat : j <= m => Is(m - 1 - j)}
           A == Stride(M, m) * M.shape[m]
<1>0. m \in Nat /\ A \in Nat \ {0} /\ \A d \in MeshDims : M.shape[d] \in Nat \ {0}
  <2>1. m \in Nat
    BY MeshAssumption DEF MeshDims
  <2>2. \A d \in MeshDims : M.shape[d] \in Nat \ {0}
    BY DEF IsMesh
  <2>3. Stride(M, m) \in Nat \ {0} /\ M.shape[m] \in Nat \ {0}
    BY <2>2, StrideIs
  <2>4. \A x, y \in Nat \ {0} : x * y \in Nat \ {0}
    OBVIOUS
  <2> QED BY <2>1, <2>2, <2>3, <2>4
<1>1. 0 \in Q
  <2>1. Stride(M, m - 1) = A * 1
    BY <1>0, StrideIs
  <2>2. m - 1 - 0 = m - 1
    BY <1>0
  <2> QED BY <2>1, <2>2
<1>2. ASSUME NEW j \in Nat, j \in Q PROVE j + 1 \in Q
  <2> SUFFICES ASSUME j + 1 <= m PROVE Is(m - 1 - (j + 1))
    OBVIOUS
  <2> DEFINE d == m - 1 - j
  <2>1. d \in MeshDims /\ m - 1 - (j + 1) = d - 1
    BY <1>0, MeshAssumption DEF MeshDims
  <2>2. PICK K \in Nat \ {0} : Stride(M, d) = A * K
    BY <1>0, <1>2
  <2> HIDE DEF d, A
  <2>3. Stride(M, d - 1) = M.shape[d] * (A * K)
    BY <2>1, <2>2, StrideIs
  <2>4. M.shape[d] * (A * K) = A * (K * M.shape[d]) /\ K * M.shape[d] \in Nat \ {0}
    <3>1. M.shape[d] \in Nat \ {0} /\ A \in Nat \ {0}
      BY <1>0, <2>1 DEF A
    <3> DEFINE L == M.shape[d]
    <3> HIDE DEF L
    <3>2. L * (A * K) = A * (K * L) /\ K * L \in Nat \ {0}
      <4>1. L \in Nat \ {0} /\ A \in Nat \ {0}
        BY <3>1 DEF L
      <4> QED BY <4>1
    <3> QED BY <3>2 DEF L
  <2> QED BY <2>1, <2>3, <2>4 DEF A
<1> HIDE DEF Q
<1>3. m - 1 - e \in Nat /\ m - 1 - e <= m /\ m - 1 - (m - 1 - e) = e
  BY <1>0
<1>4. m - 1 - e \in Q
  BY <1>1, <1>2, <1>3, Induction
<1> QED BY <1>3, <1>4 DEF Q

(***************************************************************************)
(* Moving along one dimension of the mesh changes one coordinate.          *)
(***************************************************************************)
LEMMA DigitMoves ==
  ASSUME NEW M, IsMesh(M), NEW m \in MeshDims, NEW i \in 0 .. (NumDevices(M) - 1),
         NEW b \in 0 .. (M.shape[m] - 1),
         NEW j, j = i + Stride(M, m) * (b - Digit(M, i, m))
  PROVE  /\ j \in 0 .. (NumDevices(M) - 1)
         /\ Digit(M, j, m) = b
         /\ \A e \in MeshDims \ {m} : Digit(M, j, e) = Digit(M, i, e)
<1> DEFINE A == Stride(M, m)
           N == M.shape[m]
           a == Digit(M, i, m)
           q == i \div A
           p == q \div N
<1>0. /\ A \in Nat \ {0} /\ N \in Nat \ {0} /\ i \in Nat /\ NumDevices(M) \in Nat \ {0}
      /\ b \in Int /\ 0 <= b /\ b < N /\ m \in Int
  <2>1. A \in Nat \ {0} /\ NumDevices(M) \in Nat \ {0}
    BY StrideIs
  <2>2. N \in Nat \ {0} /\ m \in Int
    BY MeshAssumption DEF IsMesh, MeshDims
  <2> QED BY <2>1, <2>2
<1>1. q \in Int /\ a \in Int /\ q = N * p + a /\ p \in Int
  <2>1. q \in Int
    BY <1>0, DivMod
  <2> HIDE DEF q, N
  <2>2. q = N * (q \div N) + (q % N) /\ q \div N \in Int /\ q % N \in Int
    BY <1>0, <2>1, DivMod
  <2> QED BY <2>1, <2>2 DEF q, N, Digit
<1>2. j \div A = q + (b - a) /\ j \in Int
  <2> DEFINE c == b - a
  <2>1. c \in Int /\ j = i + A * c
    BY <1>0, <1>1
  <2> HIDE DEF c, A
  <2>2. A * c \in Int
    BY <1>0, <2>1
  <2>3. (i + A * c) \div A = i \div A + c
    BY <1>0, <2>1, DivAdds
  <2> QED BY <1>0, <2>1, <2>2, <2>3 DEF c
<1>3. j \div A = N * p + b
  <2>1. N * p \in Int
    BY <1>0, <1>1
  <2> HIDE DEF a, q, p, N, A
  <2> QED BY <1>0, <1>1, <1>2, <2>1
<1>4. Digit(M, j, m) = b /\ (j \div A) \div N = p
  <2> HIDE DEF p
  <2>1. (N * p + b) \div N = p /\ (N * p + b) % N = b
    BY <1>0, <1>1, DivIs
  <2> QED BY <1>3, <2>1 DEF Digit
<1>5. ASSUME NEW e \in (-1) .. (m - 1) PROVE j \div Stride(M, e) = i \div Stride(M, e)
  <2>1. PICK K \in Nat \ {0} : Stride(M, e) = (A * N) * K
    BY StrideDivides
  <2> HIDE DEF A, N, a
  <2> DEFINE C == A * N
  <2>2. C \in Nat \ {0}
    BY <1>0
  <2> HIDE DEF C
  <2>3. /\ j \div (C * K) = (j \div C) \div K
        /\ i \div (C * K) = (i \div C) \div K
    BY <1>0, <1>2, <2>2, DivTwice
  <2>4. /\ j \div (A * N) = (j \div A) \div N
        /\ i \div (A * N) = (i \div A) \div N
    BY <1>0, <1>2, DivTwice
  <2> QED BY <1>4, <2>1, <2>3, <2>4 DEF C
<1>6. ASSUME NEW e \in MeshDims, e > m PROVE Digit(M, j, e) = Digit(M, i, e)
  <2> DEFINE B == Stride(M, e)
             L == M.shape[e]
  <2>1. m \in (-1) .. (e - 1)
    BY <1>6, MeshAssumption DEF MeshDims
  <2>2. PICK K \in Nat \ {0} : A = (B * L) * K
    BY <2>1, StrideDivides
  <2>3. B \in Nat \ {0} /\ L \in Nat \ {0}
    BY StrideIs DEF IsMesh
  <2> DEFINE c == K * (b - a)
  <2> HIDE DEF A, B, L, a
  <2>4. c \in Int /\ L * c \in Int
    BY <1>0, <1>1, <2>3
  <2>5. A * (b - a) = B * (L * c)
    <3>1. b - a \in Int
      BY <1>0, <1>1
    <3> DEFINE z == b - a
    <3> HIDE DEF z
    <3>2. z \in Int
      BY <3>1 DEF z
    <3>3. ((B * L) * K) * z = B * (L * (K * z))
      BY <2>3, <3>2
    <3> QED BY <2>2, <3>3 DEF z
  <2> HIDE DEF c
  <2>6. j = i + B * (L * c)
    BY <2>5 DEF A, a
  <2>7. j \div B = i \div B + L * c
    BY <1>0, <2>3, <2>4, <2>6, DivAdds
  <2>8. i \div B \in Int
    BY <1>0, <2>3
  <2>9. (i \div B + L * c) % L = (i \div B) % L
    BY <2>3, <2>4, <2>8, DivAdds
  <2> QED BY <2>7, <2>9 DEF Digit, B, L
<1>7. ASSUME NEW e \in MeshDims \ {m} PROVE Digit(M, j, e) = Digit(M, i, e)
  <2>1. CASE e < m
    <3>1. e \in (-1) .. (m - 1)
      BY <2>1, MeshAssumption DEF MeshDims
    <3> QED BY <1>5, <3>1 DEF Digit
  <2>2. CASE e > m
    BY <1>6, <2>2
  <2> QED BY <2>1, <2>2, MeshAssumption DEF MeshDims
<1>8. j \in 0 .. (NumDevices(M) - 1)
  <2> DEFINE T == NumDevices(M)
  <2>1. j \div T = i \div T
    <3>1. -1 \in (-1) .. (m - 1)
      BY MeshAssumption DEF MeshDims
    <3> QED BY <1>5, <3>1 DEF NumDevices
  <2> HIDE DEF T, A, a
  <2>2. T \in Nat \ {0} /\ i < T
    BY <1>0 DEF T
  <2>3. i \div T = 0
    <3> DEFINE z == 0
    <3>1. z \in Int /\ i \in Int /\ 0 <= i
      BY <1>0
    <3>2. T * z + i = i
      BY <1>0, <2>2
    <3> HIDE DEF z
    <3>3. (T * z + i) \div T = z
      BY <2>2, <3>1, DivIs
    <3> QED BY <3>2, <3>3 DEF z
  <2>4. j = T * (j \div T) + (j % T) /\ 0 <= j % T /\ j % T < T /\ j % T \in Nat
    BY <1>2, <2>2, DivMod
  <2>5. T * 0 = 0
    BY <2>2
  <2>6. j = j % T
    BY <2>1, <2>3, <2>4, <2>5
  <2> QED BY <2>2, <2>4, <2>6 DEF T
<1> QED BY <1>4, <1>7, <1>8

-----------------------------------------------------------------------------
(***************************************************************************)
(* As many places of the mesh have one set of coordinates as another.      *)
(***************************************************************************)
Places(M) == 0 .. (NumDevices(M) - 1)

Coords(M) == {a \in [MeshDims -> Int] : \A m \in MeshDims : a[m] \in 0 .. (M.shape[m] - 1)}

PlacesAt(M, D, a) == {i \in Places(M) : \A m \in D : Digit(M, i, m) = a[m]}

\* Places are counted, and have coordinates within the mesh.
LEMMA PlacesFinite ==
  ASSUME NEW M, IsMesh(M)
  PROVE  /\ IsFiniteSet(Places(M)) /\ Cardinality(Places(M)) = NumDevices(M)
         /\ \A i \in Places(M) : \A m \in MeshDims : Digit(M, i, m) \in 0 .. (M.shape[m] - 1)
<1>1. NumDevices(M) \in Nat \ {0}
  BY StrideIs
<1>2. IsFiniteSet(Places(M)) /\ Cardinality(Places(M)) = NumDevices(M)
  BY <1>1, FS_Interval DEF Places
<1>3. ASSUME NEW i \in Places(M), NEW m \in MeshDims PROVE Digit(M, i, m) \in 0 .. (M.shape[m] - 1)
  <2>1. Stride(M, m) \in Nat \ {0} /\ M.shape[m] \in Nat \ {0} /\ i \in Int
    BY <1>1, StrideIs DEF IsMesh, Places
  <2> DEFINE q == i \div Stride(M, m)
  <2>2. q \in Int
    BY <2>1, DivMod
  <2> HIDE DEF q
  <2>3. q % M.shape[m] \in 0 .. (M.shape[m] - 1)
    BY <2>1, <2>2, DivMod
  <2> QED BY <2>3 DEF q, Digit
<1> QED BY <1>2, <1>3

\* Changing one coordinate loses no place.
LEMMA PlacesMove ==
  ASSUME NEW M, IsMesh(M), NEW D \in SUBSET MeshDims, NEW m \in MeshDims,
         NEW a \in Coords(M), NEW b \in Coords(M), \A e \in MeshDims \ {m} : a[e] = b[e]
  PROVE  Cardinality(PlacesAt(M, D, a)) <= Cardinality(PlacesAt(M, D, b))
<1> DEFINE S == PlacesAt(M, D, a)
           T == PlacesAt(M, D, b)
           A == Stride(M, m)
<1>1. IsFiniteSet(S) /\ IsFiniteSet(T)
  BY PlacesFinite, FS_Subset DEF PlacesAt
<1>2. CASE m \notin D
  <2>1. S = T
    BY <1>2 DEF PlacesAt
  <2> QED BY <1>1, <2>1, FS_CardinalityType
<1>3. CASE m \in D
  <2> DEFINE z == A * (b[m] - a[m])
             f == [i \in S |-> i + z]
  <2>1. z \in Int /\ \A i \in S : i \in Int /\ Digit(M, i, m) = a[m]
    BY <1>3, StrideIs DEF PlacesAt, Places, Coords
  <2>2. ASSUME NEW i \in S PROVE f[i] \in T
    <3>1. f[i] = i + A * (b[m] - Digit(M, i, m)) /\ i \in 0 .. (NumDevices(M) - 1)
      BY <2>1 DEF PlacesAt, Places
    <3>2. b[m] \in 0 .. (M.shape[m] - 1)
      BY DEF Coords
    <3> HIDE DEF f, S, T
    <3>3. /\ f[i] \in 0 .. (NumDevices(M) - 1)
          /\ Digit(M, f[i], m) = b[m]
          /\ \A e \in MeshDims \ {m} : Digit(M, f[i], e) = Digit(M, i, e)
      BY <3>1, <3>2, DigitMoves
    <3>4. \A e \in D : Digit(M, i, e) = a[e]
      BY DEF S, PlacesAt
    <3> QED BY <3>3, <3>4 DEF T, PlacesAt, Places
  <2>3. \A i, j \in S : f[i] = f[j] => i = j
    BY <2>1
  <2> HIDE DEF z
  <2>4. f \in [S -> T]
    BY <2>2
  <2> HIDE DEF f, S, T
  <2>5. f \in Injection(S, T)
    BY <2>3, <2>4 DEF Injection, IsInjective
  <2> QED BY <1>1, <2>5, FS_Injection DEF S, T
<1> QED BY <1>2, <1>3

\* All coordinates on up to two dimensions have as many places.
LEMMA PlacesEqual ==
  ASSUME NEW M, IsMesh(M), NEW m \in MeshDims, NEW n \in MeshDims, NEW D \in SUBSET {m, n},
         NEW a \in Coords(M), NEW b \in Coords(M)
  PROVE  Cardinality(PlacesAt(M, D, a)) = Cardinality(PlacesAt(M, D, b))
<1>1. ASSUME NEW x \in Coords(M), NEW y \in Coords(M)
      PROVE  Cardinality(PlacesAt(M, D, x)) <= Cardinality(PlacesAt(M, D, y))
  <2> DEFINE z == [x EXCEPT ![m] = y[m]]
             w == [z EXCEPT ![n] = y[n]]
  <2>1. z \in Coords(M) /\ \A e \in MeshDims \ {m} : x[e] = z[e]
    BY DEF Coords
  <2>2. w \in Coords(M) /\ \A e \in MeshDims \ {n} : z[e] = w[e]
    BY DEF Coords
  <2>3. PlacesAt(M, D, w) = PlacesAt(M, D, y)
    <3>1. \A e \in D : w[e] = y[e]
      BY DEF Coords
    <3> QED BY <3>1 DEF PlacesAt
  <2> HIDE DEF z, w
  <2>4. D \in SUBSET MeshDims
    OBVIOUS
  <2>5. Cardinality(PlacesAt(M, D, x)) <= Cardinality(PlacesAt(M, D, z))
    BY <2>1, <2>4, PlacesMove
  <2>6. Cardinality(PlacesAt(M, D, z)) <= Cardinality(PlacesAt(M, D, w))
    BY <2>1, <2>2, <2>4, PlacesMove
  <2>7. /\ Cardinality(PlacesAt(M, D, x)) \in Nat
        /\ Cardinality(PlacesAt(M, D, z)) \in Nat
        /\ Cardinality(PlacesAt(M, D, w)) \in Nat
    BY PlacesFinite, FS_Subset, FS_CardinalityType DEF PlacesAt
  <2> QED BY <2>3, <2>5, <2>6, <2>7
<1>2. /\ Cardinality(PlacesAt(M, D, a)) \in Nat
      /\ Cardinality(PlacesAt(M, D, b)) \in Nat
  BY PlacesFinite, FS_Subset, FS_CardinalityType DEF PlacesAt
<1> QED BY <1>1, <1>2

(***************************************************************************)
(* And as many devices, if all of them are on the mesh.                    *)
(***************************************************************************)
HoldersAt(M, D, a) == {d \in Places(M) : \A m \in D : DeviceToCoord(M, d)[m] = a[m]}

\* Devices with some coordinates correspond to places.
LEMMA HoldersArePlaces ==
  ASSUME NEW M, IsMesh(M), Places(M) \subseteq Range(M.device_ids),
         NEW D \in SUBSET MeshDims, NEW a
  PROVE  Cardinality(HoldersAt(M, D, a)) = Cardinality(PlacesAt(M, D, a))
<1> DEFINE f == [d \in Places(M) |->
                   (CHOOSE i \in DOMAIN M.device_ids : M.device_ids[i] = d) - 1]
           S == HoldersAt(M, D, a)
           T == PlacesAt(M, D, a)
<1>1. DOMAIN M.device_ids = 1 .. NumDevices(M) /\ NumDevices(M) \in Nat
  BY StrideIs DEF IsMesh
<1>2. ASSUME NEW d \in Places(M)
      PROVE  /\ f[d] \in Places(M) /\ M.device_ids[f[d] + 1] = d
             /\ \A m \in MeshDims : DeviceToCoord(M, d)[m] = Digit(M, f[d], m)
  <2> DEFINE i == CHOOSE i \in DOMAIN M.device_ids : M.device_ids[i] = d
  <2>1. \E j \in DOMAIN M.device_ids : M.device_ids[j] = d
    BY DEF Range
  <2>2. i \in DOMAIN M.device_ids /\ M.device_ids[i] = d
    BY <2>1
  <2>3. f[d] = i - 1
    OBVIOUS
  <2>4. \A m \in MeshDims : DeviceToCoord(M, d)[m] = Digit(M, i - 1, m)
    BY DEF DeviceToCoord, Digit
  <2> HIDE DEF i, f
  <2>5. i \in 1 .. NumDevices(M) /\ (i - 1) + 1 = i
    BY <1>1, <2>2
  <2> QED BY <1>1, <2>2, <2>3, <2>4, <2>5 DEF Places
<1>3. f \in Injection(Places(M), Places(M))
  <2>1. f \in [Places(M) -> Places(M)]
    BY <1>2
  <2> HIDE DEF f
  <2> QED BY <1>2, <2>1 DEF Injection, IsInjective
<1> HIDE DEF f
<1>4. f \in Surjection(Places(M), Places(M))
  BY <1>3, PlacesFinite, FS_Injection
<1> DEFINE g == [d \in S |-> f[d]]
<1>5. g \in Injection(S, T)
  <2>1. \A d \in S : g[d] = f[d] /\ f[d] \in T
    BY <1>2 DEF HoldersAt, PlacesAt
  <2>2. S \subseteq Places(M)
    BY DEF HoldersAt
  <2> HIDE DEF S, T
  <2>3. g \in [S -> T]
    BY <2>1
  <2> HIDE DEF g
  <2> QED BY <1>3, <2>1, <2>2, <2>3 DEF Injection, IsInjective
<1>6. g \in Surjection(S, T)
  <2>1. ASSUME NEW i \in T PROVE \E d \in S : g[d] = i
    <3>1. PICK d \in Places(M) : f[d] = i
      BY <1>4 DEF Surjection, PlacesAt
    <3>2. d \in S
      BY <1>2, <3>1 DEF HoldersAt, PlacesAt
    <3> QED BY <3>1, <3>2
  <2> HIDE DEF g, S, T
  <2> QED BY <1>5, <2>1 DEF Injection, Surjection
<1>7. IsFiniteSet(T)
  BY PlacesFinite, FS_Subset DEF PlacesAt
<1> HIDE DEF g, S, T
<1> QED BY <1>5, <1>6, <1>7, FS_Injection DEF S, T

\* All coordinates have equally many holders, and some.
LEMMA HoldersEqual ==
  ASSUME NEW M, IsMesh(M), NEW m \in MeshDims, NEW n \in MeshDims, NEW D \in SUBSET {m, n},
         D = {} \/ Places(M) \subseteq Range(M.device_ids)
  PROVE  \E c \in 1 .. NumDevices(M) :
           \A a \in Coords(M) : Cardinality(HoldersAt(M, D, a)) = c
<1>1. NumDevices(M) \in Nat \ {0}
  BY StrideIs
<1>2. CASE D = {}
  <2>1. \A a : HoldersAt(M, D, a) = Places(M)
    BY <1>2 DEF HoldersAt
  <2> QED BY <1>1, <2>1, PlacesFinite
<1>3. CASE Places(M) \subseteq Range(M.device_ids)
  <2> DEFINE z == [e \in MeshDims |-> Digit(M, 0, e)]
             c == Cardinality(PlacesAt(M, D, z))
  <2>1. 0 \in Places(M) /\ D \in SUBSET MeshDims
    BY <1>1 DEF Places
  <2>2. z \in Coords(M)
    BY <2>1, PlacesFinite DEF Coords
  <2>3. 0 \in PlacesAt(M, D, z) /\ PlacesAt(M, D, z) \subseteq Places(M)
    BY <2>1 DEF PlacesAt
  <2>4. IsFiniteSet(PlacesAt(M, D, z)) /\ c \in Nat /\ c # 0 /\ c <= NumDevices(M)
    BY <2>3, PlacesFinite, FS_Subset, FS_CardinalityType, FS_EmptySet
  <2> HIDE DEF z
  <2>5. \A a \in Coords(M) : Cardinality(PlacesAt(M, D, a)) = c
    BY <2>2, PlacesEqual
  <2>6. \A a \in Coords(M) : Cardinality(HoldersAt(M, D, a)) = c
    BY <1>3, <2>1, <2>5, HoldersArePlaces
  <2> HIDE DEF c
  <2> QED BY <1>1, <2>4, <2>6
<1> QED BY <1>2, <1>3

\* Every mesh considered is one, with a device.
LEMMA MeshHasDevices == \A m \in Meshes : IsMesh(m) /\ NumDevices(m) \in Nat \ {0}
BY MeshesAssumption, StrideIs

-----------------------------------------------------------------------------
(***************************************************************************)
(* Tensors that are alike on two devices.                                  *)
(***************************************************************************)
LeavesOf(t) == {p[1] : p \in t.from}

Like(t, u) == t.shape = u.shape /\ t.pl = u.pl /\ LeavesOf(t) = LeavesOf(u)

Same(f, g) == DOMAIN f = DOMAIN g /\ \A n \in DOMAIN f : Like(f[n], g[n])

Uniform == \A d, e \in Devices : Same(tensors[d], tensors[e])

\* Putting tensors that are alike under one name keeps two devices the same.
LEMMA PutSame ==
  ASSUME NEW f, NEW g, NEW n, NEW t, NEW u, Same(f, g), Like(t, u)
  PROVE  Same(Put(f, n, t), Put(g, n, u))
BY DEF Same, Put

\* What an operation makes of inputs that are alike.
LEMMA InsLike ==
  ASSUME Uniform, NEW d \in Devices, NEW e \in Devices, NEW o, HasAll(d, o.ins)
  PROVE  /\ HasAll(e, o.ins)
         /\ \A k \in DOMAIN o.ins : Like(Ins(d, o)[k], Ins(e, o)[k])
         /\ Placed(Ins(d, o)) = Placed(Ins(e, o))
<1>1. HasAll(e, o.ins)
  BY DEF Uniform, Same, HasAll, Has
<1>2. \A k \in DOMAIN o.ins : Like(Ins(d, o)[k], Ins(e, o)[k])
  BY DEF Uniform, Same, HasAll, Has, Ins
<1>3. Placed(Ins(d, o)) = Placed(Ins(e, o))
  BY <1>2 DEF Placed, Like, Ins
<1> QED BY <1>1, <1>2, <1>3

\* Inputs that are alike have one result shape, and clash on both devices or on none.
LEMMA ShapesLike ==
  ASSUME NEW o, WellFormed(o), o.kind \notin OtherKinds,
         NEW ins, NEW jns, DOMAIN ins = DOMAIN o.ins, DOMAIN jns = DOMAIN o.ins,
         \A k \in DOMAIN o.ins : Like(ins[k], jns[k])
  PROVE  OutShape(o, ins) = OutShape(o, jns) /\ (ShapesClash(o, ins) <=> ShapesClash(o, jns))
<1>1. 1 \in DOMAIN o.ins
  BY DEF WellFormed, OtherKinds
<1>2. o.kind \in {"MatMul", "Add", "Multiply"} => 2 \in DOMAIN o.ins
  BY DEF WellFormed, BinaryKinds
<1>3. ins[1].shape = jns[1].shape
  BY <1>1 DEF Like
<1>4. o.kind \in {"MatMul", "Add", "Multiply"} => ins[2].shape = jns[2].shape
  BY <1>2 DEF Like
<1> QED BY <1>3, <1>4 DEF OutShape, ShapesClash

\* What an operation computes of inputs that are alike is alike.
LEMMA ResultLike ==
  ASSUME NEW o, WellFormed(o), o.kind \notin OtherKinds,
         NEW ins, NEW jns, DOMAIN ins = DOMAIN o.ins, DOMAIN jns = DOMAIN o.ins,
         \A k \in DOMAIN o.ins : Like(ins[k], jns[k]), Placed(ins) = Placed(jns)
  PROVE  Like(Result(o, ins), Result(o, jns)) /\ (ApplyRaises(o, ins) <=> ApplyRaises(o, jns))
<1>1. OutShape(o, ins) = OutShape(o, jns) /\ (ShapesClash(o, ins) <=> ShapesClash(o, jns))
  BY ShapesLike
<1>2. ApplyRaises(o, ins) <=> ApplyRaises(o, jns)
  BY <1>1 DEF ApplyRaises, ShapeRaises
<1>3. LeavesOf(Result(o, ins)) = UNION {LeavesOf(ins[k]) : k \in DOMAIN o.ins}
  BY DEF Result, LeavesOf
<1>4. LeavesOf(Result(o, jns)) = UNION {LeavesOf(jns[k]) : k \in DOMAIN o.ins}
  BY DEF Result, LeavesOf
<1>5. \A k \in DOMAIN o.ins : LeavesOf(ins[k]) = LeavesOf(jns[k])
  BY DEF Like
<1>6. LeavesOf(Result(o, ins)) = LeavesOf(Result(o, jns))
  BY <1>3, <1>4, <1>5
<1> QED BY <1>1, <1>2, <1>6 DEF Like, Result

\* Storing on all devices what is alike, or on none, keeps the devices the same.
LEMMA StoredSame ==
  ASSUME Uniform, NEW S, S \cap Devices = {} \/ Devices \subseteq S, NEW n, NEW t,
         Devices \subseteq S => \A d, e \in Devices : Like(t[d], t[e])
  PROVE  \A d, e \in Devices : Same(Stored(S, n, t)[d], Stored(S, n, t)[e])
<1> TAKE d, e \in Devices
<1>1. Same(tensors[d], tensors[e])
  BY DEF Uniform
<1>2. CASE S \cap Devices = {}
  BY <1>1, <1>2 DEF Stored
<1>3. CASE Devices \subseteq S
  <2>1. Like(t[d], t[e])
    BY <1>3
  <2>2. Same(Put(tensors[d], n, t[d]), Put(tensors[e], n, t[e]))
    BY <1>1, <2>1, PutSame
  <2> QED BY <1>3, <2>2 DEF Stored
<1> QED BY <1>2, <1>3

-----------------------------------------------------------------------------
(***************************************************************************)
(* Every operation that does not tell devices apart leaves them alike.     *)
(***************************************************************************)
LEMMA BeforeAll ==
  ASSUME NumDevices(mesh) \in Nat \ {0}
  PROVE  /\ {d \in Devices : Before(d, {})} = Devices
         /\ {d \in Devices : Before(d, Devices)} = {}
BY DEF Before, Devices

\* Uniform devices lack the same inputs.
LEMMA MissingAlike ==
  ASSUME Uniform, NEW o, NEW d \in Devices, NEW e \in Devices
  PROVE  Missing(d, o) <=> Missing(e, o)
BY DEF Uniform, Same, Missing, HasAll, Has

\* An operation raises on all of the uniform devices or on none.
LEMMA StopsAlike ==
  ASSUME Uniform, NEW o, WellFormed(o), o.kind \notin OtherKinds,
         NEW d \in Devices, NEW e \in Devices
  PROVE  Stops(d, o) <=> Stops(e, o)
<1>1. Missing(d, o) <=> Missing(e, o)
  BY MissingAlike
<1>2. CASE Missing(d, o)
  BY <1>1, <1>2 DEF Stops
<1>3. CASE ~Missing(d, o)
  <2>1. HasAll(d, o.ins)
    BY <1>3 DEF Missing
  <2>2. /\ \A k \in DOMAIN o.ins : Like(Ins(d, o)[k], Ins(e, o)[k])
        /\ Placed(Ins(d, o)) = Placed(Ins(e, o))
    BY <2>1, InsLike
  <2>3. DOMAIN Ins(d, o) = DOMAIN o.ins /\ DOMAIN Ins(e, o) = DOMAIN o.ins
    BY DEF Ins
  <2>4. ApplyRaises(o, Ins(d, o)) <=> ApplyRaises(o, Ins(e, o))
    BY <2>2, <2>3, ResultLike
  <2> QED BY <1>1, <1>3, <2>4 DEF Stops
<1> QED BY <1>2, <1>3

\* An operation that is executed device by device keeps the devices uniform.
LEMMA PerDeviceUniform ==
  ASSUME Uniform, NEW o, WellFormed(o), PerDevice(o), NumDevices(mesh) \in Nat \ {0}
  PROVE  Uniform'
<1> DEFINE stops   == {d \in Devices : Stops(d, o)}
           reached == {d \in Devices : Before(d, stops)}
           S       == {d \in reached : ~Missing(d, o)}
           res     == [d \in S |-> Result(o, Ins(d, o))]
<1>1. tensors' = Stored(S, o.out, res) /\ o.kind \notin OtherKinds /\ mesh' = mesh
  BY DEF PerDevice, Executes
<1>2. stops = {} \/ stops = Devices
  BY <1>1, StopsAlike
<1>3. S = {} \/ S = Devices
  <2>1. reached = {} \/ reached = Devices
    BY <1>2, BeforeAll
  <2> HIDE DEF reached
  <2> QED BY <2>1, MissingAlike
<1>4. ASSUME Devices \subseteq S, NEW d \in Devices, NEW e \in Devices
      PROVE  Like(res[d], res[e])
  <2>1. HasAll(d, o.ins) /\ d \in S /\ e \in S
    BY <1>4 DEF Missing
  <2>2. /\ \A k \in DOMAIN o.ins : Like(Ins(d, o)[k], Ins(e, o)[k])
        /\ Placed(Ins(d, o)) = Placed(Ins(e, o))
    BY <2>1, InsLike
  <2>3. DOMAIN Ins(d, o) = DOMAIN o.ins /\ DOMAIN Ins(e, o) = DOMAIN o.ins
    BY DEF Ins
  <2>4. Like(Result(o, Ins(d, o)), Result(o, Ins(e, o)))
    BY <1>1, <2>2, <2>3, ResultLike
  <2>5. res[d] = Result(o, Ins(d, o)) /\ res[e] = Result(o, Ins(e, o))
    BY <2>1
  <2> QED BY <2>4, <2>5
<1> HIDE DEF S, res
<1>5. \A d, e \in Devices : Same(Stored(S, o.out, res)[d], Stored(S, o.out, res)[e])
  BY <1>3, <1>4, StoredSame
<1> QED BY <1>1, <1>5 DEF Uniform, Devices

\* Wait finds its handle on all devices or on none, and stores alike.
LEMMA WaitUniform ==
  ASSUME Uniform, NEW o, WellFormed(o), Wait(o), NumDevices(mesh) \in Nat \ {0}
  PROVE  Uniform'
<1> DEFINE gone == {e \in Devices : Missing(e, o)}
           S    == {d \in Devices : Before(d, gone)}
           t    == [d \in S |-> tensors[d][o.ins[1]]]
<1>1. tensors' = Stored(S, o.out, t) /\ o.kind = "Wait" /\ mesh' = mesh
  BY DEF Wait, Executes
<1>2. gone = {} \/ gone = Devices
  BY MissingAlike
<1>3. S = {} \/ S = Devices
  BY <1>2, BeforeAll
<1>4. ASSUME Devices \subseteq S, NEW d \in Devices, NEW e \in Devices
      PROVE  Like(t[d], t[e])
  <2>1. ~Missing(d, o)
    BY <1>2, <1>4, BeforeAll
  <2>2. 1 \in DOMAIN o.ins
    BY <1>1 DEF WellFormed
  <2>3. o.ins[1] \in DOMAIN tensors[d]
    BY <2>1, <2>2 DEF Missing, HasAll, Has
  <2>4. Like(tensors[d][o.ins[1]], tensors[e][o.ins[1]])
    BY <2>3 DEF Uniform, Same
  <2> QED BY <1>4, <2>4
<1> HIDE DEF S, t
<1>5. \A d, e \in Devices : Same(Stored(S, o.out, t)[d], Stored(S, o.out, t)[e])
  BY <1>3, <1>4, StoredSame
<1> QED BY <1>1, <1>5 DEF Uniform, Devices

\* Every device has a previous one, so all of them receive alike.
LEMMA RingRotateUniform ==
  ASSUME Uniform, NEW o, WellFormed(o), RingRotate(o), Symmetric(o),
         NumDevices(mesh) \in Nat \ {0}
  PROVE  Uniform'
<1> DEFINE x == o.ins[1]
           S == DOMAIN Rotated(o)
           prev(d) == Previous(d, o.ring_size)
<1>1. tensors' = Stored(S, o.out, Rotated(o)) /\ mesh' = mesh /\ o.ring_size = NumDevices(mesh)
  BY DEF RingRotate, Executes, Symmetric
<1>2. \A d \in Devices : prev(d) \in Devices
  BY <1>1 DEF Previous, Devices
<1>3. S = {d \in Devices : Has(prev(d), x)} /\ \A d \in S : Rotated(o)[d] = tensors[prev(d)][x]
  BY <1>2 DEF Rotated
<1>4. \A d, e \in Devices : Has(d, x) <=> Has(e, x)
  BY DEF Uniform, Same, Has
<1>5. S = {} \/ S = Devices
  BY <1>2, <1>3, <1>4
<1>6. ASSUME Devices \subseteq S, NEW d \in Devices, NEW e \in Devices
      PROVE  Like(Rotated(o)[d], Rotated(o)[e])
  <2>1. d \in S /\ e \in S /\ Has(prev(d), x)
    BY <1>3, <1>6
  <2>2. Same(tensors[prev(d)], tensors[prev(e)])
    BY <1>2 DEF Uniform
  <2>3. Like(tensors[prev(d)][x], tensors[prev(e)][x])
    BY <2>1, <2>2 DEF Same, Has
  <2> QED BY <1>3, <2>1, <2>3
<1> HIDE DEF S
<1>7. \A d, e \in Devices :
        Same(Stored(S, o.out, Rotated(o))[d], Stored(S, o.out, Rotated(o))[e])
  BY <1>5, <1>6, StoredSame
<1> QED BY <1>1, <1>7 DEF Uniform, Devices

\* The gate's two results are alike on all devices.
LEMMA TopKGateUniform ==
  ASSUME Uniform, NEW o, WellFormed(o), TopKGate(o), NumDevices(mesh) \in Nat \ {0}
  PROVE  Uniform'
<1> DEFINE x(d)       == tensors[d][o.ins[1]]
           Indices(d) == Rows(x(d).shape[0], o.top_k)
           there      == {d \in Devices : ~Missing(d, o)}
           stops      == {d \in there : ~Divides(mesh, Indices(d), x(d).pl)}
           S          == {d \in there : Before(d, stops)}
           t(d)       == [shape |-> Indices(d), pl |-> x(d).pl, from |-> x(d).from]
<1>1. /\ o.kind = "TopKGate" /\ mesh' = mesh
      /\ tensors' = [d \in Devices |->
           IF d \in S THEN Put(Put(tensors[d], o.indices_output, t(d)), o.out, x(d))
           ELSE tensors[d]]
  BY DEF TopKGate, Executes
<1>2. there = {} \/ there = Devices
  BY MissingAlike
<1>3. ASSUME there = Devices, NEW d \in Devices, NEW e \in Devices
      PROVE  Like(x(d), x(e))
  <2>1. 1 \in DOMAIN o.ins /\ ~Missing(d, o)
    BY <1>1, <1>3 DEF WellFormed
  <2>2. o.ins[1] \in DOMAIN tensors[d]
    BY <2>1 DEF Missing, HasAll, Has
  <2> QED BY <2>2 DEF Uniform, Same
<1>4. ASSUME there = Devices, NEW d \in Devices, NEW e \in Devices
      PROVE  (d \in stops <=> e \in stops) /\ Indices(d) = Indices(e)
  BY <1>3, <1>4 DEF Like
<1>5. S = {} \/ S = Devices
  <2>1. CASE there = {}
    BY <2>1
  <2>2. CASE there = Devices
    <3>1. stops = {} \/ stops = Devices
      BY <1>4, <2>2
    <3> HIDE DEF stops
    <3> QED BY <2>2, <3>1, BeforeAll
  <2> QED BY <1>2, <2>1, <2>2
<1>6. ASSUME NEW d \in Devices, NEW e \in Devices
      PROVE  Same(tensors'[d], tensors'[e])
  <2>1. Same(tensors[d], tensors[e])
    BY DEF Uniform
  <2>2. CASE S = {}
    BY <1>1, <2>1, <2>2
  <2>3. CASE S = Devices
    <3>1. there = Devices
      BY <2>3, <1>2
    <3>2. Like(x(d), x(e)) /\ Indices(d) = Indices(e)
      BY <1>3, <1>4, <3>1
    <3>3. Like(t(d), t(e))
      BY <3>2 DEF Like, LeavesOf
    <3> HIDE DEF S, t, x
    <3>4. Same(Put(tensors[d], o.indices_output, t(d)), Put(tensors[e], o.indices_output, t(e)))
      BY <2>1, <3>3, PutSame
    <3>5. Same(Put(Put(tensors[d], o.indices_output, t(d)), o.out, x(d)),
               Put(Put(tensors[e], o.indices_output, t(e)), o.out, x(e)))
      BY <3>2, <3>4, PutSame
    <3> QED BY <1>1, <2>3, <3>5
  <2> QED BY <1>5, <2>2, <2>3
<1> HIDE DEF S
<1> QED BY <1>1, <1>6 DEF Uniform, Devices

(***************************************************************************)
(* WaitAll goes through its pairs one by one, in a recursive function.     *)
(***************************************************************************)
Waiting(ctx, o, k) ==
  IF o.ins[k] \in DOMAIN ctx THEN Put(ctx, o.outs[k], ctx[o.ins[k]]) ELSE ctx

WaitSteps(d, o, n, f) ==
  f = [k \in 0 .. n |-> IF k = 0 THEN tensors[d] ELSE Waiting(f[k - 1], o, k)]

\* The steps of WaitAll, handle by handle, exist for every list of handles.
LEMMA WaitStepsExist ==
  ASSUME NEW d, NEW o, NEW n \in Nat
  PROVE  \E f : WaitSteps(d, o, n, f)
<1> DEFINE S == {m \in Nat : \E f : WaitSteps(d, o, m, f)}
<1>1. 0 \in S
  <2> DEFINE f == [k \in 0 .. 0 |-> tensors[d]]
  <2>1. WaitSteps(d, o, 0, f)
    BY DEF WaitSteps
  <2> QED BY <2>1
<1>2. ASSUME NEW m \in Nat, m \in S PROVE m + 1 \in S
  <2>1. PICK f : WaitSteps(d, o, m, f)
    BY <1>2
  <2> DEFINE g == [k \in 0 .. (m + 1) |-> IF k <= m THEN f[k] ELSE Waiting(f[m], o, m + 1)]
  <2>2. \A k \in 0 .. (m + 1) : g[k] = IF k = 0 THEN tensors[d] ELSE Waiting(g[k - 1], o, k)
    <3> TAKE k \in 0 .. (m + 1)
    <3>1. CASE k = 0
      BY <2>1, <3>1 DEF WaitSteps
    <3>2. CASE k # 0 /\ k <= m
      <4>1. k \in 0 .. m /\ k - 1 \in 0 .. m
        BY <3>2
      <4>2. g[k] = f[k] /\ g[k - 1] = f[k - 1]
        BY <4>1
      <4>3. f[k] = Waiting(f[k - 1], o, k)
        BY <2>1, <3>2, <4>1 DEF WaitSteps
      <4> QED BY <3>2, <4>2, <4>3
    <3>3. CASE k = m + 1
      BY <3>3
    <3> QED BY <3>1, <3>2, <3>3
  <2>3. g = [k \in 0 .. (m + 1) |-> g[k]]
    OBVIOUS
  <2> HIDE DEF g
  <2>4. WaitSteps(d, o, m + 1, g)
    BY <2>2, <2>3 DEF WaitSteps
  <2> QED BY <2>4
<1> HIDE DEF S
<1>3. Nat \subseteq S
  BY <1>1, <1>2, Induction
<1> QED BY <1>3 DEF S

\* WaitedFor is the last of these steps.
LEMMA WaitedForIs ==
  ASSUME NEW d, NEW o, Len(o.outs) \in Nat
  PROVE  \E f : WaitSteps(d, o, Len(o.outs), f) /\ WaitedFor(d, o) = f[Len(o.outs)]
<1> DEFINE n == Len(o.outs)
           f == CHOOSE f : WaitSteps(d, o, n, f)
<1>1. WaitSteps(d, o, n, f)
  BY WaitStepsExist
<1>2. WaitedFor(d, o) = f[n]
  BY DEF WaitedFor, WaitSteps, Waiting
<1> QED BY <1>1, <1>2

\* The steps of two devices that are the same stay the same.
LEMMA WaitStepsSame ==
  ASSUME Uniform, NEW d \in Devices, NEW e \in Devices, NEW o, NEW n \in Nat,
         NEW f, NEW g, WaitSteps(d, o, n, f), WaitSteps(e, o, n, g)
  PROVE  Same(f[n], g[n])
<1> DEFINE S == {k \in Nat : k <= n => Same(f[k], g[k])}
<1>1. 0 \in S
  BY DEF WaitSteps, Uniform
<1>2. ASSUME NEW k \in Nat, k \in S PROVE k + 1 \in S
  <2> SUFFICES ASSUME k + 1 <= n PROVE Same(f[k + 1], g[k + 1])
    OBVIOUS
  <2>1. Same(f[k], g[k])
    BY <1>2
  <2>2. f[k + 1] = Waiting(f[k], o, k + 1) /\ g[k + 1] = Waiting(g[k], o, k + 1)
    BY DEF WaitSteps
  <2>3. CASE o.ins[k + 1] \in DOMAIN f[k]
    <3>1. Like(f[k][o.ins[k + 1]], g[k][o.ins[k + 1]]) /\ o.ins[k + 1] \in DOMAIN g[k]
      BY <2>1, <2>3 DEF Same
    <3>2. Same(Put(f[k], o.outs[k + 1], f[k][o.ins[k + 1]]),
               Put(g[k], o.outs[k + 1], g[k][o.ins[k + 1]]))
      BY <2>1, <3>1, PutSame
    <3> QED BY <2>2, <2>3, <3>1, <3>2 DEF Waiting
  <2>4. CASE o.ins[k + 1] \notin DOMAIN f[k]
    BY <2>1, <2>2, <2>4 DEF Same, Waiting
  <2> QED BY <2>3, <2>4
<1> HIDE DEF S
<1>3. Nat \subseteq S
  BY <1>1, <1>2, Induction
<1> QED BY <1>3 DEF S

\* WaitAll keeps the devices uniform.
LEMMA WaitAllUniform ==
  ASSUME Uniform, NEW o, WellFormed(o), WaitAll(o)
  PROVE  Uniform'
<1>1. tensors' = [d \in Devices |-> WaitedFor(d, o)] /\ mesh' = mesh
  BY DEF WaitAll, Executes
<1>2. Len(o.outs) \in Nat
  <2>1. o.outs \in Seq(Range(o.outs))
    BY DEF WellFormed, WaitAll
  <2> QED BY <2>1
<1>3. ASSUME NEW d \in Devices, NEW e \in Devices
      PROVE  Same(WaitedFor(d, o), WaitedFor(e, o))
  <2>1. PICK f : WaitSteps(d, o, Len(o.outs), f) /\ WaitedFor(d, o) = f[Len(o.outs)]
    BY <1>2, WaitedForIs
  <2>2. PICK g : WaitSteps(e, o, Len(o.outs), g) /\ WaitedFor(e, o) = g[Len(o.outs)]
    BY <1>2, WaitedForIs
  <2> QED BY <1>2, <2>1, <2>2, WaitStepsSame
<1> QED BY <1>1, <1>3 DEF Uniform, Devices

-----------------------------------------------------------------------------
(***************************************************************************)
(* The operations of composite operations.                                 *)
(***************************************************************************)
FlattenSteps(seqs, n, f) ==
  f = [i \in 1 .. n |-> IF i = 1 THEN seqs[i] ELSE f[i - 1] \o seqs[i]]

\* The partial concatenations of a sequence of sequences exist.
LEMMA FlattenStepsExist ==
  ASSUME NEW seqs, NEW n \in Nat
  PROVE  \E f : FlattenSteps(seqs, n, f)
<1> DEFINE S == {m \in Nat : \E f : FlattenSteps(seqs, m, f)}
<1>1. 0 \in S
  <2> DEFINE f == [i \in 1 .. 0 |-> seqs[i]]
  <2>1. FlattenSteps(seqs, 0, f)
    BY DEF FlattenSteps
  <2> QED BY <2>1
<1>2. ASSUME NEW m \in Nat, m \in S PROVE m + 1 \in S
  <2>1. PICK f : FlattenSteps(seqs, m, f)
    BY <1>2
  <2> DEFINE Last1 == IF m = 0 THEN seqs[1] ELSE f[m] \o seqs[m + 1]
             g     == [i \in 1 .. (m + 1) |-> IF i <= m THEN f[i] ELSE Last1]
  <2>2. \A i \in 1 .. (m + 1) : g[i] = IF i = 1 THEN seqs[i] ELSE g[i - 1] \o seqs[i]
    <3> TAKE i \in 1 .. (m + 1)
    <3>1. CASE i <= m
      <4>1. i \in 1 .. m /\ g[i] = f[i]
        BY <3>1
      <4>2. f[i] = IF i = 1 THEN seqs[i] ELSE f[i - 1] \o seqs[i]
        BY <2>1, <4>1 DEF FlattenSteps
      <4>3. i # 1 => i - 1 \in 1 .. m /\ g[i - 1] = f[i - 1]
        BY <4>1
      <4> QED BY <4>1, <4>2, <4>3
    <3>2. CASE i = m + 1
      <4>1. g[i] = Last1
        BY <3>2
      <4>2. i # 1 => m # 0 /\ i - 1 = m /\ g[i - 1] = f[m]
        BY <3>2
      <4> QED BY <3>2, <4>1, <4>2
    <3> QED BY <3>1, <3>2
  <2>3. g = [i \in 1 .. (m + 1) |-> g[i]]
    OBVIOUS
  <2> HIDE DEF g
  <2>4. FlattenSteps(seqs, m + 1, g)
    BY <2>2, <2>3 DEF FlattenSteps
  <2> QED BY <2>4
<1> HIDE DEF S
<1>3. Nat \subseteq S
  BY <1>1, <1>2, Induction
<1> QED BY <1>3 DEF S

\* The concatenation of sequences over S is a sequence over S.
LEMMA FlattenIn ==
  ASSUME NEW S, NEW seqs \in Seq(Seq(S)), Len(seqs) # 0
  PROVE  FlattenSeq(seqs) \in Seq(S)
<1> DEFINE n == Len(seqs)
           f == CHOOSE f : FlattenSteps(seqs, n, f)
<1>1. n \in Nat \ {0}
  OBVIOUS
<1>2. FlattenSteps(seqs, n, f)
  BY <1>1, FlattenStepsExist
<1>3. FlattenSeq(seqs) = f[n]
  BY <1>1 DEF FlattenSeq, FlattenSteps
<1> HIDE DEF f
<1> DEFINE T == {i \in Nat : i + 1 <= n => f[i + 1] \in Seq(S)}
<1>4. 0 \in T
  <2>1. f[1] = seqs[1]
    BY <1>1, <1>2 DEF FlattenSteps
  <2> QED BY <1>1, <2>1
<1>5. ASSUME NEW i \in Nat, i \in T PROVE i + 1 \in T
  <2> SUFFICES ASSUME i + 2 <= n PROVE f[i + 2] \in Seq(S)
    OBVIOUS
  <2>1. i + 2 \in 1 .. n /\ i + 2 # 1 /\ (i + 2) - 1 = i + 1
    BY <1>1
  <2>2. f[i + 2] = f[i + 1] \o seqs[i + 2]
    BY <1>2, <2>1 DEF FlattenSteps
  <2>3. f[i + 1] \in Seq(S)
    BY <1>1, <1>5
  <2>4. seqs[i + 2] \in Seq(S)
    BY <2>1
  <2> QED BY <2>2, <2>3, <2>4
<1> HIDE DEF T
<1>6. Nat \subseteq T
  BY <1>4, <1>5, Induction
<1>7. n - 1 \in T
  BY <1>1, <1>6
<1> QED BY <1>1, <1>3, <1>7 DEF T

StepName(o, i) == <<"step", i, o.out>>
SumName(o, i)  == IF i = 0 THEN StepName(o, 0) ELSE <<"accum", i, o.out>>

\* The operations that a ring attention is expanded to.
RingOps(o) ==
  {Op("FlashAttention", <<o.ins[1], RotatedName(o.ins[2], "k_rot", i),
                          RotatedName(o.ins[3], "v_rot", i)>>, StepName(o, i)) : i \in Nat}
  \cup {Op("Add", <<SumName(o, i - 1), StepName(o, i)>>, SumName(o, i)) : i \in Nat}
  \cup {Rotation(PassedOn(o.ins[2], "k_rot", i), <<"k_rot", i + 1>>, o.ring_size) : i \in Nat}
  \cup {Rotation(PassedOn(o.ins[3], "v_rot", i), <<"v_rot", i + 1>>, o.ring_size) : i \in Nat}
  \cup {Op("AllReduce", <<SumName(o, o.ring_size - 1)>>, o.out)}

\* Ring attention is expanded to operations of the executor's own kinds.
LEMMA RingOpsSimple ==
  ASSUME NEW o, NEW p \in RingOps(o)
  PROVE  WellFormed(p) /\ p.kind \notin {"RingAttention", "OverlapRegion"}
<1>0. p.ins \in Seq(Range(p.ins))
  <2>1. \A S : \A s \in Seq(S) : s \in Seq(Range(s))
    BY DEF Range
  <2>2. \/ \E a : p.ins = <<a>>
        \/ \E a, b : p.ins = <<a, b>>
        \/ \E a, b, c : p.ins = <<a, b, c>>
    BY DEF RingOps, Op, Rotation
  <2>3. CASE \E a : p.ins = <<a>>
    <3>1. PICK a : p.ins = <<a>>
      BY <2>3
    <3>2. p.ins \in Seq({a})
      BY <3>1
    <3> QED BY <2>1, <3>2
  <2>4. CASE \E a, b : p.ins = <<a, b>>
    <3>1. PICK a, b : p.ins = <<a, b>>
      BY <2>4
    <3>2. p.ins \in Seq({a, b})
      BY <3>1
    <3> QED BY <2>1, <3>2
  <2>5. CASE \E a, b, c : p.ins = <<a, b, c>>
    <3>1. PICK a, b, c : p.ins = <<a, b, c>>
      BY <2>5
    <3>2. p.ins \in Seq({a, b, c})
      BY <3>1
    <3> QED BY <2>1, <3>2
  <2> QED BY <2>2, <2>3, <2>4, <2>5
<1>1. \/ /\ p.kind \in {"FlashAttention", "Add"} /\ {1, 2} \subseteq DOMAIN p.ins
         /\ p.mesh_dim = NoDim
      \/ p.kind = "RingRotate" /\ 1 \in DOMAIN p.ins
      \/ p.kind = "AllReduce" /\ 1 \in DOMAIN p.ins /\ p.mesh_dim = NoDim
  BY DEF RingOps, Op, Rotation
<1> QED BY <1>0, <1>1 DEF WellFormed, UnaryKinds, BinaryKinds, OtherKinds, CrossKinds

\* The expansion is a sequence of these operations.
LEMMA ExpansionIn ==
  ASSUME NEW o, o.ring_size \in Nat \ {0}
  PROVE  Expansion(o) \in Seq(RingOps(o))
<1> DEFINE n == o.ring_size
           A(i) == Op("FlashAttention", <<o.ins[1], RotatedName(o.ins[2], "k_rot", i),
                                          RotatedName(o.ins[3], "v_rot", i)>>, StepName(o, i))
           B(i) == Op("Add", <<SumName(o, i - 1), StepName(o, i)>>, SumName(o, i))
           C(i) == Rotation(PassedOn(o.ins[2], "k_rot", i), <<"k_rot", i + 1>>, n)
           D(i) == Rotation(PassedOn(o.ins[3], "v_rot", i), <<"v_rot", i + 1>>, n)
           E    == Op("AllReduce", <<SumName(o, n - 1)>>, o.out)
           Ring(i) == <<A(i)>> \o (IF i = 0 THEN << >> ELSE <<B(i)>>)
                        \o (IF i = n - 1 THEN << >> ELSE <<C(i), D(i)>>)
           S    == RingOps(o)
           seqs == [i \in 1 .. n |-> Ring(i - 1)]
<1>1. \A i \in Nat : A(i) \in S /\ B(i) \in S /\ C(i) \in S /\ D(i) \in S
  BY DEF RingOps
<1>2. E \in S
  BY DEF RingOps
<1>3. Expansion(o) = FlattenSeq(seqs) \o <<E>>
  BY DEF Expansion, StepName, SumName
<1> HIDE DEF A, B, C, D, E, S
<1>4. \A i \in Nat : Ring(i) \in Seq(S)
  <2> TAKE i \in Nat
  <2>1. /\ <<A(i)>> \in Seq(S)
        /\ (IF i = 0 THEN << >> ELSE <<B(i)>>) \in Seq(S)
        /\ (IF i = n - 1 THEN << >> ELSE <<C(i), D(i)>>) \in Seq(S)
    BY <1>1
  <2> QED BY <2>1
<1> HIDE DEF Ring
<1>5. seqs \in Seq(Seq(S)) /\ Len(seqs) = n
  <2>1. n \in Nat /\ \A i \in 1 .. n : Ring(i - 1) \in Seq(S)
    BY <1>4
  <2> HIDE DEF n
  <2> QED BY <2>1
<1>6. FlattenSeq(seqs) \in Seq(S)
  BY <1>5, FlattenIn
<1>7. <<E>> \in Seq(S)
  BY <1>2
<1>8. Expansion(o) \in Seq(S)
  BY <1>3, <1>6, <1>7
<1> QED BY <1>8 DEF S

-----------------------------------------------------------------------------
Regions == {o \in Menu : o.kind = "OverlapRegion"}
Inner   == UNION {RegionOps(o) : o \in Regions}
Rings   == {o \in Menu \cup Inner : o.kind = "RingAttention"}
SubOps   == Inner \cup UNION {RingOps(o) : o \in Rings}
Ops     == Menu \cup SubOps

\* Whatever can be queued is well-formed, and so is what it is expanded to.
LEMMA OpsWellFormed ==
  ASSUME NEW o \in Ops
  PROVE  /\ WellFormed(o)
         /\ o.kind = "RingAttention" => Expansion(o) \in Seq(SubOps)
         /\ o.kind = "OverlapRegion" => o.compute_ops \o o.comm_ops \in Seq(SubOps)
<1>1. \A p \in Inner : WellFormed(p) /\ p.kind # "OverlapRegion"
  BY MenuAssumption DEF Inner, Regions
<1>2. \A p \in Menu : WellFormed(p)
  BY MenuAssumption
<1>3. \A q \in Rings : \A p \in RingOps(q) :
        WellFormed(p) /\ p.kind \notin {"RingAttention", "OverlapRegion"}
  BY RingOpsSimple
<1>4. WellFormed(o)
  BY <1>1, <1>2, <1>3 DEF Ops, SubOps
<1>5. ASSUME o.kind = "RingAttention" PROVE Expansion(o) \in Seq(SubOps)
  <2>1. o \in Rings
    BY <1>3, <1>5 DEF Ops, SubOps, Rings
  <2>2. RingOps(o) \subseteq SubOps
    BY <2>1 DEF SubOps
  <2>3. Expansion(o) \in Seq(RingOps(o))
    BY <1>4, <1>5, ExpansionIn DEF WellFormed
  <2> QED BY <2>2, <2>3
<1>6. ASSUME o.kind = "OverlapRegion" PROVE o.compute_ops \o o.comm_ops \in Seq(SubOps)
  <2>1. o \in Regions
    BY <1>1, <1>3, <1>6 DEF Ops, SubOps, Regions
  <2>2. RegionOps(o) \subseteq SubOps
    BY <2>1 DEF SubOps, Inner
  <2>3. o.compute_ops \in Seq(RegionOps(o)) /\ o.comm_ops \in Seq(RegionOps(o))
    BY <2>1, MenuAssumption DEF Regions
  <2>4. o.compute_ops \in Seq(SubOps) /\ o.comm_ops \in Seq(SubOps)
    BY <2>2, <2>3
  <2> QED BY <2>4
<1> QED BY <1>4, <1>5, <1>6

(***************************************************************************)
(* The inductive invariant: as long as all inputs are on all devices and no*)
(* operation of the program has told devices apart, the devices are alike. *)
(* What is still to run are operations as the classes make them.           *)
(***************************************************************************)
Agreeing == RegisteredEverywhere /\ (phase = "setup" \/ AllSymmetric) => Uniform

AgreeInv == /\ mesh \in Meshes
            /\ todo \in Seq(SubOps) /\ history \in Seq(Ops) /\ registered \in Nat
            /\ Agreeing

\* The executor starts uniform.
LEMMA InitAgree == Init => AgreeInv
<1> SUFFICES ASSUME Init PROVE AgreeInv
  OBVIOUS
<1>1. mesh \in Meshes /\ todo = << >> /\ history = << >> /\ registered = 0
  BY DEF Init
<1>2. \A d, e \in Devices : tensors[d] = tensors[e]
  BY DEF Init
<1>3. Uniform
  BY <1>2 DEF Uniform, Same, Like
<1> QED BY <1>1, <1>3 DEF AgreeInv, Agreeing

\* A registration on all devices keeps them uniform.
LEMMA RegisterAgree == AgreeInv /\ Register => AgreeInv'
<1> SUFFICES ASSUME AgreeInv, Register PROVE AgreeInv'
  OBVIOUS
<1>1. /\ UNCHANGED <<mesh, setup, todo, history, phase>>
      /\ registered' = registered + 1 /\ registered \in Nat /\ phase = "setup"
  BY DEF Register, AgreeInv
<1>2. ASSUME RegisteredEverywhere' PROVE Uniform'
  <2>1. setup[registered + 1].device_ids = {}
    BY <1>1, <1>2 DEF RegisteredEverywhere
  <2>2. RegisteredEverywhere
    BY <1>1, <1>2 DEF RegisteredEverywhere
  <2>3. Uniform
    BY <1>1, <2>2 DEF AgreeInv, Agreeing
  <2> DEFINE r == setup[registered + 1]
             t == [d \in Devices |-> [shape |-> r.shape, pl |-> r.pl, from |-> {<<r.name, d>>}]]
  <2>4. tensors' = Stored(Devices, r.name, t)
    BY <2>1 DEF Register
  <2>5. ASSUME NEW d \in Devices, NEW e \in Devices PROVE Like(t[d], t[e])
    <3>1. t[d].from = {<<r.name, d>>} /\ t[e].from = {<<r.name, e>>}
      OBVIOUS
    <3>2. t[d].shape = t[e].shape /\ t[d].pl = t[e].pl
      OBVIOUS
    <3> HIDE DEF t
    <3>3. LeavesOf(t[d]) = {r.name} /\ LeavesOf(t[e]) = {r.name}
      BY <3>1 DEF LeavesOf
    <3> QED BY <3>2, <3>3 DEF Like
  <2> HIDE DEF t
  <2>6. \A d, e \in Devices : Same(Stored(Devices, r.name, t)[d], Stored(Devices, r.name, t)[e])
    BY <2>3, <2>5, StoredSame
  <2> QED BY <1>1, <2>4, <2>6 DEF Uniform, Devices
<1> QED BY <1>1, <1>2 DEF AgreeInv, Agreeing

\* The start and the end of a run and a reset touch no tensor unevenly.
LEMMA ControlAgree ==
  ASSUME AgreeInv, RunProgram \/ EndProgram \/ ResetDevices
  PROVE  AgreeInv'
<1>1. CASE RunProgram
  <2>1. /\ phase = "setup" /\ history' = << >>
        /\ UNCHANGED <<mesh, setup, todo, registered, tensors>>
    BY <1>1 DEF RunProgram
  <2>2. RegisteredEverywhere' => Uniform'
    BY <2>1 DEF AgreeInv, Agreeing, RegisteredEverywhere, Uniform, Devices
  <2> QED BY <2>1, <2>2 DEF AgreeInv, Agreeing
<1>2. CASE EndProgram
  <2>1. /\ phase = "run" /\ phase' = "done"
        /\ UNCHANGED <<mesh, setup, todo, history, registered, tensors>>
    BY <1>2 DEF EndProgram
  <2>2. /\ RegisteredEverywhere' <=> RegisteredEverywhere
        /\ AllSymmetric' <=> AllSymmetric
        /\ Uniform' <=> Uniform
    BY <2>1 DEF RegisteredEverywhere, AllSymmetric, Symmetric, Uniform, Devices
  <2> QED BY <2>1, <2>2 DEF AgreeInv, Agreeing
<1>3. CASE ResetDevices
  <2>1. /\ UNCHANGED <<mesh, todo, history>> /\ registered' = 0
        /\ tensors' = [d \in Devices |-> << >>]
    BY <1>3 DEF ResetDevices
  <2>2. \A d, e \in Devices : tensors'[d] = tensors'[e]
    BY <2>1
  <2>3. Uniform'
    BY <2>1, <2>2 DEF Uniform, Same, Like, Devices
  <2> QED BY <2>1, <2>3 DEF AgreeInv, Agreeing
<1> QED BY <1>1, <1>2, <1>3

\* The books that every operation keeps alike.
LEMMA ExecutesBooks ==
  ASSUME AgreeInv, NEW o \in Current, NEW subs \in Seq(SubOps), Executes(o, subs)
  PROVE  /\ o \in Ops /\ mesh' \in Meshes
         /\ todo' \in Seq(SubOps) /\ history' \in Seq(Ops) /\ registered' \in Nat
         /\ phase = "run"
         /\ RegisteredEverywhere' => RegisteredEverywhere
         /\ AllSymmetric' => AllSymmetric /\ Symmetric(o)
<1>1. /\ phase = "run" /\ history' = Append(history, o)
      /\ todo' = IF phase' = "raised" THEN << >>
                 ELSE subs \o (IF todo = << >> THEN << >> ELSE Tail(todo))
      /\ UNCHANGED <<mesh, setup, registered>>
  BY DEF Executes
<1>2. o \in Ops
  <2>1. CASE todo # << >>
    <3>1. o = Head(todo) /\ Head(todo) \in SubOps
      BY <2>1 DEF Current, AgreeInv
    <3> QED BY <3>1 DEF Ops
  <2>2. CASE todo = << >>
    BY <2>2 DEF Current, Ops
  <2> QED BY <2>1, <2>2
<1>3. todo' \in Seq(SubOps)
  <2>1. (IF todo = << >> THEN << >> ELSE Tail(todo)) \in Seq(SubOps)
    BY DEF AgreeInv
  <2>2. subs \o (IF todo = << >> THEN << >> ELSE Tail(todo)) \in Seq(SubOps)
    BY <2>1
  <2> QED BY <1>1, <2>2
<1>4. history' \in Seq(Ops)
  BY <1>1, <1>2 DEF AgreeInv
<1>5. RegisteredEverywhere' => RegisteredEverywhere
  BY <1>1 DEF RegisteredEverywhere
<1>6. ASSUME AllSymmetric' PROVE AllSymmetric /\ Symmetric(o)
  <2>1. /\ history \in Seq(Ops) /\ Len(history) \in Nat
        /\ DOMAIN history = 1 .. Len(history) /\ DOMAIN history' = 1 .. (Len(history) + 1)
        /\ \A i \in 1 .. Len(history) : history'[i] = history[i]
        /\ history'[Len(history) + 1] = o
    BY <1>1, <1>2 DEF AgreeInv
  <2>2. \A i \in DOMAIN history' : Symmetric(history'[i])
    BY <1>1, <1>6 DEF AllSymmetric, Symmetric
  <2> QED BY <2>1, <2>2 DEF AllSymmetric
<1> QED BY <1>1, <1>2, <1>3, <1>4, <1>5, <1>6 DEF AgreeInv

\* An operation whose devices do the same keeps the devices uniform.
LEMMA ExecuteAgree == AgreeInv /\ ExecuteOp => AgreeInv'
<1> SUFFICES ASSUME AgreeInv, NEW o \in Current,
                    \/ PerDevice(o) \/ Send(o) \/ Recv(o) \/ SendAsync(o) \/ RecvAsync(o)
                    \/ Wait(o) \/ WaitAll(o) \/ RingRotate(o) \/ TopKGate(o)
                    \/ RingAttention(o) \/ OverlapRegion(o)
             PROVE  AgreeInv'
  BY DEF ExecuteOp
<1>1. << >> \in Seq(SubOps)
  OBVIOUS
<1>2. NumDevices(mesh) \in Nat \ {0}
  BY MeshHasDevices DEF AgreeInv
<1>3. ASSUME NEW subs \in Seq(SubOps), Executes(o, subs),
             phase' \in {phase, "raised"},
             Uniform /\ Symmetric(o) /\ WellFormed(o) => Uniform'
      PROVE  AgreeInv'
  <2>1. /\ o \in Ops /\ mesh' \in Meshes
        /\ todo' \in Seq(SubOps) /\ history' \in Seq(Ops) /\ registered' \in Nat
        /\ phase = "run"
        /\ RegisteredEverywhere' => RegisteredEverywhere
        /\ AllSymmetric' => AllSymmetric /\ Symmetric(o)
    BY <1>3, ExecutesBooks
  <2>2. WellFormed(o)
    BY <2>1, OpsWellFormed
  <2>3. phase' # "setup"
    BY <2>1, <1>3
  <2> QED BY <2>1, <2>2, <2>3, <1>3 DEF AgreeInv, Agreeing
<1>4. CASE PerDevice(o)
  <2>1. Executes(o, << >>) /\ phase' \in {phase, "raised"}
    BY <1>4 DEF PerDevice
  <2> QED BY <1>1, <1>2, <1>3, <1>4, <2>1, PerDeviceUniform
<1>5. CASE Send(o) \/ Recv(o) \/ SendAsync(o) \/ RecvAsync(o)
  <2>1. Executes(o, << >>) /\ ~Symmetric(o) /\ phase' \in {phase, "raised"}
    BY <1>5 DEF Send, Recv, SendAsync, RecvAsync, Symmetric, Moved, Raised, Ignored, RaisedIfStrict
  <2> QED BY <1>1, <1>3, <2>1
<1>6. CASE Wait(o)
  <2>1. Executes(o, << >>) /\ phase' \in {phase, "raised"}
    BY <1>6 DEF Wait
  <2> QED BY <1>1, <1>2, <1>3, <1>6, <2>1, WaitUniform
<1>7. CASE WaitAll(o)
  <2>1. Executes(o, << >>) /\ phase' \in {phase, "raised"}
    BY <1>7 DEF WaitAll
  <2> QED BY <1>1, <1>3, <1>7, <2>1, WaitAllUniform
<1>8. CASE RingRotate(o)
  <2>1. Executes(o, << >>) /\ phase' \in {phase, "raised"}
    BY <1>8 DEF RingRotate
  <2> QED BY <1>1, <1>2, <1>3, <1>8, <2>1, RingRotateUniform
<1>9. CASE TopKGate(o)
  <2>1. Executes(o, << >>) /\ phase' \in {phase, "raised"}
    BY <1>9 DEF TopKGate
  <2> QED BY <1>1, <1>2, <1>3, <1>9, <2>1, TopKGateUniform
<1>10. ASSUME Ignored, mesh' = mesh PROVE phase' = phase /\ (Uniform => Uniform')
  BY <1>10 DEF Ignored, Uniform, Devices
<1>11. CASE RingAttention(o)
  <2>1. Executes(o, Expansion(o)) /\ Ignored /\ o.kind = "RingAttention" /\ mesh' = mesh
    BY <1>11 DEF RingAttention, Executes
  <2>2. o \in Ops
    BY DEF Current, Ops, AgreeInv
  <2>3. Expansion(o) \in Seq(SubOps)
    BY <2>1, <2>2, OpsWellFormed
  <2> QED BY <1>3, <1>10, <2>1, <2>3
<1>12. CASE OverlapRegion(o)
  <2>1. /\ Executes(o, o.compute_ops \o o.comm_ops) /\ Ignored
        /\ o.kind = "OverlapRegion" /\ mesh' = mesh
    BY <1>12 DEF OverlapRegion, Executes
  <2>2. o \in Ops
    BY DEF Current, Ops, AgreeInv
  <2>3. o.compute_ops \o o.comm_ops \in Seq(SubOps)
    BY <2>1, <2>2, OpsWellFormed
  <2> QED BY <1>3, <1>10, <2>1, <2>3
<1> QED BY <1>4, <1>5, <1>6, <1>7, <1>8, <1>9, <1>11, <1>12

-----------------------------------------------------------------------------
\* Uniformity and its books are kept by every step.
LEMMA NextAgree == AgreeInv /\ [Next]_vars => AgreeInv'
<1> SUFFICES ASSUME AgreeInv, [Next]_vars PROVE AgreeInv'
  OBVIOUS
<1>1. CASE UNCHANGED vars
  <2>1. UNCHANGED <<mesh, setup, todo, history, registered, tensors, phase>>
    BY <1>1 DEF vars
  <2>2. /\ RegisteredEverywhere' <=> RegisteredEverywhere
        /\ AllSymmetric' <=> AllSymmetric
        /\ Uniform' <=> Uniform
    BY <2>1 DEF RegisteredEverywhere, AllSymmetric, Symmetric, Uniform, Devices
  <2> QED BY <2>1, <2>2 DEF AgreeInv, Agreeing
<1> QED BY <1>1, RegisterAgree, ControlAgree, ExecuteAgree DEF Next

(***************************************************************************)
(* The devices agree, on any mesh, for any inputs that are registered on   *)
(* all devices and any program without point-to-point operations: what the *)
(* verifier and the frontend read off device 0 is true of every device.    *)
(***************************************************************************)
THEOREM Agreement == Spec => []DevicesAgree
<1>1. AgreeInv => DevicesAgree
  <2> SUFFICES ASSUME AgreeInv, RegisteredEverywhere, AllSymmetric,
                      NEW n, NEW d \in Devices
               PROVE  Alike(n, 0, d)
    BY DEF DevicesAgree
  <2>1. Uniform
    BY DEF AgreeInv, Agreeing
  <2>2. 0 \in Devices
    BY MeshHasDevices DEF AgreeInv, Devices
  <2>3. Same(tensors[0], tensors[d])
    BY <2>1, <2>2 DEF Uniform
  <2> QED BY <2>3 DEF Same, Like, LeavesOf, Alike, Has, Leaves
<1> QED BY <1>1, InitAgree, NextAgree, PTL DEF Spec

-----------------------------------------------------------------------------
(***************************************************************************)
(* Where data of a device may have got to: ReachedFrom adds one operation's*)
(* hops after the other.                                                   *)
(***************************************************************************)
Reach(R, o, D) == R \cup {hop[2] : hop \in {g \in Hops(o, D) : g[1] \in R}}

ReachSteps(h, D, d, n, f) ==
  f = [i \in 0 .. n |-> IF i = 0 THEN {d} ELSE Reach(f[i - 1], h[i], D)]

\* The sets of devices reached after 0, 1, ... operations exist.
LEMMA ReachStepsExist ==
  ASSUME NEW h, NEW D, NEW d, NEW n \in Nat
  PROVE  \E f : ReachSteps(h, D, d, n, f)
<1> DEFINE S == {m \in Nat : \E f : ReachSteps(h, D, d, m, f)}
<1>1. 0 \in S
  <2> DEFINE f == [k \in 0 .. 0 |-> {d}]
  <2>1. ReachSteps(h, D, d, 0, f)
    BY DEF ReachSteps
  <2> QED BY <2>1
<1>2. ASSUME NEW m \in Nat, m \in S PROVE m + 1 \in S
  <2>1. PICK f : ReachSteps(h, D, d, m, f)
    BY <1>2
  <2> DEFINE g == [k \in 0 .. (m + 1) |-> IF k <= m THEN f[k] ELSE Reach(f[m], h[m + 1], D)]
  <2>2. \A k \in 0 .. (m + 1) : g[k] = IF k = 0 THEN {d} ELSE Reach(g[k - 1], h[k], D)
    <3> TAKE k \in 0 .. (m + 1)
    <3>1. CASE k = 0
      BY <2>1, <3>1 DEF ReachSteps
    <3>2. CASE k # 0 /\ k <= m
      <4>1. k \in 0 .. m /\ k - 1 \in 0 .. m
        BY <3>2
      <4>2. g[k] = f[k] /\ g[k - 1] = f[k - 1]
        BY <4>1
      <4>3. f[k] = Reach(f[k - 1], h[k], D)
        BY <2>1, <3>2, <4>1 DEF ReachSteps
      <4> QED BY <3>2, <4>2, <4>3
    <3>3. CASE k = m + 1
      BY <3>3
    <3> QED BY <3>1, <3>2, <3>3
  <2>3. g = [k \in 0 .. (m + 1) |-> g[k]]
    OBVIOUS
  <2> HIDE DEF g
  <2>4. ReachSteps(h, D, d, m + 1, g)
    BY <2>2, <2>3 DEF ReachSteps
  <2> QED BY <2>4
<1> HIDE DEF S
<1>3. Nat \subseteq S
  BY <1>1, <1>2, Induction
<1> QED BY <1>3 DEF S

\* ReachedFrom is the last of these sets.
LEMMA ReachedFromIs ==
  ASSUME NEW h, NEW D, NEW d, Len(h) \in Nat
  PROVE  \E f : ReachSteps(h, D, d, Len(h), f) /\ ReachedFrom(h, D, d) = f[Len(h)]
<1> DEFINE f == CHOOSE f : ReachSteps(h, D, d, Len(h), f)
<1>1. ReachSteps(h, D, d, Len(h), f)
  BY ReachStepsExist
<1>2. ReachedFrom(h, D, d) = f[Len(h)]
  BY DEF ReachedFrom, ReachSteps, Reach
<1> QED BY <1>1, <1>2

\* Before the first operation a device has reached itself only.
LEMMA ReachedAtFirst ==
  ASSUME NEW D, NEW d
  PROVE  ReachedFrom(<< >>, D, d) = {d}
<1>1. PICK f : ReachSteps(<< >>, D, d, 0, f) /\ ReachedFrom(<< >>, D, d) = f[0]
  BY ReachedFromIs
<1> QED BY <1>1 DEF ReachSteps

\* One more operation adds the devices that it sends to.
LEMMA ReachedNext ==
  ASSUME NEW T, NEW h \in Seq(T), NEW o \in T, NEW D, NEW d
  PROVE  ReachedFrom(Append(h, o), D, d) = Reach(ReachedFrom(h, D, d), o, D)
<1> DEFINE n == Len(h)
           k == Append(h, o)
<1>1. /\ n \in Nat /\ Len(k) = n + 1 /\ k[n + 1] = o
      /\ \A i \in 1 .. n : k[i] = h[i]
  OBVIOUS
<1>2. PICK f : ReachSteps(h, D, d, n, f) /\ ReachedFrom(h, D, d) = f[n]
  BY <1>1, ReachedFromIs
<1> HIDE DEF n, k
<1>3. PICK g : ReachSteps(k, D, d, n + 1, g) /\ ReachedFrom(k, D, d) = g[n + 1]
  <2>1. n + 1 \in Nat /\ Len(k) = n + 1
    BY <1>1
  <2>2. \E g : ReachSteps(k, D, d, Len(k), g) /\ ReachedFrom(k, D, d) = g[Len(k)]
    BY <2>1, ReachedFromIs
  <2> QED BY <2>1, <2>2
<1> DEFINE S == {i \in Nat : i <= n => f[i] = g[i]}
<1>4. 0 \in S
  BY <1>1, <1>2, <1>3 DEF ReachSteps
<1>5. ASSUME NEW i \in Nat, i \in S PROVE i + 1 \in S
  <2> SUFFICES ASSUME i + 1 <= n PROVE f[i + 1] = g[i + 1]
    OBVIOUS
  <2>1. i + 1 \in 0 .. n /\ i + 1 \in 0 .. (n + 1) /\ i + 1 # 0 /\ (i + 1) - 1 = i
    BY <1>1
  <2>2. f[i + 1] = Reach(f[i], h[i + 1], D) /\ g[i + 1] = Reach(g[i], k[i + 1], D)
    BY <1>2, <1>3, <2>1 DEF ReachSteps
  <2>3. f[i] = g[i] /\ k[i + 1] = h[i + 1]
    BY <1>1, <1>5, <2>1
  <2> QED BY <2>2, <2>3
<1> HIDE DEF S
<1>6. Nat \subseteq S
  BY <1>4, <1>5, Induction
<1>7. f[n] = g[n]
  BY <1>1, <1>6 DEF S
<1>8. g[n + 1] = Reach(g[n], k[n + 1], D)
  <2>1. n + 1 \in 0 .. (n + 1) /\ n + 1 # 0 /\ (n + 1) - 1 = n
    BY <1>1
  <2> QED BY <1>3, <2>1 DEF ReachSteps
<1> QED BY <1>1, <1>2, <1>3, <1>7, <1>8 DEF k

\* The expression of t has an input of device e; a device's tensor has one.
Comes(t, e) == \E leaf \in t.from : leaf[2] = e
Holds(f, e) == \E n \in DOMAIN f : Comes(f[n], e)

(***************************************************************************)
(* The inductive invariant: a device has inputs of the devices it can have *)
(* been reached from.  Until the program starts it has its own only, since *)
(* the history that is there is that of the program before.                *)
(***************************************************************************)
Local == /\ \A e \in Devices : e \in ReachedFrom(history, Devices, e)
         /\ \A d, e \in Devices : Holds(tensors[d], e) =>
              IF phase = "setup" THEN d = e ELSE d \in ReachedFrom(history, Devices, e)

DataInv == AgreeInv /\ Local

\* What an operation may do: a device gets what it had, or what came by one hop.
MovesByHops(o) ==
  \A d, e \in Devices : Holds(tensors'[d], e) =>
    \/ Holds(tensors[d], e)
    \/ \E c \in Devices : <<c, d>> \in Hops(o, Devices) /\ Holds(tensors[c], e)

\* What a device holds after a store it held before, or came with the tensor.
LEMMA HoldsPut ==
  ASSUME NEW f, NEW n, NEW t, NEW e, Holds(Put(f, n, t), e)
  PROVE  Holds(f, e) \/ Comes(t, e)
BY DEF Holds, Put

\* The same for a store on a set of devices.
LEMMA HoldsStored ==
  ASSUME NEW S, NEW n, NEW t, NEW d \in Devices, NEW e, Holds(Stored(S, n, t)[d], e)
  PROVE  Holds(tensors[d], e) \/ (d \in S /\ Comes(t[d], e))
<1>1. CASE d \in S
  <2>1. Holds(Put(tensors[d], n, t[d]), e)
    BY <1>1 DEF Stored
  <2> QED BY <1>1, <2>1, HoldsPut
<1>2. CASE d \notin S
  BY <1>2 DEF Stored
<1> QED BY <1>1, <1>2

\* An operation that is executed device by device uses what the device holds.
LEMMA PerDeviceMoves ==
  ASSUME NEW o, PerDevice(o)
  PROVE  MovesByHops(o)
<1> DEFINE stops   == {d \in Devices : Stops(d, o)}
           reached == {d \in Devices : Before(d, stops)}
           S       == {d \in reached : ~Missing(d, o)}
           res     == [d \in S |-> Result(o, Ins(d, o))]
<1>1. tensors' = Stored(S, o.out, res)
  BY DEF PerDevice
<1> SUFFICES ASSUME NEW d \in Devices, NEW e \in Devices, Holds(tensors'[d], e),
                    d \in S, Comes(res[d], e)
             PROVE  Holds(tensors[d], e)
  <2> HIDE DEF S, res
  <2> QED BY <1>1, HoldsStored DEF MovesByHops
<1>2. Comes(Result(o, Ins(d, o)), e) /\ HasAll(d, o.ins)
  BY DEF Missing
<1>3. PICK k \in DOMAIN Ins(d, o) : Comes(Ins(d, o)[k], e)
  BY <1>2 DEF Comes, Result
<1>4. k \in DOMAIN o.ins /\ Comes(tensors[d][o.ins[k]], e)
  BY <1>3 DEF Ins
<1>5. o.ins[k] \in DOMAIN tensors[d]
  BY <1>2, <1>4 DEF HasAll, Has
<1> QED BY <1>4, <1>5 DEF Holds

\* A store on one device moves what comes over a hop to it.
LEMMA ToOneMoves ==
  ASSUME NEW o, NEW x, NEW dst, Moved(o, x, dst),
         \A e \in Devices : Comes(x, e) =>
           \/ Holds(tensors[dst], e)
           \/ \E c \in Devices : <<c, dst>> \in Hops(o, Devices) /\ Holds(tensors[c], e)
  PROVE  MovesByHops(o)
<1>1. tensors' = Stored({dst}, o.out, [d \in {dst} |-> x])
  BY DEF Moved
<1>2. ASSUME NEW d \in Devices, NEW e \in Devices, Holds(tensors'[d], e)
      PROVE  Holds(tensors[d], e) \/ (d = dst /\ Comes(x, e))
  <2>1. Holds(tensors[d], e) \/ (d \in {dst} /\ Comes([c \in {dst} |-> x][d], e))
    BY <1>1, <1>2, HoldsStored
  <2> QED BY <2>1
<1> QED BY <1>2 DEF MovesByHops

\* So does an operation that stores nothing.
LEMMA StillMoves ==
  ASSUME NEW o, tensors' = tensors
  PROVE  MovesByHops(o)
BY DEF MovesByHops

\* Sends and receives move data between their two devices only.
LEMMA MessagesMove ==
  ASSUME NEW o, Send(o) \/ Recv(o) \/ SendAsync(o) \/ RecvAsync(o)
  PROVE  MovesByHops(o)
<1>1. CASE Raised \/ Ignored \/ RaisedIfStrict
  BY <1>1, StillMoves DEF Raised, Ignored, RaisedIfStrict
<1>2. CASE Send(o) \/ SendAsync(o)
  <2>1. Hops(o, Devices) = {<<o.src, o.dst>>}
    BY <1>2 DEF Send, SendAsync, Hops
  <2>2. \/ Raised \/ Ignored \/ RaisedIfStrict
        \/ /\ o.src \in Devices /\ o.ins[1] \in DOMAIN tensors[o.src]
           /\ Moved(o, tensors[o.src][o.ins[1]], o.dst)
    BY <1>2 DEF Send, SendAsync, Has
  <2>3. CASE /\ o.src \in Devices /\ o.ins[1] \in DOMAIN tensors[o.src]
             /\ Moved(o, tensors[o.src][o.ins[1]], o.dst)
    BY <2>1, <2>3, ToOneMoves DEF Holds
  <2> QED BY <1>1, <2>2, <2>3
<1>3. CASE Recv(o)
  <2>1. \/ Raised \/ Ignored
        \/ /\ o.ins[1] \in DOMAIN tensors[o.dst]
           /\ Moved(o, tensors[o.dst][o.ins[1]], o.dst)
    BY <1>3 DEF Recv, Has
  <2>2. CASE o.ins[1] \in DOMAIN tensors[o.dst] /\ Moved(o, tensors[o.dst][o.ins[1]], o.dst)
    BY <2>2, ToOneMoves DEF Holds
  <2> QED BY <1>1, <2>1, <2>2
<1>4. CASE RecvAsync(o)
  <2> DEFINE x == [shape |-> tensors[o.dst][o.ins[1]].shape,
                   pl |-> tensors[o.dst][o.ins[1]].pl, from |-> {}]
  <2>1. Raised \/ RaisedIfStrict \/ Moved(o, x, o.dst)
    BY <1>4 DEF RecvAsync
  <2>2. \A e \in Devices : ~Comes(x, e)
    BY DEF Comes
  <2> HIDE DEF x
  <2>3. CASE Moved(o, x, o.dst)
    BY <2>2, <2>3, ToOneMoves
  <2> QED BY <1>1, <2>1, <2>3
<1> QED BY <1>2, <1>3, <1>4

\* Wait stores what is there already, or what its operation moved.
LEMMA WaitMoves ==
  ASSUME NEW o, WellFormed(o), Wait(o)
  PROVE  MovesByHops(o)
<1> DEFINE S == {d \in Devices : Before(d, {e \in Devices : Missing(e, o)})}
           t == [d \in S |-> tensors[d][o.ins[1]]]
<1>1. tensors' = Stored(S, o.out, t) /\ o.kind = "Wait"
  BY DEF Wait
<1> SUFFICES ASSUME NEW d \in Devices, NEW e \in Devices, Holds(tensors'[d], e),
                    d \in S, Comes(t[d], e)
             PROVE  Holds(tensors[d], e)
  <2> HIDE DEF S, t
  <2> QED BY <1>1, HoldsStored DEF MovesByHops
<1>2. ~(d < d) => ~Missing(d, o)
  BY DEF Before
<1>3. ~(d < d)
  BY DEF Devices
<1>4. 1 \in DOMAIN o.ins
  BY <1>1 DEF WellFormed
<1>5. o.ins[1] \in DOMAIN tensors[d]
  BY <1>2, <1>3, <1>4 DEF Missing, HasAll, Has
<1> QED BY <1>5 DEF Holds

\* A step of WaitAll brings nothing that the device did not hold.
LEMMA WaitStepsHold ==
  ASSUME NEW d, NEW e, NEW o, NEW n \in Nat, NEW f, WaitSteps(d, o, n, f), Holds(f[n], e)
  PROVE  Holds(tensors[d], e)
<1> DEFINE S == {k \in Nat : k <= n /\ Holds(f[k], e) => Holds(tensors[d], e)}
<1>1. 0 \in S
  BY DEF WaitSteps
<1>2. ASSUME NEW k \in Nat, k \in S PROVE k + 1 \in S
  <2> SUFFICES ASSUME k + 1 <= n, Holds(f[k + 1], e) PROVE Holds(f[k], e)
    BY <1>2
  <2>1. f[k + 1] = Waiting(f[k], o, k + 1)
    BY DEF WaitSteps
  <2>2. CASE o.ins[k + 1] \in DOMAIN f[k]
    <3>1. Holds(Put(f[k], o.outs[k + 1], f[k][o.ins[k + 1]]), e)
      BY <2>1, <2>2 DEF Waiting
    <3>2. Holds(f[k], e) \/ Comes(f[k][o.ins[k + 1]], e)
      BY <3>1, HoldsPut
    <3> QED BY <2>2, <3>2 DEF Holds
  <2>3. CASE o.ins[k + 1] \notin DOMAIN f[k]
    BY <2>1, <2>3 DEF Waiting
  <2> QED BY <2>2, <2>3
<1> HIDE DEF S
<1>3. Nat \subseteq S
  BY <1>1, <1>2, Induction
<1> QED BY <1>3 DEF S

\* WaitAll stores on a device what its operations left to it there.
LEMMA WaitAllMoves ==
  ASSUME NEW o, WellFormed(o), WaitAll(o)
  PROVE  MovesByHops(o)
<1>1. tensors' = [d \in Devices |-> WaitedFor(d, o)]
  BY DEF WaitAll
<1>2. Len(o.outs) \in Nat
  <2>1. o.outs \in Seq(Range(o.outs))
    BY DEF WellFormed, WaitAll
  <2> QED BY <2>1
<1>3. ASSUME NEW d \in Devices, NEW e \in Devices, Holds(WaitedFor(d, o), e)
      PROVE  Holds(tensors[d], e)
  <2>1. PICK f : WaitSteps(d, o, Len(o.outs), f) /\ WaitedFor(d, o) = f[Len(o.outs)]
    BY <1>2, WaitedForIs
  <2> QED BY <1>2, <1>3, <2>1, WaitStepsHold
<1> QED BY <1>1, <1>3 DEF MovesByHops

\* A rotation moves data to the next device of the ring.
LEMMA RingRotateMoves ==
  ASSUME NEW o, RingRotate(o)
  PROVE  MovesByHops(o)
<1> DEFINE prev(d) == Previous(d, o.ring_size)
           S == DOMAIN Rotated(o)
<1>1. tensors' = Stored(S, o.out, Rotated(o)) /\ o.kind = "RingRotate"
  BY DEF RingRotate
<1>2. \A d \in S : /\ prev(d) \in Devices /\ o.ins[1] \in DOMAIN tensors[prev(d)]
                   /\ Rotated(o)[d] = tensors[prev(d)][o.ins[1]]
  BY DEF Rotated, Has
<1>3. \A d \in Devices : <<prev(d), d>> \in Hops(o, Devices)
  BY <1>1 DEF Hops, Previous
<1> HIDE DEF S, prev
<1>4. ASSUME NEW d \in Devices, NEW e \in Devices, d \in S, Comes(Rotated(o)[d], e)
      PROVE  Holds(tensors[prev(d)], e)
  BY <1>2, <1>4 DEF Holds
<1>5. ASSUME NEW d \in Devices, NEW e \in Devices, Holds(tensors'[d], e)
      PROVE  \/ Holds(tensors[d], e)
             \/ \E c \in Devices : <<c, d>> \in Hops(o, Devices) /\ Holds(tensors[c], e)
  <2>1. Holds(tensors[d], e) \/ (d \in S /\ Comes(Rotated(o)[d], e))
    BY <1>1, <1>5, HoldsStored
  <2> QED BY <1>2, <1>3, <1>4, <2>1
<1> QED BY <1>5 DEF MovesByHops

\* The gate computes both results from what the device holds.
LEMMA TopKGateMoves ==
  ASSUME NEW o, WellFormed(o), TopKGate(o)
  PROVE  MovesByHops(o)
<1> DEFINE x(d)       == tensors[d][o.ins[1]]
           Indices(d) == Rows(x(d).shape[0], o.top_k)
           there      == {d \in Devices : ~Missing(d, o)}
           stops      == {d \in there : ~Divides(mesh, Indices(d), x(d).pl)}
           S          == {d \in there : Before(d, stops)}
           t(d)       == [shape |-> Indices(d), pl |-> x(d).pl, from |-> x(d).from]
<1>1. /\ o.kind = "TopKGate"
      /\ tensors' = [d \in Devices |->
           IF d \in S THEN Put(Put(tensors[d], o.indices_output, t(d)), o.out, x(d))
           ELSE tensors[d]]
  BY DEF TopKGate
<1> SUFFICES ASSUME NEW d \in Devices, NEW e \in Devices, Holds(tensors'[d], e)
             PROVE  Holds(tensors[d], e)
  BY DEF MovesByHops
<1>2. CASE d \notin S
  <2> HIDE DEF S
  <2> QED BY <1>1, <1>2
<1>3. CASE d \in S
  <2>1. 1 \in DOMAIN o.ins /\ ~Missing(d, o)
    BY <1>1, <1>3 DEF WellFormed
  <2>2. o.ins[1] \in DOMAIN tensors[d]
    BY <2>1 DEF Missing, HasAll, Has
  <2>3. Comes(x(d), e) => Holds(tensors[d], e)
    BY <2>2 DEF Holds
  <2>4. Comes(t(d), e) => Comes(x(d), e)
    BY DEF Comes
  <2> HIDE DEF S, t, x
  <2>5. Holds(Put(Put(tensors[d], o.indices_output, t(d)), o.out, x(d)), e)
    BY <1>1, <1>3
  <2>6. Holds(Put(tensors[d], o.indices_output, t(d)), e) \/ Comes(x(d), e)
    BY <2>5, HoldsPut
  <2>7. Holds(tensors[d], e) \/ Comes(t(d), e) \/ Comes(x(d), e)
    BY <2>6, HoldsPut
  <2> QED BY <2>3, <2>4, <2>7
<1> QED BY <1>2, <1>3

-----------------------------------------------------------------------------
\* Nothing has been registered: nothing is held.
LEMMA InitLocal == Init => Local
<1> SUFFICES ASSUME Init PROVE Local
  OBVIOUS
<1>1. history = << >> /\ \A d \in Devices : tensors[d] = << >>
  BY DEF Init
<1>2. \A d, e \in Devices : ~Holds(tensors[d], e)
  BY <1>1 DEF Holds
<1>3. \A e \in Devices : ReachedFrom(history, Devices, e) = {e}
  BY <1>1, ReachedAtFirst
<1> QED BY <1>2, <1>3 DEF Local

\* A registration brings each device its own data.
LEMMA RegisterLocal == Local /\ Register => Local'
<1> SUFFICES ASSUME Local, Register PROVE Local'
  OBVIOUS
<1> DEFINE r == setup[registered + 1]
           S == IF r.device_ids = {} THEN Devices ELSE r.device_ids
           t == [d \in S |-> [shape |-> r.shape, pl |-> r.pl, from |-> {<<r.name, d>>}]]
<1>1. tensors' = Stored(S, r.name, t) /\ phase = "setup" /\ UNCHANGED <<mesh, history, phase>>
  BY DEF Register
<1>2. ASSUME NEW d \in S, NEW e, Comes(t[d], e) PROVE d = e
  <2>1. t[d].from = {<<r.name, d>>}
    OBVIOUS
  <2> HIDE DEF t
  <2> QED BY <1>2, <2>1 DEF Comes
<1> HIDE DEF S, t
<1>3. ASSUME NEW d \in Devices, NEW e \in Devices, Holds(tensors'[d], e) PROVE d = e
  <2>1. Holds(tensors[d], e) \/ (d \in S /\ Comes(t[d], e))
    BY <1>1, <1>3, HoldsStored
  <2> QED BY <1>1, <1>2, <2>1 DEF Local
<1>4. Devices' = Devices
  BY <1>1 DEF Devices
<1> QED BY <1>1, <1>3, <1>4 DEF Local

\* The start and the end of a run and a reset move nothing.
LEMMA ControlLocal ==
  ASSUME Local, RunProgram \/ EndProgram \/ ResetDevices
  PROVE  Local'
<1>1. CASE RunProgram
  <2>1. /\ phase = "setup" /\ phase' = "run" /\ history' = << >>
        /\ UNCHANGED <<mesh, tensors>> /\ Devices' = Devices
    BY <1>1 DEF RunProgram, Devices
  <2>2. \A e \in Devices : ReachedFrom(history', Devices, e) = {e}
    BY <2>1, ReachedAtFirst
  <2> QED BY <2>1, <2>2 DEF Local
<1>2. CASE EndProgram
  <2>1. /\ phase = "run" /\ phase' = "done"
        /\ UNCHANGED <<mesh, tensors, history>> /\ Devices' = Devices
    BY <1>2 DEF EndProgram, Devices
  <2> QED BY <2>1 DEF Local
<1>3. CASE ResetDevices
  <2>1. /\ UNCHANGED <<mesh, history>> /\ Devices' = Devices
        /\ tensors' = [d \in Devices |-> << >>]
    BY <1>3 DEF ResetDevices, Devices
  <2>2. \A d, e \in Devices : ~Holds(tensors'[d], e)
    BY <2>1 DEF Holds
  <2> QED BY <2>1, <2>2 DEF Local
<1> QED BY <1>1, <1>2, <1>3

\* An operation brings data only from devices it has a hop from.
LEMMA ExecuteLocal == DataInv /\ ExecuteOp => Local'
<1> SUFFICES ASSUME DataInv, NEW o \in Current,
                    \/ PerDevice(o) \/ Send(o) \/ Recv(o) \/ SendAsync(o) \/ RecvAsync(o)
                    \/ Wait(o) \/ WaitAll(o) \/ RingRotate(o) \/ TopKGate(o)
                    \/ RingAttention(o) \/ OverlapRegion(o)
             PROVE  Local'
  BY DEF ExecuteOp
<1>1. PICK subs : Executes(o, subs)
  BY DEF PerDevice, Send, Recv, SendAsync, RecvAsync, Wait, WaitAll, RingRotate, TopKGate,
         RingAttention, OverlapRegion
<1>2. o \in Ops /\ WellFormed(o)
  <2>1. CASE todo # << >>
    <3>1. o = Head(todo) /\ Head(todo) \in SubOps
      BY <2>1 DEF Current, AgreeInv, DataInv
    <3>2. o \in Ops
      BY <3>1 DEF Ops
    <3> QED BY <3>2, OpsWellFormed
  <2>2. CASE todo = << >>
    <3>1. o \in Ops
      BY <2>2 DEF Current, Ops
    <3> QED BY <3>1, OpsWellFormed
  <2> QED BY <2>1, <2>2
<1>3. MovesByHops(o)
  <2>1. CASE RingAttention(o) \/ OverlapRegion(o)
    BY <2>1, StillMoves DEF RingAttention, OverlapRegion, Ignored
  <2> QED BY <1>2, <2>1, PerDeviceMoves, MessagesMove, WaitMoves, WaitAllMoves,
             RingRotateMoves, TopKGateMoves
<1>4. /\ phase = "run" /\ history' = Append(history, o) /\ Devices' = Devices
      /\ phase' \in {phase, "raised"}
  <2>1. phase = "run" /\ history' = Append(history, o) /\ Devices' = Devices
    BY <1>1 DEF Executes, Devices
  <2>2. phase' \in {phase, "raised"}
    BY DEF PerDevice, Send, Recv, SendAsync, RecvAsync, Wait, WaitAll, RingRotate, TopKGate,
           RingAttention, OverlapRegion, Moved, Raised, Ignored, RaisedIfStrict
  <2> QED BY <2>1, <2>2
<1> DEFINE R(e) == ReachedFrom(history, Devices, e)
<1>5. \A e \in Devices : ReachedFrom(history', Devices, e) = Reach(R(e), o, Devices)
  <2>1. history \in Seq(Ops)
    BY DEF DataInv, AgreeInv
  <2> QED BY <1>2, <1>4, <2>1, ReachedNext
<1>6. \A d, e \in Devices : Holds(tensors[d], e) => d \in R(e)
  BY <1>4 DEF DataInv, Local
<1>7. \A e \in Devices : e \in R(e)
  BY DEF DataInv, Local
<1> HIDE DEF R
<1>8. ASSUME NEW d \in Devices, NEW e \in Devices, Holds(tensors'[d], e)
      PROVE  d \in Reach(R(e), o, Devices)
  <2>1. CASE Holds(tensors[d], e)
    BY <1>6, <2>1 DEF Reach
  <2>2. CASE ~Holds(tensors[d], e)
    <3>1. PICK c \in Devices : <<c, d>> \in Hops(o, Devices) /\ Holds(tensors[c], e)
      BY <1>3, <1>8, <2>2 DEF MovesByHops
    <3>2. c \in R(e)
      BY <1>6, <3>1
    <3> QED BY <3>1, <3>2 DEF Reach
  <2> QED BY <2>1, <2>2
<1>9. \A e \in Devices : e \in Reach(R(e), o, Devices)
  BY <1>7 DEF Reach
<1>10. phase' # "setup"
  BY <1>4
<1> QED BY <1>4, <1>5, <1>8, <1>9, <1>10 DEF Local

\* Data is where messages have brought it, after every step.
LEMMA NextLocal == DataInv /\ [Next]_vars => Local'
<1> SUFFICES ASSUME DataInv, [Next]_vars PROVE Local'
  OBVIOUS
<1>1. CASE UNCHANGED vars
  <2>1. UNCHANGED <<history, tensors, phase>> /\ Devices' = Devices
    BY <1>1 DEF vars, Devices
  <2> QED BY <2>1 DEF DataInv, Local
<1> QED BY <1>1, RegisterLocal, ControlLocal, ExecuteLocal DEF Next, DataInv

(***************************************************************************)
(* Data gets from device to device by sends and rotations only, one hop for*)
(* each, on any mesh and whatever the program is.                          *)
(***************************************************************************)
THEOREM Locality == Spec => []MovesByMessagesOnly
<1>1. DataInv => MovesByMessagesOnly
  <2> SUFFICES ASSUME DataInv, NEW e \in Devices,
                      NEW d \in Devices \ ReachedFrom(history, Devices, e),
                      NEW n \in DOMAIN tensors[d], NEW leaf \in tensors[d][n].from,
                      leaf[2] = e
               PROVE  FALSE
    BY DEF MovesByMessagesOnly
  <2>1. Holds(tensors[d], e)
    BY DEF Holds, Comes
  <2>2. d = e \/ d \in ReachedFrom(history, Devices, e)
    BY <2>1 DEF DataInv, Local
  <2>3. e \in ReachedFrom(history, Devices, e)
    BY DEF DataInv, Local
  <2> QED BY <2>2, <2>3
<1>2. Init => DataInv
  BY InitAgree, InitLocal DEF DataInv
<1>3. DataInv /\ [Next]_vars => DataInv'
  BY NextAgree, NextLocal DEF DataInv
<1> QED BY <1>1, <1>2, <1>3, PTL DEF Spec

-----------------------------------------------------------------------------
(***************************************************************************)
(* A run without a warning.  Where two devices have a tensor of a name it  *)
(* is alike; what an operation wrote every device has.                     *)
(***************************************************************************)
Consistent ==
  \A d, e \in Devices : \A n \in DOMAIN tensors[d] \cap DOMAIN tensors[e] :
    Like(tensors[d][n], tensors[e][n])

Everywhere(n) == \A d \in Devices : Has(d, n)

WrittenEverywhere ==
  \A i \in DOMAIN history : history[i].kind \notin OtherKinds => Everywhere(history[i].out)

\* Before the program begins the devices have what was registered.
AsRegistered ==
  \A d \in Devices : \A n \in DOMAIN tensors[d] : \E k \in 1 .. registered :
    /\ setup[k].name = n
    /\ tensors[d][n] = [shape |-> setup[k].shape, pl |-> setup[k].pl, from |-> {<<n, d>>}]

Quiet == ~warned /\ RegisteredAlike /\ \A i \in DOMAIN history : Loud(history[i])

QuietInv ==
  /\ AgreeInv
  /\ phase = "setup" => AsRegistered
  /\ phase \in {"run", "done"} /\ Quiet => Consistent /\ WrittenEverywhere

\* The invariant of the quiet runs holds at first.
LEMMA InitQuiet == Init => QuietInv
<1> SUFFICES ASSUME Init PROVE QuietInv
  OBVIOUS
<1>1. phase = "setup" /\ \A d \in Devices : tensors[d] = << >>
  BY DEF Init
<1> QED BY <1>1, InitAgree DEF QuietInv, AsRegistered

\* Registrations keep it: what is registered is there as registered.
LEMMA RegisterQuiet == QuietInv /\ Register => QuietInv'
<1> SUFFICES ASSUME QuietInv, Register PROVE QuietInv'
  OBVIOUS
<1> DEFINE r == setup[registered + 1]
           S == IF r.device_ids = {} THEN Devices ELSE r.device_ids
           t == [d \in S |-> [shape |-> r.shape, pl |-> r.pl, from |-> {<<r.name, d>>}]]
<1>1. /\ phase = "setup" /\ phase' = "setup" /\ registered' = registered + 1
      /\ UNCHANGED <<mesh, setup>> /\ registered \in Nat /\ AsRegistered
      /\ tensors' = Stored(S, r.name, t)
  BY DEF Register, QuietInv, AgreeInv
<1>2. AgreeInv'
  BY RegisterAgree DEF QuietInv
<1>3. ASSUME NEW d \in Devices, NEW n \in DOMAIN tensors'[d]
      PROVE  \E k \in 1 .. (registered + 1) :
               /\ setup[k].name = n
               /\ tensors'[d][n] = [shape |-> setup[k].shape, pl |-> setup[k].pl,
                                    from |-> {<<n, d>>}]
  <2>1. CASE d \in S /\ n = r.name
    <3>1. tensors'[d][n] = t[d]
      BY <1>1, <2>1 DEF Stored, Put
    <3>2. t[d] = [shape |-> r.shape, pl |-> r.pl, from |-> {<<n, d>>}]
      BY <2>1
    <3>3. registered + 1 \in 1 .. (registered + 1)
      BY <1>1
    <3> QED BY <2>1, <3>1, <3>2, <3>3
  <2>2. CASE ~(d \in S /\ n = r.name)
    <3>1. n \in DOMAIN tensors[d] /\ tensors'[d][n] = tensors[d][n]
      BY <1>1, <1>3, <2>2 DEF Stored, Put
    <3>2. PICK k \in 1 .. registered :
            /\ setup[k].name = n
            /\ tensors[d][n] = [shape |-> setup[k].shape, pl |-> setup[k].pl,
                                from |-> {<<n, d>>}]
      BY <1>1, <3>1 DEF AsRegistered
    <3>3. k \in 1 .. (registered + 1)
      BY <1>1
    <3> QED BY <3>1, <3>2, <3>3
  <2> QED BY <2>1, <2>2
<1>4. AsRegistered'
  <2>1. Devices' = Devices
    BY <1>1 DEF Devices
  <2>2. registered' = registered + 1 /\ setup' = setup
    BY <1>1
  <2> HIDE DEF r, S, t
  <2> QED BY <1>3, <2>1, <2>2, Zenon DEF AsRegistered
<1> QED BY <1>1, <1>2, <1>4 DEF QuietInv

\* The start and the end of a run and a reset keep it.
LEMMA ControlQuiet ==
  ASSUME QuietInv, RunProgram \/ EndProgram \/ ResetDevices
  PROVE  QuietInv'
<1>1. AgreeInv'
  BY ControlAgree DEF QuietInv
<1>2. CASE RunProgram
  <2>1. /\ phase = "setup" /\ phase' = "run" /\ history' = << >>
        /\ UNCHANGED <<mesh, setup, registered, tensors>> /\ AsRegistered
    BY <1>2 DEF RunProgram, QuietInv
  <2>2. ASSUME RegisteredAlike PROVE Consistent
    <3> SUFFICES ASSUME NEW d \in Devices, NEW e \in Devices,
                        NEW n \in DOMAIN tensors[d] \cap DOMAIN tensors[e]
                 PROVE  Like(tensors[d][n], tensors[e][n])
      BY DEF Consistent
    <3>1. PICK j \in 1 .. registered :
            /\ setup[j].name = n
            /\ tensors[d][n] = [shape |-> setup[j].shape, pl |-> setup[j].pl,
                                from |-> {<<n, d>>}]
      BY <2>1 DEF AsRegistered
    <3>2. PICK k \in 1 .. registered :
            /\ setup[k].name = n
            /\ tensors[e][n] = [shape |-> setup[k].shape, pl |-> setup[k].pl,
                                from |-> {<<n, e>>}]
      BY <2>1 DEF AsRegistered
    <3>3. setup[j].shape = setup[k].shape /\ setup[j].pl = setup[k].pl
      BY <2>2, <3>1, <3>2 DEF RegisteredAlike
    <3>4. tensors[d][n].from = {<<n, d>>} /\ tensors[e][n].from = {<<n, e>>}
      BY <3>1, <3>2
    <3>5. LeavesOf(tensors[d][n]) = {n} /\ LeavesOf(tensors[e][n]) = {n}
      BY <3>4 DEF LeavesOf
    <3>6. /\ tensors[d][n].shape = tensors[e][n].shape
          /\ tensors[d][n].pl = tensors[e][n].pl
      BY <3>1, <3>2, <3>3
    <3> QED BY <3>5, <3>6 DEF Like
  <2>3. Quiet' => Consistent'
    BY <2>1, <2>2 DEF Quiet, RegisteredAlike, Consistent, Devices
  <2>4. WrittenEverywhere'
    BY <2>1 DEF WrittenEverywhere
  <2> QED BY <1>1, <2>1, <2>3, <2>4 DEF QuietInv
<1>3. CASE EndProgram
  <2>1. /\ phase = "run" /\ phase' = "done"
        /\ UNCHANGED <<mesh, setup, registered, tensors, history, warned>>
    BY <1>3 DEF EndProgram
  <2>2. Quiet' => Quiet
    BY <2>1 DEF Quiet, RegisteredAlike, Loud, Symmetric
  <2>3. Devices' = Devices
    BY <2>1 DEF Devices
  <2>4. \A n : Everywhere(n) => Everywhere(n)'
    BY <2>1, <2>3 DEF Everywhere, Has
  <2>5. Consistent => Consistent'
    BY <2>1, <2>3 DEF Consistent
  <2>6. WrittenEverywhere => WrittenEverywhere'
    BY <2>1, <2>4 DEF WrittenEverywhere
  <2> QED BY <1>1, <2>1, <2>2, <2>5, <2>6 DEF QuietInv
<1>4. CASE ResetDevices
  <2>1. phase' = "setup" /\ tensors' = [d \in Devices |-> << >>] /\ mesh' = mesh
    BY <1>4 DEF ResetDevices
  <2>2. \A d \in Devices : DOMAIN tensors'[d] = {}
    BY <2>1
  <2>3. AsRegistered'
    BY <2>1, <2>2 DEF AsRegistered, Devices
  <2> QED BY <1>1, <2>1, <2>3 DEF QuietInv
<1> QED BY <1>2, <1>3, <1>4

\* What is written alike on every device.
LEMMA WriteEverywhere ==
  ASSUME Consistent, NEW n, NEW t, \A d, e \in Devices : Like(t[d], t[e]),
         tensors' = Stored(Devices, n, t), mesh' = mesh
  PROVE  /\ Consistent' /\ Everywhere(n)'
         /\ \A m : Everywhere(m) => Everywhere(m)'
<1>1. \A d \in Devices : tensors'[d] = Put(tensors[d], n, t[d])
  BY DEF Stored
<1>2. \A d \in Devices : /\ DOMAIN tensors'[d] = DOMAIN tensors[d] \cup {n}
                         /\ \A m \in DOMAIN tensors'[d] :
                              tensors'[d][m] = IF m = n THEN t[d] ELSE tensors[d][m]
  BY <1>1 DEF Put
<1>3. ASSUME NEW d \in Devices, NEW e \in Devices,
             NEW m \in DOMAIN tensors'[d] \cap DOMAIN tensors'[e]
      PROVE  Like(tensors'[d][m], tensors'[e][m])
  <2>1. CASE m = n
    BY <1>2, <2>1
  <2>2. CASE m # n
    <3>1. m \in DOMAIN tensors[d] \cap DOMAIN tensors[e]
      BY <1>2, <2>2
    <3>2. tensors'[d][m] = tensors[d][m] /\ tensors'[e][m] = tensors[e][m]
      BY <1>2, <2>2
    <3> QED BY <3>1, <3>2 DEF Consistent
  <2> QED BY <2>1, <2>2
<1>4. Consistent'
  BY <1>3 DEF Consistent, Devices
<1> QED BY <1>2, <1>4 DEF Everywhere, Has, Devices

\* An operation that every device goes through.
LEMMA PerDeviceQuiet ==
  ASSUME Consistent, NEW o, WellFormed(o), PerDevice(o), NumDevices(mesh) \in Nat \ {0},
         ~warned', phase' # "raised"
  PROVE  /\ ~warned /\ Consistent' /\ Everywhere(o.out)'
         /\ \A m : Everywhere(m) => Everywhere(m)'
<1> DEFINE stops   == {d \in Devices : Stops(d, o)}
           reached == {d \in Devices : Before(d, stops)}
           S       == {d \in reached : ~Missing(d, o)}
           res     == [d \in S |-> Result(o, Ins(d, o))]
<1>1. /\ tensors' = Stored(S, o.out, res) /\ o.kind \notin OtherKinds /\ mesh' = mesh
      /\ stops = {} /\ ~warned /\ ~Skips(o, reached)
  BY DEF PerDevice, Executes
<1>2. reached = Devices
  BY <1>1, BeforeAll
<1>3. S = Devices
  BY <1>1, <1>2 DEF Skips
<1>4. ASSUME NEW d \in Devices, NEW e \in Devices PROVE Like(res[d], res[e])
  <2>1. HasAll(d, o.ins) /\ HasAll(e, o.ins)
    BY <1>3 DEF Missing
  <2>2. \A k \in DOMAIN o.ins : Like(Ins(d, o)[k], Ins(e, o)[k])
    BY <2>1 DEF Consistent, HasAll, Has, Ins
  <2>3. DOMAIN Ins(d, o) = DOMAIN o.ins /\ DOMAIN Ins(e, o) = DOMAIN o.ins
    BY DEF Ins
  <2>4. Placed(Ins(d, o)) = Placed(Ins(e, o))
    BY <2>2, <2>3 DEF Placed, Like
  <2>5. Like(Result(o, Ins(d, o)), Result(o, Ins(e, o)))
    BY <1>1, <2>2, <2>3, <2>4, ResultLike
  <2>6. res[d] = Result(o, Ins(d, o)) /\ res[e] = Result(o, Ins(e, o))
    BY <1>3
  <2> QED BY <2>5, <2>6
<1> HIDE DEF S, res
<1>5. tensors' = Stored(Devices, o.out, res)
  BY <1>1, <1>3
<1> QED BY <1>1, <1>4, <1>5, WriteEverywhere

\* A wait without a warning found its handle on every device.
LEMMA WaitQuiet ==
  ASSUME Consistent, NEW o, WellFormed(o), Wait(o), NumDevices(mesh) \in Nat \ {0},
         phase' # "raised"
  PROVE  Consistent' /\ \A m : Everywhere(m) => Everywhere(m)'
<1> DEFINE gone == {e \in Devices : Missing(e, o)}
           S    == {d \in Devices : Before(d, gone)}
           t    == [d \in S |-> tensors[d][o.ins[1]]]
<1>1. /\ tensors' = Stored(S, o.out, t) /\ o.kind = "Wait" /\ mesh' = mesh /\ S = Devices
  BY DEF Wait, Executes
<1>2. \A d \in Devices : ~Missing(d, o)
  BY <1>1 DEF Before, Devices
<1>3. \A d \in Devices : o.ins[1] \in DOMAIN tensors[d]
  BY <1>1, <1>2 DEF WellFormed, Missing, HasAll, Has
<1>4. \A d, e \in Devices : Like(t[d], t[e])
  BY <1>1, <1>3 DEF Consistent
<1> HIDE DEF S, t
<1>5. tensors' = Stored(Devices, o.out, t)
  BY <1>1
<1> QED BY <1>1, <1>4, <1>5, WriteEverywhere

\* An operation without a warning has run on every device, on like inputs.
LEMMA ExecuteQuiet == QuietInv /\ ExecuteOp => QuietInv'
<1> SUFFICES ASSUME QuietInv, NEW o \in Current,
                    \/ PerDevice(o) \/ Send(o) \/ Recv(o) \/ SendAsync(o) \/ RecvAsync(o)
                    \/ Wait(o) \/ WaitAll(o) \/ RingRotate(o) \/ TopKGate(o)
                    \/ RingAttention(o) \/ OverlapRegion(o)
             PROVE  QuietInv'
  BY DEF ExecuteOp
<1>1. AgreeInv'
  <2>1. ExecuteOp
    BY DEF ExecuteOp
  <2> QED BY <2>1, ExecuteAgree DEF QuietInv
<1>2. /\ phase = "run" /\ history' = Append(history, o) /\ mesh' = mesh
      /\ UNCHANGED <<setup, registered>>
  BY DEF PerDevice, Send, Recv, SendAsync, RecvAsync, Wait, WaitAll, RingRotate, TopKGate,
         RingAttention, OverlapRegion, Executes
<1>3. phase' \in {phase, "raised"}
  BY DEF PerDevice, Send, Recv, SendAsync, RecvAsync, Wait, WaitAll, RingRotate, TopKGate,
         RingAttention, OverlapRegion, Moved, Raised, Ignored, RaisedIfStrict
<1>4. o \in Ops /\ WellFormed(o) /\ NumDevices(mesh) \in Nat \ {0}
  <2>1. o \in Ops
    BY DEF Current, Ops, QuietInv, AgreeInv
  <2> QED BY <2>1, OpsWellFormed, MeshHasDevices DEF QuietInv, AgreeInv
<1>5. /\ history \in Seq(Ops) /\ Len(history) \in Nat
      /\ DOMAIN history = 1 .. Len(history) /\ DOMAIN history' = 1 .. (Len(history) + 1)
      /\ \A i \in 1 .. Len(history) : history'[i] = history[i]
      /\ history'[Len(history) + 1] = o
  BY <1>2, <1>4 DEF QuietInv, AgreeInv
<1> SUFFICES ASSUME phase' # "raised", Quiet'
             PROVE  Consistent' /\ WrittenEverywhere'
  BY <1>1, <1>2, <1>3 DEF QuietInv
<1>6. Loud(o) /\ \A i \in DOMAIN history : Loud(history[i])
  BY <1>2, <1>5 DEF Quiet, Loud, Symmetric
<1>7. RegisteredAlike
  BY <1>2 DEF Quiet, RegisteredAlike
<1>8. ~warned => Consistent /\ WrittenEverywhere
  BY <1>2, <1>6, <1>7 DEF QuietInv, Quiet
<1>9. ASSUME ~warned, \A m : Everywhere(m) => Everywhere(m)',
             o.kind \notin OtherKinds => Everywhere(o.out)'
      PROVE  WrittenEverywhere'
  <2>1. ASSUME NEW i \in DOMAIN history', history'[i].kind \notin OtherKinds
        PROVE  \E m : m = history'[i].out /\ Everywhere(m)'
    <3>1. CASE i = Len(history) + 1
      BY <1>5, <1>9, <2>1, <3>1
    <3>2. CASE i # Len(history) + 1
      <4>1. i \in DOMAIN history /\ history'[i] = history[i]
        BY <1>5, <2>1, <3>2
      <4> QED BY <1>8, <1>9, <2>1, <4>1 DEF WrittenEverywhere
    <3> QED BY <3>1, <3>2
  <2> QED BY <2>1 DEF WrittenEverywhere, Everywhere
<1>10. ~warned'
  BY DEF Quiet
<1>11. CASE PerDevice(o)
  <2>1. ~warned
    BY <1>10, <1>11 DEF PerDevice
  <2>2. /\ Consistent' /\ Everywhere(o.out)'
        /\ \A m : Everywhere(m) => Everywhere(m)'
    BY <1>4, <1>8, <1>10, <1>11, <2>1, PerDeviceQuiet
  <2> QED BY <1>9, <2>1, <2>2
<1>12. CASE Wait(o)
  <2>1. ~warned /\ o.kind \in OtherKinds
    BY <1>10, <1>12 DEF Wait, OtherKinds
  <2>2. Consistent' /\ \A m : Everywhere(m) => Everywhere(m)'
    BY <1>4, <1>8, <1>12, <2>1, WaitQuiet
  <2> QED BY <1>9, <2>1, <2>2
<1>13. CASE RingAttention(o) \/ OverlapRegion(o)
  <2>1. ~warned /\ o.kind \in OtherKinds /\ UNCHANGED <<tensors, mesh>>
    BY <1>2, <1>10, <1>13 DEF RingAttention, OverlapRegion, Ignored, OtherKinds
  <2>2. Devices' = Devices
    BY <2>1 DEF Devices
  <2>3. Consistent' /\ \A m : Everywhere(m) => Everywhere(m)'
    BY <1>8, <2>1, <2>2 DEF Consistent, Everywhere, Has
  <2> QED BY <1>9, <2>1, <2>3
<1>14. CASE \/ Send(o) \/ Recv(o) \/ SendAsync(o) \/ RecvAsync(o)
            \/ WaitAll(o) \/ RingRotate(o) \/ TopKGate(o)
  BY <1>6, <1>14 DEF Send, Recv, SendAsync, RecvAsync, WaitAll, RingRotate, TopKGate,
                     Loud, Symmetric
<1> QED BY <1>11, <1>12, <1>13, <1>14

\* Every step keeps the invariant of the quiet runs.
LEMMA NextQuiet == QuietInv /\ [Next]_vars => QuietInv'
<1> SUFFICES ASSUME QuietInv, [Next]_vars PROVE QuietInv'
  OBVIOUS
<1>1. CASE UNCHANGED vars
  <2>1. AgreeInv'
    BY <1>1, NextAgree DEF QuietInv
  <2>2. /\ UNCHANGED <<mesh, setup, history, registered, tensors, phase, warned>>
        /\ Devices' = Devices
    BY <1>1 DEF vars, Devices
  <2>3. \A n : Everywhere(n) => Everywhere(n)'
    BY <2>2 DEF Everywhere, Has
  <2>4. (Consistent => Consistent') /\ (AsRegistered => AsRegistered')
    BY <2>2 DEF Consistent, AsRegistered
  <2>5. Quiet' => Quiet
    BY <2>2 DEF Quiet, RegisteredAlike, Loud, Symmetric
  <2>6. WrittenEverywhere => WrittenEverywhere'
    BY <2>2, <2>3 DEF WrittenEverywhere
  <2> QED BY <2>1, <2>2, <2>4, <2>5, <2>6 DEF QuietInv
<1> QED BY <1>1, RegisterQuiet, ControlQuiet, ExecuteQuiet DEF Next

\* A run without a warning and without silent operations: what the program
\* wrote is on every device, computed from the same inputs, on any mesh,
\* wherever the inputs were registered.
THEOREM QuietAgreement == Spec => []QuietRunsAgree
<1>1. QuietInv => QuietRunsAgree
  <2> SUFFICES ASSUME QuietInv, Quiet, phase \in {"run", "done"}, NEW n \in Written,
                      NEW d \in Devices
               PROVE  Has(d, n) /\ Alike(n, 0, d)
    BY DEF QuietRunsAgree, Quiet
  <2>1. Consistent /\ Everywhere(n)
    BY DEF QuietInv, Written, WrittenEverywhere
  <2>2. 0 \in Devices
    BY MeshHasDevices DEF QuietInv, AgreeInv, Devices
  <2>3. Has(d, n) /\ Has(0, n)
    BY <2>1, <2>2 DEF Everywhere
  <2>4. Like(tensors[0][n], tensors[d][n])
    BY <2>1, <2>2, <2>3 DEF Consistent, Has
  <2> QED BY <2>3, <2>4 DEF Like, LeavesOf, Alike, Has, Leaves
<1> QED BY <1>1, InitQuiet, NextQuiet, PTL DEF Spec

-----------------------------------------------------------------------------
(***************************************************************************)
(* Types: every tensor has a shape that its placements cut into whole      *)
(* parts, and a slice that is called exact is there.                       *)
(***************************************************************************)
IsTensor(t) == /\ t.shape \in [TensorDims -> Nat] /\ t.pl \in Placements
               /\ Divides(mesh, t.shape, t.pl)

AllTensors(f) == \A n \in DOMAIN f : IsTensor(f[n])

Typed == \A d \in Devices : AllTensors(tensors[d])

SlicesThere == /\ DOMAIN slices = Devices
               /\ \A p \in exact : p[1] \in Devices /\ p[2] \in DOMAIN slices[p[1]]

TypeInv ==
  /\ AgreeInv /\ Typed /\ SlicesThere
  /\ setup \in Setups /\ \A k \in DOMAIN setup : Divides(mesh, setup[k].shape, setup[k].pl)
  /\ registered \in 0 .. Len(setup) /\ left \in 0 .. MaxOps
  /\ phase \in {"setup", "run", "done", "raised"} /\ strict \in BOOLEAN /\ warned \in BOOLEAN
  /\ todo # << >> => phase = "run"

\* A store of a tensor among tensors.
LEMMA PutTyped ==
  ASSUME NEW f, NEW n, NEW t, AllTensors(f), IsTensor(t)
  PROVE  AllTensors(Put(f, n, t))
BY DEF AllTensors, Put

\* What is stored on some devices is a tensor.
LEMMA StoredTyped ==
  ASSUME Typed, NEW S, NEW n, NEW t, \A d \in S \cap Devices : IsTensor(t[d]),
         tensors' = Stored(S, n, t), mesh' = mesh
  PROVE  Typed'
<1>1. Devices' = Devices /\ \A u : IsTensor(u)' <=> IsTensor(u)
  BY DEF Devices, IsTensor
<1>2. ASSUME NEW d \in Devices PROVE AllTensors(tensors'[d])
  <2>1. CASE d \in S
    <3>1. tensors'[d] = Put(tensors[d], n, t[d])
      BY <2>1 DEF Stored
    <3>2. AllTensors(tensors[d]) /\ IsTensor(t[d])
      BY <2>1 DEF Typed
    <3> QED BY <3>1, <3>2, PutTyped
  <2>2. CASE d \notin S
    BY <2>2 DEF Stored, Typed
  <2> QED BY <2>1, <2>2
<1> QED BY <1>1, <1>2 DEF Typed, AllTensors

\* The slices that there were stay, and no other is called exact.
LEMMA SlicesKept ==
  ASSUME SlicesThere, mesh' = mesh, exact' \subseteq exact, slices' = slices
  PROVE  SlicesThere'
BY DEF SlicesThere, Devices

\* An operation that does not raise computes a tensor of tensors.
LEMMA InsTyped ==
  ASSUME Typed, NEW d \in Devices, NEW o, HasAll(d, o.ins), IsOp(o), ~ApplyRaises(o, Ins(d, o))
  PROVE  IsTensor(Result(o, Ins(d, o)))
<1> DEFINE ins == Ins(d, o)
<1>1. \A k \in DOMAIN o.ins : IsTensor(ins[k])
  BY DEF Typed, AllTensors, HasAll, Has, Ins
<1>2. DOMAIN ins = DOMAIN o.ins
  BY DEF Ins
<1> HIDE DEF ins
<1>3. Placed(ins) \in [DOMAIN o.ins -> Placements]
  BY <1>1, <1>2 DEF Placed, IsTensor
<1>4. Apply(o, Placed(ins)) \in Placements
  BY <1>3, ApplyType
<1>5. OutShape(o, ins) \in [TensorDims -> Nat]
  <2>1. ins[1].shape \in [TensorDims -> Nat]
    BY <1>1 DEF IsOp, IsTensor
  <2>2. CASE o.kind = "MatMul"
    <3>1. ins[2].shape \in [TensorDims -> Nat]
      BY <1>1, <2>2 DEF IsOp, IsTensor, BinaryKinds
    <3>2. OutShape(o, ins) = Rows(ins[1].shape[0], ins[2].shape[1])
      BY <2>2 DEF OutShape
    <3> QED BY <2>1, <3>1, <3>2 DEF Rows, TensorDims
  <2>3. CASE o.kind = "Transpose"
    <3>1. OutShape(o, ins) = Rows(ins[1].shape[1], ins[1].shape[0])
      BY <2>3 DEF OutShape
    <3> QED BY <2>1, <3>1 DEF Rows, TensorDims
  <2>4. CASE o.kind \notin {"MatMul", "Transpose"}
    BY <2>1, <2>4 DEF OutShape
  <2> QED BY <2>2, <2>3, <2>4
<1>6. Divides(mesh, OutShape(o, ins), Apply(o, Placed(ins)))
  BY DEF ApplyRaises, ShapeRaises, ins
<1>7. IsTensor(Result(o, ins))
  BY <1>4, <1>5, <1>6 DEF IsTensor, Result
<1> QED BY <1>7 DEF ins

\* An operation of the executor's own kinds is one of TensorOps.
LEMMA OwnOp ==
  ASSUME NEW o, WellFormed(o), o.kind \notin OtherKinds
  PROVE  IsOp(o)
BY DEF WellFormed, IsOp, Kinds, OtherKinds

\* Executing device by device stores tensors.
LEMMA PerDeviceTyped ==
  ASSUME Typed, SlicesThere, NEW o, WellFormed(o), PerDevice(o), NumDevices(mesh) \in Nat
  PROVE  Typed' /\ SlicesThere'
<1> DEFINE stops   == {d \in Devices : Stops(d, o)}
           reached == {d \in Devices : Before(d, stops)}
           S       == {d \in reached : ~Missing(d, o)}
           res     == [d \in S |-> Result(o, Ins(d, o))]
           right   == {d \in S : RuleIsRight(d, o, Ins(d, o))}
<1>1. /\ tensors' = Stored(S, o.out, res) /\ o.kind \notin OtherKinds /\ mesh' = mesh
      /\ exact' = (exact \ (S \X {o.out})) \cup (right \X {o.out})
      /\ slices' = [d \in Devices |->
                     IF d \in S /\ SliceKnown(d, o)
                     THEN Put(slices[d], o.out,
                              [at |-> OffsetsOf(d, o),
                               size |-> LocalShape(mesh, res[d].shape, res[d].pl)])
                     ELSE slices[d]]
  BY DEF PerDevice, Executes
<1>2. IsOp(o)
  BY <1>1, OwnOp
<1>3. \A d \in S : d \in Devices /\ ~Stops(d, o) /\ ~Missing(d, o)
  BY DEF Before, Devices
<1>4. ASSUME NEW d \in S PROVE IsTensor(res[d])
  <2>1. HasAll(d, o.ins) /\ ~ApplyRaises(o, Ins(d, o))
    BY <1>3 DEF Stops, Missing
  <2> QED BY <1>2, <1>3, <2>1, InsTyped
<1>5. ASSUME NEW d \in right PROVE SliceKnown(d, o)
  <2>1. d \in Devices /\ RuleIsRight(d, o, Ins(d, o))
    BY <1>3
  <2>2. o.kind \notin NoSliceKinds
    BY <2>1 DEF RuleIsRight
  <2>3. CASE o.kind \in ZeroOffset
    BY <2>2, <2>3 DEF SliceKnown, NoSliceKinds, ZeroOffset, InheritAny
  <2>4. CASE o.kind \notin ZeroOffset
    <3>1. \A k \in DOMAIN o.ins : <<d, o.ins[k]>> \in exact
      BY <2>1, <2>4 DEF RuleIsRight
    <3>2. \A k \in DOMAIN o.ins : o.ins[k] \in DOMAIN slices[d]
      BY <3>1 DEF SlicesThere
    <3>3. 1 \in SlicedIns(d, o) /\ (o.kind = "MatMul" => {1, 2} \subseteq SlicedIns(d, o))
      BY <1>2, <3>2 DEF SlicedIns, IsOp, BinaryKinds
    <3> QED BY <2>2, <2>4, <3>3 DEF SliceKnown, NoSliceKinds, ZeroOffset, InheritAny
  <2> QED BY <2>3, <2>4
<1> HIDE DEF S, res, right
<1>6. Typed'
  BY <1>1, <1>4, StoredTyped
<1>7. /\ DOMAIN slices' = Devices
      /\ \A d \in Devices : DOMAIN slices[d] \subseteq DOMAIN slices'[d]
      /\ \A d \in right : d \in Devices /\ o.out \in DOMAIN slices'[d]
  BY <1>1, <1>3, <1>5 DEF Put, right
<1>8. SlicesThere'
  BY <1>1, <1>7 DEF SlicesThere, Devices
<1> QED BY <1>6, <1>8

\* Wait stores tensors.
LEMMA WaitTyped ==
  ASSUME Typed, SlicesThere, NEW o, WellFormed(o), Wait(o), NumDevices(mesh) \in Nat
  PROVE  Typed' /\ SlicesThere'
<1> DEFINE S == {d \in Devices : Before(d, {e \in Devices : Missing(e, o)})}
           t == [d \in S |-> tensors[d][o.ins[1]]]
<1>1. /\ tensors' = Stored(S, o.out, t) /\ o.kind = "Wait" /\ mesh' = mesh
      /\ slices' = slices /\ exact' \subseteq exact
  BY DEF Wait, Executes, Unsliced
<1>2. \A d \in S : d \in Devices /\ ~Missing(d, o)
  BY DEF Before, Devices
<1>3. \A d \in S : IsTensor(t[d])
  BY <1>1, <1>2 DEF WellFormed, Missing, HasAll, Has, Typed, AllTensors
<1> HIDE DEF S, t
<1>4. Typed'
  BY <1>1, <1>3, StoredTyped
<1> QED BY <1>1, <1>4, SlicesKept

\* WaitAll stores tensors, handle by handle.
LEMMA WaitAllTyped ==
  ASSUME Typed, SlicesThere, NEW o, WellFormed(o), WaitAll(o)
  PROVE  Typed' /\ SlicesThere'
<1>1. /\ tensors' = [d \in Devices |-> WaitedFor(d, o)] /\ mesh' = mesh
      /\ slices' = slices /\ exact' \subseteq exact
  BY DEF WaitAll, Executes
<1>2. Len(o.outs) \in Nat
  BY DEF WaitAll, WellFormed
<1>3. ASSUME NEW d \in Devices PROVE AllTensors(WaitedFor(d, o))
  <2> DEFINE n == Len(o.outs)
  <2>1. PICK f : WaitSteps(d, o, n, f) /\ WaitedFor(d, o) = f[n]
    BY <1>2, WaitedForIs
  <2> DEFINE T == {k \in Nat : k <= n => AllTensors(f[k])}
  <2>2. 0 \in T
    <3>1. f[0] = tensors[d]
      BY <1>2, <2>1 DEF WaitSteps
    <3> QED BY <3>1 DEF Typed
  <2>3. ASSUME NEW k \in Nat, k \in T PROVE k + 1 \in T
    <3> SUFFICES ASSUME k + 1 <= n PROVE AllTensors(f[k + 1])
      OBVIOUS
    <3>1. k + 1 \in 0 .. n /\ k + 1 # 0 /\ (k + 1) - 1 = k
      BY <1>2
    <3>2. f[k + 1] = Waiting(f[k], o, k + 1)
      BY <2>1, <3>1 DEF WaitSteps
    <3>3. AllTensors(f[k])
      BY <1>2, <2>3
    <3>4. CASE o.ins[k + 1] \in DOMAIN f[k]
      <4>1. f[k + 1] = Put(f[k], o.outs[k + 1], f[k][o.ins[k + 1]])
        BY <3>2, <3>4 DEF Waiting
      <4>2. IsTensor(f[k][o.ins[k + 1]])
        BY <3>3, <3>4 DEF AllTensors
      <4> QED BY <3>3, <4>1, <4>2, PutTyped
    <3>5. CASE o.ins[k + 1] \notin DOMAIN f[k]
      BY <3>2, <3>3, <3>5 DEF Waiting
    <3> QED BY <3>4, <3>5
  <2> HIDE DEF T
  <2>4. Nat \subseteq T
    BY <2>2, <2>3, Induction
  <2>5. n \in T
    BY <1>2, <2>4
  <2> QED BY <1>2, <2>1, <2>5 DEF T
<1>4. Typed'
  BY <1>1, <1>3 DEF Typed, Devices, AllTensors, IsTensor
<1> QED BY <1>1, <1>4, SlicesKept

\* A rotation stores tensors.
LEMMA RingRotateTyped ==
  ASSUME Typed, SlicesThere, NEW o, RingRotate(o)
  PROVE  Typed' /\ SlicesThere'
<1> DEFINE S == {d \in Devices : Previous(d, o.ring_size) \in Devices
                                /\ Has(Previous(d, o.ring_size), o.ins[1])}
<1>1. /\ tensors' = Stored(DOMAIN Rotated(o), o.out, Rotated(o)) /\ mesh' = mesh
      /\ slices' = slices /\ exact' \subseteq exact
  BY DEF RingRotate, Executes, Unsliced
<1>2. Rotated(o) = [d \in S |-> tensors[Previous(d, o.ring_size)][o.ins[1]]]
  BY DEF Rotated
<1>3. \A d \in S : IsTensor(Rotated(o)[d])
  BY <1>2 DEF Has, Typed, AllTensors
<1>4. DOMAIN Rotated(o) = S
  BY <1>2
<1> HIDE DEF S
<1>5. Typed'
  BY <1>1, <1>3, <1>4, StoredTyped
<1> QED BY <1>1, <1>5, SlicesKept

\* The gate stores two tensors.
LEMMA TopKGateTyped ==
  ASSUME Typed, SlicesThere, NEW o, WellFormed(o), TopKGate(o), NumDevices(mesh) \in Nat
  PROVE  Typed' /\ SlicesThere'
<1> DEFINE Indices(d) == Rows(tensors[d][o.ins[1]].shape[0], o.top_k)
           there == {d \in Devices : ~Missing(d, o)}
           stops == {d \in there : ~Divides(mesh, Indices(d), tensors[d][o.ins[1]].pl)}
           S     == {d \in there : Before(d, stops)}
           x(d)  == tensors[d][o.ins[1]]
           i(d)  == [shape |-> Indices(d), pl |-> x(d).pl, from |-> x(d).from]
<1>1. /\ tensors' = [d \in Devices |->
           IF d \in S THEN Put(Put(tensors[d], o.indices_output, i(d)), o.out, x(d))
           ELSE tensors[d]]
      /\ mesh' = mesh /\ slices' = slices /\ exact' \subseteq exact /\ o.kind = "TopKGate"
  BY DEF TopKGate, Executes
<1>2. \A d \in S : d \in Devices /\ ~Missing(d, o) /\ d \notin stops /\ d \in there
  BY DEF Before, Devices
<1>3. ASSUME NEW d \in S PROVE IsTensor(x(d)) /\ IsTensor(i(d))
  <2>1. IsTensor(x(d))
    BY <1>1, <1>2 DEF WellFormed, Missing, HasAll, Has, Typed, AllTensors
  <2>2. Indices(d) \in [TensorDims -> Nat]
    BY <1>1, <2>1 DEF IsTensor, Rows, TensorDims, WellFormed
  <2>3. Divides(mesh, Indices(d), x(d).pl)
    BY <1>2
  <2> QED BY <2>1, <2>2, <2>3 DEF IsTensor
<1> HIDE DEF S, x, i
<1>4. ASSUME NEW d \in Devices PROVE AllTensors(tensors'[d])
  <2>1. AllTensors(tensors[d])
    BY DEF Typed
  <2>2. CASE d \in S
    <3>1. tensors'[d] = Put(Put(tensors[d], o.indices_output, i(d)), o.out, x(d))
      BY <1>1, <2>2
    <3>2. AllTensors(Put(tensors[d], o.indices_output, i(d)))
      BY <1>3, <2>1, <2>2, PutTyped
    <3>3. AllTensors(Put(Put(tensors[d], o.indices_output, i(d)), o.out, x(d)))
      BY <1>3, <2>2, <3>2, PutTyped
    <3> QED BY <3>1, <3>3
  <2>3. CASE d \notin S
    BY <1>1, <2>1, <2>3
  <2> QED BY <2>2, <2>3
<1>5. Typed'
  BY <1>1, <1>4 DEF Typed, Devices, AllTensors, IsTensor
<1> QED BY <1>1, <1>5, SlicesKept

\* A send, a receive: a tensor that is there is copied.
LEMMA MessageTyped ==
  ASSUME Typed, SlicesThere, NEW o, mesh' = mesh,
         Send(o) \/ Recv(o) \/ SendAsync(o) \/ RecvAsync(o)
  PROVE  Typed' /\ SlicesThere'
<1>1. ASSUME UNCHANGED <<tensors, slices, exact>> PROVE Typed' /\ SlicesThere'
  BY <1>1 DEF Typed, AllTensors, IsTensor, SlicesThere, Devices
<1>2. ASSUME NEW dst, NEW t, Moved(o, t, dst), IsTensor(t) PROVE Typed' /\ SlicesThere'
  <2>1. tensors' = Stored({dst}, o.out, [d \in {dst} |-> t])
    BY <1>2 DEF Moved
  <2>2. Typed'
    BY <1>2, <2>1, StoredTyped
  <2>3. slices' = slices /\ exact' \subseteq exact
    BY <1>2 DEF Moved, Unsliced
  <2> QED BY <2>2, <2>3, SlicesKept
<1>3. \A d \in Devices : Has(d, o.ins[1]) => IsTensor(tensors[d][o.ins[1]])
  BY DEF Typed, AllTensors, Has
<1>4. \/ UNCHANGED <<tensors, slices, exact>>
      \/ \E dst : \E d \in Devices : Has(d, o.ins[1]) /\ Moved(o, tensors[d][o.ins[1]], dst)
      \/ \E dst : \E d \in Devices :
           /\ Has(d, o.ins[1])
           /\ Moved(o, [shape |-> tensors[d][o.ins[1]].shape,
                        pl |-> tensors[d][o.ins[1]].pl, from |-> {}], dst)
  BY DEF Send, Recv, SendAsync, RecvAsync, Raised, Ignored, RaisedIfStrict
<1>5. \A t : IsTensor(t) => IsTensor([shape |-> t.shape, pl |-> t.pl, from |-> {}])
  BY DEF IsTensor
<1> QED BY <1>1, <1>2, <1>3, <1>4, <1>5

\* Every operation keeps tensors, books and queues in shape.
LEMMA ExecuteTyped == TypeInv /\ ExecuteOp => TypeInv'
<1> SUFFICES ASSUME TypeInv, NEW o \in Current,
                    \/ PerDevice(o) \/ Send(o) \/ Recv(o) \/ SendAsync(o) \/ RecvAsync(o)
                    \/ Wait(o) \/ WaitAll(o) \/ RingRotate(o) \/ TopKGate(o)
                    \/ RingAttention(o) \/ OverlapRegion(o)
             PROVE  TypeInv'
  BY DEF ExecuteOp
<1>1. AgreeInv'
  <2>1. ExecuteOp
    BY DEF ExecuteOp
  <2> QED BY <2>1, ExecuteAgree DEF TypeInv
<1>2. /\ phase = "run" /\ (phase' = "raised" => todo' = << >>)
      /\ left' = IF todo = << >> THEN left - 1 ELSE left
      /\ UNCHANGED <<mesh, strict, setup, registered>>
  BY DEF PerDevice, Send, Recv, SendAsync, RecvAsync, Wait, WaitAll, RingRotate, TopKGate,
         RingAttention, OverlapRegion, Executes
<1>3. phase' \in {phase, "raised"}
  BY DEF PerDevice, Send, Recv, SendAsync, RecvAsync, Wait, WaitAll, RingRotate, TopKGate,
         RingAttention, OverlapRegion, Moved, Raised, Ignored, RaisedIfStrict
<1>4. warned' \in BOOLEAN
  BY DEF PerDevice, Send, Recv, SendAsync, RecvAsync, Wait, WaitAll, RingRotate, TopKGate,
         RingAttention, OverlapRegion, Moved, Raised, Ignored, RaisedIfStrict, TypeInv
<1>5. left' \in 0 .. MaxOps
  BY <1>2, MaxOpsAssumption DEF Current, TypeInv
<1>6. WellFormed(o) /\ NumDevices(mesh) \in Nat
  <2>1. o \in Ops
    BY DEF Current, Ops, TypeInv, AgreeInv
  <2> QED BY <2>1, OpsWellFormed, MeshHasDevices DEF TypeInv, AgreeInv
<1>7. Typed' /\ SlicesThere'
  <2>1. CASE RingAttention(o) \/ OverlapRegion(o)
    BY <1>2, <2>1 DEF RingAttention, OverlapRegion, Ignored, TypeInv, Typed, AllTensors, IsTensor,
                      SlicesThere, Devices
  <2> QED BY <1>2, <1>6, <2>1, PerDeviceTyped, MessageTyped, WaitTyped, WaitAllTyped,
             RingRotateTyped, TopKGateTyped DEF TypeInv
<1> QED BY <1>1, <1>2, <1>3, <1>4, <1>5, <1>7 DEF TypeInv

\* So does a registration: setups are registered on devices of the mesh.
LEMMA RegisterTyped == TypeInv /\ Register => TypeInv'
<1> SUFFICES ASSUME TypeInv, Register PROVE TypeInv'
  OBVIOUS
<1> DEFINE r == setup[registered + 1]
           S == IF r.device_ids = {} THEN Devices ELSE r.device_ids
           placed == S \cap Devices \cap Range(mesh.device_ids)
           t == [d \in S |-> [shape |-> r.shape, pl |-> r.pl, from |-> {<<r.name, d>>}]]
<1>1. /\ phase = "setup" /\ registered < Len(setup) /\ registered' = registered + 1
      /\ UNCHANGED <<mesh, strict, setup, left, phase, todo, warned>>
      /\ tensors' = Stored(S, r.name, t)
      /\ exact' = (exact \ (S \X {r.name}))
                    \cup (IF SinglySharded(r.pl) THEN placed \X {r.name} ELSE {})
      /\ slices' = [d \in Devices |->
                     IF d \in placed
                     THEN Put(slices[d], r.name, [at |-> Offsets(mesh, r.shape, r.pl, d),
                                                  size |-> LocalShape(mesh, r.shape, r.pl)])
                     ELSE slices[d]]
  BY DEF Register
<1>2. AgreeInv'
  BY RegisterAgree DEF TypeInv
<1>3. Len(setup) \in Nat /\ DOMAIN setup = 1 .. Len(setup) /\ registered + 1 \in DOMAIN setup
  BY <1>1, SetupsAssumption DEF TypeInv
<1>4. \A d \in S : IsTensor(t[d])
  BY <1>3, SetupsAssumption DEF TypeInv, IsTensor
<1> HIDE DEF S, t, placed, r
<1>5. Typed'
  BY <1>1, <1>4, StoredTyped DEF TypeInv
<1>6. /\ DOMAIN slices' = Devices
      /\ \A d \in Devices : DOMAIN slices[d] \subseteq DOMAIN slices'[d]
      /\ \A d \in placed : d \in Devices /\ r.name \in DOMAIN slices'[d]
  BY <1>1 DEF Put, placed
<1>7. SlicesThere'
  BY <1>1, <1>6 DEF SlicesThere, Devices, TypeInv
<1>8. registered' \in 0 .. Len(setup')
  BY <1>1, <1>3 DEF TypeInv
<1> QED BY <1>1, <1>2, <1>5, <1>7, <1>8 DEF TypeInv

\* So do the start and the end of a run and a reset.
LEMMA ControlTyped ==
  ASSUME TypeInv, RunProgram \/ EndProgram \/ ResetDevices \/ UNCHANGED vars
  PROVE  TypeInv'
<1>1. AgreeInv'
  BY ControlAgree, NextAgree DEF TypeInv
<1>2. CASE RunProgram \/ EndProgram \/ UNCHANGED vars
  <2>1. /\ UNCHANGED <<mesh, strict, setup, registered, tensors, slices, exact, todo, left, warned>>
        /\ phase' \in {phase, "run", "done"} /\ (todo # << >> => phase' = "run")
    BY <1>2 DEF RunProgram, EndProgram, vars, TypeInv
  <2>2. Typed' /\ SlicesThere'
    BY <2>1 DEF Typed, AllTensors, IsTensor, SlicesThere, Devices, TypeInv
  <2> QED BY <1>1, <2>1, <2>2 DEF TypeInv
<1>3. CASE ResetDevices
  <2>1. /\ phase = "done" /\ UNCHANGED <<mesh, strict, slices, exact, todo, left>>
        /\ tensors' = [d \in Devices |-> << >>] /\ registered' = 0
        /\ phase' = "setup" /\ warned' = FALSE
    BY <1>3 DEF ResetDevices
  <2>2. setup' \in Setups /\ \A k \in DOMAIN setup' : Divides(mesh, setup'[k].shape, setup'[k].pl)
    BY <1>3 DEF ResetDevices
  <2>3. \A d \in Devices : DOMAIN tensors'[d] = {}
    BY <2>1
  <2>4. Typed' /\ SlicesThere'
    BY <2>1, <2>3 DEF Typed, AllTensors, SlicesThere, Devices, TypeInv
  <2>5. Len(setup') \in Nat
    BY <2>2, SetupsAssumption
  <2>6. registered' \in 0 .. Len(setup')
    BY <2>1, <2>5
  <2>7. \A k \in DOMAIN setup' : Divides(mesh', setup'[k].shape, setup'[k].pl)
    BY <2>1, <2>2
  <2>8. todo' = << >>
    BY <2>1 DEF TypeInv
  <2> QED BY <1>1, <2>1, <2>2, <2>4, <2>6, <2>7, <2>8 DEF TypeInv
<1> QED BY <1>2, <1>3

\* At first there are no tensors.
LEMMA InitTyped == Init => TypeInv
<1> SUFFICES ASSUME Init PROVE TypeInv
  OBVIOUS
<1>1. \A d \in Devices : DOMAIN tensors[d] = {}
  BY DEF Init
<1>2. Typed /\ SlicesThere
  BY <1>1 DEF Init, Typed, AllTensors, SlicesThere
<1>3. setup \in Setups /\ \A k \in DOMAIN setup : Divides(mesh, setup[k].shape, setup[k].pl)
  BY DEF Init
<1>4. Len(setup) \in Nat
  BY <1>3, SetupsAssumption
<1>5. registered \in 0 .. Len(setup) /\ left \in 0 .. MaxOps
  BY <1>4, MaxOpsAssumption DEF Init
<1>6. AgreeInv
  BY InitAgree
<1>7. phase = "setup" /\ strict \in BOOLEAN /\ warned = FALSE /\ todo = << >>
  BY DEF Init
<1> QED BY <1>2, <1>3, <1>5, <1>6, <1>7 DEF TypeInv

\* Every tensor has a shape that its placements cut into whole parts, on any
\* mesh, for any inputs and any program.
THEOREM TypeCorrect == Spec => []ExecutorTypeOK
<1>1. TypeInv => ExecutorTypeOK
  BY DEF TypeInv, Typed, AllTensors, IsTensor, SlicesThere, ExecutorTypeOK
<1>2. TypeInv /\ [Next]_vars => TypeInv'
  BY RegisterTyped, ControlTyped, ExecuteTyped DEF Next
<1> QED BY <1>1, <1>2, InitTyped, PTL DEF Spec

-----------------------------------------------------------------------------
(***************************************************************************)
(* Ring attention.  The operations it is expanded to, by their places.     *)
(***************************************************************************)
StepOp(o, r) == Op("FlashAttention", <<o.ins[1], RotatedName(o.ins[2], "k_rot", r),
                                       RotatedName(o.ins[3], "v_rot", r)>>, StepName(o, r))
SumOp(o, r)  == Op("Add", <<SumName(o, r - 1), StepName(o, r)>>, SumName(o, r))
KOp(o, r) == Rotation(PassedOn(o.ins[2], "k_rot", r), <<"k_rot", r + 1>>, o.ring_size)
VOp(o, r) == Rotation(PassedOn(o.ins[3], "v_rot", r), <<"v_rot", r + 1>>, o.ring_size)
LastOp(o) == Op("AllReduce", <<SumName(o, o.ring_size - 1)>>, o.out)

Round(o, r) == <<StepOp(o, r)>> \o (IF r = 0 THEN << >> ELSE <<SumOp(o, r)>>)
                 \o (IF r = o.ring_size - 1 THEN << >> ELSE <<KOp(o, r), VOp(o, r)>>)

\* The rounds 0 .. m - 1 of a ring attention, one after the other.
Rounds(o, e, m) ==
  /\ e \in Seq(RingOps(o))
  /\ Len(e) = IF m = o.ring_size THEN 4 * m - 3 ELSE 4 * m - 1
  /\ e[1] = StepOp(o, 0)
  /\ \A r \in 1 .. (m - 1) : e[4 * r] = StepOp(o, r) /\ e[4 * r + 1] = SumOp(o, r)
  /\ \A r \in 0 .. (m - 1) : r # o.ring_size - 1 =>
       e[4 * r + 2] = KOp(o, r) /\ e[4 * r + 3] = VOp(o, r)

\* Two sequences, one after the other, element by element.
LEMMA Joined ==
  ASSUME NEW S, NEW a \in Seq(S), NEW b \in Seq(S)
  PROVE  /\ a \o b \in Seq(S) /\ Len(a \o b) = Len(a) + Len(b)
         /\ Len(a) \in Nat /\ Len(b) \in Nat
         /\ \A i \in 1 .. Len(a) : (a \o b)[i] = a[i]
         /\ \A i \in 1 .. Len(b) : (a \o b)[Len(a) + i] = b[i]
OBVIOUS

\* A round of ring attention: its length and its operations.
LEMMA RoundIn ==
  ASSUME NEW o, NEW r \in Nat
  PROVE  /\ Round(o, r) \in Seq(RingOps(o))
         /\ Len(Round(o, r)) = (IF r = 0 THEN 1 ELSE 2) + (IF r = o.ring_size - 1 THEN 0 ELSE 2)
         /\ Round(o, r)[1] = StepOp(o, r)
         /\ r # 0 => Round(o, r)[2] = SumOp(o, r)
         /\ r # o.ring_size - 1 =>
              /\ Round(o, r)[Len(Round(o, r)) - 1] = KOp(o, r)
              /\ Round(o, r)[Len(Round(o, r))] = VOp(o, r)
<1> DEFINE S == RingOps(o)
           A == StepOp(o, r)
           B == SumOp(o, r)
           C == KOp(o, r)
           D == VOp(o, r)
<1>1. A \in S /\ B \in S /\ C \in S /\ D \in S
  BY DEF RingOps, StepOp, SumOp, KOp, VOp
<1>2. Round(o, r) = <<A>> \o (IF r = 0 THEN << >> ELSE <<B>>)
                     \o (IF r = o.ring_size - 1 THEN << >> ELSE <<C, D>>)
  BY DEF Round
<1> HIDE DEF A, B, C, D, S
<1> DEFINE b == IF r = 0 THEN << >> ELSE <<B>>
           c == IF r = o.ring_size - 1 THEN << >> ELSE <<C, D>>
<1>3. /\ <<A>> \in Seq(S) /\ Len(<<A>>) = 1 /\ <<A>>[1] = A
      /\ b \in Seq(S) /\ Len(b) = (IF r = 0 THEN 0 ELSE 1) /\ (r # 0 => b[1] = B)
      /\ c \in Seq(S) /\ Len(c) = (IF r = o.ring_size - 1 THEN 0 ELSE 2)
      /\ r # o.ring_size - 1 => c[1] = C /\ c[2] = D
  BY <1>1
<1>4. Round(o, r) = (<<A>> \o b) \o c
  BY <1>2
<1> HIDE DEF b, c
<1> DEFINE a  == <<A>>
           ab == a \o b
<1> HIDE DEF a
<1>5. a = <<A>>
  BY DEF a
<1>6. /\ ab \in Seq(S) /\ Len(ab) = 1 + Len(b)
      /\ ab[1] = A /\ (r # 0 => ab[2] = B)
  <2>1. a \in Seq(S) /\ b \in Seq(S) /\ Len(a) = 1 /\ a[1] = A
    BY <1>3, <1>5
  <2>2. /\ a \o b \in Seq(S) /\ Len(a \o b) = Len(a) + Len(b)
        /\ \A i \in 1 .. Len(a) : (a \o b)[i] = a[i]
        /\ \A i \in 1 .. Len(b) : (a \o b)[Len(a) + i] = b[i]
    BY <2>1, Joined
  <2> QED BY <1>3, <2>1, <2>2
<1> HIDE DEF ab
<1>8. /\ ab \o c \in Seq(S) /\ Len(ab \o c) = Len(ab) + Len(c)
      /\ (ab \o c)[1] = A /\ (r # 0 => (ab \o c)[2] = B)
      /\ r # o.ring_size - 1 => /\ (ab \o c)[Len(ab) + 1] = C
                                 /\ (ab \o c)[Len(ab) + 2] = D
  <2>1. /\ ab \o c \in Seq(S) /\ Len(ab \o c) = Len(ab) + Len(c)
        /\ \A i \in 1 .. Len(ab) : (ab \o c)[i] = ab[i]
        /\ \A i \in 1 .. Len(c) : (ab \o c)[Len(ab) + i] = c[i]
    BY <1>3, <1>6, Joined
  <2> QED BY <1>3, <1>6, <2>1
<1>9. Round(o, r) = ab \o c /\ Len(ab) = IF r = 0 THEN 1 ELSE 2
  BY <1>3, <1>4, <1>5, <1>6 DEF ab
<1> QED BY <1>3, <1>8, <1>9 DEF A, B, C, D, S

\* One more round after the first m.
LEMMA RoundsNext ==
  ASSUME NEW o, o.ring_size \in Nat \ {0}, NEW m \in Nat \ {0}, m < o.ring_size,
         NEW e, Rounds(o, e, m)
  PROVE  Rounds(o, e \o Round(o, m), m + 1)
<1> DEFINE n == o.ring_size
           c == Round(o, m)
           g == e \o c
<1>1. /\ c \in Seq(RingOps(o)) /\ Len(c) = (IF m = n - 1 THEN 2 ELSE 4)
      /\ c[1] = StepOp(o, m) /\ c[2] = SumOp(o, m)
      /\ m # n - 1 => c[3] = KOp(o, m) /\ c[4] = VOp(o, m)
  <2>1. /\ c \in Seq(RingOps(o))
        /\ Len(c) = (IF m = 0 THEN 1 ELSE 2) + (IF m = n - 1 THEN 0 ELSE 2)
        /\ c[1] = StepOp(o, m)
        /\ m # 0 => c[2] = SumOp(o, m)
        /\ m # n - 1 => c[Len(c) - 1] = KOp(o, m) /\ c[Len(c)] = VOp(o, m)
    BY RoundIn
  <2> HIDE DEF c
  <2>2. m # n - 1 => Len(c) = 4
    BY <2>1
  <2> QED BY <2>1, <2>2
<1> HIDE DEF c
<1>2. e \in Seq(RingOps(o)) /\ Len(e) = 4 * m - 1
  BY DEF Rounds
<1>3. /\ g \in Seq(RingOps(o)) /\ Len(g) = Len(e) + Len(c)
      /\ \A i \in 1 .. Len(e) : g[i] = e[i]
      /\ \A i \in 1 .. Len(c) : g[Len(e) + i] = c[i]
  <2> DEFINE S == RingOps(o)
  <2>1. e \in Seq(S) /\ c \in Seq(S)
    BY <1>1, <1>2
  <2> HIDE DEF S
  <2>2. /\ e \o c \in Seq(S) /\ Len(e \o c) = Len(e) + Len(c)
        /\ \A i \in 1 .. Len(e) : (e \o c)[i] = e[i]
        /\ \A i \in 1 .. Len(c) : (e \o c)[Len(e) + i] = c[i]
    BY <2>1, Joined
  <2> QED BY <2>2 DEF S
<1> HIDE DEF g
<1>4. Len(g) = IF m + 1 = n THEN 4 * (m + 1) - 3 ELSE 4 * (m + 1) - 1
  <2>1. Len(g) = (4 * m - 1) + (IF m = n - 1 THEN 2 ELSE 4) /\ n \in Nat
    BY <1>1, <1>2, <1>3
  <2> HIDE DEF n
  <2> QED BY <2>1
<1>5. g[1] = StepOp(o, 0)
  BY <1>2, <1>3 DEF Rounds
<1>6. ASSUME NEW r \in 1 .. m
      PROVE  g[4 * r] = StepOp(o, r) /\ g[4 * r + 1] = SumOp(o, r)
  <2>1. CASE r = m
    <3>1. 4 * r = Len(e) + 1 /\ 4 * r + 1 = Len(e) + 2
      BY <1>2, <2>1
    <3>2. 1 \in 1 .. Len(c) /\ 2 \in 1 .. Len(c)
      BY <1>1
    <3> QED BY <1>1, <1>3, <2>1, <3>1, <3>2
  <2>2. CASE r # m
    <3>1. r \in 1 .. (m - 1) /\ 4 * r \in 1 .. Len(e) /\ 4 * r + 1 \in 1 .. Len(e)
      BY <1>2, <2>2
    <3>2. e[4 * r] = StepOp(o, r) /\ e[4 * r + 1] = SumOp(o, r)
      BY <3>1 DEF Rounds
    <3> QED BY <1>3, <3>1, <3>2
  <2> QED BY <2>1, <2>2
<1>7. ASSUME NEW r \in 0 .. m, r # n - 1
      PROVE  g[4 * r + 2] = KOp(o, r) /\ g[4 * r + 3] = VOp(o, r)
  <2>1. CASE r = m
    <3>1. 4 * r + 2 = Len(e) + 3 /\ 4 * r + 3 = Len(e) + 4
      BY <1>2, <2>1
    <3>2. 3 \in 1 .. Len(c) /\ 4 \in 1 .. Len(c)
      BY <1>1, <1>7, <2>1
    <3> QED BY <1>1, <1>3, <1>7, <2>1, <3>1, <3>2
  <2>2. CASE r # m
    <3>1. r \in 0 .. (m - 1) /\ 4 * r + 2 \in 1 .. Len(e) /\ 4 * r + 3 \in 1 .. Len(e)
      BY <1>2, <2>2
    <3>2. e[4 * r + 2] = KOp(o, r) /\ e[4 * r + 3] = VOp(o, r)
      BY <1>7, <3>1 DEF Rounds
    <3> QED BY <1>3, <3>1, <3>2
  <2> QED BY <2>1, <2>2
<1>8. (m + 1) - 1 = m
  OBVIOUS
<1>9. Rounds(o, g, m + 1)
  BY <1>3, <1>4, <1>5, <1>6, <1>7, <1>8 DEF Rounds
<1> QED BY <1>9 DEF g, c

\* All operations of the expansion, by their places.
LEMMA ExpansionAt ==
  ASSUME NEW o, o.ring_size \in Nat \ {0}
  PROVE  /\ Expansion(o) \in Seq(RingOps(o)) /\ Len(Expansion(o)) = 4 * o.ring_size - 2
         /\ Expansion(o)[1] = StepOp(o, 0)
         /\ \A r \in 1 .. (o.ring_size - 1) :
              Expansion(o)[4 * r] = StepOp(o, r) /\ Expansion(o)[4 * r + 1] = SumOp(o, r)
         /\ \A r \in 0 .. (o.ring_size - 2) :
              Expansion(o)[4 * r + 2] = KOp(o, r) /\ Expansion(o)[4 * r + 3] = VOp(o, r)
         /\ Expansion(o)[4 * o.ring_size - 2] = LastOp(o)
<1> DEFINE n == o.ring_size
           seqs == [i \in 1 .. n |-> Round(o, i - 1)]
           f == CHOOSE f : FlattenSteps(seqs, n, f)
           E == Expansion(o)
<1>1. E = FlattenSeq(seqs) \o <<LastOp(o)>>
  BY DEF Expansion, Round, StepOp, SumOp, KOp, VOp, LastOp, StepName, SumName
<1>2. Len(seqs) = n /\ \A i \in 1 .. n : seqs[i] = Round(o, i - 1)
  <2>1. n \in Nat /\ \A i \in 1 .. n : Round(o, i - 1) \in Seq(RingOps(o))
    BY RoundIn
  <2> HIDE DEF n
  <2> QED BY <2>1
<1>3. FlattenSteps(seqs, n, f)
  BY FlattenStepsExist
<1>4. FlattenSeq(seqs) = f[n]
  BY <1>2 DEF FlattenSeq, FlattenSteps
<1> HIDE DEF f, seqs
<1> DEFINE T == {m \in Nat : m + 1 <= n => Rounds(o, f[m + 1], m + 1)}
<1>5. 0 \in T
  <2>1. f[1] = Round(o, 0)
    BY <1>2, <1>3 DEF FlattenSteps
  <2>2. /\ Round(o, 0) \in Seq(RingOps(o))
        /\ Len(Round(o, 0)) = (IF 0 = 0 THEN 1 ELSE 2) + (IF 0 = n - 1 THEN 0 ELSE 2)
        /\ Round(o, 0)[1] = StepOp(o, 0)
        /\ 0 # n - 1 => /\ Round(o, 0)[Len(Round(o, 0)) - 1] = KOp(o, 0)
                        /\ Round(o, 0)[Len(Round(o, 0))] = VOp(o, 0)
    BY RoundIn
  <2>3. 0 # n - 1 => Len(Round(o, 0)) = 3 /\ Len(Round(o, 0)) - 1 = 2
    BY <2>2
  <2>4. 0 # n - 1 => Round(o, 0)[2] = KOp(o, 0) /\ Round(o, 0)[3] = VOp(o, 0)
    BY <2>2, <2>3, Zenon
  <2>5. Len(Round(o, 0)) = IF 1 = n THEN 4 * 1 - 3 ELSE 4 * 1 - 1
    BY <2>2
  <2>6. \A r \in 0 .. (1 - 1) : r = 0
    OBVIOUS
  <2>7. \A r \in 1 .. (1 - 1) : FALSE
    OBVIOUS
  <2>8. Rounds(o, Round(o, 0), 1)
    BY <2>2, <2>4, <2>5, <2>6, <2>7 DEF Rounds
  <2> QED BY <2>1, <2>8
<1>6. ASSUME NEW m \in Nat, m \in T PROVE m + 1 \in T
  <2> SUFFICES ASSUME m + 2 <= n PROVE Rounds(o, f[m + 2], m + 2)
    OBVIOUS
  <2>1. m + 2 \in 1 .. n /\ m + 2 # 1 /\ (m + 2) - 1 = m + 1
    OBVIOUS
  <2>2. f[m + 2] = f[m + 1] \o seqs[m + 2]
    BY <1>3, <2>1 DEF FlattenSteps
  <2>3. seqs[m + 2] = Round(o, m + 1)
    BY <1>2, <2>1
  <2>4. Rounds(o, f[m + 1], m + 1) /\ m + 1 \in Nat \ {0} /\ m + 1 < n
    BY <1>6
  <2>5. Rounds(o, f[m + 1] \o Round(o, m + 1), (m + 1) + 1)
    BY <2>4, RoundsNext
  <2>6. (m + 1) + 1 = m + 2
    OBVIOUS
  <2> QED BY <2>2, <2>3, <2>5, <2>6
<1> HIDE DEF T
<1>7. Nat \subseteq T
  BY <1>5, <1>6, Induction
<1>8. n - 1 \in T /\ (n - 1) + 1 = n
  BY <1>7
<1>9. Rounds(o, f[n], n)
  BY <1>8 DEF T
<1> DEFINE e == f[n]
           z == <<LastOp(o)>>
<1>10. e \in Seq(RingOps(o)) /\ Len(e) = 4 * n - 3
  BY <1>9 DEF Rounds
<1>11. z \in Seq(RingOps(o)) /\ Len(z) = 1 /\ z[1] = LastOp(o)
  <2>1. LastOp(o) \in RingOps(o)
    BY DEF RingOps, LastOp
  <2> QED BY <2>1
<1>12. E = e \o z
  BY <1>1, <1>4
<1> HIDE DEF e, z, E
<1>13. /\ E \in Seq(RingOps(o)) /\ Len(E) = Len(e) + Len(z)
       /\ \A i \in 1 .. Len(e) : E[i] = e[i]
       /\ \A i \in 1 .. Len(z) : E[Len(e) + i] = z[i]
  <2> DEFINE S == RingOps(o)
  <2>1. e \in Seq(S) /\ z \in Seq(S)
    BY <1>10, <1>11
  <2> HIDE DEF S
  <2>2. /\ e \o z \in Seq(S) /\ Len(e \o z) = Len(e) + Len(z)
        /\ \A i \in 1 .. Len(e) : (e \o z)[i] = e[i]
        /\ \A i \in 1 .. Len(z) : (e \o z)[Len(e) + i] = z[i]
    BY <2>1, Joined
  <2> QED BY <1>12, <2>2 DEF S
<1>14. Rounds(o, e, n)
  BY <1>9 DEF e
<1>15. ASSUME NEW r \in 1 .. (n - 1)
       PROVE  E[4 * r] = StepOp(o, r) /\ E[4 * r + 1] = SumOp(o, r)
  <2>1. 4 * r \in 1 .. Len(e) /\ 4 * r + 1 \in 1 .. Len(e)
    BY <1>10
  <2>2. e[4 * r] = StepOp(o, r) /\ e[4 * r + 1] = SumOp(o, r)
    BY <1>14 DEF Rounds
  <2> QED BY <1>13, <2>1, <2>2
<1>16. ASSUME NEW r \in 0 .. (n - 2)
       PROVE  E[4 * r + 2] = KOp(o, r) /\ E[4 * r + 3] = VOp(o, r)
  <2>1. /\ 4 * r + 2 \in 1 .. Len(e) /\ 4 * r + 3 \in 1 .. Len(e)
        /\ r \in 0 .. (n - 1) /\ r # n - 1
    BY <1>10
  <2>2. e[4 * r + 2] = KOp(o, r) /\ e[4 * r + 3] = VOp(o, r)
    BY <1>14, <2>1 DEF Rounds
  <2> QED BY <1>13, <2>1, <2>2
<1>17. E[1] = StepOp(o, 0)
  <2>1. 1 \in 1 .. Len(e) /\ e[1] = StepOp(o, 0)
    BY <1>10, <1>14 DEF Rounds
  <2> QED BY <1>13, <2>1
<1>18. Len(E) = 4 * n - 2 /\ E[4 * n - 2] = LastOp(o)
  <2>1. Len(e) + 1 = 4 * n - 2 /\ 1 \in 1 .. Len(z)
    BY <1>10, <1>11
  <2> QED BY <1>10, <1>11, <1>13, <2>1
<1> QED BY <1>13, <1>15, <1>16, <1>17, <1>18 DEF E

-----------------------------------------------------------------------------
(***************************************************************************)
(* What each device has when the first m operations of a ring attention on *)
(* all devices have run.  After s rotations it has the keys and values of  *)
(* the device s places back.                                               *)
(***************************************************************************)
Back(o, d, s) == IF s <= d THEN d - s ELSE d - s + o.ring_size

KName(o, s) == RotatedName(o.ins[2], "k_rot", s)
VName(o, s) == RotatedName(o.ins[3], "v_rot", s)
KLeaf(o, d, s) == <<o.ins[2], Back(o, d, s)>>
VLeaf(o, d, s) == <<o.ins[3], Back(o, d, s)>>

\* The places of the operations that write these names.
KPos(s)    == IF s = 0 THEN 1 ELSE 4 * s - 2
VPos(s)    == IF s = 0 THEN 1 ELSE 4 * s - 1
StepPos(s) == IF s = 0 THEN 1 ELSE 4 * s
SumPos(s)  == 4 * s + 1

Carries(d, n, leaves) == Has(d, n) /\ leaves \subseteq tensors[d][n].from

Met(o, m) ==
  \A d \in Devices : \A s \in 0 .. (o.ring_size - 1) :
    /\ KPos(s) <= m => Carries(d, KName(o, s), {KLeaf(o, d, s)})
    /\ VPos(s) <= m => Carries(d, VName(o, s), {VLeaf(o, d, s)})
    /\ StepPos(s) <= m => Carries(d, StepName(o, s), {KLeaf(o, d, s), VLeaf(o, d, s)})
    /\ SumPos(s) <= m => \A q \in 0 .. s :
         Carries(d, SumName(o, s), {KLeaf(o, d, q), VLeaf(o, d, q)})

\* The keys and the values that there are are the device's own.
Own(o) == \A d \in Devices : \A x \in {o.ins[2], o.ins[3]} :
            Has(d, x) => <<x, d>> \in tensors[d][x].from

RingNames(o) == ProgramName(o.ins[2]) /\ ProgramName(o.ins[3])

\* The names that rounds write are different.
LEMMA RingNamesApart ==
  ASSUME NEW o, RingNames(o), NEW s \in Nat, NEW r \in Nat
  PROVE  /\ KName(o, s) = <<"k_rot", r + 1>> => s = r + 1
         /\ VName(o, s) = <<"v_rot", r + 1>> => s = r + 1
         /\ KName(o, s) # <<"v_rot", r + 1>> /\ VName(o, s) # <<"k_rot", r + 1>>
         /\ StepName(o, s) # <<"k_rot", r + 1>> /\ StepName(o, s) # <<"v_rot", r + 1>>
         /\ SumName(o, s) # <<"k_rot", r + 1>> /\ SumName(o, s) # <<"v_rot", r + 1>>
         /\ KName(o, s) # StepName(o, r) /\ VName(o, s) # StepName(o, r)
         /\ KName(o, s) # SumName(o, r) /\ VName(o, s) # SumName(o, r)
         /\ StepName(o, s) = StepName(o, r) => s = r
         /\ SumName(o, s) = SumName(o, r) => s = r
         /\ SumName(o, s) = StepName(o, r) => s = r /\ s = 0
<1>1. /\ \A a, b, c, d, e : <<a, b, c>> # <<d, e>>
      /\ \A a, b, c : <<a>> # <<b, c>>
      /\ \A a, b, c, d : <<a>> # <<b, c, d>>
      /\ \A a, b, c, d : <<a, b>> = <<c, d>> => a = c /\ b = d
      /\ \A a, b, c, d, e, f : <<a, b, c>> = <<d, e, f>> => a = d /\ b = e
  OBVIOUS
<1>2. o.ins[2] = <<o.ins[2][1]>> /\ o.ins[3] = <<o.ins[3][1]>>
  BY DEF RingNames, ProgramName
<1>3. KName(o, s) = (IF s = 0 THEN <<o.ins[2][1]>> ELSE <<"k_rot", s>>)
  BY <1>2 DEF KName, RotatedName
<1>4. VName(o, s) = (IF s = 0 THEN <<o.ins[3][1]>> ELSE <<"v_rot", s>>)
  BY <1>2 DEF VName, RotatedName
<1> QED BY <1>1, <1>3, <1>4 DEF StepName, SumName

\* A store keeps what the other names carry, and what is stored is carried.
LEMMA PutCarries ==
  ASSUME NEW d, NEW w, NEW t, tensors'[d] = Put(tensors[d], w, t)
  PROVE  /\ \A n, leaves : n # w /\ Carries(d, n, leaves) => Carries(d, n, leaves)'
         /\ \A leaves : leaves \subseteq t.from => Carries(d, w, leaves)'
BY DEF Carries, Put, Has

\* An operation that every device goes through.
LEMMA PerDeviceAll ==
  ASSUME NEW o, PerDevice(o), NumDevices(mesh) \in Nat \ {0}, ~warned', phase' # "raised"
  PROVE  \A d \in Devices : /\ HasAll(d, o.ins)
                            /\ tensors'[d] = Put(tensors[d], o.out, Result(o, Ins(d, o)))
<1> DEFINE stops   == {d \in Devices : Stops(d, o)}
           reached == {d \in Devices : Before(d, stops)}
           S       == {d \in reached : ~Missing(d, o)}
           res     == [d \in S |-> Result(o, Ins(d, o))]
<1>1. /\ tensors' = Stored(S, o.out, res) /\ stops = {} /\ ~Skips(o, reached)
  BY DEF PerDevice
<1>2. reached = Devices
  BY <1>1, BeforeAll
<1>3. S = Devices
  BY <1>1, <1>2 DEF Skips
<1>4. \A d \in Devices : res[d] = Result(o, Ins(d, o)) /\ ~Missing(d, o)
  BY <1>3
<1> HIDE DEF S, res
<1> QED BY <1>1, <1>3, <1>4 DEF Stored, Missing

\* A result has been computed from all that its inputs carry.
LEMMA FromInputs ==
  ASSUME NEW o, NEW d, NEW k \in DOMAIN o.ins, NEW leaves, Carries(d, o.ins[k], leaves)
  PROVE  leaves \subseteq Result(o, Ins(d, o)).from
<1>1. Result(o, Ins(d, o)).from = UNION {Ins(d, o)[j].from : j \in DOMAIN Ins(d, o)}
  BY DEF Result
<1>2. k \in DOMAIN Ins(d, o) /\ Ins(d, o)[k] = tensors[d][o.ins[k]]
  BY DEF Ins
<1> QED BY <1>1, <1>2 DEF Carries

\* One place back on a ring.
LEMMA PreviousIs ==
  ASSUME NEW n \in Nat \ {0}, NEW d \in 0 .. (n - 1)
  PROVE  Previous(d, n) = IF d = 0 THEN n - 1 ELSE d - 1
BY DEF Previous

\* The device s places back of the previous one is s + 1 places back.
LEMMA BackOnce ==
  ASSUME NEW o, o.ring_size \in Nat \ {0}, NEW d \in 0 .. (o.ring_size - 1),
         NEW s \in 0 .. (o.ring_size - 2)
  PROVE  /\ Previous(d, o.ring_size) \in 0 .. (o.ring_size - 1)
         /\ Back(o, Previous(d, o.ring_size), s) = Back(o, d, s + 1)
<1>1. Previous(d, o.ring_size) = IF d = 0 THEN o.ring_size - 1 ELSE d - 1
  BY PreviousIs
<1> QED BY <1>1 DEF Back

\* A rotation on a ring of all devices, which all have its input.
LEMMA RotationAll ==
  ASSUME NEW o, RingRotate(o), NumDevices(mesh) \in Nat \ {0}, o.ring_size = NumDevices(mesh),
         \A d \in Devices : Has(d, o.ins[1])
  PROVE  \A d \in Devices :
           tensors'[d] = Put(tensors[d], o.out, tensors[Previous(d, o.ring_size)][o.ins[1]])
<1> DEFINE S == {d \in Devices : Previous(d, o.ring_size) \in Devices
                                /\ Has(Previous(d, o.ring_size), o.ins[1])}
           t == [d \in S |-> tensors[Previous(d, o.ring_size)][o.ins[1]]]
<1>1. tensors' = Stored(DOMAIN Rotated(o), o.out, Rotated(o)) /\ Rotated(o) = t
  BY DEF RingRotate, Rotated
<1>2. \A d \in Devices : Previous(d, o.ring_size) \in Devices
  BY DEF Previous, Devices
<1>3. S = Devices
  BY <1>2
<1>4. DOMAIN t = Devices
        /\ \A d \in Devices : t[d] = tensors[Previous(d, o.ring_size)][o.ins[1]]
  BY <1>3
<1> HIDE DEF S, t
<1>5. tensors' = Stored(Devices, o.out, t)
  BY <1>1, <1>4
<1> QED BY <1>4, <1>5 DEF Stored

-----------------------------------------------------------------------------
(***************************************************************************)
(* Each operation of a ring attention adds what is its own and leaves what *)
(* there was.                                                              *)
(***************************************************************************)
Apart(o, m, w) ==
  \A s \in 0 .. (o.ring_size - 1) :
    /\ KPos(s) <= m => KName(o, s) # w
    /\ VPos(s) <= m => VName(o, s) # w
    /\ StepPos(s) <= m => StepName(o, s) # w
    /\ SumPos(s) <= m => SumName(o, s) # w

Adds(o, m, w, t) ==
  \A d \in Devices : \A s \in 0 .. (o.ring_size - 1) :
    /\ KPos(s) = m + 1 => w = KName(o, s) /\ {KLeaf(o, d, s)} \subseteq t[d].from
    /\ VPos(s) = m + 1 => w = VName(o, s) /\ {VLeaf(o, d, s)} \subseteq t[d].from
    /\ StepPos(s) = m + 1 =>
         w = StepName(o, s) /\ {KLeaf(o, d, s), VLeaf(o, d, s)} \subseteq t[d].from
    /\ SumPos(s) = m + 1 =>
         /\ w = SumName(o, s)
         /\ \A q \in 0 .. s : {KLeaf(o, d, q), VLeaf(o, d, q)} \subseteq t[d].from

\* A store that adds what the next place asks for, and harms no earlier place.
LEMMA MetWrite ==
  ASSUME NEW o, o.ring_size \in Nat \ {0}, NEW m \in Nat, NEW w, NEW t, mesh' = mesh,
         \A d \in Devices : tensors'[d] = Put(tensors[d], w, t[d]),
         Met(o, m), Apart(o, m, w), Adds(o, m, w, t)
  PROVE  Met(o, m + 1)'
<1>1. ASSUME NEW d \in Devices, NEW s \in 0 .. (o.ring_size - 1)
      PROVE  /\ KPos(s) <= m + 1 => Carries(d, KName(o, s), {KLeaf(o, d, s)})'
             /\ VPos(s) <= m + 1 => Carries(d, VName(o, s), {VLeaf(o, d, s)})'
             /\ StepPos(s) <= m + 1 =>
                  Carries(d, StepName(o, s), {KLeaf(o, d, s), VLeaf(o, d, s)})'
             /\ SumPos(s) <= m + 1 => \A q \in 0 .. s :
                  Carries(d, SumName(o, s), {KLeaf(o, d, q), VLeaf(o, d, q)})'
  <2>1. /\ \A n, leaves : n # w /\ Carries(d, n, leaves) => Carries(d, n, leaves)'
        /\ \A leaves : leaves \subseteq t[d].from => Carries(d, w, leaves)'
    BY PutCarries
  <2>2. /\ KPos(s) \in Nat /\ VPos(s) \in Nat /\ StepPos(s) \in Nat /\ SumPos(s) \in Nat
    BY DEF KPos, VPos, StepPos, SumPos
  <2>3. KPos(s) <= m + 1 => Carries(d, KName(o, s), {KLeaf(o, d, s)})'
    <3>1. KPos(s) <= m + 1 => KPos(s) <= m \/ KPos(s) = m + 1
      BY <2>2
    <3> QED BY <2>1, <3>1 DEF Met, Apart, Adds
  <2>4. VPos(s) <= m + 1 => Carries(d, VName(o, s), {VLeaf(o, d, s)})'
    <3>1. VPos(s) <= m + 1 => VPos(s) <= m \/ VPos(s) = m + 1
      BY <2>2
    <3> QED BY <2>1, <3>1 DEF Met, Apart, Adds
  <2>5. StepPos(s) <= m + 1 => Carries(d, StepName(o, s), {KLeaf(o, d, s), VLeaf(o, d, s)})'
    <3>1. StepPos(s) <= m + 1 => StepPos(s) <= m \/ StepPos(s) = m + 1
      BY <2>2
    <3> QED BY <2>1, <3>1 DEF Met, Apart, Adds
  <2>6. SumPos(s) <= m + 1 => \A q \in 0 .. s :
          Carries(d, SumName(o, s), {KLeaf(o, d, q), VLeaf(o, d, q)})'
    <3>1. SumPos(s) <= m + 1 => SumPos(s) <= m \/ SumPos(s) = m + 1
      BY <2>2
    <3> QED BY <2>1, <3>1 DEF Met, Apart, Adds
  <2> QED BY <2>3, <2>4, <2>5, <2>6
<1>2. Devices' = Devices
  BY DEF Devices
<1> QED BY <1>1, <1>2 DEF Met

\* The first step of the ring is of the device's own keys and values.
LEMMA FirstMet ==
  ASSUME NEW o, RingNames(o), o.ring_size = NumDevices(mesh), NumDevices(mesh) \in Nat \ {0},
         mesh' = mesh, Own(o), PerDevice(StepOp(o, 0)), ~warned', phase' # "raised"
  PROVE  Met(o, 1)'
<1> DEFINE p == StepOp(o, 0)
<1>1. /\ p.out = StepName(o, 0) /\ p.ins[2] = o.ins[2] /\ p.ins[3] = o.ins[3]
      /\ 2 \in DOMAIN p.ins /\ 3 \in DOMAIN p.ins
  BY DEF StepOp, Op, RotatedName
<1> HIDE DEF p
<1>2. /\ KName(o, 0) = o.ins[2] /\ VName(o, 0) = o.ins[3] /\ SumName(o, 0) = StepName(o, 0)
      /\ \A d \in Devices : KLeaf(o, d, 0) = <<o.ins[2], d>> /\ VLeaf(o, d, 0) = <<o.ins[3], d>>
  BY DEF KName, VName, RotatedName, SumName, KLeaf, VLeaf, Back, Devices
<1>3. o.ins[2] # StepName(o, 0) /\ o.ins[3] # StepName(o, 0)
  <2>1. KName(o, 0) # StepName(o, 0) /\ VName(o, 0) # StepName(o, 0)
    BY RingNamesApart
  <2> QED BY <1>2, <2>1
<1>4. \A s \in 0 .. (o.ring_size - 1) :
        /\ KPos(s) <= 1 => s = 0
        /\ VPos(s) <= 1 => s = 0
        /\ StepPos(s) <= 1 => s = 0
        /\ SumPos(s) <= 1 => s = 0
  BY DEF KPos, VPos, StepPos, SumPos
<1>5. ASSUME NEW d \in Devices
      PROVE  /\ Carries(d, KName(o, 0), {KLeaf(o, d, 0)})'
             /\ Carries(d, VName(o, 0), {VLeaf(o, d, 0)})'
             /\ Carries(d, StepName(o, 0), {KLeaf(o, d, 0), VLeaf(o, d, 0)})'
  <2>1. /\ HasAll(d, p.ins)
        /\ tensors'[d] = Put(tensors[d], StepName(o, 0), Result(p, Ins(d, p)))
    BY <1>1, PerDeviceAll DEF p
  <2>2. Has(d, o.ins[2]) /\ Has(d, o.ins[3])
    BY <1>1, <2>1 DEF HasAll
  <2>3. Carries(d, o.ins[2], {KLeaf(o, d, 0)}) /\ Carries(d, o.ins[3], {VLeaf(o, d, 0)})
    BY <1>2, <2>2 DEF Own, Carries
  <2>4. /\ {KLeaf(o, d, 0)} \subseteq Result(p, Ins(d, p)).from
        /\ {VLeaf(o, d, 0)} \subseteq Result(p, Ins(d, p)).from
    BY <1>1, <2>3, FromInputs
  <2>5. {KLeaf(o, d, 0), VLeaf(o, d, 0)} \subseteq Result(p, Ins(d, p)).from
    BY <2>4
  <2> QED BY <1>2, <1>3, <2>1, <2>3, <2>5, PutCarries
<1>6. Devices' = Devices
  BY DEF Devices
<1>7. \A q \in 0 .. 0 : q = 0
  OBVIOUS
<1> QED BY <1>2, <1>4, <1>5, <1>6, <1>7 DEF Met

\* A later step of the ring.
LEMMA StepMet ==
  ASSUME NEW o, RingNames(o), o.ring_size = NumDevices(mesh), NumDevices(mesh) \in Nat \ {0},
         mesh' = mesh, NEW r \in 1 .. (o.ring_size - 1), Met(o, 4 * r - 1),
         PerDevice(StepOp(o, r)), ~warned', phase' # "raised"
  PROVE  Met(o, 4 * r)'
<1> DEFINE p == StepOp(o, r)
           m == 4 * r - 1
           t == [d \in Devices |-> Result(p, Ins(d, p))]
<1>1. /\ p.out = StepName(o, r) /\ p.ins[2] = KName(o, r) /\ p.ins[3] = VName(o, r)
      /\ 2 \in DOMAIN p.ins /\ 3 \in DOMAIN p.ins
  BY DEF StepOp, Op, KName, VName
<1> HIDE DEF p
<1>2. \A d \in Devices : tensors'[d] = Put(tensors[d], StepName(o, r), t[d])
  BY <1>1, PerDeviceAll DEF p
<1>3. Apart(o, m, StepName(o, r))
  <2>1. \A s \in 0 .. (o.ring_size - 1) : StepPos(s) <= m => s # r
    BY DEF StepPos
  <2>2. \A s \in 0 .. (o.ring_size - 1) : s \in Nat /\ r \in Nat /\ r # 0
    OBVIOUS
  <2> HIDE DEF m
  <2> QED BY <2>1, <2>2, RingNamesApart DEF Apart
<1>4. \A d \in Devices : {KLeaf(o, d, r), VLeaf(o, d, r)} \subseteq t[d].from
  <2> TAKE d \in Devices
  <2>1. KPos(r) <= m /\ VPos(r) <= m /\ r \in 0 .. (o.ring_size - 1)
    BY DEF KPos, VPos
  <2>2. Carries(d, p.ins[2], {KLeaf(o, d, r)}) /\ Carries(d, p.ins[3], {VLeaf(o, d, r)})
    BY <1>1, <2>1 DEF Met
  <2>3. /\ {KLeaf(o, d, r)} \subseteq Result(p, Ins(d, p)).from
        /\ {VLeaf(o, d, r)} \subseteq Result(p, Ins(d, p)).from
    BY <1>1, <2>2, FromInputs
  <2> QED BY <2>3
<1>5. Adds(o, m, StepName(o, r), t)
  <2>1. \A s \in 0 .. (o.ring_size - 1) :
          /\ KPos(s) # m + 1 /\ VPos(s) # m + 1 /\ SumPos(s) # m + 1
          /\ StepPos(s) = m + 1 => s = r
    BY DEF KPos, VPos, StepPos, SumPos
  <2> HIDE DEF m, t
  <2> QED BY <1>4, <2>1 DEF Adds
<1>6. m \in Nat /\ m + 1 = 4 * r
  OBVIOUS
<1> HIDE DEF t
<1>7. Met(o, m + 1)'
  <2>1. Met(o, m)
    OBVIOUS
  <2> HIDE DEF m
  <2> QED BY <1>2, <1>3, <1>5, <1>6, <2>1, MetWrite
<1> QED BY <1>6, <1>7

\* The sum of what the steps have computed.
LEMMA SumMet ==
  ASSUME NEW o, RingNames(o), o.ring_size = NumDevices(mesh), NumDevices(mesh) \in Nat \ {0},
         mesh' = mesh, NEW r \in 1 .. (o.ring_size - 1), Met(o, 4 * r),
         PerDevice(SumOp(o, r)), ~warned', phase' # "raised"
  PROVE  Met(o, 4 * r + 1)'
<1> DEFINE p == SumOp(o, r)
           m == 4 * r
           t == [d \in Devices |-> Result(p, Ins(d, p))]
<1>1. /\ p.out = SumName(o, r) /\ p.ins[1] = SumName(o, r - 1) /\ p.ins[2] = StepName(o, r)
      /\ 1 \in DOMAIN p.ins /\ 2 \in DOMAIN p.ins
  BY DEF SumOp, Op
<1> HIDE DEF p
<1>2. \A d \in Devices : tensors'[d] = Put(tensors[d], SumName(o, r), t[d])
  BY <1>1, PerDeviceAll DEF p
<1>3. Apart(o, m, SumName(o, r))
  <2>1. \A s \in 0 .. (o.ring_size - 1) : SumPos(s) <= m => s # r
    BY DEF SumPos
  <2>2. \A s \in 0 .. (o.ring_size - 1) : s \in Nat /\ r \in Nat /\ r # 0
    OBVIOUS
  <2>3. \A s \in 0 .. (o.ring_size - 1) : StepName(o, s) # SumName(o, r)
    BY <2>2, RingNamesApart
  <2> HIDE DEF m
  <2> QED BY <2>1, <2>2, <2>3, RingNamesApart DEF Apart
<1>4. \A d \in Devices : \A q \in 0 .. r : {KLeaf(o, d, q), VLeaf(o, d, q)} \subseteq t[d].from
  <2> TAKE d \in Devices
  <2> TAKE q \in 0 .. r
  <2>1. SumPos(r - 1) <= m /\ StepPos(r) <= m /\ r \in 0 .. (o.ring_size - 1)
        /\ r - 1 \in 0 .. (o.ring_size - 1)
    BY DEF SumPos, StepPos
  <2>2. CASE q = r
    <3>1. Carries(d, p.ins[2], {KLeaf(o, d, q), VLeaf(o, d, q)})
      BY <1>1, <2>1, <2>2 DEF Met
    <3> QED BY <1>1, <3>1, FromInputs
  <2>3. CASE q # r
    <3>1. q \in 0 .. (r - 1)
      BY <2>3
    <3>2. Carries(d, p.ins[1], {KLeaf(o, d, q), VLeaf(o, d, q)})
      BY <1>1, <2>1, <3>1 DEF Met
    <3> QED BY <1>1, <3>2, FromInputs
  <2> QED BY <2>2, <2>3
<1>5. Adds(o, m, SumName(o, r), t)
  <2>1. \A s \in 0 .. (o.ring_size - 1) :
          /\ KPos(s) # m + 1 /\ VPos(s) # m + 1 /\ StepPos(s) # m + 1
          /\ SumPos(s) = m + 1 => s = r
    BY DEF KPos, VPos, StepPos, SumPos
  <2> HIDE DEF m, t
  <2> QED BY <1>4, <2>1 DEF Adds
<1>6. m \in Nat /\ m + 1 = 4 * r + 1
  OBVIOUS
<1> HIDE DEF t
<1>7. Met(o, m + 1)'
  <2>1. Met(o, m)
    OBVIOUS
  <2> HIDE DEF m
  <2> QED BY <1>2, <1>3, <1>5, <1>6, <2>1, MetWrite
<1> QED BY <1>6, <1>7

\* The keys go on by one device.
LEMMA KeysMet ==
  ASSUME NEW o, RingNames(o), o.ring_size = NumDevices(mesh), NumDevices(mesh) \in Nat \ {0},
         mesh' = mesh, NEW r \in 0 .. (o.ring_size - 2), Met(o, 4 * r + 1),
         RingRotate(KOp(o, r))
  PROVE  Met(o, 4 * r + 2)'
<1> DEFINE p == KOp(o, r)
           m == 4 * r + 1
           t == [d \in Devices |-> tensors[Previous(d, o.ring_size)][KName(o, r)]]
<1>1. /\ p.out = <<"k_rot", r + 1>> /\ p.ins[1] = KName(o, r) /\ p.ring_size = o.ring_size
      /\ KName(o, r + 1) = <<"k_rot", r + 1>>
  BY DEF KOp, Rotation, PassedOn, KName, RotatedName
<1> HIDE DEF p
<1>2. KPos(r) <= m /\ r \in 0 .. (o.ring_size - 1)
  BY DEF KPos
<1>3. \A d \in Devices : Carries(d, KName(o, r), {KLeaf(o, d, r)})
  BY <1>2 DEF Met
<1>4. \A d \in Devices : tensors'[d] = Put(tensors[d], p.out, t[d])
  <2>1. \A d \in Devices : Has(d, p.ins[1])
    BY <1>1, <1>3 DEF Carries
  <2>2. RingRotate(p) /\ p.ring_size = NumDevices(mesh)
    BY <1>1 DEF p
  <2>3. \A d \in Devices :
          tensors'[d] = Put(tensors[d], p.out, tensors[Previous(d, p.ring_size)][p.ins[1]])
    BY <2>1, <2>2, RotationAll
  <2> QED BY <1>1, <2>3
<1>5. Apart(o, m, p.out)
  <2>1. \A s \in 0 .. (o.ring_size - 1) : KPos(s) <= m => s # r + 1
    BY DEF KPos
  <2>2. \A s \in 0 .. (o.ring_size - 1) : s \in Nat /\ r \in Nat
    OBVIOUS
  <2> HIDE DEF m
  <2> QED BY <1>1, <2>1, <2>2, RingNamesApart DEF Apart
<1>6. \A d \in Devices : {KLeaf(o, d, r + 1)} \subseteq t[d].from
  <2> TAKE d \in Devices
  <2>1. d \in 0 .. (o.ring_size - 1)
    BY DEF Devices
  <2>2. /\ Previous(d, o.ring_size) \in 0 .. (o.ring_size - 1)
        /\ Back(o, Previous(d, o.ring_size), r) = Back(o, d, r + 1)
    BY <2>1, BackOnce
  <2>3. Previous(d, o.ring_size) \in Devices
    BY <2>2 DEF Devices
  <2> QED BY <1>3, <2>2, <2>3 DEF Carries, KLeaf
<1>7. Adds(o, m, p.out, t)
  <2>1. \A s \in 0 .. (o.ring_size - 1) :
          /\ StepPos(s) # m + 1 /\ VPos(s) # m + 1 /\ SumPos(s) # m + 1
          /\ KPos(s) = m + 1 => s = r + 1
    BY DEF KPos, VPos, StepPos, SumPos
  <2> HIDE DEF m, t
  <2> QED BY <1>1, <1>6, <2>1 DEF Adds
<1>8. m \in Nat /\ m + 1 = 4 * r + 2
  OBVIOUS
<1> HIDE DEF t
<1>9. Met(o, m + 1)'
  <2>1. Met(o, m)
    OBVIOUS
  <2> HIDE DEF m
  <2> QED BY <1>4, <1>5, <1>7, <1>8, <2>1, MetWrite
<1> QED BY <1>8, <1>9

\* So do the values.
LEMMA ValuesMet ==
  ASSUME NEW o, RingNames(o), o.ring_size = NumDevices(mesh), NumDevices(mesh) \in Nat \ {0},
         mesh' = mesh, NEW r \in 0 .. (o.ring_size - 2), Met(o, 4 * r + 2),
         RingRotate(VOp(o, r))
  PROVE  Met(o, 4 * r + 3)'
<1> DEFINE p == VOp(o, r)
           m == 4 * r + 2
           t == [d \in Devices |-> tensors[Previous(d, o.ring_size)][VName(o, r)]]
<1>1. /\ p.out = <<"v_rot", r + 1>> /\ p.ins[1] = VName(o, r) /\ p.ring_size = o.ring_size
      /\ VName(o, r + 1) = <<"v_rot", r + 1>>
  BY DEF VOp, Rotation, PassedOn, VName, RotatedName
<1> HIDE DEF p
<1>2. VPos(r) <= m /\ r \in 0 .. (o.ring_size - 1)
  BY DEF VPos
<1>3. \A d \in Devices : Carries(d, VName(o, r), {VLeaf(o, d, r)})
  BY <1>2 DEF Met
<1>4. \A d \in Devices : tensors'[d] = Put(tensors[d], p.out, t[d])
  <2>1. \A d \in Devices : Has(d, p.ins[1])
    BY <1>1, <1>3 DEF Carries
  <2>2. RingRotate(p) /\ p.ring_size = NumDevices(mesh)
    BY <1>1 DEF p
  <2>3. \A d \in Devices :
          tensors'[d] = Put(tensors[d], p.out, tensors[Previous(d, p.ring_size)][p.ins[1]])
    BY <2>1, <2>2, RotationAll
  <2> QED BY <1>1, <2>3
<1>5. Apart(o, m, p.out)
  <2>1. \A s \in 0 .. (o.ring_size - 1) : VPos(s) <= m => s # r + 1
    BY DEF VPos
  <2>2. \A s \in 0 .. (o.ring_size - 1) : s \in Nat /\ r \in Nat
    OBVIOUS
  <2> HIDE DEF m
  <2> QED BY <1>1, <2>1, <2>2, RingNamesApart DEF Apart
<1>6. \A d \in Devices : {VLeaf(o, d, r + 1)} \subseteq t[d].from
  <2> TAKE d \in Devices
  <2>1. d \in 0 .. (o.ring_size - 1)
    BY DEF Devices
  <2>2. /\ Previous(d, o.ring_size) \in 0 .. (o.ring_size - 1)
        /\ Back(o, Previous(d, o.ring_size), r) = Back(o, d, r + 1)
    BY <2>1, BackOnce
  <2>3. Previous(d, o.ring_size) \in Devices
    BY <2>2 DEF Devices
  <2> QED BY <1>3, <2>2, <2>3 DEF Carries, VLeaf
<1>7. Adds(o, m, p.out, t)
  <2>1. \A s \in 0 .. (o.ring_size - 1) :
          /\ StepPos(s) # m + 1 /\ KPos(s) # m + 1 /\ SumPos(s) # m + 1
          /\ VPos(s) = m + 1 => s = r + 1
    BY DEF VPos, KPos, StepPos, SumPos
  <2> HIDE DEF m, t
  <2> QED BY <1>1, <1>6, <2>1 DEF Adds
<1>8. m \in Nat /\ m + 1 = 4 * r + 3
  OBVIOUS
<1> HIDE DEF t
<1>9. Met(o, m + 1)'
  <2>1. Met(o, m)
    OBVIOUS
  <2> HIDE DEF m
  <2> QED BY <1>4, <1>5, <1>7, <1>8, <2>1, MetWrite
<1> QED BY <1>8, <1>9

\* The reduction of the last sum: every device's output is of all keys and values.
LEMMA LastMet ==
  ASSUME NEW o, o.ring_size = NumDevices(mesh), NumDevices(mesh) \in Nat \ {0},
         mesh' = mesh, Met(o, 4 * o.ring_size - 3),
         PerDevice(LastOp(o)), ~warned', phase' # "raised"
  PROVE  MeetsAll(o)'
<1> DEFINE p == LastOp(o)
           n == o.ring_size
<1>1. p.out = o.out /\ p.ins[1] = SumName(o, n - 1) /\ 1 \in DOMAIN p.ins
  BY DEF LastOp, Op
<1> HIDE DEF p
<1>2. ASSUME NEW d \in Devices, NEW e \in Devices
      PROVE  /\ o.out \in DOMAIN tensors'[d]
             /\ {<<o.ins[2], e>>, <<o.ins[3], e>>} \subseteq tensors'[d][o.out].from
  <2> DEFINE q == IF e <= d THEN d - e ELSE d - e + n
  <2>1. q \in 0 .. (n - 1) /\ Back(o, d, q) = e
    BY DEF Back, Devices
  <2> HIDE DEF q
  <2>2. SumPos(n - 1) <= 4 * n - 3 /\ n - 1 \in 0 .. (n - 1)
    BY DEF SumPos
  <2>3. Carries(d, SumName(o, n - 1), {KLeaf(o, d, q), VLeaf(o, d, q)})
    BY <2>1, <2>2 DEF Met
  <2>4. {KLeaf(o, d, q), VLeaf(o, d, q)} \subseteq Result(p, Ins(d, p)).from
    BY <1>1, <2>3, FromInputs
  <2>5. tensors'[d] = Put(tensors[d], o.out, Result(p, Ins(d, p)))
    BY <1>1, PerDeviceAll DEF p
  <2>6. Carries(d, o.out, {KLeaf(o, d, q), VLeaf(o, d, q)})'
    BY <2>4, <2>5, PutCarries
  <2> QED BY <2>1, <2>6 DEF Carries, Has, KLeaf, VLeaf
<1>3. Devices' = Devices
  BY DEF Devices
<1> QED BY <1>2, <1>3 DEF MeetsAll, Has

-----------------------------------------------------------------------------
(***************************************************************************)
(* An operation writes what Writes says and nothing else.                  *)
(***************************************************************************)
Kept(o) ==
  \A d \in Devices : \A n : n \notin Writes(o) =>
    /\ n \in DOMAIN tensors'[d] <=> n \in DOMAIN tensors[d]
    /\ n \in DOMAIN tensors[d] => tensors'[d][n] = tensors[d][n]

\* A store under the operation's own name keeps the other tensors.
LEMMA StoredKept ==
  ASSUME NEW o, NEW S, NEW t, tensors' = Stored(S, o.out, t)
  PROVE  Kept(o)
BY DEF Kept, Stored, Put, Writes

\* So does an operation that stores nothing.
LEMMA UnchangedKept ==
  ASSUME NEW o, tensors' = tensors
  PROVE  Kept(o)
BY DEF Kept

\* So does WaitAll, which writes the results of its handles.
LEMMA WaitAllKept ==
  ASSUME NEW o, WellFormed(o), WaitAll(o)
  PROVE  Kept(o)
<1>1. /\ tensors' = [d \in Devices |-> WaitedFor(d, o)]
      /\ Range(o.outs) \subseteq Writes(o)
  BY DEF WaitAll, Writes
<1>2. Len(o.outs) \in Nat /\ \A k \in 1 .. Len(o.outs) : o.outs[k] \in Range(o.outs)
  <2>1. o.outs \in Seq(Range(o.outs))
    BY DEF WaitAll, WellFormed
  <2> QED BY <2>1
<1>3. ASSUME NEW d \in Devices, NEW n, n \notin Range(o.outs)
      PROVE  /\ n \in DOMAIN WaitedFor(d, o) <=> n \in DOMAIN tensors[d]
             /\ n \in DOMAIN tensors[d] => WaitedFor(d, o)[n] = tensors[d][n]
  <2> DEFINE l == Len(o.outs)
  <2>1. PICK f : WaitSteps(d, o, l, f) /\ WaitedFor(d, o) = f[l]
    BY <1>2, WaitedForIs
  <2> DEFINE T == {k \in Nat : k <= l =>
                    /\ n \in DOMAIN f[k] <=> n \in DOMAIN tensors[d]
                    /\ n \in DOMAIN tensors[d] => f[k][n] = tensors[d][n]}
  <2>2. 0 \in T
    <3>1. f[0] = tensors[d]
      BY <1>2, <2>1 DEF WaitSteps
    <3> QED BY <3>1
  <2>3. ASSUME NEW k \in Nat, k \in T PROVE k + 1 \in T
    <3> SUFFICES ASSUME k + 1 <= l
                 PROVE  /\ n \in DOMAIN f[k + 1] <=> n \in DOMAIN tensors[d]
                        /\ n \in DOMAIN tensors[d] => f[k + 1][n] = tensors[d][n]
      OBVIOUS
    <3>1. k + 1 \in 0 .. l /\ k + 1 \in 1 .. l /\ k + 1 # 0 /\ (k + 1) - 1 = k
      BY <1>2
    <3>2. f[k + 1] = Waiting(f[k], o, k + 1)
      BY <2>1, <3>1 DEF WaitSteps
    <3>3. o.outs[k + 1] # n
      BY <1>2, <1>3, <3>1
    <3>4. /\ n \in DOMAIN f[k] <=> n \in DOMAIN tensors[d]
          /\ n \in DOMAIN tensors[d] => f[k][n] = tensors[d][n]
      BY <1>2, <2>3
    <3> QED BY <3>2, <3>3, <3>4 DEF Waiting, Put
  <2> HIDE DEF T
  <2>4. Nat \subseteq T
    BY <2>2, <2>3, Induction
  <2>5. l \in T
    BY <1>2, <2>4
  <2> QED BY <1>2, <2>1, <2>5 DEF T
<1> QED BY <1>1, <1>3 DEF Kept

\* Every operation keeps the tensors that it does not write.
LEMMA ExecuteKept ==
  ASSUME NEW o, WellFormed(o),
         \/ PerDevice(o) \/ Send(o) \/ Recv(o) \/ SendAsync(o) \/ RecvAsync(o)
         \/ Wait(o) \/ WaitAll(o) \/ RingRotate(o) \/ TopKGate(o)
         \/ RingAttention(o) \/ OverlapRegion(o)
  PROVE  Kept(o)
<1>1. CASE PerDevice(o) \/ Wait(o) \/ RingRotate(o)
  <2>1. \E S, t : tensors' = Stored(S, o.out, t)
    BY <1>1 DEF PerDevice, Wait, RingRotate
  <2> QED BY <2>1, StoredKept
<1>2. CASE Send(o) \/ Recv(o) \/ SendAsync(o) \/ RecvAsync(o)
  <2>1. tensors' = tensors \/ \E t, dst : Moved(o, t, dst)
    BY <1>2 DEF Send, Recv, SendAsync, RecvAsync, Raised, Ignored, RaisedIfStrict
  <2>2. ASSUME NEW t, NEW dst, Moved(o, t, dst) PROVE Kept(o)
    <3>1. tensors' = Stored({dst}, o.out, [d \in {dst} |-> t])
      BY <2>2 DEF Moved
    <3> QED BY <3>1, StoredKept
  <2> QED BY <2>1, <2>2, UnchangedKept
<1>3. CASE RingAttention(o) \/ OverlapRegion(o)
  BY <1>3, UnchangedKept DEF RingAttention, OverlapRegion, Ignored
<1>4. CASE TopKGate(o)
  <2> DEFINE x(d)       == tensors[d][o.ins[1]]
             Indices(d) == Rows(x(d).shape[0], o.top_k)
             there      == {d \in Devices : ~Missing(d, o)}
             stops      == {d \in there : ~Divides(mesh, Indices(d), x(d).pl)}
             S          == {d \in there : Before(d, stops)}
             ix(d)      == [shape |-> Indices(d), pl |-> x(d).pl, from |-> x(d).from]
  <2>1. tensors' = [d \in Devices |->
           IF d \in S THEN Put(Put(tensors[d], o.indices_output, ix(d)), o.out, x(d))
           ELSE tensors[d]]
    BY <1>4 DEF TopKGate
  <2> HIDE DEF S, ix, x
  <2>2. Writes(o) = {o.out, o.indices_output}
    BY <1>4 DEF TopKGate, Writes
  <2> QED BY <2>1, <2>2 DEF Kept, Put
<1> QED BY <1>1, <1>2, <1>3, <1>4, WaitAllKept

-----------------------------------------------------------------------------
\* The kind of an operation decides which action executes it.
LEMMA ActionOfKind ==
  ASSUME NEW o,
         \/ PerDevice(o) \/ Send(o) \/ Recv(o) \/ SendAsync(o) \/ RecvAsync(o)
         \/ Wait(o) \/ WaitAll(o) \/ RingRotate(o) \/ TopKGate(o)
         \/ RingAttention(o) \/ OverlapRegion(o)
  PROVE  /\ o.kind \in {"FlashAttention", "Add", "AllReduce"} => PerDevice(o)
         /\ o.kind = "RingRotate" => RingRotate(o)
         /\ o.kind = "RingAttention" => RingAttention(o)
BY DEF PerDevice, Send, Recv, SendAsync, RecvAsync, Wait, WaitAll, RingRotate, TopKGate,
       RingAttention, OverlapRegion, OtherKinds, CrossKinds

Going(o, m) == /\ m = 0 => Own(o)
               /\ m \in 1 .. (Len(Expansion(o)) - 1) => Met(o, m)

\* The next operation of a ring attention.
LEMMA RingStep ==
  ASSUME NEW o, RingNames(o), o.ring_size = NumDevices(mesh), NumDevices(mesh) \in Nat \ {0},
         mesh' = mesh, NEW m \in Nat, m < Len(Expansion(o)), Going(o, m), ~warned',
         phase' # "raised", NEW p, p = Expansion(o)[m + 1],
         \/ PerDevice(p) \/ Send(p) \/ Recv(p) \/ SendAsync(p) \/ RecvAsync(p)
         \/ Wait(p) \/ WaitAll(p) \/ RingRotate(p) \/ TopKGate(p)
         \/ RingAttention(p) \/ OverlapRegion(p)
  PROVE  /\ m + 1 < Len(Expansion(o)) => Met(o, m + 1)'
         /\ m + 1 = Len(Expansion(o)) => MeetsAll(o)'
<1> DEFINE n == o.ring_size
           k == m + 1
<1>1. /\ Len(Expansion(o)) = 4 * n - 2 /\ n \in Nat \ {0}
      /\ Expansion(o)[1] = StepOp(o, 0)
      /\ \A r \in 1 .. (n - 1) :
           Expansion(o)[4 * r] = StepOp(o, r) /\ Expansion(o)[4 * r + 1] = SumOp(o, r)
      /\ \A r \in 0 .. (n - 2) :
           Expansion(o)[4 * r + 2] = KOp(o, r) /\ Expansion(o)[4 * r + 3] = VOp(o, r)
      /\ Expansion(o)[4 * n - 2] = LastOp(o)
  BY ExpansionAt
<1>2. /\ \A r : StepOp(o, r).kind = "FlashAttention" /\ SumOp(o, r).kind = "Add"
      /\ \A r : KOp(o, r).kind = "RingRotate" /\ VOp(o, r).kind = "RingRotate"
      /\ LastOp(o).kind = "AllReduce"
  BY DEF StepOp, SumOp, KOp, VOp, LastOp, Op, Rotation
<1>3. /\ p.kind \in {"FlashAttention", "Add", "AllReduce"} => PerDevice(p)
      /\ p.kind = "RingRotate" => RingRotate(p)
  BY ActionOfKind
<1>4. m # 0 => Met(o, m)
  BY <1>1 DEF Going
<1>5. CASE k = 1
  <2>1. PerDevice(StepOp(o, 0)) /\ Own(o)
    BY <1>1, <1>2, <1>3, <1>5 DEF Going
  <2>2. Met(o, 1)'
    BY <2>1, FirstMet
  <2> QED BY <1>1, <1>5, <2>2
<1>6. CASE k = 4 * n - 2
  <2>1. PerDevice(LastOp(o)) /\ Met(o, 4 * n - 3)
    BY <1>1, <1>2, <1>3, <1>4, <1>6
  <2>2. MeetsAll(o)'
    BY <2>1, LastMet
  <2> QED BY <1>1, <1>6, <2>2
<1>7. CASE k # 1 /\ k # 4 * n - 2
  <2>1. /\ m + 1 < Len(Expansion(o))
        /\ \/ \E r \in 1 .. (n - 1) : k = 4 * r \/ k = 4 * r + 1
           \/ \E r \in 0 .. (n - 2) : k = 4 * r + 2 \/ k = 4 * r + 3
    <3>1. k \in 2 .. (4 * n - 3)
      BY <1>1, <1>7
    <3> DEFINE r == k \div 4
    <3>2. r \in Nat /\ (k = 4 * r \/ k = 4 * r + 1 \/ k = 4 * r + 2 \/ k = 4 * r + 3)
      BY <3>1
    <3> HIDE DEF r, k
    <3>3. r <= n - 1 /\ (k = 4 * r \/ k = 4 * r + 1 => r # 0)
      BY <1>1, <3>1, <3>2
    <3>4. k = 4 * r + 2 \/ k = 4 * r + 3 => r <= n - 2
      BY <1>1, <3>1, <3>2
    <3> QED BY <1>1, <3>1, <3>2, <3>3, <3>4 DEF k
  <2>2. ASSUME NEW r \in 1 .. (n - 1), k = 4 * r PROVE Met(o, m + 1)'
    <3>1. PerDevice(StepOp(o, r))
      BY <1>1, <1>2, <1>3, <2>2
    <3>2. m = 4 * r - 1 /\ m # 0
      BY <2>2
    <3>3. Met(o, 4 * r)'
      BY <1>4, <3>1, <3>2, StepMet
    <3> QED BY <2>2, <3>3
  <2>3. ASSUME NEW r \in 1 .. (n - 1), k = 4 * r + 1 PROVE Met(o, m + 1)'
    <3>1. PerDevice(SumOp(o, r))
      BY <1>1, <1>2, <1>3, <2>3
    <3>2. m = 4 * r /\ m # 0
      BY <2>3
    <3>3. Met(o, 4 * r + 1)'
      BY <1>4, <3>1, <3>2, SumMet
    <3> QED BY <2>3, <3>3
  <2>4. ASSUME NEW r \in 0 .. (n - 2), k = 4 * r + 2 PROVE Met(o, m + 1)'
    <3>1. RingRotate(KOp(o, r))
      BY <1>1, <1>2, <1>3, <2>4
    <3>2. m = 4 * r + 1 /\ m # 0
      BY <2>4
    <3>3. Met(o, 4 * r + 2)'
      BY <1>4, <3>1, <3>2, KeysMet
    <3> QED BY <2>4, <3>3
  <2>5. ASSUME NEW r \in 0 .. (n - 2), k = 4 * r + 3 PROVE Met(o, m + 1)'
    <3>1. RingRotate(VOp(o, r))
      BY <1>1, <1>2, <1>3, <2>5
    <3>2. m = 4 * r + 2 /\ m # 0
      BY <2>5
    <3>3. Met(o, 4 * r + 3)'
      BY <1>4, <3>1, <3>2, ValuesMet
    <3> QED BY <2>5, <3>3
  <2> HIDE DEF k
  <2>6. Met(o, m + 1)'
    BY <2>1, <2>2, <2>3, <2>4, <2>5
  <2> QED BY <2>1, <2>6
<1> QED BY <1>5, <1>6, <1>7

-----------------------------------------------------------------------------
(***************************************************************************)
(* The inductive invariant.  What is left to run begins with the rest of a *)
(* ring attention that has not ended; a name that nothing has written is of*)
(* the device itself; and a ring attention on all devices is as far as the *)
(* operations since it.                                                    *)
(***************************************************************************)
Awaits(e, m, s) == \A j \in 1 .. (Len(e) - m) : j \in 1 .. Len(s) /\ s[j] = e[m + j]

Timeline ==
  \A i \in DOMAIN history : history[i].kind = "RingAttention" =>
    Awaits(Expansion(history[i]), Len(history) - i, todo)

OwnUnlessWritten ==
  \A d \in Devices : \A n \in DOMAIN tensors[d] :
    (\A j \in DOMAIN history : n \notin Writes(history[j])) => <<n, d>> \in tensors[d][n].from

Applies(o, i) == /\ o.kind = "RingAttention" /\ o.ring_size = NumDevices(mesh)
                 /\ \A j \in 1 .. (i - 1) : Writes(history[j]) \cap Range(o.ins) = {}

NotSince(o, i) ==
  \A j \in (i + Len(Expansion(o)) + 1) .. Len(history) : o.out \notin Writes(history[j])

Progress ==
  \A i \in DOMAIN history : \A o : o = history[i] /\ Applies(o, i) =>
    /\ Going(o, Len(history) - i)
    /\ Len(history) - i >= Len(Expansion(o)) /\ NotSince(o, i) => MeetsAll(o)

RingInv ==
  /\ QuietInv
  /\ phase \in {"run", "done"} => Timeline /\ OwnUnlessWritten /\ (~warned => Progress)

\* A ring attention as programs have it.
LEMMA RingAttentionIs ==
  ASSUME NEW o \in Ops, o.kind = "RingAttention"
  PROVE  /\ {1, 2, 3} \subseteq DOMAIN o.ins /\ o.ring_size \in Nat \ {0}
         /\ RingNames(o) /\ o.ins[2] \in Range(o.ins) /\ o.ins[3] \in Range(o.ins)
         /\ Len(Expansion(o)) \in Nat \ {0, 1}
         /\ Expansion(o) \in Seq(SubOps)
         /\ \A k \in 1 .. Len(Expansion(o)) :
              Expansion(o)[k].kind \notin {"RingAttention", "OverlapRegion"}
<1>1. o \in Menu \/ o \in Inner
  BY RingOpsSimple DEF Ops, SubOps, Rings
<1>2. \A n \in NamesOf(o) : ProgramName(n)
  BY <1>1, NamesAssumption DEF Inner, Regions
<1>3. {1, 2, 3} \subseteq DOMAIN o.ins /\ o.ring_size \in Nat \ {0}
  BY OpsWellFormed DEF WellFormed
<1>4. o.ins[2] \in Range(o.ins) /\ o.ins[3] \in Range(o.ins)
  BY <1>3 DEF Range
<1>5. RingNames(o)
  BY <1>2, <1>4 DEF RingNames, NamesOf
<1>6. Len(Expansion(o)) = 4 * o.ring_size - 2 /\ Expansion(o) \in Seq(RingOps(o))
  BY <1>3, ExpansionAt
<1>7. Len(Expansion(o)) \in Nat \ {0, 1}
  BY <1>3, <1>6
<1>8. Expansion(o) \in Seq(SubOps)
  BY OpsWellFormed
<1>9. \A k \in 1 .. Len(Expansion(o)) : Expansion(o)[k] \in RingOps(o)
  BY <1>6
<1>10. \A k \in 1 .. Len(Expansion(o)) :
         Expansion(o)[k].kind \notin {"RingAttention", "OverlapRegion"}
  BY <1>9, RingOpsSimple
<1> QED BY <1>3, <1>4, <1>5, <1>7, <1>8, <1>10

\* What is kept of an output that is not written again.
LEMMA MeetsKept ==
  ASSUME NEW o, NEW p, Kept(p), mesh' = mesh, MeetsAll(o), o.out \notin Writes(p)
  PROVE  MeetsAll(o)'
BY DEF Kept, MeetsAll, Has, Devices

\* What is left to run after an operation.
LEMMA AwaitsNext ==
  ASSUME NEW T, NEW e \in Seq(T), NEW s \in Seq(T), NEW m \in Nat, m < Len(e), Awaits(e, m, s)
  PROVE  s # << >> /\ Head(s) = e[m + 1] /\ Awaits(e, m + 1, Tail(s))
<1>1. 1 \in 1 .. (Len(e) - m) /\ Len(e) \in Nat
  OBVIOUS
<1>2. 1 \in 1 .. Len(s) /\ s[1] = e[m + 1]
  BY <1>1 DEF Awaits
<1>3. s # << >> /\ Head(s) = e[m + 1]
  BY <1>2
<1>4. Len(Tail(s)) = Len(s) - 1 /\ \A j \in 1 .. (Len(s) - 1) : Tail(s)[j] = s[j + 1]
  BY <1>3
<1>5. ASSUME NEW j \in 1 .. (Len(e) - (m + 1))
      PROVE  j \in 1 .. Len(Tail(s)) /\ Tail(s)[j] = e[(m + 1) + j]
  <2>1. j + 1 \in 1 .. (Len(e) - m)
    BY <1>1
  <2>2. j + 1 \in 1 .. Len(s) /\ s[j + 1] = e[m + (j + 1)]
    BY <2>1 DEF Awaits
  <2>3. m + (j + 1) = (m + 1) + j /\ j \in 1 .. (Len(s) - 1)
    BY <2>2
  <2> QED BY <1>4, <2>2, <2>3
<1> QED BY <1>3, <1>5 DEF Awaits

\* When ring attention is expanded, all of its operations are queued first.
LEMMA AwaitsFirst ==
  ASSUME NEW T, NEW e \in Seq(T), NEW s \in Seq(T)
  PROVE  Awaits(e, 0, e \o s)
BY DEF Awaits

\* At the end of its expansion nothing is awaited.
LEMMA AwaitsNothing ==
  ASSUME NEW e, Len(e) \in Nat, NEW m \in Nat, m >= Len(e), NEW s
  PROVE  Awaits(e, m, s)
BY DEF Awaits

-----------------------------------------------------------------------------
\* The books of an operation, as the invariant needs them.
Executed(p, subs) ==
  /\ p \in Current /\ p \in Ops /\ subs \in Seq(SubOps) /\ Executes(p, subs)
  /\ p.kind = "RingAttention" => subs = Expansion(p)
  /\ p.kind \notin {"RingAttention", "OverlapRegion"} => subs = << >>
  /\ \/ PerDevice(p) \/ Send(p) \/ Recv(p) \/ SendAsync(p) \/ RecvAsync(p)
     \/ Wait(p) \/ WaitAll(p) \/ RingRotate(p) \/ TopKGate(p)
     \/ RingAttention(p) \/ OverlapRegion(p)

\* Every execution of the queue's head, or of the program's next operation.
LEMMA ExecutedIs ==
  ASSUME AgreeInv, ExecuteOp
  PROVE  \E p, subs : Executed(p, subs)
<1>1. PICK p \in Current :
        \/ PerDevice(p) \/ Send(p) \/ Recv(p) \/ SendAsync(p) \/ RecvAsync(p)
        \/ Wait(p) \/ WaitAll(p) \/ RingRotate(p) \/ TopKGate(p)
        \/ RingAttention(p) \/ OverlapRegion(p)
  BY DEF ExecuteOp
<1>2. p \in Ops
  BY DEF Current, Ops, AgreeInv
<1>3. /\ p.kind = "RingAttention" => Expansion(p) \in Seq(SubOps)
      /\ p.kind = "OverlapRegion" => p.compute_ops \o p.comm_ops \in Seq(SubOps)
  BY <1>2, OpsWellFormed
<1>4. CASE RingAttention(p)
  <2>1. Executed(p, Expansion(p))
    BY <1>1, <1>2, <1>3, <1>4 DEF Executed, RingAttention
  <2> QED BY <2>1
<1>5. CASE OverlapRegion(p)
  <2>1. Executed(p, p.compute_ops \o p.comm_ops)
    BY <1>1, <1>2, <1>3, <1>5 DEF Executed, OverlapRegion
  <2> QED BY <2>1
<1>6. CASE ~RingAttention(p) /\ ~OverlapRegion(p)
  <2>1. Executes(p, << >>) /\ p.kind \notin {"RingAttention", "OverlapRegion"}
    BY <1>1, <1>6 DEF PerDevice, Send, Recv, SendAsync, RecvAsync, Wait, WaitAll, RingRotate,
                      TopKGate, OtherKinds
  <2>2. << >> \in Seq(SubOps)
    OBVIOUS
  <2>3. Executed(p, << >>)
    BY <1>1, <1>2, <2>1, <2>2 DEF Executed
  <2> QED BY <2>3
<1> QED BY <1>4, <1>5, <1>6

\* What it does to the history, the queue and the mesh.
LEMMA ExecutedBooks ==
  ASSUME AgreeInv, NEW p, NEW subs, Executed(p, subs), phase' # "raised"
  PROVE  /\ phase = "run" /\ mesh' = mesh /\ Devices' = Devices
         /\ Len(history) \in Nat /\ DOMAIN history = 1 .. Len(history)
         /\ \A i \in 1 .. Len(history) : history[i] \in Ops
         /\ Len(history') = Len(history) + 1 /\ DOMAIN history' = 1 .. (Len(history) + 1)
         /\ \A i \in 1 .. Len(history) : history'[i] = history[i]
         /\ history'[Len(history) + 1] = p
         /\ todo \in Seq(SubOps) /\ (todo # << >> => p = Head(todo))
         /\ todo' = subs \o (IF todo = << >> THEN << >> ELSE Tail(todo))
<1>1. /\ phase = "run" /\ history' = Append(history, p) /\ mesh' = mesh
      /\ todo' = subs \o (IF todo = << >> THEN << >> ELSE Tail(todo))
      /\ p \in Ops /\ p \in Current
  BY DEF Executed, Executes
<1>2. history \in Seq(Ops) /\ todo \in Seq(SubOps)
  BY DEF AgreeInv
<1>3. /\ Len(history) \in Nat /\ DOMAIN history = 1 .. Len(history)
      /\ \A i \in 1 .. Len(history) : history[i] \in Ops
      /\ Len(history') = Len(history) + 1 /\ DOMAIN history' = 1 .. (Len(history) + 1)
      /\ \A i \in 1 .. Len(history) : history'[i] = history[i]
      /\ history'[Len(history) + 1] = p
  BY <1>1, <1>2
<1>4. todo # << >> => p = Head(todo)
  BY <1>1 DEF Current
<1>5. Devices' = Devices
  BY <1>1 DEF Devices
<1> QED BY <1>1, <1>2, <1>3, <1>4, <1>5

\* What a ring attention has left to run stays at the head of the queue.
LEMMA TimelineNext ==
  ASSUME AgreeInv, Timeline, NEW p, NEW subs, Executed(p, subs), phase' # "raised"
  PROVE  Timeline'
<1> DEFINE N == Len(history)
           rest == IF todo = << >> THEN << >> ELSE Tail(todo)
<1>1. /\ N \in Nat /\ DOMAIN history = 1 .. N
      /\ \A i \in 1 .. N : history[i] \in Ops
      /\ Len(history') = N + 1 /\ DOMAIN history' = 1 .. (N + 1)
      /\ \A i \in 1 .. N : history'[i] = history[i]
      /\ history'[N + 1] = p
      /\ todo \in Seq(SubOps) /\ (todo # << >> => p = Head(todo))
      /\ todo' = subs \o rest
  BY ExecutedBooks
<1>2. rest \in Seq(SubOps)
  BY <1>1
<1>3. /\ p.kind = "RingAttention" => subs = Expansion(p)
      /\ p.kind \notin {"RingAttention", "OverlapRegion"} => subs = << >>
      /\ p \in Ops
  BY DEF Executed
<1>4. ASSUME NEW i \in 1 .. N, history[i].kind = "RingAttention"
      PROVE  Awaits(Expansion(history[i]), N + 1 - i, todo')
  <2> DEFINE e == Expansion(history[i])
             m == N - i
  <2>1. /\ Len(e) \in Nat /\ e \in Seq(SubOps) /\ m \in Nat
        /\ \A k \in 1 .. Len(e) : e[k].kind \notin {"RingAttention", "OverlapRegion"}
    BY <1>1, <1>4, RingAttentionIs
  <2>2. Awaits(e, m, todo)
    BY <1>1, <1>4 DEF Timeline
  <2>3. N + 1 - i = m + 1
    BY <1>1
  <2> HIDE DEF e, m, N
  <2>4. CASE m >= Len(e)
    <3>1. m + 1 >= Len(e) /\ m + 1 \in Nat
      BY <2>1, <2>4
    <3>2. Awaits(e, m + 1, todo')
      BY <2>1, <3>1, AwaitsNothing
    <3> QED BY <2>3, <3>2 DEF e
  <2>5. CASE m < Len(e)
    <3>1. todo # << >> /\ Head(todo) = e[m + 1] /\ Awaits(e, m + 1, Tail(todo))
      BY <1>1, <2>1, <2>2, <2>5, AwaitsNext
    <3>2. m + 1 \in 1 .. Len(e)
      BY <2>1, <2>5
    <3>3. p = e[m + 1] /\ subs = << >>
      BY <1>1, <1>3, <2>1, <3>1, <3>2
    <3>4. Tail(todo) \in Seq(SubOps) /\ rest = Tail(todo)
      BY <1>1, <3>1
    <3>5. todo' = Tail(todo)
      BY <1>1, <3>3, <3>4
    <3> QED BY <2>3, <3>1, <3>5 DEF e
  <2> QED BY <2>1, <2>4, <2>5
<1>5. ASSUME p.kind = "RingAttention" PROVE Awaits(Expansion(p), 0, todo')
  <2>1. Expansion(p) \in Seq(SubOps) /\ todo' = Expansion(p) \o rest
    BY <1>1, <1>3, <1>5, RingAttentionIs
  <2> HIDE DEF rest
  <2> QED BY <1>2, <2>1, AwaitsFirst
<1>6. ASSUME NEW i \in DOMAIN history', history'[i].kind = "RingAttention"
      PROVE  Awaits(Expansion(history'[i]), Len(history') - i, todo')
  <2>1. CASE i = N + 1
    <3>1. Len(history') - i = 0 /\ history'[i] = p
      BY <1>1, <2>1
    <3> QED BY <1>5, <1>6, <3>1
  <2>2. CASE i # N + 1
    <3>1. i \in 1 .. N /\ history'[i] = history[i] /\ Len(history') = N + 1
      BY <1>1, <2>2
    <3> QED BY <1>4, <1>6, <3>1
  <2> QED BY <2>1, <2>2
<1> QED BY <1>6 DEF Timeline

\* What no operation has written stays the device's own.
LEMMA OwnNext ==
  ASSUME AgreeInv, OwnUnlessWritten, NEW p, NEW subs, Executed(p, subs), phase' # "raised"
  PROVE  OwnUnlessWritten'
<1> DEFINE N == Len(history)
<1>1. /\ N \in Nat /\ DOMAIN history = 1 .. N /\ DOMAIN history' = 1 .. (N + 1)
      /\ \A i \in 1 .. N : history'[i] = history[i]
      /\ history'[N + 1] = p /\ Devices' = Devices
  BY ExecutedBooks
<1>2. Kept(p)
  BY OpsWellFormed, ExecuteKept DEF Executed
<1>3. ASSUME NEW d \in Devices, NEW n \in DOMAIN tensors'[d],
             \A j \in DOMAIN history' : n \notin Writes(history'[j])
      PROVE  <<n, d>> \in tensors'[d][n].from
  <2>1. n \notin Writes(p) /\ \A j \in DOMAIN history : n \notin Writes(history[j])
    BY <1>1, <1>3
  <2>2. n \in DOMAIN tensors[d] /\ tensors'[d][n] = tensors[d][n]
    BY <1>2, <1>3, <2>1 DEF Kept
  <2> QED BY <2>1, <2>2 DEF OwnUnlessWritten
<1>4. \A o : Writes(o)' = Writes(o)
  BY DEF Writes
<1> QED BY <1>1, <1>3, <1>4 DEF OwnUnlessWritten

\* A ring attention that had begun before the operation.
LEMMA ProgressOld ==
  ASSUME AgreeInv, Timeline, Progress, NEW p, NEW subs, Executed(p, subs), phase' # "raised",
         ~warned', NEW i \in Nat, i \in 1 .. Len(history), NEW o, o = history[i],
         Applies(o, i)', NEW m \in Nat, m = Len(history) - i
  PROVE  /\ Going(o, m + 1)'
         /\ m + 1 >= Len(Expansion(o)) /\ NotSince(o, i)' => MeetsAll(o)'
<1> DEFINE N == Len(history)
           l == Len(Expansion(o))
<1>1. /\ N \in Nat /\ DOMAIN history = 1 .. N
      /\ \A j \in 1 .. N : history[j] \in Ops
      /\ Len(history') = N + 1 /\ DOMAIN history' = 1 .. (N + 1)
      /\ \A j \in 1 .. N : history'[j] = history[j]
      /\ history'[N + 1] = p /\ mesh' = mesh /\ Devices' = Devices
      /\ todo \in Seq(SubOps) /\ (todo # << >> => p = Head(todo))
  BY ExecutedBooks
<1>2. Applies(o, i)
  BY <1>1 DEF Applies, Writes
<1>3. /\ l \in Nat \ {0, 1} /\ Expansion(o) \in Seq(SubOps) /\ RingNames(o)
      /\ o.ring_size = NumDevices(mesh)
  BY <1>1, <1>2, RingAttentionIs DEF Applies
<1>4. /\ Going(o, m)
      /\ m >= l /\ NotSince(o, i) => MeetsAll(o)
  BY <1>1, <1>2 DEF Progress
<1>5. m = N - i
  OBVIOUS
<1>6. Awaits(Expansion(o), m, todo)
  BY <1>1, <1>2 DEF Timeline, Applies
<1>7. NumDevices(mesh) \in Nat \ {0}
  BY MeshHasDevices DEF AgreeInv
<1>8. CASE m < l
  <2>1. p = Expansion(o)[m + 1]
    BY <1>1, <1>3, <1>6, <1>8, AwaitsNext
  <2>2. /\ \/ PerDevice(p) \/ Send(p) \/ Recv(p) \/ SendAsync(p) \/ RecvAsync(p)
           \/ Wait(p) \/ WaitAll(p) \/ RingRotate(p) \/ TopKGate(p)
           \/ RingAttention(p) \/ OverlapRegion(p)
    BY DEF Executed
  <2>3. /\ m + 1 < l => Met(o, m + 1)'
        /\ m + 1 = l => MeetsAll(o)'
    BY <1>1, <1>3, <1>4, <1>5, <1>7, <1>8, <2>1, <2>2, RingStep
  <2>4. Going(o, m + 1)'
    <3>1. m + 1 # 0 /\ (m + 1 \in 1 .. (l - 1) => m + 1 < l)
      BY <1>3, <1>5
    <3> QED BY <2>3, <3>1 DEF Going
  <2>5. m + 1 >= l => m + 1 = l
    BY <1>3, <1>5, <1>8
  <2> QED BY <1>5, <2>3, <2>4, <2>5
<1>9. CASE m >= l
  <2>1. Going(o, m + 1)'
    <3>1. m + 1 # 0 /\ m + 1 \notin 1 .. (l - 1)
      BY <1>3, <1>5, <1>9
    <3> QED BY <3>1 DEF Going
  <2>2. ASSUME NotSince(o, i)' PROVE MeetsAll(o)'
    <3>1. \A j \in (i + l + 1) .. (N + 1) : o.out \notin Writes(history'[j])
      BY <1>1, <2>2 DEF NotSince, Writes
    <3>2. i + l + 1 \in Nat /\ i + l + 1 <= N + 1
      BY <1>1, <1>3, <1>9
    <3>3. \A j \in (i + l + 1) .. N : history'[j] = history[j]
      BY <1>1, <1>3
    <3>4. NotSince(o, i)
      <4>1. \A j \in (i + l + 1) .. N : j \in (i + l + 1) .. (N + 1)
        BY <1>1, <3>2
      <4> HIDE DEF N, l
      <4> QED BY <3>1, <3>3, <4>1 DEF NotSince, N, l
    <3>5. o.out \notin Writes(p)
      <4>1. N + 1 \in (i + l + 1) .. (N + 1)
        BY <1>1, <3>2
      <4> QED BY <1>1, <3>1, <4>1
    <3>6. Kept(p)
      BY OpsWellFormed, ExecuteKept DEF Executed
    <3> QED BY <1>1, <1>4, <1>9, <3>4, <3>5, <3>6, MeetsKept
  <2> QED BY <1>5, <2>1, <2>2
<1> QED BY <1>3, <1>5, <1>8, <1>9

\* Every ring attention advances by the operation, or has ended.
LEMMA ProgressNext ==
  ASSUME AgreeInv, Timeline, OwnUnlessWritten, Progress, NEW p, NEW subs, Executed(p, subs),
         phase' # "raised", ~warned'
  PROVE  Progress'
<1> DEFINE N == Len(history)
<1>1. /\ N \in Nat /\ DOMAIN history = 1 .. N
      /\ Len(history') = N + 1 /\ DOMAIN history' = 1 .. (N + 1)
      /\ \A j \in 1 .. N : history'[j] = history[j]
      /\ history'[N + 1] = p /\ mesh' = mesh /\ Devices' = Devices
  BY ExecutedBooks
<1>2. ASSUME NEW i \in Nat, i \in 1 .. (N + 1), NEW o, o = history'[i], Applies(o, i)',
             NEW m \in Nat, m = N + 1 - i
      PROVE  /\ Going(o, m)'
             /\ m >= Len(Expansion(o)) /\ NotSince(o, i)' => MeetsAll(o)'
  <2>1. CASE i = N + 1
    <3>1. /\ m = 0 /\ o = p /\ p.kind = "RingAttention" /\ p \in Ops
      BY <1>1, <1>2, <2>1 DEF Applies, Executed
    <3>2. /\ Len(Expansion(p)) \in Nat \ {0, 1}
          /\ p.ins[2] \in Range(p.ins) /\ p.ins[3] \in Range(p.ins)
      BY <3>1, RingAttentionIs
    <3>3. \A j \in DOMAIN history : Writes(history[j]) \cap Range(p.ins) = {}
      BY <1>1, <1>2, <2>1, <3>1 DEF Applies, Writes
    <3>4. tensors' = tensors
      BY <3>1, ActionOfKind DEF Executed, RingAttention, Ignored
    <3>5. Own(p)'
      <4>1. Own(p)
        BY <3>2, <3>3 DEF Own, OwnUnlessWritten, Has
      <4> QED BY <1>1, <3>4, <4>1 DEF Own, Has
    <3>6. Going(p, 0)'
      BY <3>5 DEF Going
    <3> QED BY <3>1, <3>2, <3>6
  <2>2. CASE i # N + 1
    <3>1. i \in 1 .. N /\ o = history[i] /\ m - 1 \in Nat /\ m - 1 = N - i
          /\ (m - 1) + 1 = m
      BY <1>1, <1>2, <2>2
    <3>2. /\ Going(o, (m - 1) + 1)'
          /\ (m - 1) + 1 >= Len(Expansion(o)) /\ NotSince(o, i)' => MeetsAll(o)'
      BY <1>2, <3>1, ProgressOld
    <3> QED BY <3>1, <3>2
  <2> QED BY <2>1, <2>2
<1>3. ASSUME NEW i \in Nat, i \in 1 .. (N + 1), NEW o, o = history'[i], Applies(o, i)'
      PROVE  (/\ Going(o, Len(history) - i)
              /\ Len(history) - i >= Len(Expansion(o)) /\ NotSince(o, i) => MeetsAll(o))'
  <2>1. PICK m \in Nat : m = N + 1 - i
    BY <1>1, <1>3
  <2>2. Len(history') - i = m
    BY <1>1, <2>1
  <2>3. /\ Going(o, m)'
        /\ m >= Len(Expansion(o)) /\ NotSince(o, i)' => MeetsAll(o)'
    BY <1>2, <1>3, <2>1
  <2>4. Going(o, Len(history) - i)'
    BY <2>2, <2>3, Zenon DEF Going
  <2> QED BY <2>2, <2>3, <2>4
<1> QED BY <1>1, <1>3 DEF Progress

\* An operation keeps the invariant of ring attention.
LEMMA ExecuteRing == RingInv /\ ExecuteOp => RingInv'
<1> SUFFICES ASSUME RingInv, ExecuteOp PROVE RingInv'
  OBVIOUS
<1>1. QuietInv' /\ AgreeInv
  BY ExecuteQuiet DEF RingInv, QuietInv
<1>2. PICK p, subs : Executed(p, subs)
  BY <1>1, ExecutedIs
<1> SUFFICES ASSUME phase' # "raised"
             PROVE  Timeline' /\ OwnUnlessWritten' /\ (~warned' => Progress')
  BY <1>1 DEF RingInv
<1>3. phase = "run" /\ Timeline /\ OwnUnlessWritten
  BY <1>1, <1>2, ExecutedBooks DEF RingInv
<1>4. warned => warned'
  BY <1>2 DEF Executed, PerDevice, Send, Recv, SendAsync, RecvAsync, Wait, WaitAll, RingRotate,
              TopKGate, RingAttention, OverlapRegion, Moved, Raised, Ignored, RaisedIfStrict
<1>5. Timeline' /\ OwnUnlessWritten'
  BY <1>1, <1>2, <1>3, TimelineNext, OwnNext
<1>6. ASSUME ~warned' PROVE Progress'
  <2>1. Progress
    BY <1>3, <1>4, <1>6 DEF RingInv
  <2> QED BY <1>1, <1>2, <1>3, <1>6, <2>1, ProgressNext
<1> QED BY <1>5, <1>6

\* So does every step.
LEMMA NextRing == RingInv /\ [Next]_vars => RingInv'
<1> SUFFICES ASSUME RingInv, [Next]_vars PROVE RingInv'
  OBVIOUS
<1>1. QuietInv'
  BY NextQuiet DEF RingInv
<1>2. CASE Register \/ ResetDevices
  <2>1. phase' = "setup"
    BY <1>2 DEF Register, ResetDevices
  <2> QED BY <1>1, <2>1 DEF RingInv
<1>3. CASE RunProgram
  <2>1. phase = "setup" /\ history' = << >> /\ UNCHANGED <<mesh, tensors>>
    BY <1>3 DEF RunProgram
  <2>2. AsRegistered
    BY <2>1 DEF RingInv, QuietInv
  <2>3. \A d \in Devices : \A n \in DOMAIN tensors[d] : <<n, d>> \in tensors[d][n].from
    <3> SUFFICES ASSUME NEW d \in Devices, NEW n \in DOMAIN tensors[d]
                 PROVE  <<n, d>> \in tensors[d][n].from
      OBVIOUS
    <3>1. PICK k \in 1 .. registered :
            tensors[d][n] = [shape |-> setup[k].shape, pl |-> setup[k].pl, from |-> {<<n, d>>}]
      BY <2>2 DEF AsRegistered
    <3>2. tensors[d][n].from = {<<n, d>>}
      BY <3>1
    <3> QED BY <3>2
  <2>4. Timeline' /\ Progress'
    BY <2>1 DEF Timeline, Progress
  <2>5. OwnUnlessWritten'
    BY <2>1, <2>3 DEF OwnUnlessWritten, Devices
  <2> QED BY <1>1, <2>4, <2>5 DEF RingInv
<1>4. CASE EndProgram \/ UNCHANGED vars
  <2>1. /\ UNCHANGED <<mesh, tensors, history, todo, warned>>
        /\ phase' \in {"run", "done"} => phase \in {"run", "done"}
    BY <1>4 DEF EndProgram, vars
  <2>2. Devices' = Devices
    BY <2>1 DEF Devices
  <2>3. /\ Timeline => Timeline'
        /\ OwnUnlessWritten => OwnUnlessWritten'
    BY <2>1, <2>2 DEF Timeline, OwnUnlessWritten
  <2>4. Progress => Progress'
    <3> SUFFICES ASSUME Progress, NEW i \in DOMAIN history, NEW o, o = history[i],
                        Applies(o, i)'
                 PROVE  (/\ Going(o, Len(history) - i)
                         /\ Len(history) - i >= Len(Expansion(o)) /\ NotSince(o, i)
                              => MeetsAll(o))'
      BY <2>1, Zenon DEF Progress
    <3>1. Applies(o, i)
      BY <2>1 DEF Applies
    <3>2. /\ Going(o, Len(history) - i)
          /\ Len(history) - i >= Len(Expansion(o)) /\ NotSince(o, i) => MeetsAll(o)
      BY <3>1 DEF Progress
    <3>3. NotSince(o, i)' => NotSince(o, i)
      BY <2>1 DEF NotSince
    <3>4. MeetsAll(o) => MeetsAll(o)'
      BY <2>1, <2>2 DEF MeetsAll, Has
    <3>5. Own(o) => Own(o)'
      BY <2>1, <2>2 DEF Own, Has
    <3>6. ASSUME NEW m, Met(o, m) PROVE Met(o, m)'
      BY <2>1, <2>2, <3>6 DEF Met, Carries, Has
    <3>7. ASSUME NEW m, Going(o, m) PROVE Going(o, m)'
      BY <3>5, <3>6, <3>7 DEF Going
    <3>8. PICK m : m = Len(history) - i
      OBVIOUS
    <3>9. Going(o, Len(history) - i)'
      <4>1. Going(o, m)'
        BY <3>2, <3>7, <3>8
      <4>2. Len(history') - i = m
        BY <2>1, <3>8
      <4> QED BY <4>1, <4>2, Zenon DEF Going
    <3> QED BY <2>1, <3>2, <3>3, <3>4, <3>9
  <2> QED BY <1>1, <2>1, <2>3, <2>4 DEF RingInv
<1> QED BY <1>2, <1>3, <1>4, ExecuteRing DEF Next

\* Ring attention on all devices, of inputs that are not computed before it:
\* when it has ended, without a warning, every device's output has been
\* computed from the keys and values of all devices, for any number of them,
\* wherever it is in a program or in a region of one.
THEOREM RingAttentionMeetsAll == Spec => []RingMeetsAll
<1>1. RingInv => RingMeetsAll
  <2> SUFFICES ASSUME RingInv, todo = << >>, phase \in {"run", "done"}, ~warned,
                      NEW i \in DOMAIN history, NEW o, o = history[i],
                      Applies(o, i), NotSince(o, i)
               PROVE  MeetsAll(o)
    BY DEF RingMeetsAll, Applies, NotSince
  <2>1. /\ Awaits(Expansion(o), Len(history) - i, << >>)
        /\ Len(history) - i >= Len(Expansion(o)) /\ NotSince(o, i) => MeetsAll(o)
    BY DEF RingInv, Timeline, Progress, Applies
  <2>2. history \in Seq(Ops) /\ i \in 1 .. Len(history) /\ Len(history) \in Nat
    BY DEF RingInv, QuietInv, AgreeInv
  <2>3. Len(Expansion(o)) \in Nat
    BY <2>2, RingAttentionIs DEF Applies
  <2>4. Len(history) - i >= Len(Expansion(o))
    <3> SUFFICES ASSUME Len(history) - i < Len(Expansion(o)) PROVE FALSE
      BY <2>2, <2>3
    <3>1. 1 \in 1 .. (Len(Expansion(o)) - (Len(history) - i))
      BY <2>2, <2>3
    <3>2. 1 \in 1 .. Len(<< >>)
      BY <2>1, <3>1 DEF Awaits
    <3> QED BY <3>2
  <2> QED BY <2>1, <2>4
<1>2. Init => RingInv
  BY InitQuiet DEF Init, RingInv
<1> QED BY <1>1, <1>2, NextRing, PTL DEF Spec

-----------------------------------------------------------------------------
(***************************************************************************)
(* The part of a tensor that a device holds is found by its coordinates on *)
(* the mesh dimensions that shard the tensor.                              *)
(***************************************************************************)
SliceOf(M, sh, pl, d) == [at |-> Offsets(M, sh, pl, d), size |-> LocalShape(M, sh, pl)]

Sharding(pl) == ShardDims(pl, 0) \cup ShardDims(pl, 1)

OnMesh(M, pl, d) == Sharding(pl) = {} \/ d \in Range(M.device_ids)

\* An index is in one of L equal parts: the one its quotient names.
LEMMA PartOf ==
  ASSUME NEW L \in Nat \ {0}, NEW n \in Nat, n % L = 0, NEW v \in 0 .. (n - 1)
  PROVE  /\ v \div (n \div L) \in 0 .. (L - 1)
         /\ \A c \in Int : v \in (c * (n \div L)) .. (c * (n \div L) + (n \div L) - 1)
                             <=> c = v \div (n \div L)
<1> DEFINE u == n \div L
           q == v \div u
           r == v % u
<1>1. u \in Int /\ n = L * u
  BY DivMod
<1>2. u \in Nat \ {0}
  <2> HIDE DEF u
  <2>1. ASSUME u <= 0 PROVE FALSE
    <3>1. L * u <= 0
      BY <1>1, <2>1
    <3> QED BY <1>1, <3>1
  <2> QED BY <1>1, <2>1
<1> HIDE DEF u
<1>3. q \in Int /\ r \in Int /\ v = u * q + r /\ 0 <= r /\ r < u
  BY <1>2, DivMod
<1> HIDE DEF q, r
<1>4. q \in 0 .. (L - 1)
  <2>1. ASSUME q <= -1 PROVE FALSE
    <3>1. u * q <= u * (-1)
      BY <1>2, <1>3, <2>1
    <3>2. u * q \in Int
      BY <1>2, <1>3
    <3> QED BY <1>2, <1>3, <3>1, <3>2
  <2>2. ASSUME q >= L PROVE FALSE
    <3>1. u * q >= u * L
      BY <1>2, <1>3, <2>2
    <3>2. u * q \in Int /\ u * L = n
      BY <1>1, <1>2, <1>3
    <3> QED BY <1>2, <1>3, <3>1, <3>2
  <2> QED BY <1>3, <2>1, <2>2
<1>5. ASSUME NEW c \in Int PROVE v \in (c * u) .. (c * u + u - 1) <=> c = q
  <2>1. c * u = u * c /\ u * c \in Int /\ u * q \in Int
    BY <1>2, <1>3
  <2>2. ASSUME c = q PROVE v \in (c * u) .. (c * u + u - 1)
    BY <1>2, <1>3, <2>1, <2>2
  <2>3. ASSUME v \in (c * u) .. (c * u + u - 1) PROVE c = q
    <3>1. v - u * c \in Int /\ 0 <= v - u * c /\ v - u * c < u
      BY <1>2, <2>1, <2>3
    <3>2. v = u * c + (v - u * c)
      BY <2>1
    <3> DEFINE s == v - u * c
    <3> HIDE DEF s
    <3>3. s \in Int /\ 0 <= s /\ s < u /\ v = u * c + s
      BY <3>1, <3>2 DEF s
    <3>4. (u * c + s) \div u = c
      BY <1>2, <3>3, DivIs
    <3>5. (u * q + r) \div u = q
      BY <1>2, <1>3, DivIs
    <3> QED BY <1>3, <3>3, <3>4, <3>5
  <2> QED BY <2>2, <2>3
<1> QED BY <1>4, <1>5 DEF q, u

\* A set of mesh dimensions with at most one element.
LEMMA AtMostOne ==
  ASSUME NEW S \in SUBSET MeshDims, Cardinality(S) <= 1
  PROVE  \E m \in MeshDims : S \subseteq {m}
<1>1. IsFiniteSet(S)
  BY DimsFinite
<1>2. CASE S = {}
  <2>1. 0 \in MeshDims
    BY MeshAssumption DEF MeshDims
  <2> QED BY <1>2, <2>1
<1>3. ASSUME NEW m \in S PROVE S \subseteq {m}
  <2>1. IsFiniteSet(S \ {m}) /\ Cardinality(S \ {m}) = Cardinality(S) - 1
    BY <1>1, FS_RemoveElement
  <2>2. Cardinality(S) \in Nat /\ Cardinality(S \ {m}) \in Nat
    BY <1>1, <2>1, FS_CardinalityType
  <2>3. Cardinality(S \ {m}) = 0
    BY <2>1, <2>2
  <2>4. S \ {m} = {}
    BY <2>1, <2>3, FS_EmptySet
  <2> QED BY <2>4
<1> QED BY <1>2, <1>3

\* One dimension of a tensor: the coordinate that holds an index of it.
LEMMA HeldAlong ==
  ASSUME NEW M, IsMesh(M), NEW sh \in [TensorDims -> Nat], NEW pl \in Placements,
         NEW k \in TensorDims, sh[k] % Parts(M, pl, k) = 0, Cardinality(ShardDims(pl, k)) <= 1,
         NEW v \in 0 .. (sh[k] - 1)
  PROVE  \E a \in Coords(M) : \A d \in Places(M) : OnMesh(M, pl, d) =>
           (v \in Offsets(M, sh, pl, d)[k] .. (Offsets(M, sh, pl, d)[k]
                                                + LocalShape(M, sh, pl)[k] - 1)
              <=> \A m \in ShardDims(pl, k) : DeviceToCoord(M, d)[m] = a[m])
<1> DEFINE S == ShardDims(pl, k)
           z == [m \in MeshDims |-> 0]
<1>1. S \subseteq MeshDims /\ IsFiniteSet(S) /\ Parts(M, pl, k) = Product(M.shape, S)
  BY DimsFinite DEF ShardDims, Parts, Product
<1>2. z \in Coords(M)
  BY DEF Coords, IsMesh
<1>3. CASE S = {}
  <2>1. Parts(M, pl, k) = 1
    BY <1>1, <1>3, ProductChosen
  <2>2. sh[k] \div 1 = sh[k]
    OBVIOUS
  <2>3. \A d : Offsets(M, sh, pl, d)[k] = 0 /\ LocalShape(M, sh, pl)[k] = sh[k]
    BY <1>3, <2>1, <2>2 DEF Offsets, LocalShape
  <2>4. v \in 0 .. (0 + sh[k] - 1)
    OBVIOUS
  <2> QED BY <1>2, <1>3, <2>3, <2>4
<1>4. CASE S # {}
  <2>1. PICK m \in MeshDims : S = {m}
    BY <1>1, <1>4, AtMostOne
  <2> DEFINE L == M.shape[m]
             u == sh[k] \div L
             a == [z EXCEPT ![m] = v \div u]
  <2>2. L \in Nat \ {0}
    BY DEF IsMesh
  <2>3. Parts(M, pl, k) = L
    <3>1. Chosen(S) = m
      BY <2>1 DEF Chosen
    <3>2. S \ {Chosen(S)} = {} /\ Product(M.shape, {}) = 1
      BY <2>1, <3>1, FS_EmptySet, ProductChosen
    <3>3. Product(M.shape, S) = L * 1
      BY <1>1, <1>4, <3>1, <3>2, ProductChosen
    <3> QED BY <1>1, <2>2, <3>3
  <2>4. Max(S) = m
    <3>1. m \in Int
      BY MeshAssumption DEF MeshDims
    <3> QED BY <2>1, <3>1 DEF Max
  <2>5. \A d : /\ Offsets(M, sh, pl, d)[k] = DeviceToCoord(M, d)[m] * u
               /\ LocalShape(M, sh, pl)[k] = u
    BY <1>4, <2>3, <2>4 DEF Offsets, LocalShape
  <2>6. /\ v \div u \in 0 .. (L - 1)
        /\ \A c \in Int : v \in (c * u) .. (c * u + u - 1) <=> c = v \div u
    <3>1. sh[k] \in Nat /\ sh[k] % L = 0
      BY <2>3
    <3> HIDE DEF L
    <3> QED BY <2>2, <3>1, PartOf
  <2> HIDE DEF u
  <2>7. a \in Coords(M) /\ a[m] = v \div u
    BY <1>2, <2>6 DEF Coords
  <2>8. ASSUME NEW d \in Places(M), OnMesh(M, pl, d) PROVE DeviceToCoord(M, d)[m] \in Int
    <3>1. d \in Range(M.device_ids)
      BY <1>4, <2>8 DEF OnMesh, Sharding, TensorDims
    <3> DEFINE i == CHOOSE i \in DOMAIN M.device_ids : M.device_ids[i] = d
    <3>2. i \in DOMAIN M.device_ids
      BY <3>1 DEF Range
    <3>3. DeviceToCoord(M, d)[m] = ((i - 1) \div Stride(M, m)) % L
      BY DEF DeviceToCoord
    <3> HIDE DEF i, L
    <3>4. i - 1 \in Int
      BY <3>2 DEF IsMesh
    <3>5. Stride(M, m) \in Nat \ {0}
      BY StrideIs
    <3>6. (i - 1) \div Stride(M, m) \in Int
      BY <3>4, <3>5, DivMod
    <3> QED BY <2>2, <3>3, <3>6, DivMod
  <2> HIDE DEF a, S
  <2>9. \A d \in Places(M) : OnMesh(M, pl, d) =>
          (v \in Offsets(M, sh, pl, d)[k] .. (Offsets(M, sh, pl, d)[k]
                                               + LocalShape(M, sh, pl)[k] - 1)
             <=> \A e \in S : DeviceToCoord(M, d)[e] = a[e])
    <3> TAKE d \in Places(M)
    <3> HAVE OnMesh(M, pl, d)
    <3> DEFINE c == DeviceToCoord(M, d)[m]
    <3>1. c \in Int
      BY <2>8
    <3> HIDE DEF c
    <3>2. v \in (c * u) .. (c * u + u - 1) <=> c = a[m]
      BY <2>6, <2>7, <3>1
    <3> QED BY <2>1, <2>5, <3>2 DEF c
  <2> QED BY <2>7, <2>9 DEF S
<1> QED BY <1>3, <1>4

\* Both dimensions: an element is held at one set of coordinates.
LEMMA HeldAt ==
  ASSUME NEW M, IsMesh(M), NEW sh \in [TensorDims -> Nat], NEW pl \in Placements,
         Divides(M, sh, pl), SinglySharded(pl),
         NEW p \in (0 .. (sh[0] - 1)) \X (0 .. (sh[1] - 1))
  PROVE  \E a \in Coords(M) : \A d \in Places(M) : OnMesh(M, pl, d) =>
           (p \in Elements(SliceOf(M, sh, pl, d))
              <=> \A m \in Sharding(pl) : DeviceToCoord(M, d)[m] = a[m])
<1> DEFINE In(d, k, v) == v \in Offsets(M, sh, pl, d)[k] .. (Offsets(M, sh, pl, d)[k]
                                                             + LocalShape(M, sh, pl)[k] - 1)
           At(d, k, a) == \A m \in ShardDims(pl, k) : DeviceToCoord(M, d)[m] = a[m]
<1>1. p = <<p[1], p[2]>> /\ p[1] \in 0 .. (sh[0] - 1) /\ p[2] \in 0 .. (sh[1] - 1)
  OBVIOUS
<1>2. PICK a \in Coords(M) : \A d \in Places(M) : OnMesh(M, pl, d) => (In(d, 0, p[1]) <=> At(d, 0, a))
  <2>1. 0 \in TensorDims /\ sh[0] % Parts(M, pl, 0) = 0 /\ Cardinality(ShardDims(pl, 0)) <= 1
    BY DEF TensorDims, Divides, SinglySharded
  <2> QED BY <1>1, <2>1, HeldAlong
<1>3. PICK b \in Coords(M) : \A d \in Places(M) : OnMesh(M, pl, d) => (In(d, 1, p[2]) <=> At(d, 1, b))
  <2>1. 1 \in TensorDims /\ sh[1] % Parts(M, pl, 1) = 0 /\ Cardinality(ShardDims(pl, 1)) <= 1
    BY DEF TensorDims, Divides, SinglySharded
  <2> QED BY <1>1, <2>1, HeldAlong
<1> DEFINE c == [m \in MeshDims |-> IF m \in ShardDims(pl, 0) THEN a[m] ELSE b[m]]
<1>4. c \in Coords(M)
  BY DEF Coords
<1>5. ShardDims(pl, 0) \cap ShardDims(pl, 1) = {}
  BY DEF ShardDims, Shard
<1>6. \A d : (\A m \in Sharding(pl) : DeviceToCoord(M, d)[m] = c[m]) <=> At(d, 0, a) /\ At(d, 1, b)
  BY <1>5 DEF Sharding, ShardDims
<1>7. \A d : p \in Elements(SliceOf(M, sh, pl, d)) <=> In(d, 0, p[1]) /\ In(d, 1, p[2])
  BY <1>1 DEF Elements, SliceOf
<1> HIDE DEF In, At, c
<1> QED BY <1>2, <1>3, <1>4, <1>6, <1>7

\* Equally many devices hold each element.
LEMMA HeldEqually ==
  ASSUME NEW M, IsMesh(M), NEW sh \in [TensorDims -> Nat], NEW pl \in Placements,
         Divides(M, sh, pl), SinglySharded(pl), \A d \in Places(M) : OnMesh(M, pl, d)
  PROVE  \E c \in 1 .. NumDevices(M) :
           \A p \in (0 .. (sh[0] - 1)) \X (0 .. (sh[1] - 1)) :
             Cardinality({d \in Places(M) : p \in Elements(SliceOf(M, sh, pl, d))}) = c
<1> DEFINE D == Sharding(pl)
<1>1. PICK m \in MeshDims : ShardDims(pl, 0) \subseteq {m}
  BY AtMostOne DEF SinglySharded, TensorDims, ShardDims
<1>2. PICK n \in MeshDims : ShardDims(pl, 1) \subseteq {n}
  BY AtMostOne DEF SinglySharded, TensorDims, ShardDims
<1>3. D \in SUBSET {m, n}
  BY <1>1, <1>2 DEF Sharding
<1>4. D = {} \/ Places(M) \subseteq Range(M.device_ids)
  BY DEF OnMesh
<1> HIDE DEF D
<1>5. PICK c \in 1 .. NumDevices(M) : \A a \in Coords(M) : Cardinality(HoldersAt(M, D, a)) = c
  BY <1>3, <1>4, HoldersEqual
<1>6. ASSUME NEW p \in (0 .. (sh[0] - 1)) \X (0 .. (sh[1] - 1))
      PROVE  Cardinality({d \in Places(M) : p \in Elements(SliceOf(M, sh, pl, d))}) = c
  <2>1. PICK a \in Coords(M) : \A d \in Places(M) : OnMesh(M, pl, d) =>
          (p \in Elements(SliceOf(M, sh, pl, d)) <=> \A e \in D : DeviceToCoord(M, d)[e] = a[e])
    BY HeldAt DEF D
  <2>2. {d \in Places(M) : p \in Elements(SliceOf(M, sh, pl, d))} = HoldersAt(M, D, a)
    BY <2>1 DEF HoldersAt
  <2> QED BY <1>5, <2>2
<1> QED BY <1>6

-----------------------------------------------------------------------------
(***************************************************************************)
(* The slices that are called exact are those of the tensors' placements.  *)
(***************************************************************************)
IsSlice(s, t, d) == /\ s = SliceOf(mesh, t.shape, t.pl, d)
                    /\ SinglySharded(t.pl) /\ OnMesh(mesh, t.pl, d)

SlicesRight == \A d \in Devices : \A n \in DOMAIN tensors[d] :
                 <<d, n>> \in exact => IsSlice(slices[d][n], tensors[d][n], d)

SliceInv == TypeInv /\ SlicesRight

\* Slices do not change where tensors and their slices do not.
LEMMA SlicesStay ==
  ASSUME SlicesRight, mesh' = mesh, slices' = slices,
         \A d \in Devices : \A n \in DOMAIN tensors'[d] : <<d, n>> \in exact' =>
           /\ <<d, n>> \in exact /\ n \in DOMAIN tensors[d]
           /\ tensors'[d][n] = tensors[d][n]
  PROVE  SlicesRight'
<1>1. Devices' = Devices /\ \A s, t, d : IsSlice(s, t, d)' <=> IsSlice(s, t, d)
  BY DEF Devices, IsSlice
<1> QED BY <1>1 DEF SlicesRight

\* Nor when a tensor is stored whose slice is no longer called exact.
LEMMA SlicesStayIfStored ==
  ASSUME SlicesRight, mesh' = mesh, slices' = slices, NEW S, NEW n, NEW t,
         tensors' = Stored(S, n, t), exact' = exact \ (S \X {n})
  PROVE  SlicesRight'
<1> SUFFICES ASSUME NEW d \in Devices, NEW m \in DOMAIN tensors'[d], <<d, m>> \in exact'
             PROVE  /\ <<d, m>> \in exact /\ m \in DOMAIN tensors[d]
                    /\ tensors'[d][m] = tensors[d][m]
  BY SlicesStay
<1>1. <<d, m>> \in exact /\ (d \notin S \/ m # n)
  OBVIOUS
<1>2. CASE d \notin S
  BY <1>1, <1>2 DEF Stored
<1>3. CASE d \in S /\ m # n
  BY <1>1, <1>3 DEF Stored, Put
<1> QED BY <1>1, <1>2, <1>3

\* Offsets depend on what shards a dimension, and on its size.
LEMMA OffsetsAlike ==
  ASSUME NEW M, NEW sh, NEW sg, NEW pl, NEW ql, NEW d, NEW k \in TensorDims,
         ShardDims(pl, k) = ShardDims(ql, k), sh[k] = sg[k]
  PROVE  Offsets(M, sh, pl, d)[k] = Offsets(M, sg, ql, d)[k]
BY DEF Offsets

\* What is not sharded starts at 0, on any device.
LEMMA Unsharded ==
  ASSUME NEW pl, ~ShardedOn(pl, 0), ~ShardedOn(pl, 1)
  PROVE  /\ \A k \in TensorDims : ShardDims(pl, k) = {}
         /\ Sharding(pl) = {} /\ SinglySharded(pl)
         /\ \A M, sh, d : Offsets(M, sh, pl, d) = Rows(0, 0) /\ OnMesh(M, pl, d)
<1>1. \A k \in TensorDims : ShardDims(pl, k) = {}
  BY DEF ShardedOn, ShardDims, TensorDims
<1>2. Sharding(pl) = {}
  BY <1>1 DEF Sharding, TensorDims
<1>3. SinglySharded(pl)
  BY <1>1, FS_EmptySet DEF SinglySharded
<1> QED BY <1>1, <1>2, <1>3 DEF Offsets, Rows, OnMesh

\* Where a rule is right, it finds the offsets of the result's placements.
LEMMA RulesAreRight ==
  ASSUME SliceInv, NEW d \in Devices, NEW o, WellFormed(o), o.kind \notin OtherKinds,
         HasAll(d, o.ins), ~ApplyRaises(o, Ins(d, o)), RuleIsRight(d, o, Ins(d, o)),
         NEW r, r = Result(o, Ins(d, o))
  PROVE  /\ OffsetsOf(d, o) = Offsets(mesh, r.shape, r.pl, d)
         /\ SinglySharded(r.pl) /\ OnMesh(mesh, r.pl, d)
<1> DEFINE ins == Ins(d, o)
           out == Apply(o, Placed(ins))
           x   == ins[1]
           w   == ins[2]
           At(k) == slices[d][o.ins[k]].at
<1>1. /\ IsOp(o) /\ DOMAIN ins = DOMAIN o.ins /\ 1 \in DOMAIN o.ins
      /\ o.kind \in BinaryKinds => {1, 2} \subseteq DOMAIN o.ins
      /\ o.ins \in Seq(Range(o.ins))
  BY OwnOp DEF Ins, WellFormed, IsOp
<1>2. r.shape = OutShape(o, ins) /\ r.pl = out /\ out \in Placements
  <2>1. \A k \in DOMAIN o.ins : ins[k].pl \in Placements
    BY DEF SliceInv, TypeInv, Typed, AllTensors, IsTensor, HasAll, Has, Ins
  <2>2. Placed(ins) \in [DOMAIN o.ins -> Placements]
    BY <1>1, <2>1 DEF Placed
  <2>3. out \in Placements
    BY <1>1, <2>2, ApplyType
  <2> QED BY <2>3 DEF Result
<1>3. Placed(ins)[1] = x.pl /\ (2 \in DOMAIN o.ins => Placed(ins)[2] = w.pl)
  BY <1>1 DEF Placed
<1>4. /\ o.kind \notin NoSliceKinds
      /\ o.kind \notin ZeroOffset => \A k \in DOMAIN o.ins : <<d, o.ins[k]>> \in exact
      /\ o.kind = "MatMul" =>
           \A m \in MeshDims : <<x.pl[m], w.pl[m]>> \notin
                                 {<<"S0", "S1">>, <<"S1", "R">>, <<"S1", "P">>}
      /\ o.kind \in InheritAny => \A m \in MeshDims : x.pl[m] = "R" => w.pl[m] \in {"R", "P"}
      /\ o.kind \in ZeroOffset => ~ShardedOn(out, 0) /\ ~ShardedOn(out, 1)
      /\ o.kind = "Transpose"  => ~ShardedOn(x.pl, 0) /\ ~ShardedOn(x.pl, 1)
      /\ o.kind = "FlashAttention" => \A m \in MeshDims : out[m] = "P" => x.pl[m] \in {"R", "P"}
  BY DEF RuleIsRight
<1>5. ~Raises(o, Placed(ins)) /\ ~ShapesClash(o, ins)
  BY DEF ApplyRaises, ShapeRaises
<1>6. ASSUME o.kind \notin ZeroOffset, NEW k \in DOMAIN o.ins
      PROVE  /\ At(k) = Offsets(mesh, ins[k].shape, ins[k].pl, d)
             /\ SinglySharded(ins[k].pl) /\ OnMesh(mesh, ins[k].pl, d)
             /\ ins[k].shape \in [TensorDims -> Nat] /\ ins[k].pl \in Placements
             /\ o.ins[k] \in DOMAIN slices[d]
  <2>1. /\ <<d, o.ins[k]>> \in exact /\ o.ins[k] \in DOMAIN tensors[d]
        /\ ins[k] = tensors[d][o.ins[k]]
    BY <1>4, <1>6 DEF HasAll, Has, Ins
  <2>2. IsSlice(slices[d][o.ins[k]], ins[k], d)
    BY <2>1 DEF SliceInv, SlicesRight
  <2>3. IsTensor(ins[k])
    BY <2>1 DEF SliceInv, TypeInv, Typed, AllTensors
  <2>4. o.ins[k] \in DOMAIN slices[d]
    BY <2>1 DEF SliceInv, TypeInv, SlicesThere
  <2> QED BY <2>2, <2>3, <2>4 DEF IsSlice, SliceOf, IsTensor
<1> HIDE DEF ins, out, At
<1>7. CASE o.kind \in ZeroOffset
  <2>1. OffsetsOf(d, o) = Rows(0, 0)
    BY <1>7 DEF OffsetsOf, ZeroOffset, InheritAny
  <2> QED BY <1>2, <1>4, <1>7, <2>1, Unsharded
\* The result is sharded like the first input.
<1>8. ASSUME o.kind \notin ZeroOffset, OffsetsOf(d, o) = At(1), r.shape = x.shape,
             \A m \in MeshDims : \A k \in TensorDims : out[m] = Shard(k) <=> x.pl[m] = Shard(k)
      PROVE  /\ OffsetsOf(d, o) = Offsets(mesh, r.shape, r.pl, d)
             /\ SinglySharded(r.pl) /\ OnMesh(mesh, r.pl, d)
  <2>1. \A k \in TensorDims : ShardDims(out, k) = ShardDims(x.pl, k)
    BY <1>8 DEF ShardDims
  <2>2. Offsets(mesh, r.shape, r.pl, d) = Offsets(mesh, x.shape, x.pl, d)
    BY <1>2, <1>8, <2>1 DEF Offsets
  <2>3. SinglySharded(r.pl) /\ OnMesh(mesh, r.pl, d)
    BY <1>1, <1>2, <1>6, <1>8, <2>1 DEF SinglySharded, OnMesh, Sharding, TensorDims
  <2> QED BY <1>1, <1>6, <1>8, <2>2, <2>3
<1>9. CASE o.kind = "MatMul"
  <2>1. o.kind \notin ZeroOffset /\ o.kind \notin InheritAny /\ 2 \in DOMAIN o.ins
    BY <1>1, <1>9 DEF ZeroOffset, InheritAny, BinaryKinds
  <2>2. OffsetsOf(d, o) = Rows(At(1)[0], At(2)[1])
    BY <1>9, <2>1 DEF OffsetsOf, At
  <2>3. r.shape = Rows(x.shape[0], w.shape[1])
    BY <1>2, <1>9 DEF OutShape
  <2>4. out = [m \in MeshDims |-> MatMulPlacement(x.pl[m], w.pl[m])]
    BY <1>3, <1>9, <2>1 DEF Apply, out
  <2>5. ASSUME NEW m \in MeshDims
        PROVE  (out[m] = "S0" <=> x.pl[m] = "S0") /\ (out[m] = "S1" <=> w.pl[m] = "S1")
    <3>1. x.pl[m] \in PL /\ w.pl[m] \in PL
      BY <1>1, <1>6, <2>1 DEF Placements
    <3> QED BY <1>4, <1>9, <2>4, <3>1 DEF MatMulPlacement, PL
  <2>6. ShardDims(out, 0) = ShardDims(x.pl, 0) /\ ShardDims(out, 1) = ShardDims(w.pl, 1)
    BY <2>5 DEF ShardDims, Shard
  <2>7. r.shape[0] = x.shape[0] /\ r.shape[1] = w.shape[1]
    BY <2>3 DEF Rows, TensorDims
  <2>8. /\ Offsets(mesh, r.shape, r.pl, d)[0] = Offsets(mesh, x.shape, x.pl, d)[0]
        /\ Offsets(mesh, r.shape, r.pl, d)[1] = Offsets(mesh, w.shape, w.pl, d)[1]
    BY <1>2, <2>6, <2>7, OffsetsAlike DEF TensorDims
  <2>9. At(1) = Offsets(mesh, x.shape, x.pl, d) /\ At(2) = Offsets(mesh, w.shape, w.pl, d)
    BY <1>1, <1>6, <2>1
  <2>10. Offsets(mesh, r.shape, r.pl, d) = Rows(At(1)[0], At(2)[1])
    BY <2>8, <2>9 DEF Rows, Offsets, TensorDims
  <2>11. SinglySharded(r.pl)
    BY <1>1, <1>2, <1>6, <2>1, <2>6 DEF SinglySharded, TensorDims
  <2>12. OnMesh(mesh, r.pl, d)
    BY <1>1, <1>2, <1>6, <2>1, <2>6 DEF OnMesh, Sharding
  <2> QED BY <2>2, <2>10, <2>11, <2>12
<1>10. CASE o.kind \in InheritAny
  <2>1. o.kind \notin ZeroOffset /\ o.kind # "MatMul" /\ {1, 2} \subseteq DOMAIN o.ins
    BY <1>1, <1>10 DEF ZeroOffset, InheritAny, BinaryKinds
  <2>2. Min(SlicedIns(d, o)) = 1
    <3>1. SlicedIns(d, o) \subseteq Nat \ {0}
      BY <1>1 DEF SlicedIns
    <3>2. 1 \in SlicedIns(d, o)
      BY <1>1, <1>6, <2>1 DEF SlicedIns
    <3> HIDE DEF SlicedIns
    <3> QED BY <3>1, <3>2 DEF Min
  <2>3. OffsetsOf(d, o) = At(1)
    BY <1>10, <2>1, <2>2 DEF OffsetsOf, At
  <2>4. r.shape = x.shape
    BY <1>2, <1>10 DEF OutShape, InheritAny
  <2>5. /\ out = [m \in MeshDims |-> MergePlacement(x.pl[m], w.pl[m])]
        /\ \A m \in MeshDims : Mergeable(x.pl[m], w.pl[m])
    BY <1>3, <1>5, <1>10, <2>1 DEF Apply, Raises, InheritAny, out
  <2>6. ASSUME NEW m \in MeshDims, NEW k \in TensorDims
        PROVE  out[m] = Shard(k) <=> x.pl[m] = Shard(k)
    BY <1>4, <1>10, <2>5 DEF MergePlacement, Mergeable, Shard
  <2> QED BY <1>8, <2>1, <2>3, <2>4, <2>6
<1>11. CASE o.kind \in {"Unary", "Norm", "Transpose", "FlashAttention"}
  <2>1. o.kind \notin ZeroOffset /\ o.kind \notin InheritAny /\ o.kind # "MatMul"
    BY <1>11 DEF ZeroOffset, InheritAny
  <2>2. OffsetsOf(d, o) = At(1)
    BY <2>1 DEF OffsetsOf, At
  <2>3. CASE o.kind = "Transpose"
    <3>1. out = [m \in MeshDims |-> SwappedPlacement(x.pl[m])]
      BY <1>3, <2>3 DEF Apply, out
    <3>2. ~ShardedOn(x.pl, 0) /\ ~ShardedOn(x.pl, 1) /\ x.pl \in [MeshDims -> PL]
      BY <1>1, <1>4, <1>6, <2>1, <2>3 DEF Placements
    <3>3. ~ShardedOn(out, 0) /\ ~ShardedOn(out, 1)
      BY <3>1, <3>2 DEF ShardedOn, Shard, SwappedPlacement, PL
    <3>4. At(1) = Rows(0, 0)
      BY <1>1, <1>6, <2>1, <3>2, Unsharded
    <3> QED BY <1>2, <2>2, <3>3, <3>4, Unsharded
  <2>4. CASE o.kind # "Transpose"
    <3>1. r.shape = x.shape
      BY <1>2, <2>1, <2>4 DEF OutShape
    <3>2. ASSUME NEW m \in MeshDims, NEW k \in TensorDims
          PROVE  out[m] = Shard(k) <=> x.pl[m] = Shard(k)
      <4>1. CASE o.kind \in {"Unary", "Norm"}
        <5>1. out = x.pl
          BY <1>3, <4>1 DEF Apply, out
        <5> QED BY <5>1
      <4>2. CASE o.kind = "FlashAttention"
        <5>1. out = [e \in MeshDims |-> AttentionPlacement(x.pl, Placed(ins)[2], e)]
          BY <1>3, <4>2 DEF Apply, out
        <5>2. out[m] \in {"P", x.pl[m]}
          BY <5>1 DEF AttentionPlacement
        <5>3. out[m] = "P" => x.pl[m] \in {"R", "P"}
          BY <1>4, <4>2
        <5> QED BY <5>2, <5>3 DEF Shard
      <4> QED BY <1>11, <2>4, <4>1, <4>2
    <3> QED BY <1>8, <2>1, <2>2, <3>1, <3>2
  <2> QED BY <2>3, <2>4
<1>12. o.kind \in ZeroOffset \cup {"MatMul"} \cup InheritAny
                   \cup {"Unary", "Norm", "Transpose", "FlashAttention"}
  BY <1>1, <1>4 DEF IsOp, Kinds, UnaryKinds, BinaryKinds, NoSliceKinds, ZeroOffset, InheritAny
<1> QED BY <1>7, <1>9, <1>10, <1>11, <1>12

\* Executing device by device keeps the slices right.
LEMMA PerDeviceSlices ==
  ASSUME SliceInv, NEW o, WellFormed(o), PerDevice(o), NumDevices(mesh) \in Nat
  PROVE  SlicesRight'
<1> DEFINE stops   == {d \in Devices : Stops(d, o)}
           reached == {d \in Devices : Before(d, stops)}
           S       == {d \in reached : ~Missing(d, o)}
           res     == [d \in S |-> Result(o, Ins(d, o))]
           right   == {d \in S : RuleIsRight(d, o, Ins(d, o))}
<1>1. /\ tensors' = Stored(S, o.out, res) /\ o.kind \notin OtherKinds /\ mesh' = mesh
      /\ exact' = (exact \ (S \X {o.out})) \cup (right \X {o.out})
      /\ slices' = [d \in Devices |->
                     IF d \in S /\ SliceKnown(d, o)
                     THEN Put(slices[d], o.out,
                              [at |-> OffsetsOf(d, o),
                               size |-> LocalShape(mesh, res[d].shape, res[d].pl)])
                     ELSE slices[d]]
  BY DEF PerDevice, Executes
<1>2. \A d \in S : d \in Devices /\ ~Stops(d, o) /\ ~Missing(d, o)
  BY DEF Before, Devices
<1>3. \A d \in right : d \in S /\ RuleIsRight(d, o, Ins(d, o))
  OBVIOUS
<1>4. \A d \in S : res[d] = Result(o, Ins(d, o))
  OBVIOUS
<1> HIDE DEF S, res, right
<1>5. Devices' = Devices /\ \A s, t, d : IsSlice(s, t, d)' <=> IsSlice(s, t, d)
  BY <1>1 DEF Devices, IsSlice
<1> SUFFICES ASSUME NEW d \in Devices, NEW n \in DOMAIN tensors'[d], <<d, n>> \in exact'
             PROVE  IsSlice(slices'[d][n], tensors'[d][n], d)
  BY <1>5 DEF SlicesRight
<1>6. CASE d \in S /\ n = o.out
  <2>1. d \in right
    BY <1>1, <1>6
  <2>2. HasAll(d, o.ins) /\ ~ApplyRaises(o, Ins(d, o)) /\ RuleIsRight(d, o, Ins(d, o))
    BY <1>2, <1>3, <1>6, <2>1 DEF Stops, Missing
  <2>3. /\ OffsetsOf(d, o) = Offsets(mesh, res[d].shape, res[d].pl, d)
        /\ SinglySharded(res[d].pl) /\ OnMesh(mesh, res[d].pl, d)
    BY <1>1, <1>4, <1>6, <2>2, RulesAreRight
  <2>4. SliceKnown(d, o)
    <3>1. IsOp(o) /\ o.kind \notin NoSliceKinds
      BY <1>1, <2>2, OwnOp DEF RuleIsRight
    <3>2. CASE o.kind \in ZeroOffset
      BY <3>1, <3>2 DEF SliceKnown, NoSliceKinds, ZeroOffset, InheritAny
    <3>3. CASE o.kind \notin ZeroOffset
      <4>1. \A k \in DOMAIN o.ins : o.ins[k] \in DOMAIN slices[d]
        BY <2>2, <3>3 DEF RuleIsRight, SliceInv, TypeInv, SlicesThere
      <4>2. 1 \in SlicedIns(d, o) /\ (o.kind = "MatMul" => {1, 2} \subseteq SlicedIns(d, o))
        BY <3>1, <4>1 DEF SlicedIns, IsOp, BinaryKinds
      <4> QED BY <3>1, <3>3, <4>2 DEF SliceKnown, NoSliceKinds, ZeroOffset, InheritAny
    <3> QED BY <3>2, <3>3
  <2>5. slices'[d] = Put(slices[d], o.out, [at |-> OffsetsOf(d, o),
                           size |-> LocalShape(mesh, res[d].shape, res[d].pl)])
    BY <1>1, <1>6, <2>4
  <2>6. tensors'[d] = Put(tensors[d], o.out, res[d])
    BY <1>1, <1>6 DEF Stored
  <2>7. \A f, t : Put(f, n, t)[n] = t
    BY DEF Put
  <2>8. slices'[d][n] = SliceOf(mesh, res[d].shape, res[d].pl, d) /\ tensors'[d][n] = res[d]
    BY <1>6, <2>3, <2>5, <2>6, <2>7 DEF SliceOf
  <2> QED BY <2>3, <2>8 DEF IsSlice
<1>7. CASE ~(d \in S /\ n = o.out)
  <2>1. <<d, n>> \in exact
    BY <1>1, <1>3, <1>7
  <2>2. n \in DOMAIN tensors[d] /\ tensors'[d][n] = tensors[d][n]
    BY <1>1, <1>7 DEF Stored, Put
  <2>3. n \in DOMAIN slices[d]
    BY <2>1 DEF SliceInv, TypeInv, SlicesThere
  <2>4. slices'[d][n] = slices[d][n]
    BY <1>1, <1>7, <2>3 DEF Put
  <2> QED BY <2>1, <2>2, <2>4 DEF SliceInv, SlicesRight
<1> QED BY <1>6, <1>7

\* WaitAll writes its outputs only.
LEMMA WaitAllSlices ==
  ASSUME SlicesRight, NEW o, WellFormed(o), WaitAll(o)
  PROVE  SlicesRight'
<1>1. /\ tensors' = [d \in Devices |-> WaitedFor(d, o)] /\ mesh' = mesh
      /\ slices' = slices /\ exact' = exact \ (Devices \X Range(o.outs))
  BY DEF WaitAll, Executes
<1>2. Len(o.outs) \in Nat /\ \A k \in 1 .. Len(o.outs) : o.outs[k] \in Range(o.outs)
  BY DEF WaitAll, WellFormed, Range
<1>3. ASSUME NEW d \in Devices, NEW m, m \notin Range(o.outs), m \in DOMAIN WaitedFor(d, o)
      PROVE  m \in DOMAIN tensors[d] /\ WaitedFor(d, o)[m] = tensors[d][m]
  <2> DEFINE n == Len(o.outs)
             Old(g) == m \in DOMAIN g => m \in DOMAIN tensors[d] /\ g[m] = tensors[d][m]
  <2>1. PICK f : WaitSteps(d, o, n, f) /\ WaitedFor(d, o) = f[n]
    BY <1>2, WaitedForIs
  <2> DEFINE T == {k \in Nat : k <= n => Old(f[k])}
  <2>2. 0 \in T
    <3>1. f[0] = tensors[d]
      BY <1>2, <2>1 DEF WaitSteps
    <3> QED BY <3>1
  <2>3. ASSUME NEW k \in Nat, k \in T PROVE k + 1 \in T
    <3> SUFFICES ASSUME k + 1 <= n PROVE Old(f[k + 1])
      OBVIOUS
    <3>1. k + 1 \in 0 .. n /\ k + 1 # 0 /\ (k + 1) - 1 = k
      BY <1>2
    <3>2. f[k + 1] = Waiting(f[k], o, k + 1)
      BY <2>1, <3>1 DEF WaitSteps
    <3>3. Old(f[k]) /\ m # o.outs[k + 1]
      BY <1>2, <1>3, <2>3, <3>1
    <3> QED BY <3>2, <3>3 DEF Waiting, Put
  <2> HIDE DEF T
  <2>4. n \in T
    BY <1>2, <2>2, <2>3, Induction
  <2> QED BY <1>2, <1>3, <2>1, <2>4 DEF T
<1> SUFFICES ASSUME NEW d \in Devices, NEW m \in DOMAIN tensors'[d], <<d, m>> \in exact'
             PROVE  /\ <<d, m>> \in exact /\ m \in DOMAIN tensors[d]
                    /\ tensors'[d][m] = tensors[d][m]
  BY <1>1, SlicesStay
<1>4. <<d, m>> \in exact /\ m \notin Range(o.outs) /\ tensors'[d] = WaitedFor(d, o)
  BY <1>1
<1> QED BY <1>3, <1>4

\* The other operations write one or two tensors, whose slices are no longer exact.
LEMMA OtherSlices ==
  ASSUME SlicesRight, NEW o, mesh' = mesh,
         \/ Send(o) \/ Recv(o) \/ SendAsync(o) \/ RecvAsync(o) \/ Wait(o) \/ RingRotate(o)
         \/ TopKGate(o) \/ RingAttention(o) \/ OverlapRegion(o)
  PROVE  SlicesRight'
<1>1. ASSUME UNCHANGED <<tensors, slices, exact>> PROVE SlicesRight'
  BY <1>1, SlicesStay
<1>2. ASSUME NEW t, NEW dst, Moved(o, t, dst) PROVE SlicesRight'
  BY <1>2, SlicesStayIfStored DEF Moved, Unsliced
<1>3. CASE Send(o) \/ Recv(o) \/ SendAsync(o) \/ RecvAsync(o) \/ RingAttention(o) \/ OverlapRegion(o)
  <2>1. UNCHANGED <<tensors, slices, exact>> \/ \E t, dst : Moved(o, t, dst)
    BY <1>3 DEF Send, Recv, SendAsync, RecvAsync, RingAttention, OverlapRegion, Raised, Ignored,
                RaisedIfStrict
  <2> QED BY <1>1, <1>2, <2>1
<1>4. CASE Wait(o)
  <2>1. PICK S : /\ tensors' = Stored(S, o.out, [d \in S |-> tensors[d][o.ins[1]]])
                 /\ Unsliced(S, o.out)
    BY <1>4 DEF Wait
  <2> QED BY <2>1, SlicesStayIfStored DEF Unsliced
<1>5. CASE RingRotate(o)
  <2>1. /\ tensors' = Stored(DOMAIN Rotated(o), o.out, Rotated(o))
        /\ slices' = slices /\ exact' = exact \ ((DOMAIN Rotated(o)) \X {o.out})
    BY <1>5 DEF RingRotate, Unsliced
  <2> QED BY <2>1, SlicesStayIfStored
<1>6. CASE TopKGate(o)
  <2> DEFINE Indices(d) == Rows(tensors[d][o.ins[1]].shape[0], o.top_k)
             there == {d \in Devices : ~Missing(d, o)}
             stops == {d \in there : ~Divides(mesh, Indices(d), tensors[d][o.ins[1]].pl)}
             S     == {d \in there : Before(d, stops)}
             x(d)  == tensors[d][o.ins[1]]
             i(d)  == [shape |-> Indices(d), pl |-> x(d).pl, from |-> x(d).from]
  <2>1. /\ tensors' = [d \in Devices |->
             IF d \in S THEN Put(Put(tensors[d], o.indices_output, i(d)), o.out, x(d))
             ELSE tensors[d]]
        /\ slices' = slices /\ exact' = exact \ (S \X {o.indices_output, o.out})
    BY <1>6 DEF TopKGate
  <2> HIDE DEF S, x, i
  <2> SUFFICES ASSUME NEW d \in Devices, NEW m \in DOMAIN tensors'[d], <<d, m>> \in exact'
               PROVE  /\ <<d, m>> \in exact /\ m \in DOMAIN tensors[d]
                      /\ tensors'[d][m] = tensors[d][m]
    BY <2>1, SlicesStay
  <2> QED BY <2>1 DEF Put
<1> QED BY <1>3, <1>4, <1>5, <1>6

\* Every operation keeps the slices right.
LEMMA ExecuteSlices == SliceInv /\ ExecuteOp => SlicesRight'
<1> SUFFICES ASSUME SliceInv, NEW o \in Current,
                    \/ PerDevice(o) \/ Send(o) \/ Recv(o) \/ SendAsync(o) \/ RecvAsync(o)
                    \/ Wait(o) \/ WaitAll(o) \/ RingRotate(o) \/ TopKGate(o)
                    \/ RingAttention(o) \/ OverlapRegion(o)
             PROVE  SlicesRight'
  BY DEF ExecuteOp
<1>1. mesh' = mesh
  BY DEF PerDevice, Send, Recv, SendAsync, RecvAsync, Wait, WaitAll, RingRotate, TopKGate,
         RingAttention, OverlapRegion, Executes
<1>2. WellFormed(o) /\ NumDevices(mesh) \in Nat
  <2>1. o \in Ops
    BY DEF Current, Ops, SliceInv, TypeInv, AgreeInv
  <2> QED BY <2>1, OpsWellFormed, MeshHasDevices DEF SliceInv, TypeInv, AgreeInv
<1> QED BY <1>1, <1>2, PerDeviceSlices, WaitAllSlices, OtherSlices DEF SliceInv

\* A registration sets the slice with the tensor, or calls it exact no longer.
LEMMA RegisterSlices == SliceInv /\ Register => SlicesRight'
<1> SUFFICES ASSUME SliceInv, Register PROVE SlicesRight'
  OBVIOUS
<1> DEFINE r == setup[registered + 1]
           S == IF r.device_ids = {} THEN Devices ELSE r.device_ids
           placed == S \cap Devices \cap Range(mesh.device_ids)
           t == [d \in S |-> [shape |-> r.shape, pl |-> r.pl, from |-> {<<r.name, d>>}]]
<1>1. /\ mesh' = mesh /\ tensors' = Stored(S, r.name, t)
      /\ exact' = (exact \ (S \X {r.name}))
                    \cup (IF SinglySharded(r.pl) THEN placed \X {r.name} ELSE {})
      /\ slices' = [d \in Devices |->
                     IF d \in placed
                     THEN Put(slices[d], r.name, SliceOf(mesh, r.shape, r.pl, d))
                     ELSE slices[d]]
  BY DEF Register, SliceOf
<1>2. \A d \in S : t[d].shape = r.shape /\ t[d].pl = r.pl
  OBVIOUS
<1>3. \A d \in placed : d \in S /\ d \in Devices /\ d \in Range(mesh.device_ids)
  OBVIOUS
<1> HIDE DEF S, placed, t, r
<1>4. Devices' = Devices /\ \A s, u, d : IsSlice(s, u, d)' <=> IsSlice(s, u, d)
  BY <1>1 DEF Devices, IsSlice
<1> SUFFICES ASSUME NEW d \in Devices, NEW n \in DOMAIN tensors'[d], <<d, n>> \in exact'
             PROVE  IsSlice(slices'[d][n], tensors'[d][n], d)
  BY <1>4 DEF SlicesRight
<1>5. CASE d \in S /\ n = r.name
  <2>1. d \in placed /\ SinglySharded(r.pl)
    BY <1>1, <1>5
  <2>2. \A f, u : Put(f, n, u)[n] = u
    BY DEF Put
  <2>3. slices'[d][n] = SliceOf(mesh, r.shape, r.pl, d)
    BY <1>1, <1>5, <2>1, <2>2
  <2>4. tensors'[d][n] = t[d]
    BY <1>1, <1>5, <2>2 DEF Stored
  <2> QED BY <1>2, <1>3, <1>5, <2>1, <2>3, <2>4 DEF IsSlice, OnMesh
<1>6. CASE ~(d \in S /\ n = r.name)
  <2>1. <<d, n>> \in exact
    BY <1>1, <1>3, <1>6
  <2>2. n \in DOMAIN tensors[d] /\ tensors'[d][n] = tensors[d][n]
    BY <1>1, <1>6 DEF Stored, Put
  <2>3. n \in DOMAIN slices[d]
    BY <2>1 DEF SliceInv, TypeInv, SlicesThere
  <2>4. slices'[d][n] = slices[d][n]
    BY <1>1, <1>3, <1>6, <2>3 DEF Put
  <2> QED BY <2>1, <2>2, <2>4 DEF SliceInv, SlicesRight
<1> QED BY <1>5, <1>6

\* The slices stay right: a reset takes away the tensors, not the slices.
LEMMA NextSlices == SliceInv /\ [Next]_vars => SliceInv'
<1> SUFFICES ASSUME SliceInv, [Next]_vars PROVE SliceInv'
  OBVIOUS
<1>1. TypeInv'
  BY RegisterTyped, ControlTyped, ExecuteTyped DEF SliceInv, Next
<1>2. CASE RunProgram \/ EndProgram \/ UNCHANGED vars
  <2>1. UNCHANGED <<mesh, tensors, slices, exact>>
    BY <1>2 DEF RunProgram, EndProgram, vars
  <2>2. SlicesRight'
    BY <2>1, SlicesStay DEF SliceInv
  <2> QED BY <1>1, <2>2 DEF SliceInv
<1>3. CASE ResetDevices
  <2>1. tensors' = [d \in Devices |-> << >>] /\ mesh' = mesh
    BY <1>3 DEF ResetDevices
  <2>2. Devices' = Devices /\ \A d \in Devices : DOMAIN tensors'[d] = {}
    BY <2>1 DEF Devices
  <2> QED BY <1>1, <2>2 DEF SliceInv, SlicesRight
<1> QED BY <1>1, <1>2, <1>3, RegisterSlices, ExecuteSlices DEF SliceInv, Next

\* At first there are no tensors.
LEMMA InitSlices == Init => SliceInv
<1>1. Init => SlicesRight
  BY DEF Init, SlicesRight
<1> QED BY <1>1, InitTyped DEF SliceInv

(***************************************************************************)
(* Slices that are set by rules that are right for their placements tile   *)
(* the tensor, on any mesh whatever the order of its devices: a device is  *)
(* found by its coordinates, and each combination of those is as frequent. *)
(***************************************************************************)
THEOREM ExactSlicesTile == Spec => []SlicesTile
<1>1. SliceInv => SlicesTile
  <2> SUFFICES ASSUME SliceInv, NEW n \in Names,
                      \A d \in Devices : Has(d, n) /\ <<d, n>> \in exact /\ Alike(n, 0, d),
                      NEW t, t = tensors[0][n]
               PROVE  /\ \A d \in Devices : slices[d][n].size = LocalShape(mesh, t.shape, t.pl)
                      /\ \E c \in 1 .. NumDevices(mesh) :
                           \A p \in (0 .. (t.shape[0] - 1)) \X (0 .. (t.shape[1] - 1)) :
                             Copies(n, p) = c
    BY DEF SlicesTile
  <2>1. IsMesh(mesh) /\ NumDevices(mesh) \in Nat \ {0}
    BY MeshHasDevices DEF SliceInv, TypeInv, AgreeInv
  <2>2. 0 \in Devices /\ Devices = Places(mesh)
    BY <2>1 DEF Devices, Places
  <2>3. ASSUME NEW d \in Devices
        PROVE  slices[d][n] = SliceOf(mesh, t.shape, t.pl, d) /\ OnMesh(mesh, t.pl, d)
               /\ SinglySharded(t.pl)
    <3>1. IsSlice(slices[d][n], tensors[d][n], d)
      BY DEF SliceInv, SlicesRight, Has
    <3>2. tensors[d][n].shape = t.shape /\ tensors[d][n].pl = t.pl
      BY <2>2 DEF Alike
    <3> QED BY <3>1, <3>2 DEF IsSlice
  <2>4. IsTensor(t) /\ SinglySharded(t.pl)
    BY <2>2, <2>3 DEF SliceInv, TypeInv, Typed, AllTensors, Has
  <2>5. \E c \in 1 .. NumDevices(mesh) :
          \A p \in (0 .. (t.shape[0] - 1)) \X (0 .. (t.shape[1] - 1)) :
            Cardinality({d \in Places(mesh) : p \in Elements(SliceOf(mesh, t.shape, t.pl, d))}) = c
    BY <2>1, <2>2, <2>3, <2>4, HeldEqually DEF IsTensor
  <2>6. \A p : Copies(n, p)
               = Cardinality({d \in Places(mesh) : p \in Elements(SliceOf(mesh, t.shape, t.pl, d))})
    <3> TAKE p
    <3>1. {d \in Devices : p \in Elements(slices[d][n])}
            = {d \in Places(mesh) : p \in Elements(SliceOf(mesh, t.shape, t.pl, d))}
      BY <2>2, <2>3
    <3> QED BY <3>1 DEF Copies
  <2>7. \A d \in Devices : slices[d][n].size = LocalShape(mesh, t.shape, t.pl)
    <3>1. \A d : SliceOf(mesh, t.shape, t.pl, d).size = LocalShape(mesh, t.shape, t.pl)
      BY DEF SliceOf
    <3> QED BY <2>3, <3>1
  <2> QED BY <2>5, <2>6, <2>7
<1> QED BY <1>1, InitSlices, NextSlices, PTL DEF Spec

-----------------------------------------------------------------------------
(***************************************************************************)
(* The shape level of the solver.  The parts of a tensor on a line of      *)
(* devices, and sizes that a number of parts divides.                      *)
(***************************************************************************)
LEMMA ProductOfOnes ==
  ASSUME NEW f, NEW S, IsFiniteSet(S), \A x \in S : f[x] = 1
  PROVE  Product(f, S) = 1
<1> DEFINE Q == {n \in Nat : \A s \in SUBSET S : Cardinality(s) = n => Product(f, s) = 1}
<1>1. 0 \in Q
  <2>1. Product(f, {}) = 1
    BY FS_EmptySet, ProductChosen
  <2> QED BY <2>1, TakenOut
<1>2. ASSUME NEW n \in Nat, n \in Q PROVE n + 1 \in Q
  <2> SUFFICES ASSUME NEW s \in SUBSET S, Cardinality(s) = n + 1 PROVE Product(f, s) = 1
    OBVIOUS
  <2> DEFINE c == Chosen(s)
  <2>1. s # {} /\ c \in s /\ IsFiniteSet(s) /\ Cardinality(s \ {c}) = n
    BY TakenOut
  <2>2. Product(f, s) = f[c] * Product(f, s \ {c})
    BY <2>1, ProductChosen
  <2> HIDE DEF c
  <2>3. Product(f, s \ {c}) = 1 /\ f[c] = 1
    BY <1>2, <2>1
  <2> QED BY <2>2, <2>3
<1> HIDE DEF Q
<1>3. Nat \subseteq Q
  BY <1>1, <1>2, Induction
<1> QED BY <1>3, TakenOut DEF Q

\* A size that is a multiple of a number of parts is one of each factor.
LEMMA DividesFactor ==
  ASSUME NEW a \in Nat \ {0}, NEW b \in Nat \ {0}, NEW n \in Nat, n % (a * b) = 0
  PROVE  n % a = 0
<1> DEFINE q == n \div (a * b)
<1>1. a * b \in Nat \ {0}
  OBVIOUS
<1>2. q \in Int /\ n = (a * b) * q + (n % (a * b))
  BY <1>1, DivMod
<1> HIDE DEF q
<1>3. (a * b) * q = a * (b * q)
  BY <1>2
<1>4. b * q \in Int /\ n = a * (b * q) + 0
  BY <1>1, <1>2, <1>3
<1> DEFINE r == b * q
<1>5. r \in Int /\ n = a * r + 0
  BY <1>4
<1> HIDE DEF r
<1>6. (a * r + 0) % a = 0
  BY <1>5, DivIs
<1> QED BY <1>5, <1>6

\* Each mesh dimension that shards k divides the parts of k.
LEMMA PartsFactor ==
  ASSUME NEW M, IsMesh(M), NEW pl, NEW k, NEW m \in ShardDims(pl, k)
  PROVE  \E b \in Nat \ {0} : Parts(M, pl, k) = M.shape[m] * b
<1> DEFINE S == ShardDims(pl, k)
<1>1. S \subseteq MeshDims /\ IsFiniteSet(S) /\ IsFiniteSet(S \ {m}) /\ Parts(M, pl, k) = Product(M.shape, S)
  BY DimsFinite DEF ShardDims, Parts, Product
<1>2. \A x \in S : M.shape[x] \in Nat \ {0}
  BY <1>1 DEF IsMesh
<1> HIDE DEF S
<1>3. m \in S
  BY DEF S
<1>4. Product(M.shape, S) = M.shape[m] * Product(M.shape, S \ {m})
  BY <1>1, <1>2, <1>3, ProductTakes
<1>5. Product(M.shape, S \ {m}) \in Nat \ {0}
  BY <1>1, <1>2, ProductType
<1> QED BY <1>1, <1>4, <1>5

\* On a line of devices there is one part, or as many as devices.
LEMMA PartsInLine ==
  ASSUME NEW M, IsMesh(M), NEW pl, NEW k,
         \A m, e \in MeshDims : M.shape[m] > 1 /\ M.shape[e] > 1 => m = e
  PROVE  Parts(M, pl, k) = 1 \/ \E m \in ShardDims(pl, k) : Parts(M, pl, k) = M.shape[m]
<1> DEFINE S == ShardDims(pl, k)
<1>1. S \subseteq MeshDims /\ IsFiniteSet(S) /\ Parts(M, pl, k) = Product(M.shape, S)
  BY DimsFinite DEF ShardDims, Parts, Product
<1>2. \A x \in S : M.shape[x] \in Nat \ {0}
  BY <1>1 DEF IsMesh
<1> HIDE DEF S
<1>3. CASE \A x \in S : M.shape[x] = 1
  BY <1>1, <1>3, ProductOfOnes
<1>4. CASE \E x \in S : M.shape[x] # 1
  <2>1. PICK m \in S : M.shape[m] # 1
    BY <1>4
  <2>2. \A x \in S \ {m} : M.shape[x] = 1
    BY <1>1, <1>2, <2>1
  <2>3. IsFiniteSet(S \ {m})
    BY <1>1, DimsFinite
  <2>4. Product(M.shape, S \ {m}) = 1
    BY <2>2, <2>3, ProductOfOnes
  <2>5. Product(M.shape, S) = M.shape[m] * Product(M.shape, S \ {m})
    BY <1>1, <1>2, ProductTakes
  <2>6. M.shape[m] \in Nat
    BY <1>2
  <2>7. Product(M.shape, S) = M.shape[m]
    BY <2>4, <2>5, <2>6
  <2> QED BY <1>1, <2>7 DEF S
<1> QED BY <1>3, <1>4

\* Whether every dimension that shards k divides its size, one at a time.
EachDivides(M, shape, pl) ==
  \A m \in MeshDims : \A k \in TensorDims : pl[m] = Shard(k) => shape[k] % M.shape[m] = 0

\* Whole parts are whole for each mesh dimension; on a line this is the same.
LEMMA DividesEach ==
  ASSUME NEW M, IsMesh(M), NEW shape, NEW pl, \A k \in TensorDims : shape[k] \in Nat
  PROVE  /\ Divides(M, shape, pl) => EachDivides(M, shape, pl)
         /\ (\A m, e \in MeshDims : M.shape[m] > 1 /\ M.shape[e] > 1 => m = e) =>
              (EachDivides(M, shape, pl) => Divides(M, shape, pl))
<1>1. ASSUME Divides(M, shape, pl), NEW m \in MeshDims, NEW k \in TensorDims, pl[m] = Shard(k)
      PROVE  shape[k] % M.shape[m] = 0
  <2>1. m \in ShardDims(pl, k)
    BY <1>1 DEF ShardDims
  <2>2. PICK b \in Nat \ {0} : Parts(M, pl, k) = M.shape[m] * b
    BY <2>1, PartsFactor
  <2>3. shape[k] % (M.shape[m] * b) = 0 /\ shape[k] \in Nat /\ M.shape[m] \in Nat \ {0}
    BY <1>1, <2>2 DEF Divides, IsMesh
  <2> QED BY <2>3, DividesFactor
<1>2. ASSUME \A m, e \in MeshDims : M.shape[m] > 1 /\ M.shape[e] > 1 => m = e,
             EachDivides(M, shape, pl), NEW k \in TensorDims
      PROVE  shape[k] % Parts(M, pl, k) = 0
  <2>1. shape[k] \in Nat
    OBVIOUS
  <2>2. CASE Parts(M, pl, k) = 1
    BY <2>1, <2>2
  <2>3. CASE \E m \in ShardDims(pl, k) : Parts(M, pl, k) = M.shape[m]
    BY <1>2, <2>3 DEF EachDivides, ShardDims
  <2> QED BY <1>2, <2>2, <2>3, PartsInLine
<1> QED BY <1>1, <1>2 DEF Divides, EachDivides

\* Whole parts of a size that is not zero are not empty.
LEMMA WholeNotEmpty ==
  ASSUME IsMesh(mesh), NEW shape \in [TensorDims -> Nat], NEW pl, Divides(mesh, shape, pl),
         \A k \in TensorDims : shape[k] > 0
  PROVE  LocalPositive(shape, pl)
<1> SUFFICES ASSUME NEW k \in TensorDims PROVE shape[k] >= LocalParts(pl, k)
  BY DEF LocalPositive
<1> DEFINE p == Parts(mesh, pl, k)
<1>1. p \in Nat \ {0}
  <2>1. \A x \in ShardDims(pl, k) : mesh.shape[x] \in Nat \ {0}
    BY DEF IsMesh, ShardDims
  <2>2. IsFiniteSet(ShardDims(pl, k))
    BY DimsFinite DEF ShardDims
  <2>3. Product(mesh.shape, ShardDims(pl, k)) \in Nat \ {0}
    BY <2>1, <2>2, ProductType
  <2> QED BY <2>3 DEF Parts, Product
<1>2. shape[k] % p = 0 /\ shape[k] \in Nat /\ shape[k] > 0
  BY DEF Divides
<1> HIDE DEF p
<1>3. shape[k] < p => shape[k] % p = shape[k]
  BY <1>1, <1>2
<1>4. shape[k] >= p
  BY <1>1, <1>2, <1>3
<1>5. LocalParts(pl, k) \in Nat /\ LocalParts(pl, k) <= p
  <2>1. CASE MeshNdim <= 2
    BY <1>1, <2>1 DEF LocalParts, p
  <2>2. CASE MeshNdim > 2 /\ pl[0] = Shard(k)
    <3>1. LocalParts(pl, k) = mesh.shape[0] /\ 0 \in ShardDims(pl, k)
      BY <2>2, MeshAssumption DEF LocalParts, ShardDims, MeshDims
    <3>2. PICK b \in Nat \ {0} : p = mesh.shape[0] * b
      BY <3>1, PartsFactor DEF p
    <3>3. mesh.shape[0] \in Nat
      BY <3>1 DEF IsMesh, ShardDims
    <3> QED BY <3>1, <3>2, <3>3
  <2>3. CASE MeshNdim > 2 /\ pl[0] # Shard(k)
    BY <1>1, <2>3, MeshAssumption DEF LocalParts
  <2> QED BY <2>1, <2>2, <2>3, MeshAssumption
<1> QED BY <1>1, <1>2, <1>4, <1>5

-----------------------------------------------------------------------------
(***************************************************************************)
(* Solutions adds the constraints of one operation after the other.        *)
(***************************************************************************)
FirstSolutions(given) ==
  IF InputsWhole(given) /\ \A n \in DOMAIN given : LocalPositive(given[n].shape, given[n].pl)
  THEN {given} ELSE {}

NextSolutions(F, o) == UNION {Extended(s, o) : s \in F}

SolutionSteps(p, given, n, f) ==
  f = [i \in 0 .. n |-> IF i > 0 THEN NextSolutions(f[i - 1], p[i]) ELSE FirstSolutions(given)]

\* The solutions for 0, 1, ... operations exist.
LEMMA SolutionStepsExist ==
  ASSUME NEW p, NEW given, NEW n \in Nat
  PROVE  \E f : SolutionSteps(p, given, n, f)
<1> DEFINE S == {m \in Nat : \E f : SolutionSteps(p, given, m, f)}
<1>1. 0 \in S
  <2> DEFINE f == [k \in 0 .. 0 |-> FirstSolutions(given)]
  <2>1. SolutionSteps(p, given, 0, f)
    BY DEF SolutionSteps
  <2> QED BY <2>1
<1>2. ASSUME NEW m \in Nat, m \in S PROVE m + 1 \in S
  <2>1. PICK f : SolutionSteps(p, given, m, f)
    BY <1>2
  <2> DEFINE g == [k \in 0 .. (m + 1) |-> IF k <= m THEN f[k] ELSE NextSolutions(f[m], p[m + 1])]
  <2>2. \A k \in 0 .. (m + 1) :
          g[k] = IF k > 0 THEN NextSolutions(g[k - 1], p[k]) ELSE FirstSolutions(given)
    <3> TAKE k \in 0 .. (m + 1)
    <3>1. CASE k = 0
      BY <2>1, <3>1 DEF SolutionSteps
    <3>2. CASE k # 0 /\ k <= m
      <4>1. k \in 0 .. m /\ k - 1 \in 0 .. m /\ k > 0
        BY <3>2
      <4>2. g[k] = f[k] /\ g[k - 1] = f[k - 1]
        BY <4>1
      <4>3. f[k] = NextSolutions(f[k - 1], p[k])
        BY <2>1, <4>1 DEF SolutionSteps
      <4> QED BY <4>1, <4>2, <4>3
    <3>3. CASE k = m + 1
      BY <3>3
    <3> QED BY <3>1, <3>2, <3>3
  <2>3. g = [k \in 0 .. (m + 1) |-> g[k]]
    OBVIOUS
  <2> HIDE DEF g
  <2>4. SolutionSteps(p, given, m + 1, g)
    BY <2>2, <2>3 DEF SolutionSteps
  <2> QED BY <2>4
<1> HIDE DEF S
<1>3. Nat \subseteq S
  BY <1>1, <1>2, Induction
<1> QED BY <1>3 DEF S

\* Solutions is the last of these sets.
LEMMA SolutionsAre ==
  ASSUME NEW p, NEW given, Len(p) \in Nat
  PROVE  \E f : SolutionSteps(p, given, Len(p), f) /\ Solutions(p, given) = f[Len(p)]
<1> DEFINE f == CHOOSE f : SolutionSteps(p, given, Len(p), f)
<1>1. SolutionSteps(p, given, Len(p), f)
  BY SolutionStepsExist
<1>2. Solutions(p, given) = f[Len(p)]
  BY DEF Solutions, SolutionSteps, FirstSolutions, NextSolutions
<1> QED BY <1>1, <1>2

-----------------------------------------------------------------------------
(***************************************************************************)
(* What a device has when operations that write new names have run on it:  *)
(* the inputs g, and for each of the first m operations of h its result.   *)
(***************************************************************************)
From(t, o) == [k \in DOMAIN o.ins |-> t[o.ins[k]]]

OutsOf(h, i) == {h[j].out : j \in 1 .. i}

NotEmpty(shape) == \A k \in TensorDims : shape[k] \in Nat /\ shape[k] > 0

Whole(t) == /\ t.shape \in [TensorDims -> Nat] /\ NotEmpty(t.shape)
            /\ t.pl \in Placements /\ Divides(mesh, t.shape, t.pl)

Computed(t, o) == /\ ~ShapesClash(o, From(t, o))
                  /\ t[o.out].shape = OutShape(o, From(t, o))
                  /\ t[o.out].pl = Apply(o, Placed(From(t, o)))

Tracked(t, h, g, m) ==
  /\ DOMAIN t = DOMAIN g \cup OutsOf(h, m)
  /\ \A n \in DOMAIN g : t[n].shape = g[n].shape /\ t[n].pl = g[n].pl
  /\ \A n \in DOMAIN t : NotEmpty(t[n].shape)
  /\ \A i \in 1 .. m : /\ \A k \in DOMAIN h[i].ins : h[i].ins[k] \in DOMAIN g \cup OutsOf(h, i - 1)
                       /\ Computed(t, h[i])

\* What the result of an operation is not empty for.
LEMMA OutNotEmpty ==
  ASSUME NEW o, o.kind \in EncodedKinds, WellFormed(o), NEW ins,
         DOMAIN ins = DOMAIN o.ins, \A k \in DOMAIN o.ins : NotEmpty(ins[k].shape)
  PROVE  NotEmpty(OutShape(o, ins))
<1>1. 1 \in DOMAIN o.ins
  BY DEF WellFormed, EncodedKinds, Elementwise
<1>2. CASE o.kind = "MatMul"
  <2>1. 2 \in DOMAIN o.ins
    BY <1>2 DEF WellFormed, BinaryKinds
  <2>2. OutShape(o, ins) = Rows(ins[1].shape[0], ins[2].shape[1])
    BY <1>2 DEF OutShape
  <2>3. NotEmpty(ins[1].shape) /\ NotEmpty(ins[2].shape)
    BY <1>1, <2>1
  <2> QED BY <2>2, <2>3 DEF NotEmpty, Rows, TensorDims
<1>3. CASE o.kind # "MatMul"
  <2>1. OutShape(o, ins) = ins[1].shape
    BY <1>3 DEF OutShape, EncodedKinds, Elementwise
  <2> QED BY <1>1, <2>1
<1> QED BY <1>2, <1>3

\* One more operation.
LEMMA TrackedNext ==
  ASSUME NEW T, NEW h \in Seq(T), NEW o \in T, NEW g, NEW t, Tracked(t, h, g, Len(h)),
         o.out \notin DOMAIN t, \A k \in DOMAIN o.ins : o.ins[k] \in DOMAIN t,
         ~ShapesClash(o, From(t, o)), NotEmpty(OutShape(o, From(t, o))),
         NEW r, r.shape = OutShape(o, From(t, o)), r.pl = Apply(o, Placed(From(t, o)))
  PROVE  Tracked(Put(t, o.out, r), Append(h, o), g, Len(h) + 1)
<1> DEFINE n == Len(h)
           k == Append(h, o)
           u == Put(t, o.out, r)
<1>1. /\ n \in Nat /\ k[n + 1] = o
      /\ \A i \in 1 .. n : k[i] = h[i]
  OBVIOUS
<1>2. /\ DOMAIN u = DOMAIN t \cup {o.out} /\ u[o.out] = r
      /\ \A m \in DOMAIN t : u[m] = t[m]
  BY DEF Put
<1>3. DOMAIN t = DOMAIN g \cup OutsOf(h, n)
  BY DEF Tracked
<1> HIDE DEF n, k, u
<1>4. /\ \A i \in 0 .. n : OutsOf(k, i) = OutsOf(h, i)
      /\ OutsOf(k, n + 1) = OutsOf(h, n) \cup {o.out}
  <2>1. ASSUME NEW i \in 0 .. n PROVE OutsOf(k, i) = OutsOf(h, i)
    <3>1. \A j \in 1 .. i : k[j] = h[j]
      BY <1>1
    <3> QED BY <3>1 DEF OutsOf
  <2>2. OutsOf(k, n + 1) = OutsOf(k, n) \cup {o.out}
    <3>1. 1 .. (n + 1) = (1 .. n) \cup {n + 1}
      BY <1>1
    <3> QED BY <1>1, <3>1 DEF OutsOf
  <2>3. n \in 0 .. n
    BY <1>1
  <2> QED BY <2>1, <2>2, <2>3
<1>5. \A p : (\A x \in DOMAIN p.ins : p.ins[x] \in DOMAIN t) => From(u, p) = From(t, p)
  BY <1>2 DEF From
<1>6. ASSUME NEW i \in 1 .. (n + 1)
      PROVE  /\ \A x \in DOMAIN k[i].ins : k[i].ins[x] \in DOMAIN g \cup OutsOf(k, i - 1)
             /\ Computed(u, k[i])
  <2>1. CASE i = n + 1
    <3>1. k[i] = o /\ i - 1 = n /\ n \in 0 .. n
      BY <1>1, <2>1
    <3>2. From(u, o) = From(t, o)
      BY <1>5
    <3>3. Computed(u, o)
      BY <1>2, <3>2 DEF Computed
    <3> QED BY <1>3, <1>4, <3>1, <3>3
  <2>2. CASE i # n + 1
    <3>1. i \in 1 .. n /\ i - 1 \in 0 .. n /\ i \in 0 .. n /\ k[i] = h[i]
      BY <1>1, <2>2
    <3>2. /\ \A x \in DOMAIN h[i].ins : h[i].ins[x] \in DOMAIN g \cup OutsOf(h, i - 1)
          /\ Computed(t, h[i])
      BY <3>1 DEF Tracked, n
    <3>3. OutsOf(h, i - 1) \subseteq OutsOf(h, n)
      BY <1>1, <3>1 DEF OutsOf
    <3>4. From(u, h[i]) = From(t, h[i])
      BY <1>3, <1>5, <3>2, <3>3
    <3>5. h[i].out \in DOMAIN t
      BY <1>3, <3>1 DEF OutsOf
    <3>6. Computed(u, h[i])
      BY <1>2, <3>2, <3>4, <3>5 DEF Computed
    <3> QED BY <1>4, <3>1, <3>2, <3>6
  <2> QED BY <2>1, <2>2
<1>7. \A m \in DOMAIN g : u[m].shape = g[m].shape /\ u[m].pl = g[m].pl
  BY <1>2, <1>3 DEF Tracked
<1>8. \A m \in DOMAIN u : NotEmpty(u[m].shape)
  BY <1>2 DEF Tracked
<1>9. DOMAIN u = DOMAIN g \cup OutsOf(k, n + 1)
  BY <1>2, <1>3, <1>4
<1>10. Tracked(u, k, g, n + 1)
  BY <1>6, <1>7, <1>8, <1>9 DEF Tracked
<1> QED BY <1>10 DEF n, k, u

-----------------------------------------------------------------------------
(***************************************************************************)
(* What a solution says of the names N, if it says what device 0 has.      *)
(***************************************************************************)
View(t, N) == [n \in N |-> [shape |-> t[n].shape, pl |-> t[n].pl]]

Outcome(t, o) == [shape |-> OutShape(o, From(t, o)), pl |-> Apply(o, Placed(From(t, o)))]

\* The encoding has the placement rule of the operation where it is used.
HasRule(t, o) == /\ Demanded(o, From(t, o))
                 /\ EncodedPlacement(o, From(t, o)) = Apply(o, Placed(From(t, o)))

\* The constraints of an operation extend it by what the operation computes,
\* unless the shapes clash or a part would be empty.
LEMMA ViewExtended ==
  ASSUME NEW t, NEW N, NEW o, o.kind \in EncodedKinds, WellFormed(o),
         \A k \in DOMAIN o.ins : o.ins[k] \in N, o.out \notin N, HasRule(t, o)
  PROVE  /\ ShapesClash(o, From(t, o)) => Extended(View(t, N), o) = {}
         /\ \A s \in Extended(View(t, N), o) :
              o.out \in DOMAIN s /\ s[o.out] = Outcome(t, o)
         /\ ~ShapesClash(o, From(t, o))
              /\ LocalPositive(OutShape(o, From(t, o)), Apply(o, Placed(From(t, o))))
              => Extended(View(t, N), o) = {Put(View(t, N), o.out, Outcome(t, o))}
<1> DEFINE v   == View(t, N)
           ins == [k \in DOMAIN o.ins |-> v[o.ins[k]]]
           jns == From(t, o)
           new == {[shape |-> shape, pl |-> EncodedPlacement(o, ins)] : shape \in ShapesEncoded(o, ins)}
           ext == {Put(v, o.out, u) : u \in {w \in new : /\ LocalEncoded(o, w.shape, w.pl)
                                                          /\ o.out \in DOMAIN v => v[o.out] = w}}
<1>1. Extended(v, o) = IF EqualSizes(o, ins) /\ Demanded(o, ins) THEN ext ELSE {}
  BY DEF Extended
<1>2. DOMAIN ins = DOMAIN o.ins /\ DOMAIN jns = DOMAIN o.ins /\ DOMAIN v = N
  BY DEF From, View
<1>3. \A k \in DOMAIN o.ins : ins[k].shape = jns[k].shape /\ ins[k].pl = jns[k].pl
  BY DEF From, View
<1>4. 1 \in DOMAIN o.ins /\ (o.kind \in {"MatMul", "Add", "Multiply"} => 2 \in DOMAIN o.ins)
  BY DEF WellFormed, EncodedKinds, Elementwise, BinaryKinds
<1> HIDE DEF v, ins, jns
<1>5. \A d \in MeshDims : [k \in DOMAIN ins |-> ins[k].pl[d]] = [k \in DOMAIN jns |-> jns[k].pl[d]]
  BY <1>2, <1>3
<1>6. Demanded(o, ins) <=> Demanded(o, jns)
  BY <1>5 DEF Demanded
<1>7. EncodedPlacement(o, ins) = EncodedPlacement(o, jns)
  BY <1>5 DEF EncodedPlacement
<1>8. EqualSizes(o, ins) <=> ~ShapesClash(o, jns)
  BY <1>3, <1>4 DEF EqualSizes, ShapesClash, Elementwise
<1>9. ShapesEncoded(o, ins) = {OutShape(o, jns)}
  <2>1. CASE o.kind = "MatMul"
    <3>1. OutShape(o, jns) = Rows(jns[1].shape[0], jns[2].shape[1])
      BY <2>1 DEF OutShape
    <3>2. ShapesEncoded(o, ins) = {Rows(ins[1].shape[0], ins[2].shape[1])}
      BY <2>1 DEF ShapesEncoded, PassThrough, Preserving, Elementwise
    <3> QED BY <1>3, <1>4, <2>1, <3>1, <3>2
  <2>2. CASE o.kind # "MatMul"
    <3>1. OutShape(o, jns) = jns[1].shape
      BY <2>2 DEF OutShape, EncodedKinds, Elementwise
    <3>2. o.kind \in PassThrough \cup Preserving \cup Elementwise
      BY <2>2 DEF EncodedKinds, Elementwise, PassThrough, Preserving
    <3>3. ShapesEncoded(o, ins) = {ins[1].shape}
      BY <2>2, <3>2 DEF ShapesEncoded, PassThrough, Preserving, Elementwise
    <3> QED BY <1>3, <1>4, <3>1, <3>3
  <2> QED BY <2>1, <2>2
<1>10. new = {Outcome(t, o)} /\ Demanded(o, ins)
  BY <1>6, <1>7, <1>9 DEF HasRule, Outcome, jns
<1> HIDE DEF new
<1>11. ext \subseteq {Put(v, o.out, Outcome(t, o))}
  BY <1>10
<1>12. (Put(v, o.out, Outcome(t, o)))[o.out] = Outcome(t, o)
       /\ o.out \in DOMAIN (Put(v, o.out, Outcome(t, o)))
  BY DEF Put
<1>13. LocalPositive(OutShape(o, jns), Apply(o, Placed(jns))) => ext = {Put(v, o.out, Outcome(t, o))}
  <2> HAVE LocalPositive(OutShape(o, jns), Apply(o, Placed(jns)))
  <2>1. LocalEncoded(o, Outcome(t, o).shape, Outcome(t, o).pl)
    BY DEF LocalEncoded, Outcome, jns
  <2> QED BY <1>2, <1>10, <2>1
<1> HIDE DEF ext
<1> QED BY <1>1, <1>8, <1>10, <1>11, <1>12, <1>13 DEF v, jns

\* What a view says of one name more.
LEMMA ViewNext ==
  ASSUME NEW t, NEW N, NEW n, NEW u, n \notin N,
         u = [shape |-> t[n].shape, pl |-> t[n].pl]
  PROVE  Put(View(t, N), n, u) = View(t, N \cup {n})
BY DEF View, Put

(***************************************************************************)
(* A program h on inputs g as the comparison has it, with what device 0 has*)
(* in the end: t.                                                          *)
(***************************************************************************)
Plain(t, h, g) ==
  /\ \A i \in 1 .. Len(h) : /\ h[i].kind \in EncodedKinds /\ WellFormed(h[i])
                            /\ h[i].out \notin DOMAIN g /\ HasRule(t, h[i])
  /\ \A i, j \in 1 .. Len(h) : h[i].out = h[j].out => i = j
  /\ g = View(g, DOMAIN g)
  /\ \A n \in DOMAIN g : Whole(g[n])
  /\ \A n \in DOMAIN t : Whole(t[n])

\* After each operation that ran there is one solution, which says what it has.
LEMMA ViewsAreSolutions ==
  ASSUME IsMesh(mesh), NEW t, NEW h, Len(h) \in Nat, NEW g, Plain(t, h, g),
         NEW m \in 0 .. Len(h), Tracked(t, h, g, m),
         NEW f, SolutionSteps(h, g, Len(h), f)
  PROVE  f[m] = {View(t, DOMAIN t)}
<1> DEFINE N(i) == DOMAIN g \cup OutsOf(h, i)
           S == {i \in Nat : i <= m => f[i] = {View(t, N(i))}}
<1>1. DOMAIN t = N(m) /\ m \in Nat /\ m <= Len(h)
  BY DEF Tracked
<1> HIDE DEF N
<1>2. 0 \in S
  <2>1. OutsOf(h, 0) = {}
    BY DEF OutsOf
  <2>2. \A n \in DOMAIN g : t[n].shape = g[n].shape /\ t[n].pl = g[n].pl
    BY DEF Tracked
  <2>3. View(t, DOMAIN g) = View(g, DOMAIN g)
    BY <2>2 DEF View
  <2>4. \A n \in DOMAIN g : LocalPositive(g[n].shape, g[n].pl)
    BY WholeNotEmpty DEF Plain, Whole, NotEmpty
  <2>5. InputsWhole(g)
    <3>1. ASSUME NEW n \in DOMAIN g PROVE EachDivides(mesh, g[n].shape, g[n].pl)
      <4>1. Whole(g[n])
        BY DEF Plain
      <4>2. /\ \A k \in TensorDims : g[n].shape[k] \in Nat
            /\ Divides(mesh, g[n].shape, g[n].pl)
        BY <4>1 DEF Whole
      <4> QED BY <4>2, DividesEach
    <3> QED BY <3>1 DEF InputsWhole, EachDivides
  <2>6. f[0] = FirstSolutions(g)
    BY DEF SolutionSteps
  <2>7. f[0] = {g}
    BY <2>4, <2>5, <2>6 DEF FirstSolutions
  <2>8. g = View(g, DOMAIN g)
    BY DEF Plain
  <2>9. N(0) = DOMAIN g
    BY <2>1 DEF N
  <2> QED BY <2>3, <2>7, <2>8, <2>9
<1>3. ASSUME NEW i \in Nat, i \in S PROVE i + 1 \in S
  <2> SUFFICES ASSUME i + 1 <= m PROVE f[i + 1] = {View(t, N(i + 1))}
    OBVIOUS
  <2> DEFINE o == h[i + 1]
  <2>1. i + 1 \in 1 .. Len(h) /\ i + 1 \in 1 .. m /\ (i + 1) - 1 = i
    BY <1>1
  <2>2. f[i] = {View(t, N(i))}
    BY <1>1, <1>3
  <2>3. f[i + 1] = NextSolutions(f[i], o)
    BY <2>1 DEF SolutionSteps
  <2>4. f[i + 1] = Extended(View(t, N(i)), o)
    BY <2>2, <2>3 DEF NextSolutions
  <2>5. (\A k \in DOMAIN o.ins : o.ins[k] \in N(i)) /\ Computed(t, o)
    BY <2>1 DEF Tracked, N
  <2>6. o.kind \in EncodedKinds /\ WellFormed(o) /\ o.out \notin DOMAIN g /\ HasRule(t, o)
    BY <2>1 DEF Plain
  <2>7. o.out \notin OutsOf(h, i)
    <3> SUFFICES ASSUME NEW j \in 1 .. i, h[j].out = o.out PROVE FALSE
      BY DEF OutsOf
    <3>1. j \in 1 .. Len(h) /\ j # i + 1
      BY <2>1
    <3> QED BY <2>1, <3>1 DEF Plain
  <2>8. N(i + 1) = N(i) \cup {o.out}
    <3>1. 1 .. (i + 1) = (1 .. i) \cup {i + 1}
      OBVIOUS
    <3> QED BY <3>1 DEF OutsOf, N
  <2>9. o.out \in DOMAIN t
    BY <1>1, <2>1 DEF OutsOf, N
  <2>10. LocalPositive(OutShape(o, From(t, o)), Apply(o, Placed(From(t, o))))
    <3>1. Whole(t[o.out])
      BY <2>9 DEF Plain
    <3>2. LocalPositive(t[o.out].shape, t[o.out].pl)
      BY <3>1, WholeNotEmpty DEF Whole, NotEmpty
    <3> QED BY <2>5, <3>2 DEF Computed
  <2>11. ~ShapesClash(o, From(t, o)) /\ Outcome(t, o) = [shape |-> t[o.out].shape, pl |-> t[o.out].pl]
    BY <2>5 DEF Computed, Outcome
  <2>12. o.out \notin N(i)
    BY <2>6, <2>7 DEF N
  <2> HIDE DEF o, S
  <2>13. Extended(View(t, N(i)), o) = {Put(View(t, N(i)), o.out, Outcome(t, o))}
    BY <2>5, <2>6, <2>10, <2>11, <2>12, ViewExtended
  <2>14. Put(View(t, N(i)), o.out, Outcome(t, o)) = View(t, N(i + 1))
    BY <2>8, <2>11, <2>12, ViewNext
  <2> QED BY <2>4, <2>13, <2>14
<1> HIDE DEF S
<1>4. Nat \subseteq S
  BY <1>2, <1>3, Induction
<1> QED BY <1>1, <1>4 DEF S

\* A program that ran to its end passes, and its one solution is its run.
LEMMA RunPasses ==
  ASSUME IsMesh(mesh), NEW t, NEW h, Len(h) \in Nat, DOMAIN h = 1 .. Len(h),
         NEW g, Plain(t, h, g), Tracked(t, h, g, Len(h))
  PROVE  Solutions(h, g) = {View(t, DOMAIN t)} /\ ShapesPass(h, g)
<1> DEFINE v == View(t, DOMAIN t)
<1>1. Solutions(h, g) = {v}
  <2>1. PICK f : SolutionSteps(h, g, Len(h), f) /\ Solutions(h, g) = f[Len(h)]
    BY SolutionsAre
  <2>2. Len(h) \in 0 .. Len(h)
    OBVIOUS
  <2> QED BY <2>1, <2>2, ViewsAreSolutions
<1>2. /\ DOMAIN v = DOMAIN t
      /\ \A n \in DOMAIN t : v[n].shape = t[n].shape /\ v[n].pl = t[n].pl
  BY DEF View
<1> HIDE DEF v
<1>3. AlwaysDivisible({v})
  <2>1. ASSUME NEW n \in DOMAIN t PROVE EachDivides(mesh, t[n].shape, t[n].pl)
    <3>1. Whole(t[n])
      BY DEF Plain
    <3>2. (\A k \in TensorDims : t[n].shape[k] \in Nat) /\ Divides(mesh, t[n].shape, t[n].pl)
      BY <3>1 DEF Whole
    <3> QED BY <3>2, DividesEach
  <2> QED BY <1>2, <2>1 DEF AlwaysDivisible, EachDivides
<1>4. ContractionsMatch(h, {v})
  <2> SUFFICES ASSUME NEW i \in 1 .. Len(h), h[i].kind = "MatMul"
               PROVE  v[h[i].ins[1]].shape[1] = v[h[i].ins[2]].shape[0]
    BY DEF ContractionsMatch
  <2> DEFINE o == h[i]
  <2>1. \A k \in DOMAIN o.ins : o.ins[k] \in DOMAIN t
    <3>1. \A k \in DOMAIN o.ins : o.ins[k] \in DOMAIN g \cup OutsOf(h, i - 1)
      BY DEF Tracked
    <3>2. OutsOf(h, i - 1) \subseteq OutsOf(h, Len(h))
      BY DEF OutsOf
    <3> QED BY <3>1, <3>2 DEF Tracked
  <2>2. 1 \in DOMAIN o.ins /\ 2 \in DOMAIN o.ins
    BY DEF Plain, WellFormed, BinaryKinds
  <2>3. ~ShapesClash(o, From(t, o))
    BY DEF Tracked, Computed
  <2>4. From(t, o)[1].shape[1] = From(t, o)[2].shape[0]
    BY <2>3 DEF ShapesClash
  <2>5. From(t, o)[1] = t[o.ins[1]] /\ From(t, o)[2] = t[o.ins[2]]
    BY <2>2 DEF From
  <2> QED BY <1>2, <2>1, <2>2, <2>4, <2>5
<1> QED BY <1>1, <1>3, <1>4 DEF ShapesPass, v

\* A program whose last operation raised for its shapes does not pass.
LEMMA RaisedFails ==
  ASSUME IsMesh(mesh), NEW t, NEW h, NEW n \in Nat, Len(h) = n + 1,
         NEW g, Plain(t, h, g), Tracked(t, h, g, n), InLine,
         \A k \in DOMAIN h[n + 1].ins : h[n + 1].ins[k] \in DOMAIN t,
         \/ ShapesClash(h[n + 1], From(t, h[n + 1]))
         \/ ~Divides(mesh, OutShape(h[n + 1], From(t, h[n + 1])),
                     Apply(h[n + 1], Placed(From(t, h[n + 1]))))
  PROVE  ~ShapesPass(h, g)
<1> DEFINE o == h[n + 1]
           shape == OutShape(o, From(t, o))
           pl == Apply(o, Placed(From(t, o)))
<1>1. PICK f : SolutionSteps(h, g, n + 1, f) /\ Solutions(h, g) = f[n + 1]
  <2>1. Len(h) \in Nat
    OBVIOUS
  <2> QED BY <2>1, SolutionsAre
<1>2. f[n] = {View(t, DOMAIN t)}
  <2>1. n \in 0 .. Len(h) /\ Len(h) \in Nat
    OBVIOUS
  <2> QED BY <1>1, <2>1, ViewsAreSolutions
<1>3. f[n + 1] = NextSolutions(f[n], o)
  <2>1. n + 1 \in 0 .. (n + 1) /\ n + 1 > 0 /\ (n + 1) - 1 = n
    OBVIOUS
  <2> QED BY <1>1, <2>1 DEF SolutionSteps
<1>4. Solutions(h, g) = Extended(View(t, DOMAIN t), o)
  BY <1>1, <1>2, <1>3 DEF NextSolutions
<1>5. o.kind \in EncodedKinds /\ WellFormed(o) /\ o.out \notin DOMAIN g /\ HasRule(t, o)
  <2>1. n + 1 \in 1 .. Len(h)
    OBVIOUS
  <2> QED BY <2>1 DEF Plain
<1>6. o.out \notin DOMAIN t
  <2>1. o.out \notin OutsOf(h, n)
    <3> SUFFICES ASSUME NEW j \in 1 .. n, h[j].out = o.out PROVE FALSE
      BY DEF OutsOf
    <3>1. j \in 1 .. Len(h) /\ n + 1 \in 1 .. Len(h) /\ j # n + 1
      OBVIOUS
    <3> QED BY <3>1 DEF Plain
  <2> QED BY <1>5, <2>1 DEF Tracked
<1>7. \A k \in DOMAIN o.ins : o.ins[k] \in DOMAIN t
  OBVIOUS
<1>8. NotEmpty(shape)
  <2>1. DOMAIN From(t, o) = DOMAIN o.ins /\ \A k \in DOMAIN o.ins : NotEmpty(From(t, o)[k].shape)
    BY <1>7 DEF From, Tracked
  <2> QED BY <1>5, <2>1, OutNotEmpty
<1>9. ShapesClash(o, From(t, o)) \/ ~Divides(mesh, shape, pl)
  OBVIOUS
<1> HIDE DEF o
<1>10. CASE ShapesClash(o, From(t, o))
  <2>1. Extended(View(t, DOMAIN t), o) = {}
    BY <1>5, <1>6, <1>7, <1>10, ViewExtended
  <2> QED BY <1>4, <2>1 DEF ShapesPass
<1>11. CASE ~Divides(mesh, shape, pl)
  <2>1. ~EachDivides(mesh, shape, pl)
    BY <1>8, <1>11, DividesEach DEF InLine, NotEmpty
  <2> SUFFICES ASSUME NEW s \in Solutions(h, g) PROVE ~AlwaysDivisible(Solutions(h, g))
    BY DEF ShapesPass
  <2>2. o.out \in DOMAIN s /\ s[o.out] = Outcome(t, o)
    BY <1>4, <1>5, <1>6, <1>7, ViewExtended
  <2>3. s[o.out].shape = shape /\ s[o.out].pl = pl
    BY <2>2 DEF Outcome
  <2> HIDE DEF shape, pl
  <2> QED BY <2>1, <2>2, <2>3 DEF AlwaysDivisible, EachDivides
<1> QED BY <1>9, <1>10, <1>11

-----------------------------------------------------------------------------
(***************************************************************************)
(* The inductive invariant of the comparison.  All inputs are on all       *)
(* devices, so device 0 does what all do.  Every operation writes a new    *)
(* name: what it read is still there, and its result is that of what is    *)
(* there now.  If the last one raised, it did so for what is there now.    *)
(***************************************************************************)
Alone == RegisteredEverywhere /\ WrittenOnce /\ InputsAlike /\ ~warned

RegisteredAll ==
  /\ DOMAIN tensors[0] = {setup[k].name : k \in 1 .. registered}
  /\ \A k \in 1 .. registered : /\ tensors[0][setup[k].name].shape = setup[k].shape
                                /\ tensors[0][setup[k].name].pl = setup[k].pl

Failed(o) == HasAll(0, o.ins) => ApplyRaises(o, Ins(0, o))

SolverInv ==
  /\ TypeInv
  /\ phase = "setup" /\ RegisteredEverywhere /\ InputsAlike => RegisteredAll
  /\ phase \in {"run", "done"} /\ Alone => Tracked(tensors[0], history, Given, Len(history))
  /\ phase = "raised" /\ Alone =>
       \E n \in Nat : /\ Len(history) = n + 1 /\ Tracked(tensors[0], history, Given, n)
                      /\ Failed(history[n + 1])

\* Device 0 is there.
LEMMA DeviceZero == TypeInv => 0 \in Devices /\ IsMesh(mesh) /\ NumDevices(mesh) \in Nat \ {0}
BY MeshHasDevices DEF TypeInv, AgreeInv, Devices

\* The comparison starts with no tensors.
LEMMA InitSolver == Init => SolverInv
<1> SUFFICES ASSUME Init PROVE SolverInv
  OBVIOUS
<1>1. TypeInv
  BY InitTyped
<1>2. 0 \in Devices
  BY <1>1, DeviceZero
<1>3. DOMAIN tensors[0] = {} /\ registered = 0 /\ phase = "setup"
  BY <1>2 DEF Init
<1>4. RegisteredAll
  BY <1>3 DEF RegisteredAll
<1> QED BY <1>1, <1>3, <1>4 DEF SolverInv

\* A registration is known to device 0 as it was asked for.
LEMMA RegisterSolver == SolverInv /\ Register => SolverInv'
<1> SUFFICES ASSUME SolverInv, Register PROVE SolverInv'
  OBVIOUS
<1> DEFINE r == setup[registered + 1]
           t == [d \in Devices |-> [shape |-> r.shape, pl |-> r.pl, from |-> {<<r.name, d>>}]]
<1>1. /\ phase = "setup" /\ phase' = "setup" /\ registered' = registered + 1
      /\ setup' = setup /\ registered < Len(setup)
  BY DEF Register
<1>2. TypeInv'
  BY RegisterTyped DEF SolverInv
<1>3. /\ registered \in Nat /\ DOMAIN setup = 1 .. Len(setup) /\ Len(setup) \in Nat
      /\ 0 \in Devices
  BY DeviceZero, SetupsAssumption DEF SolverInv, TypeInv
<1>4. ASSUME RegisteredEverywhere', InputsAlike' PROVE RegisteredAll'
  <2>1. RegisteredEverywhere /\ r.device_ids = {}
    BY <1>1, <1>3, <1>4 DEF RegisteredEverywhere
  <2>2. InputsAlike
    BY <1>1, <1>4 DEF InputsAlike
  <2>3. RegisteredAll
    BY <1>1, <2>1, <2>2 DEF SolverInv
  <2>4. tensors' = Stored(Devices, r.name, t)
    BY <2>1 DEF Register
  <2>5. /\ DOMAIN tensors'[0] = DOMAIN tensors[0] \cup {r.name}
        /\ tensors'[0][r.name].shape = r.shape /\ tensors'[0][r.name].pl = r.pl
        /\ \A n \in DOMAIN tensors[0] \ {r.name} : tensors'[0][n] = tensors[0][n]
    BY <1>3, <2>4 DEF Stored, Put
  <2> HIDE DEF t
  <2>6. 1 .. (registered + 1) = (1 .. registered) \cup {registered + 1}
    BY <1>3
  <2>7. ASSUME NEW k \in 1 .. (registered + 1)
        PROVE  /\ tensors'[0][setup[k].name].shape = setup[k].shape
               /\ tensors'[0][setup[k].name].pl = setup[k].pl
    <3>1. CASE setup[k].name = r.name
      <4>1. k \in DOMAIN setup /\ registered + 1 \in DOMAIN setup
        BY <1>1, <1>3
      <4>2. setup[k].shape = r.shape /\ setup[k].pl = r.pl
        BY <2>2, <3>1, <4>1 DEF InputsAlike
      <4> QED BY <2>5, <3>1, <4>2
    <3>2. CASE setup[k].name # r.name
      <4>1. k \in 1 .. registered
        BY <2>6, <3>2
      <4>2. /\ setup[k].name \in DOMAIN tensors[0]
            /\ tensors[0][setup[k].name].shape = setup[k].shape
            /\ tensors[0][setup[k].name].pl = setup[k].pl
        BY <2>3, <4>1 DEF RegisteredAll
      <4> QED BY <2>5, <3>2, <4>2
    <3> QED BY <3>1, <3>2
  <2>8. DOMAIN tensors'[0] = {setup[k].name : k \in 1 .. (registered + 1)}
    BY <2>3, <2>5, <2>6 DEF RegisteredAll
  <2> HIDE DEF r
  <2> QED BY <1>1, <2>7, <2>8 DEF RegisteredAll
<1> QED BY <1>1, <1>2, <1>4 DEF SolverInv

\* So it has the inputs that the solver is given when the program begins.
LEMMA GivenRegistered ==
  ASSUME TypeInv, RegisteredAll, registered = Len(setup), InputsAlike
  PROVE  Tracked(tensors[0], << >>, Given, 0)
<1>1. DOMAIN setup = 1 .. registered
  BY SetupsAssumption DEF TypeInv
<1>2. ASSUME NEW n \in DOMAIN Given
      PROVE  \E k \in 1 .. registered : /\ setup[k].name = n
                                        /\ Given[n] = [shape |-> setup[k].shape, pl |-> setup[k].pl]
  <2>1. DOMAIN Given = {setup[k].name : k \in DOMAIN setup}
    BY DEF Given
  <2> DEFINE k == CHOOSE j \in DOMAIN setup : setup[j].name = n
  <2>2. k \in DOMAIN setup /\ setup[k].name = n
    BY <2>1
  <2>3. Given[n] = [shape |-> setup[k].shape, pl |-> setup[k].pl]
    BY <2>1 DEF Given
  <2> HIDE DEF k
  <2> QED BY <1>1, <2>2, <2>3
<1>3. DOMAIN Given = DOMAIN tensors[0]
  BY <1>1 DEF Given, RegisteredAll
<1>4. \A n \in DOMAIN Given : tensors[0][n].shape = Given[n].shape /\ tensors[0][n].pl = Given[n].pl
  BY <1>2 DEF RegisteredAll
<1>5. ASSUME NEW n \in DOMAIN tensors[0] PROVE NotEmpty(tensors[0][n].shape)
  <2>1. PICK k \in 1 .. registered : setup[k].name = n
    BY DEF RegisteredAll
  <2>2. tensors[0][n].shape = setup[k].shape
    BY <2>1 DEF RegisteredAll
  <2>3. setup[k].shape \in [TensorDims -> Nat]
    BY <1>1, SetupsAssumption DEF TypeInv
  <2>4. \A d \in TensorDims : setup[k].shape[d] > 0
    BY <1>1 DEF InputsAlike
  <2> QED BY <2>2, <2>3, <2>4 DEF NotEmpty
<1>6. OutsOf(<< >>, 0) = {}
  BY DEF OutsOf
<1> QED BY <1>3, <1>4, <1>5, <1>6 DEF Tracked

\* The start and the end of a run, a reset and a step of nobody keep the invariant.
LEMMA ControlSolver ==
  ASSUME SolverInv, RunProgram \/ EndProgram \/ ResetDevices \/ UNCHANGED vars
  PROVE  SolverInv'
<1>1. TypeInv'
  BY ControlTyped DEF SolverInv
<1>2. CASE RunProgram
  <2>1. /\ phase = "setup" /\ phase' = "run" /\ history' = << >> /\ registered = Len(setup)
        /\ UNCHANGED <<setup, registered, tensors, warned>>
    BY <1>2 DEF RunProgram
  <2>2. ASSUME Alone' PROVE Tracked(tensors'[0], history', Given', Len(history'))
    <3>1. RegisteredEverywhere /\ InputsAlike
      BY <2>1, <2>2 DEF Alone, RegisteredEverywhere, InputsAlike
    <3>2. RegisteredAll
      BY <2>1, <3>1 DEF SolverInv
    <3>3. Tracked(tensors[0], << >>, Given, 0)
      BY <2>1, <3>1, <3>2, GivenRegistered DEF SolverInv
    <3>4. Given' = Given
      BY <2>1 DEF Given
    <3>5. Len(history') = 0
      BY <2>1
    <3> QED BY <2>1, <3>3, <3>4, <3>5
  <2> QED BY <1>1, <2>1, <2>2 DEF SolverInv
<1>3. CASE EndProgram \/ UNCHANGED vars
  <2>1. /\ UNCHANGED <<mesh, setup, registered, tensors, history, warned>>
        /\ \/ phase' = phase
           \/ phase = "run" /\ phase' = "done"
    <3>1. CASE EndProgram
      BY <3>1 DEF EndProgram
    <3>2. CASE UNCHANGED vars
      BY <3>2 DEF vars
    <3> QED BY <1>3, <3>1, <3>2
  <2>2. Given' = Given
    BY <2>1 DEF Given
  <2>3. /\ RegisteredEverywhere' <=> RegisteredEverywhere
        /\ InputsAlike' <=> InputsAlike
        /\ RegisteredAll' <=> RegisteredAll
    BY <2>1 DEF RegisteredEverywhere, InputsAlike, RegisteredAll
  <2>4. Alone' <=> Alone
    BY <2>1, <2>2, <2>3 DEF Alone, WrittenOnce
  <2>5. \A o : Failed(o)' <=> Failed(o)
    BY <2>1 DEF Failed, HasAll, Has, Ins, ApplyRaises, ShapeRaises
  <2> QED BY <1>1, <2>1, <2>2, <2>3, <2>4, <2>5 DEF SolverInv
<1>4. CASE ResetDevices
  <2>1. /\ phase' = "setup" /\ registered' = 0 /\ tensors' = [d \in Devices |-> << >>]
    BY <1>4 DEF ResetDevices
  <2>2. 0 \in Devices
    BY DeviceZero DEF SolverInv
  <2>3. DOMAIN tensors'[0] = {}
    BY <2>1, <2>2
  <2>4. RegisteredAll'
    BY <2>1, <2>3 DEF RegisteredAll
  <2> QED BY <1>1, <2>1, <2>4 DEF SolverInv
<1> QED BY <1>2, <1>3, <1>4

\* What was computed stays so when an operation follows that stores nothing.
LEMMA TrackedPrefix ==
  ASSUME NEW T, NEW h \in Seq(T), NEW o \in T, NEW g, NEW t, Tracked(t, h, g, Len(h))
  PROVE  Tracked(t, Append(h, o), g, Len(h))
<1> DEFINE n == Len(h)
           k == Append(h, o)
<1>1. n \in Nat /\ \A i \in 1 .. n : k[i] = h[i]
  OBVIOUS
<1> HIDE DEF k, n
<1>2. \A i \in 0 .. n : OutsOf(k, i) = OutsOf(h, i)
  <2> TAKE i \in 0 .. n
  <2>1. \A j \in 1 .. i : k[j] = h[j]
    BY <1>1
  <2> QED BY <2>1 DEF OutsOf
<1>3. Tracked(t, h, g, n)
  BY DEF n
<1>4. n \in 0 .. n /\ \A i \in 1 .. n : i - 1 \in 0 .. n
  BY <1>1
<1>5. OutsOf(k, n) = OutsOf(h, n)
  BY <1>2, <1>4
<1>6. \A i \in 1 .. n : /\ \A x \in DOMAIN k[i].ins : k[i].ins[x] \in DOMAIN g \cup OutsOf(k, i - 1)
                        /\ Computed(t, k[i])
  BY <1>1, <1>2, <1>3, <1>4 DEF Tracked
<1>7. Tracked(t, k, g, n)
  BY <1>3, <1>5, <1>6 DEF Tracked
<1> QED BY <1>7 DEF k, n

\* The steps that the comparison is about are those of _exec_per_device, on
\* uniform devices, and write a name that is not there.
LEMMA ExecuteAlone ==
  ASSUME SolverInv, NEW o \in Current,
         \/ PerDevice(o) \/ Send(o) \/ Recv(o) \/ SendAsync(o) \/ RecvAsync(o)
         \/ Wait(o) \/ WaitAll(o) \/ RingRotate(o) \/ TopKGate(o)
         \/ RingAttention(o) \/ OverlapRegion(o),
         Alone'
  PROVE  /\ PerDevice(o) /\ o \in Ops /\ o.kind \in EncodedKinds /\ WellFormed(o) /\ Uniform
         /\ history \in Seq(Ops) /\ history' = Append(history, o)
         /\ Given' = Given /\ phase = "run"
         /\ Tracked(tensors[0], history, Given, Len(history))
         /\ o.out \notin DOMAIN tensors[0]
<1>1. /\ history' = Append(history, o) /\ phase = "run"
      /\ UNCHANGED <<mesh, setup, registered>>
  BY DEF PerDevice, Send, Recv, SendAsync, RecvAsync, Wait, WaitAll, RingRotate, TopKGate,
         RingAttention, OverlapRegion, Executes
<1>2. o \in Ops /\ history \in Seq(Ops)
  BY DEF Current, Ops, SolverInv, TypeInv, AgreeInv
<1>3. WellFormed(o)
  BY <1>2, OpsWellFormed
<1>4. Given' = Given
  BY <1>1 DEF Given
<1>5. /\ Len(history) \in Nat /\ DOMAIN history = 1 .. Len(history)
      /\ DOMAIN history' = 1 .. (Len(history) + 1)
      /\ \A i \in 1 .. Len(history) : history'[i] = history[i]
      /\ history'[Len(history) + 1] = o
  BY <1>1, <1>2
<1>6. Len(history) + 1 \in DOMAIN history' /\ DOMAIN history \subseteq DOMAIN history'
  BY <1>5
<1>7. o.kind \in EncodedKinds /\ o.out \notin DOMAIN Given
  BY <1>4, <1>5, <1>6 DEF Alone, WrittenOnce
<1>8. PerDevice(o)
  BY <1>7 DEF Send, Recv, SendAsync, RecvAsync, Wait, WaitAll, RingRotate, TopKGate,
              RingAttention, OverlapRegion, EncodedKinds, Elementwise
<1>9. WrittenOnce
  BY <1>4, <1>5, <1>6 DEF Alone, WrittenOnce
<1>10. RegisteredEverywhere /\ InputsAlike
  BY <1>1 DEF Alone, RegisteredEverywhere, InputsAlike
<1>11. ~warned
  BY <1>8 DEF Alone, PerDevice
<1>12. AllSymmetric
  BY <1>9 DEF AllSymmetric, Symmetric, WrittenOnce, EncodedKinds, Elementwise
<1>13. Uniform
  BY <1>10, <1>12 DEF SolverInv, TypeInv, AgreeInv, Agreeing
<1>14. Tracked(tensors[0], history, Given, Len(history))
  BY <1>1, <1>9, <1>10, <1>11 DEF SolverInv, Alone
<1>15. o.out \notin OutsOf(history, Len(history))
  <2> SUFFICES ASSUME NEW j \in 1 .. Len(history), history[j].out = o.out PROVE FALSE
    BY DEF OutsOf
  <2>1. j \in DOMAIN history' /\ history'[j].out = history'[Len(history) + 1].out
    BY <1>5
  <2>2. j = Len(history) + 1
    BY <1>6, <2>1 DEF Alone, WrittenOnce
  <2> QED BY <1>5, <2>2
<1>16. o.out \notin DOMAIN tensors[0]
  BY <1>7, <1>14, <1>15 DEF Tracked
<1> QED BY <1>1, <1>2, <1>3, <1>4, <1>7, <1>8, <1>13, <1>14, <1>16

\* It runs on all devices, or raises an exception on all of them.
LEMMA PerDeviceAlone ==
  ASSUME NEW o, PerDevice(o), WellFormed(o), Uniform, ~warned', 0 \in Devices,
         NumDevices(mesh) \in Nat \ {0}
  PROVE  \/ /\ phase' = phase /\ HasAll(0, o.ins) /\ ~ApplyRaises(o, Ins(0, o))
            /\ tensors'[0] = Put(tensors[0], o.out, Result(o, Ins(0, o)))
         \/ /\ phase' = "raised" /\ tensors'[0] = tensors[0]
            /\ HasAll(0, o.ins) => ApplyRaises(o, Ins(0, o))
<1> DEFINE stops   == {d \in Devices : Stops(d, o)}
           reached == {d \in Devices : Before(d, stops)}
           S       == {d \in reached : ~Missing(d, o)}
           res     == [d \in S |-> Result(o, Ins(d, o))]
<1>1. /\ tensors' = Stored(S, o.out, res) /\ o.kind \notin OtherKinds /\ mesh' = mesh
      /\ phase' = IF stops # {} THEN "raised" ELSE phase
      /\ ~Skips(o, reached)
  BY DEF PerDevice, Executes
<1>2. CASE ~Stops(0, o)
  <2>1. stops = {}
    BY <1>1, <1>2, StopsAlike
  <2>2. reached = Devices
    BY <2>1, BeforeAll
  <2>3. ~Missing(0, o)
    BY <1>1, <2>2 DEF Skips
  <2>4. HasAll(0, o.ins) /\ ~ApplyRaises(o, Ins(0, o))
    BY <1>2, <2>3 DEF Stops, Missing
  <2>5. 0 \in S
    BY <2>2, <2>3
  <2>6. tensors'[0] = Put(tensors[0], o.out, res[0]) /\ res[0] = Result(o, Ins(0, o))
    BY <1>1, <2>5 DEF Stored
  <2> QED BY <1>1, <2>1, <2>4, <2>6
<1>3. CASE Stops(0, o)
  <2>1. stops = Devices
    BY <1>1, <1>3, StopsAlike
  <2>2. reached = {}
    BY <2>1, BeforeAll
  <2>3. 0 \notin S /\ stops # {}
    BY <2>1, <2>2
  <2>4. tensors'[0] = tensors[0] /\ phase' = "raised"
    BY <1>1, <2>3 DEF Stored
  <2> QED BY <1>3, <2>4 DEF Stops, Missing
<1> QED BY <1>2, <1>3

\* Every operation of the program keeps the invariant.
LEMMA ExecuteSolver == SolverInv /\ ExecuteOp => SolverInv'
<1> SUFFICES ASSUME SolverInv, NEW o \in Current,
                    \/ PerDevice(o) \/ Send(o) \/ Recv(o) \/ SendAsync(o) \/ RecvAsync(o)
                    \/ Wait(o) \/ WaitAll(o) \/ RingRotate(o) \/ TopKGate(o)
                    \/ RingAttention(o) \/ OverlapRegion(o)
             PROVE  SolverInv'
  BY DEF ExecuteOp
<1>1. TypeInv'
  <2>1. ExecuteOp
    BY DEF ExecuteOp
  <2> QED BY <2>1, ExecuteTyped DEF SolverInv
<1>2. phase = "run" /\ phase' \in {phase, "raised"}
  BY DEF PerDevice, Send, Recv, SendAsync, RecvAsync, Wait, WaitAll, RingRotate, TopKGate,
         RingAttention, OverlapRegion, Executes, Moved, Raised, Ignored, RaisedIfStrict
<1>3. ASSUME Alone'
      PROVE  /\ phase' = "run" => Tracked(tensors'[0], history', Given', Len(history'))
             /\ phase' = "raised" =>
                  \E n \in Nat : /\ Len(history') = n + 1
                                 /\ Tracked(tensors'[0], history', Given', n)
                                 /\ (Failed(history[n + 1]))'
  <2> DEFINE t == tensors[0]
  <2>0. PICK n \in Nat : n = Len(history)
    BY DEF SolverInv, TypeInv, AgreeInv
  <2>1. /\ PerDevice(o) /\ o \in Ops /\ o.kind \in EncodedKinds /\ WellFormed(o) /\ Uniform
        /\ history \in Seq(Ops) /\ history' = Append(history, o)
        /\ Given' = Given /\ Tracked(t, history, Given, n)
        /\ o.out \notin DOMAIN t
    BY <1>3, <2>0, ExecuteAlone
  <2>2. 0 \in Devices /\ NumDevices(mesh) \in Nat \ {0} /\ mesh' = mesh
    BY <2>1, DeviceZero DEF SolverInv, PerDevice, Executes
  <2>3. n \in Nat /\ Len(history') = n + 1 /\ history'[n + 1] = o
    BY <2>0, <2>1
  <2>4. \/ /\ phase' = phase /\ HasAll(0, o.ins) /\ ~ApplyRaises(o, Ins(0, o))
           /\ tensors'[0] = Put(t, o.out, Result(o, Ins(0, o)))
        \/ /\ phase' = "raised" /\ tensors'[0] = t
           /\ HasAll(0, o.ins) => ApplyRaises(o, Ins(0, o))
    BY <1>3, <2>1, <2>2, PerDeviceAlone DEF Alone
  <2>5. Ins(0, o) = From(t, o)
    BY DEF Ins, From
  <2>6. CASE phase' = phase /\ HasAll(0, o.ins) /\ ~ApplyRaises(o, Ins(0, o))
             /\ tensors'[0] = Put(t, o.out, Result(o, Ins(0, o)))
    <3> DEFINE r == Result(o, From(t, o))
    <3>1. \A k \in DOMAIN o.ins : o.ins[k] \in DOMAIN t
      BY <2>6 DEF HasAll, Has
    <3>2. ~ShapesClash(o, From(t, o))
      BY <2>5, <2>6 DEF ApplyRaises, ShapeRaises
    <3>3. DOMAIN From(t, o) = DOMAIN o.ins /\ \A k \in DOMAIN o.ins : NotEmpty(From(t, o)[k].shape)
      BY <2>1, <3>1 DEF From, Tracked
    <3>4. NotEmpty(OutShape(o, From(t, o)))
      BY <2>1, <3>3, OutNotEmpty
    <3>5. r.shape = OutShape(o, From(t, o)) /\ r.pl = Apply(o, Placed(From(t, o)))
      BY DEF Result
    <3> HIDE DEF r
    <3>6. Tracked(Put(t, o.out, r), Append(history, o), Given, n + 1)
      BY <2>0, <2>1, <3>1, <3>2, <3>4, <3>5, TrackedNext
    <3>7. Tracked(tensors'[0], history', Given', n + 1)
      BY <2>1, <2>5, <2>6, <3>6 DEF r
    <3> QED BY <1>2, <2>3, <2>6, <3>7
  <2>7. CASE phase' = "raised" /\ tensors'[0] = t
             /\ (HasAll(0, o.ins) => ApplyRaises(o, Ins(0, o)))
    <3>1. Tracked(tensors'[0], history', Given', n)
      BY <2>0, <2>1, <2>7, TrackedPrefix
    <3>2. (HasAll(0, o.ins))' <=> HasAll(0, o.ins)
      BY <2>7 DEF HasAll, Has
    <3>3. Ins(0, o)' = Ins(0, o)
      BY <2>7 DEF Ins
    <3>4. Failed(o)'
      BY <2>2, <2>7, <3>2, <3>3 DEF Failed, ApplyRaises, ShapeRaises
    <3>5. (Failed(history[n + 1]))'
      BY <2>3, <3>4
    <3> QED BY <2>3, <2>7, <3>1, <3>5
  <2> QED BY <2>4, <2>6, <2>7
<1>4. phase' \notin {"setup", "done"}
  BY <1>2
<1> QED BY <1>1, <1>3, <1>4 DEF SolverInv

\* Every step does.
LEMMA NextSolver == SolverInv /\ [Next]_vars => SolverInv'
BY RegisterSolver, ControlSolver, ExecuteSolver DEF Next

\* The comparison holds in every state that the invariant allows.
LEMMA SolverInvShapes == SolverInv => ShapesAsRun
<1> SUFFICES ASSUME SolverInv, Comparable
             PROVE  /\ ShapesPass(history, Given) <=> phase = "done"
                    /\ phase = "done" =>
                         \A s \in Solutions(history, Given) : \A n \in DOMAIN s :
                           s[n].shape = tensors[0][n].shape /\ s[n].pl = tensors[0][n].pl
  BY DEF ShapesAsRun
<1> DEFINE t == tensors[0]
           h == history
<1>1. Alone /\ phase \in {"done", "raised"} /\ InLine
  BY DEF Comparable, Alone
<1>2. 0 \in Devices /\ IsMesh(mesh)
  BY DeviceZero DEF SolverInv
<1>3. h \in Seq(Ops) /\ Len(h) \in Nat /\ DOMAIN h = 1 .. Len(h)
  BY DEF SolverInv, TypeInv, AgreeInv
<1>4. \A o : Ins(0, o) = From(t, o)
  BY DEF Ins, From
<1>5. ASSUME NEW m, Tracked(t, h, Given, m) PROVE Plain(t, h, Given)
  <2>1. ASSUME NEW i \in 1 .. Len(h)
        PROVE  /\ h[i].kind \in EncodedKinds /\ WellFormed(h[i])
               /\ h[i].out \notin DOMAIN Given /\ HasRule(t, h[i])
    <3>1. h[i] \in Ops
      BY <1>3
    <3>2. WellFormed(h[i])
      BY <3>1, OpsWellFormed
    <3>3. h[i].kind \in EncodedKinds /\ h[i].out \notin DOMAIN Given
      BY <1>3 DEF Comparable, WrittenOnce
    <3>4. HasRule(t, h[i])
      BY <1>4 DEF Comparable, EncodingIsRule, HasRule
    <3> QED BY <3>2, <3>3, <3>4
  <2>2. \A i, j \in 1 .. Len(h) : h[i].out = h[j].out => i = j
    BY <1>3 DEF Comparable, WrittenOnce
  <2>3. ASSUME NEW n \in DOMAIN Given
        PROVE  Whole(Given[n]) /\ Given[n] = [shape |-> Given[n].shape, pl |-> Given[n].pl]
    <3>1. DOMAIN Given = {setup[k].name : k \in DOMAIN setup}
      BY DEF Given
    <3> DEFINE k == CHOOSE j \in DOMAIN setup : setup[j].name = n
    <3>2. k \in DOMAIN setup
      BY <3>1
    <3>3. Given[n] = [shape |-> setup[k].shape, pl |-> setup[k].pl]
      BY <3>1 DEF Given
    <3> HIDE DEF k
    <3>4. setup[k].shape \in [TensorDims -> Nat] /\ setup[k].pl \in Placements
      BY <3>2, SetupsAssumption DEF SolverInv, TypeInv
    <3>5. Divides(mesh, setup[k].shape, setup[k].pl)
      BY <3>2 DEF SolverInv, TypeInv
    <3>6. \A d \in TensorDims : setup[k].shape[d] > 0
      BY <3>2 DEF Comparable, InputsAlike
    <3> QED BY <3>3, <3>4, <3>5, <3>6 DEF Whole, NotEmpty
  <2>4. Given = [n \in DOMAIN Given |-> Given[n]]
    BY DEF Given
  <2>5. Given = View(Given, DOMAIN Given)
    BY <2>3, <2>4 DEF View
  <2>6. ASSUME NEW n \in DOMAIN t PROVE Whole(t[n])
    <3>1. IsTensor(t[n])
      BY <1>2 DEF SolverInv, TypeInv, Typed, AllTensors
    <3>2. NotEmpty(t[n].shape)
      BY <1>5 DEF Tracked
    <3> QED BY <3>1, <3>2 DEF Whole, IsTensor
  <2> QED BY <2>1, <2>2, <2>3, <2>5, <2>6 DEF Plain
<1>6. CASE phase = "done"
  <2>1. Tracked(t, h, Given, Len(h))
    BY <1>1, <1>6 DEF SolverInv
  <2>2. Solutions(h, Given) = {View(t, DOMAIN t)} /\ ShapesPass(h, Given)
    BY <1>2, <1>3, <1>5, <2>1, RunPasses
  <2>3. DOMAIN View(t, DOMAIN t) = DOMAIN t
        /\ \A n \in DOMAIN t : /\ View(t, DOMAIN t)[n].shape = t[n].shape
                               /\ View(t, DOMAIN t)[n].pl = t[n].pl
    BY DEF View
  <2> QED BY <1>6, <2>2, <2>3
<1>7. CASE phase = "raised"
  <2>1. PICK n \in Nat : Len(h) = n + 1 /\ Tracked(t, h, Given, n) /\ Failed(h[n + 1])
    BY <1>1, <1>7 DEF SolverInv
  <2> DEFINE o == h[n + 1]
  <2>2. n + 1 \in 1 .. Len(h)
    BY <2>1
  <2>3. HasAll(0, o.ins) /\ ~Raises(o, Placed(From(t, o)))
    BY <1>4, <2>2 DEF Comparable, EncodingIsRule
  <2>4. \/ ShapesClash(o, From(t, o))
        \/ ~Divides(mesh, OutShape(o, From(t, o)), Apply(o, Placed(From(t, o))))
    BY <1>4, <2>1, <2>3 DEF Failed, ApplyRaises, ShapeRaises
  <2>5. \A k \in DOMAIN o.ins : o.ins[k] \in DOMAIN t
    BY <2>3 DEF HasAll, Has
  <2>6. Plain(t, h, Given)
    BY <1>5, <2>1
  <2>7. ~ShapesPass(h, Given)
    BY <1>1, <1>2, <2>1, <2>4, <2>5, <2>6, RaisedFails
  <2> QED BY <1>7, <2>7
<1> QED BY <1>1, <1>6, <1>7

(***************************************************************************)
(* The shape checks of the solver say what the run says, of every program  *)
(* of the operations that the encoding has the rule of, on every line of   *)
(* devices: they pass iff no operation raised an exception, and the one    *)
(* solution then has the shapes and the placements of the run.             *)
(***************************************************************************)
THEOREM ShapesFollowRun == Spec => []ShapesAsRun
<1>1. Init => SolverInv
  BY InitSolver
<1>2. SolverInv /\ [Next]_vars => SolverInv'
  BY NextSolver
<1>3. SolverInv => ShapesAsRun
  BY SolverInvShapes
<1> QED BY <1>1, <1>2, <1>3, PTL DEF Spec
=============================================================================
