------------------------------ MODULE QueueProofs ------------------------------
(***************************************************************************)
(* Facts the proofs about several components need: the order of numbers,   *)
(* sums of bytes over queues, and lines of queues through which the        *)
(* packets of a flow move.                                                 *)
(***************************************************************************)
EXTENDS Sums, Sequences, FiniteSetTheorems, FunctionTheorems, WellFoundedInduction, TLAPS

(***************************************************************************)
(* Numbers.                                                                *)
(***************************************************************************)

\* A set of naturals has a least element: the form of induction used
\* for the loops of a handler.
LEMMA Smallest ==
  ASSUME NEW T, T \subseteq Nat, T # {}
  PROVE  \E x \in T : \A y \in T : x <= y
<1> DEFINE R == {z \in Nat \X Nat : z[1] < z[2]}
<1>1. IsWellFoundedOn(R, Nat)
  BY NatLessThanWellFounded, Zenon DEF OpToRel
<1>2. \E x \in T : \A y \in T : ~ (<<y, x>> \in R)
  <2> HIDE DEF R
  <2> QED BY <1>1, WFMin
<1>3. PICK x \in T : \A y \in T : ~ (<<y, x>> \in R)
  BY <1>2
<1>4. ASSUME NEW y \in T PROVE x <= y
  <2>1. x \in Nat /\ y \in Nat /\ <<y, x>> \notin R
    BY <1>3
  <2> QED BY <2>1
<1> QED BY <1>4

\* Counting the elements of a finite set in order reaches each of them once.
LEMMA Ranks ==
  ASSUME NEW K \in SUBSET Int, IsFiniteSet(K)
  PROVE  /\ Cardinality(K) \in Nat
         /\ \A i \in K : Cardinality({h \in K : h <= i}) \in 1 .. Cardinality(K)
         /\ \A i, j \in K : Cardinality({h \in K : h <= i}) = Cardinality({h \in K : h <= j}) => i = j
         /\ \A n \in 1 .. Cardinality(K) : \E i \in K : Cardinality({h \in K : h <= i}) = n
<1> DEFINE up(i) == {h \in K : h <= i}
           r == [i \in K |-> Cardinality(up(i))]
           N == Cardinality(K)
<1>1. N \in Nat
  BY FS_CardinalityType
<1>2. ASSUME NEW i \in K
      PROVE  IsFiniteSet(up(i)) /\ Cardinality(up(i)) \in Nat /\ Cardinality(up(i)) <= N
  <2>1. up(i) \in SUBSET K
    OBVIOUS
  <2> HIDE DEF up
  <2>2. IsFiniteSet(up(i)) /\ Cardinality(up(i)) <= N
    BY <2>1, FS_Subset
  <2> QED
    BY <2>2, FS_CardinalityType
<1>3. ASSUME NEW i \in K PROVE Cardinality(up(i)) \in 1 .. N
  <2>1. up(i) # {}
    OBVIOUS
  <2> HIDE DEF up
  <2>2. Cardinality(up(i)) # 0
    BY <1>2, <2>1, FS_EmptySet
  <2> QED
    BY <1>1, <1>2, <2>2
<1>4. ASSUME NEW i \in K, NEW j \in K, i < j PROVE Cardinality(up(i)) < Cardinality(up(j))
  <2>1. up(i) \in SUBSET up(j) /\ up(i) # up(j)
    <3>1. j \in up(j) /\ j \notin up(i)
      BY <1>4
    <3>2. \A h \in K : h <= i => h <= j
      BY <1>4
    <3> QED
      BY <3>1, <3>2
  <2>2. IsFiniteSet(up(j)) /\ Cardinality(up(j)) \in Nat /\ Cardinality(up(i)) \in Nat
    BY <1>2
  <2> HIDE DEF up
  <2>3. /\ Cardinality(up(i)) <= Cardinality(up(j))
        /\ Cardinality(up(j)) = Cardinality(up(i)) => up(j) = up(i)
    BY <2>1, <2>2, FS_Subset
  <2> QED
    BY <2>1, <2>2, <2>3
<1>5. ASSUME NEW i \in K, NEW j \in K, Cardinality(up(i)) = Cardinality(up(j)) PROVE i = j
  <2>1. CASE i < j
    <3>1. Cardinality(up(i)) < Cardinality(up(j))
      BY <1>4, <2>1
    <3> QED
      BY <1>2, <1>5, <3>1
  <2>2. CASE j < i
    <3>1. Cardinality(up(j)) < Cardinality(up(i))
      BY <1>4, <2>2
    <3> QED
      BY <1>2, <1>5, <3>1
  <2> QED
    BY <2>1, <2>2
<1>6. ASSUME NEW n \in 1 .. N PROVE \E i \in K : Cardinality(up(i)) = n
  <2> HIDE DEF up
  <2>1. r \in [K -> 1 .. N] /\ \A i, j \in K : r[i] = r[j] => i = j
    BY <1>3, <1>5
  <2>2. IsFiniteSet(1 .. N) /\ Cardinality(1 .. N) = N
    <3>1. 1 \in Int /\ N \in Int
      BY <1>1
    <3>2. IsFiniteSet(1 .. N) /\ Cardinality(1 .. N) = IF 1 > N THEN 0 ELSE N - 1 + 1
      BY <3>1, FS_Interval
    <3> QED
      BY <1>1, <3>2
  <2> HIDE DEF N, r
  <2>3. r \in Injection(K, 1 .. N)
    BY <2>1 DEF Injection, IsInjective
  <2>4. r \in Surjection(K, 1 .. N)
    BY <2>2, <2>3, FS_Injection DEF N
  <2>5. \E i \in K : r[i] = n
    BY <1>6, <2>4 DEF Surjection
  <2> QED
    BY <2>5 DEF r
<1> QED
  BY <1>1, <1>3, <1>5, <1>6

(***************************************************************************)
(* Sums as numbers of cells.                                               *)
(***************************************************************************)

\* A finite histogram has finitely many cells.
LEMMA CellsFinite ==
  ASSUME NEW I, IsFiniteSet(I), NEW n \in [I -> Int]
  PROVE  IsFiniteSet(Cells(n)) /\ CellSum(n) \in Nat
<1> DEFINE col == [i \in I |-> {i} \X (1 .. n[i])]
           T   == {{i} \X (1 .. n[i]) : i \in I}
<1>1. ASSUME NEW i \in I PROVE IsFiniteSet({i} \X (1 .. n[i]))
  <2>1. IsFiniteSet(1 .. n[i])
    BY FS_Interval
  <2>2. IsFiniteSet({i})
    BY FS_Singleton
  <2> QED
    BY <2>1, <2>2, FS_Product
<1>2. col \in Surjection(I, T)
  BY DEF Surjection
<1>3. IsFiniteSet(T)
  BY <1>2, FS_Surjection
<1>4. IsFiniteSet(UNION T)
  BY <1>1, <1>3, FS_UNION
<1> QED
  BY <1>4, FS_CardinalityType DEF Cells, CellSum

\* Raising one entry from a to b adds b - a cells.
LEMMA CellsRaise ==
  ASSUME NEW I, IsFiniteSet(I), NEW n \in [I -> Nat], NEW j \in I,
         NEW b \in Nat, n[j] <= b
  PROVE  CellSum([n EXCEPT ![j] = b]) = CellSum(n) + (b - n[j])
<1> DEFINE m   == [n EXCEPT ![j] = b]
           new == {j} \X (n[j] + 1 .. b)
<1>1. m \in [I -> Nat] /\ m[j] = b /\ \A i \in I : i # j => m[i] = n[i]
  OBVIOUS
<1>2. Cells(m) = Cells(n) \cup new
  <2>1. ASSUME NEW c \in Cells(m) PROVE c \in Cells(n) \cup new
    <3>1. PICK i \in I : c \in {i} \X (1 .. m[i])
      BY <1>1, <2>1 DEF Cells
    <3>2. CASE i # j
      BY <1>1, <3>1, <3>2 DEF Cells
    <3>3. CASE i = j
      <4>1. PICK k \in 1 .. b : c = <<j, k>>
        BY <1>1, <3>1, <3>3
      <4>2. CASE k <= n[j]
        BY <4>1, <4>2 DEF Cells
      <4>3. CASE k > n[j]
        BY <4>1, <4>3
      <4> QED
        BY <4>2, <4>3
    <3> QED
      BY <3>2, <3>3
  <2>2. ASSUME NEW c \in Cells(n) PROVE c \in Cells(m)
    <3>1. PICK i \in I : c \in {i} \X (1 .. n[i])
      BY <2>2 DEF Cells
    <3>2. c \in {i} \X (1 .. m[i])
      BY <1>1, <3>1
    <3> QED
      BY <1>1, <3>2 DEF Cells
  <2>3. new \subseteq Cells(m)
    BY <1>1 DEF Cells
  <2> QED
    BY <2>1, <2>2, <2>3
<1>3. Cells(n) \cap new = {}
  BY DEF Cells
<1>4. IsFiniteSet(new) /\ Cardinality(new) = b - n[j]
  <2>1. /\ IsFiniteSet(n[j] + 1 .. b)
        /\ Cardinality(n[j] + 1 .. b) = b - n[j]
    <3>1. n[j] \in Int /\ n[j] + 1 \in Int /\ b \in Int
      OBVIOUS
    <3>2. /\ IsFiniteSet(n[j] + 1 .. b)
          /\ Cardinality(n[j] + 1 .. b)
               = IF n[j] + 1 > b THEN 0 ELSE b - (n[j] + 1) + 1
      BY <3>1, FS_Interval
    <3> QED
      BY <3>1, <3>2
  <2>2. IsFiniteSet({j}) /\ Cardinality({j}) = 1
    BY FS_Singleton
  <2>3. /\ IsFiniteSet({j} \X (n[j] + 1 .. b))
        /\ Cardinality({j} \X (n[j] + 1 .. b))
             = Cardinality({j}) * Cardinality(n[j] + 1 .. b)
    BY <2>1, <2>2, FS_Product
  <2> QED
    BY <2>1, <2>2, <2>3
<1>5. IsFiniteSet(Cells(n)) /\ CellSum(n) \in Nat
  <2>1. n \in [I -> Int]
    OBVIOUS
  <2> QED
    BY <2>1, CellsFinite
<1>6. Cardinality(Cells(n) \cup new)
        = Cardinality(Cells(n)) + Cardinality(new) - Cardinality(Cells(n) \cap new)
  BY <1>4, <1>5, FS_Union
<1>7. Cardinality(Cells(n) \cap new) = 0
  BY <1>3, FS_EmptySet
<1>8. CellSum(m) = CellSum(n) + Cardinality(new)
  <2>1. Cardinality(new) \in Int
    BY <1>4
  <2> HIDE DEF m, new
  <2> QED
    BY <1>2, <1>5, <1>6, <1>7, <2>1 DEF CellSum
<1> QED
  BY <1>4, <1>8

\* Changing one entry changes the sum by the same amount.
LEMMA CellsChange ==
  ASSUME NEW I, IsFiniteSet(I), NEW n \in [I -> Nat], NEW j \in I, NEW b \in Nat
  PROVE  CellSum([n EXCEPT ![j] = b]) = CellSum(n) + (b - n[j])
<1>1. CASE n[j] <= b
  BY <1>1, CellsRaise
<1>2. CASE b < n[j]
  <2> DEFINE m == [n EXCEPT ![j] = b]
  <2>1. m \in [I -> Nat] /\ m[j] = b /\ n[j] \in Nat
    OBVIOUS
  <2>2. n = [m EXCEPT ![j] = n[j]]
    <3>1. DOMAIN [m EXCEPT ![j] = n[j]] = I /\ DOMAIN n = I
      OBVIOUS
    <3>2. ASSUME NEW i \in I PROVE [m EXCEPT ![j] = n[j]][i] = n[i]
      OBVIOUS
    <3>3. [m EXCEPT ![j] = n[j]] \in [I -> Nat]
      BY <2>1
    <3> QED
      BY <3>1, <3>2, <3>3
  <2>3. CellSum(m) \in Nat
    <3>1. m \in [I -> Int]
      BY <2>1
    <3> QED
      BY <3>1, CellsFinite
  <2> HIDE DEF m
  <2>4. CellSum([m EXCEPT ![j] = n[j]]) = CellSum(m) + (n[j] - m[j])
    <3>1. m[j] <= n[j]
      BY <1>2, <2>1
    <3> QED
      BY <2>1, <3>1, CellsRaise
  <2>5. CellSum(n) = CellSum(m) + (n[j] - b)
    BY <2>1, <2>2, <2>4
  <2> QED
    BY <2>1, <2>3, <2>5 DEF m
<1> QED
  BY <1>1, <1>2

\* A sum of nothing but zeros is zero, and no entry exceeds the sum.
LEMMA CellsNone ==
  ASSUME NEW I, NEW n \in [I -> Nat], \A i \in I : n[i] = 0
  PROVE  CellSum(n) = 0
<1>1. Cells(n) = {}
  BY DEF Cells
<1> QED
  BY <1>1, FS_EmptySet DEF CellSum

LEMMA CellsLeast ==
  ASSUME NEW I, IsFiniteSet(I), NEW n \in [I -> Nat], NEW j \in I
  PROVE  n[j] <= CellSum(n)
<1> DEFINE k == [n EXCEPT ![j] = 0]
<1>1. CellSum(k) = CellSum(n) + (0 - n[j])
  BY CellsChange
<1>2. k \in [I -> Int] /\ n \in [I -> Int] /\ n[j] \in Int
  OBVIOUS
<1>3. CellSum(k) \in Nat /\ CellSum(n) \in Nat
  <2> HIDE DEF k
  <2> QED
    BY <1>2, CellsFinite
<1> HIDE DEF k
<1> QED
  BY <1>1, <1>2, <1>3

\* An entry of no bytes adds no cell, wherever it is.
LEMMA CellsBeyond ==
  ASSUME NEW I, NEW J, I \subseteq J, NEW n \in [I -> Nat], NEW k \in [J -> Nat],
         \A i \in I : k[i] = n[i], \A i \in J \ I : k[i] = 0
  PROVE  Cells(k) = Cells(n)
<1>1. ASSUME NEW c \in Cells(k) PROVE c \in Cells(n)
  <2>1. PICK i \in J : c \in {i} \X (1 .. k[i])
    BY DEF Cells
  <2>2. i \in I
    BY <2>1
  <2> QED
    BY <2>1, <2>2 DEF Cells
<1>2. ASSUME NEW c \in Cells(n) PROVE c \in Cells(k)
  BY DEF Cells
<1> QED
  BY <1>1, <1>2

\* The sum over a queue of what w makes of each element.
Weights(q, w) == [i \in DOMAIN q |-> w[q[i]]]

LEMMA WeightsType ==
  ASSUME NEW T, NEW w \in [T -> Nat], NEW q \in Seq(T)
  PROVE  /\ Weights(q, w) \in [1 .. Len(q) -> Nat]
         /\ CellSum(Weights(q, w)) \in Nat
<1>1. Weights(q, w) \in [1 .. Len(q) -> Nat] /\ Weights(q, w) \in [1 .. Len(q) -> Int]
  BY DEF Weights
<1>2. IsFiniteSet(1 .. Len(q))
  BY FS_Interval
<1> QED
  BY <1>1, <1>2, CellsFinite

\* Nothing is in an empty queue.
LEMMA SumEmpty == ASSUME NEW w PROVE CellSum(Weights(<< >>, w)) = 0
<1>1. Cells(Weights(<< >>, w)) = {}
  BY DEF Cells, Weights
<1> QED BY <1>1, FS_EmptySet DEF CellSum

LEMMA CellsOneMore ==
  ASSUME NEW N \in Nat, NEW n \in [1 .. N -> Nat]
  PROVE  Cells([i \in 1 .. N + 1 |-> IF i <= N THEN n[i] ELSE 0]) = Cells(n)
<1> DEFINE k == [i \in 1 .. N + 1 |-> IF i <= N THEN n[i] ELSE 0]
           I == 1 .. N
           J == 1 .. N + 1
<1>1. I \subseteq J /\ n \in [I -> Nat] /\ k \in [J -> Nat]
  OBVIOUS
<1>2. \A i \in I : k[i] = n[i]
  OBVIOUS
<1>3. \A i \in J \ I : k[i] = 0
  OBVIOUS
<1> HIDE DEF k, I, J
<1>4. Cells(k) = Cells(n)
  <2>1. ASSUME NEW c \in Cells(k) PROVE c \in Cells(n)
    <3>1. PICK i \in J : c \in {i} \X (1 .. k[i])
      BY <1>1, <2>1 DEF Cells
    <3>2. i \in I
      BY <1>3, <3>1
    <3> QED
      BY <1>1, <1>2, <3>1, <3>2 DEF Cells
  <2>2. ASSUME NEW c \in Cells(n) PROVE c \in Cells(k)
    <3>1. PICK i \in I : c \in {i} \X (1 .. n[i])
      BY <1>1, <2>2 DEF Cells
    <3> QED
      BY <1>1, <1>2, <3>1 DEF Cells
  <2> QED
    BY <2>1, <2>2
<1> QED
  BY <1>4 DEF k

\* An element at the end of a queue adds its weight.
LEMMA SumAppend ==
  ASSUME NEW T, NEW w \in [T -> Nat], NEW s \in Seq(T), NEW p \in T
  PROVE  CellSum(Weights(Append(s, p), w)) = CellSum(Weights(s, w)) + w[p]
<1> DEFINE t == Append(s, p)
           n == Weights(s, w)
           k == [i \in 1 .. Len(s) + 1 |-> IF i <= Len(s) THEN n[i] ELSE 0]
           last == Len(s) + 1
           b == w[p]
<1>1. /\ t \in Seq(T) /\ Len(t) = last /\ last \in Nat /\ t[last] = p
      /\ DOMAIN t = 1 .. last /\ DOMAIN s = 1 .. Len(s)
      /\ \A i \in 1 .. Len(s) : t[i] = s[i]
  OBVIOUS
<1>2. n \in [1 .. Len(s) -> Nat]
  BY WeightsType
<1>3. k \in [1 .. last -> Nat]
  BY <1>2
<1>4. b \in Nat
  OBVIOUS
<1>5. Cells(k) = Cells(n)
  <2>1. Len(s) \in Nat
    OBVIOUS
  <2> HIDE DEF n
  <2> QED
    BY <1>2, <2>1, CellsOneMore
<1>6. Weights(t, w) = [k EXCEPT ![last] = b]
  <2>1. Weights(t, w) \in [1 .. last -> Nat]
    BY <1>1, WeightsType
  <2>2. [k EXCEPT ![last] = b] \in [1 .. last -> Nat]
    BY <1>3, <1>4
  <2>3. ASSUME NEW i \in 1 .. last PROVE Weights(t, w)[i] = [k EXCEPT ![last] = b][i]
    <3>1. Weights(t, w)[i] = w[t[i]]
      BY <1>1 DEF Weights
    <3>2. CASE i = last
      BY <1>1, <1>3, <3>1, <3>2
    <3>3. CASE i # last
      <4>1. i \in 1 .. Len(s) /\ i <= Len(s)
        BY <3>3
      <4>2. n[i] = w[s[i]]
        BY <1>1, <4>1 DEF Weights
      <4>3. [k EXCEPT ![last] = b][i] = n[i]
        BY <3>3, <4>1
      <4> QED
        BY <1>1, <3>1, <4>1, <4>2, <4>3
    <3> QED
      BY <3>2, <3>3
  <2> HIDE DEF k, t
  <2> QED
    BY <2>1, <2>2, <2>3
<1>7. CellSum([k EXCEPT ![last] = b]) = CellSum(k) + (b - k[last])
  <2>1. IsFiniteSet(1 .. last) /\ last \in 1 .. last
    BY FS_Interval
  <2> HIDE DEF k, last, b
  <2> QED
    BY <1>3, <1>4, <2>1, CellsChange
<1>8. k[last] = 0
  OBVIOUS
<1>9. CellSum(k) = CellSum(n)
  BY <1>5 DEF CellSum
<1>10. CellSum(n) \in Nat
  BY WeightsType
<1> HIDE DEF t, n, k, b
<1> QED
  BY <1>4, <1>6, <1>7, <1>8, <1>9, <1>10 DEF t, b, n

\* The element at the head of a queue takes its weight with it.
LEMMA SumTail ==
  ASSUME NEW T, NEW w \in [T -> Nat], NEW s \in Seq(T), s # << >>
  PROVE  CellSum(Weights(s, w)) = CellSum(Weights(Tail(s), w)) + w[Head(s)]
<1> DEFINE t == Tail(s)
           n == Weights(s, w)
           z == [n EXCEPT ![1] = 0]
           m == Weights(t, w)
           len == Len(s)
<1>1. /\ t \in Seq(T) /\ Len(t) = len - 1 /\ len \in Nat \ {0} /\ Head(s) = s[1]
      /\ DOMAIN s = 1 .. len /\ DOMAIN t = 1 .. len - 1
      /\ \A i \in 1 .. len - 1 : t[i] = s[i + 1]
  OBVIOUS
<1>2. /\ n \in [1 .. len -> Nat] /\ m \in [1 .. len - 1 -> Nat] /\ m \in [1 .. len - 1 -> Int]
      /\ CellSum(n) \in Nat /\ CellSum(m) \in Nat
  <2>1. n \in [1 .. len -> Nat] /\ CellSum(n) \in Nat
    BY WeightsType
  <2>2. m \in [1 .. Len(t) -> Nat] /\ CellSum(m) \in Nat
    BY <1>1, WeightsType
  <2> HIDE DEF n, m, t, len
  <2>3. m \in [1 .. len - 1 -> Nat]
    BY <1>1, <2>2
  <2> QED
    BY <2>1, <2>2, <2>3
<1>3. 1 \in 1 .. len /\ IsFiniteSet(1 .. len) /\ IsFiniteSet(1 .. len - 1)
  <2> HIDE DEF len
  <2>1. 1 \in Int /\ len \in Int /\ len - 1 \in Int /\ 1 \in 1 .. len
    BY <1>1
  <2> QED
    BY <2>1, FS_Interval
<1>4. n[1] = w[Head(s)]
  BY <1>1, <1>3 DEF Weights
<1>5. CellSum(z) = CellSum(n) + (0 - n[1]) /\ z \in [1 .. len -> Nat]
  <2> HIDE DEF n, len
  <2> QED
    BY <1>2, <1>3, CellsChange
<1>6. \A i \in 1 .. len - 1 : z[i + 1] = m[i]
  <2> SUFFICES ASSUME NEW i \in 1 .. len - 1 PROVE z[i + 1] = m[i]
    OBVIOUS
  <2>1. i + 1 \in 1 .. len /\ i + 1 # 1
    BY <1>1
  <2>2. n[i + 1] = w[s[i + 1]]
    BY <1>1, <2>1 DEF Weights
  <2>3. m[i] = w[t[i]]
    BY <1>1 DEF Weights
  <2>4. z[i + 1] = n[i + 1]
    <3> HIDE DEF n, len
    <3> QED
      BY <1>2, <2>1
  <2> QED
    BY <1>1, <2>2, <2>3, <2>4
<1>7. z[1] = 0
  <2> HIDE DEF n, len
  <2> QED
    BY <1>2, <1>3
<1> HIDE DEF z, m, len
\* Shifting every cell by one place is a bijection.
<1> DEFINE F == [c \in Cells(m) |-> <<c[1] + 1, c[2]>>]
<1>8. F \in Bijection(Cells(m), Cells(z))
  <2>1. ASSUME NEW c \in Cells(m)
        PROVE  /\ c = <<c[1], c[2]>> /\ c[1] \in 1 .. len - 1 /\ c[2] \in 1 .. m[c[1]]
               /\ F[c] \in Cells(z)
    <3>1. PICK i \in 1 .. len - 1 : c \in {i} \X (1 .. m[i])
      BY <1>2 DEF Cells
    <3>2. c = <<i, c[2]>> /\ c[1] = i /\ c[2] \in 1 .. z[i + 1] /\ i + 1 \in 1 .. len
      BY <1>1, <1>6, <3>1
    <3>3. F[c] \in {i + 1} \X (1 .. z[i + 1])
      BY <3>2
    <3>4. F[c] \in Cells(z)
      BY <1>5, <3>2, <3>3 DEF Cells
    <3> QED
      BY <3>1, <3>2, <3>4
  <2>2. ASSUME NEW c \in Cells(m), NEW e \in Cells(m), F[c] = F[e] PROVE c = e
    <3>1. c[1] + 1 = e[1] + 1 /\ c[2] = e[2]
      BY <2>2
    <3> HIDE DEF F
    <3>2. c = <<c[1], c[2]>> /\ e = <<e[1], e[2]>> /\ c[1] \in 1 .. len - 1 /\ e[1] \in 1 .. len - 1
      BY <2>1
    <3>3. ASSUME NEW i \in 1 .. len - 1, NEW k \in 1 .. len - 1, i + 1 = k + 1 PROVE i = k
      BY <1>1, <3>3
    <3>4. c[1] = e[1]
      BY <3>1, <3>2, <3>3
    <3> QED
      BY <3>1, <3>2, <3>4
  <2>3. ASSUME NEW e \in Cells(z) PROVE \E c \in Cells(m) : F[c] = e
    <3>1. PICK i \in 1 .. len : e \in {i} \X (1 .. z[i])
      BY <1>5 DEF Cells
    <3>2. i # 1
      BY <1>7, <3>1
    <3>3. i - 1 \in 1 .. len - 1 /\ (i - 1) + 1 = i
      BY <1>1, <3>2
    <3>4. e = <<i, e[2]>> /\ e[2] \in 1 .. m[i - 1]
      BY <1>6, <3>1, <3>3
    <3>5. <<i - 1, e[2]>> \in Cells(m)
      BY <1>2, <3>3, <3>4 DEF Cells
    <3> QED
      BY <3>3, <3>4, <3>5
  <2> HIDE DEF F
  <2>4. F \in [Cells(m) -> Cells(z)]
    BY <2>1 DEF F
  <2> QED
    BY <2>2, <2>3, <2>4, Fun_IsBij
<1>9. CellSum(z) = CellSum(m)
  <2>1. IsFiniteSet(Cells(m))
    BY <1>2, <1>3, CellsFinite
  <2> QED
    BY <1>8, <2>1, FS_Bijection DEF CellSum, ExistsBijection
<1>10. w[Head(s)] \in Nat
  BY <1>1, <1>3
<1> HIDE DEF t, n
<1> QED
  BY <1>2, <1>4, <1>5, <1>9, <1>10 DEF n, m, t

-----------------------------------------------------------------------------
(* The packets of a flow in a queue.  A frame that is no data is of no flow. *)

IsOf(d, f) == d.kind = "DATA" /\ d.flow = f
Numbers(q, f) == {q[i].seq : i \in {j \in DOMAIN q : IsOf(q[j], f)}}
Number(d, f) == IF IsOf(d, f) THEN {d.seq} ELSE {}
Rising(q, f) ==
  \A i, j \in DOMAIN q : i < j /\ IsOf(q[i], f) /\ IsOf(q[j], f) => q[i].seq < q[j].seq
Precede(S, T) == \A k \in S, l \in T : k < l

LEMMA NumberIn ==
  ASSUME NEW q, NEW f, NEW k
  PROVE  k \in Numbers(q, f) <=> \E i \in DOMAIN q : IsOf(q[i], f) /\ q[i].seq = k
  BY DEF Numbers

\* A packet that comes after all others of its flow goes to the tail.
LEMMA AppendRising ==
  ASSUME NEW T, NEW q \in Seq(T), NEW d \in T, NEW f, Rising(q, f), Precede(Numbers(q, f), Number(d, f))
  PROVE  /\ Rising(Append(q, d), f)
         /\ Numbers(Append(q, d), f) = Numbers(q, f) \cup Number(d, f)
<1> DEFINE w == Append(q, d)
<1>1. /\ Len(q) \in Nat /\ DOMAIN q = 1 .. Len(q) /\ DOMAIN w = 1 .. Len(q) + 1
      /\ w[Len(q) + 1] = d /\ \A i \in 1 .. Len(q) : w[i] = q[i]
  OBVIOUS
<1>2. \A k : k \in Number(d, f) <=> IsOf(d, f) /\ k = d.seq
  BY DEF Number
<1> HIDE DEF w
<1>3. \A k : k \in Numbers(w, f) <=> k \in Numbers(q, f) \/ k \in Number(d, f)
  <2>1. ASSUME NEW k \in Numbers(w, f) PROVE k \in Numbers(q, f) \/ k \in Number(d, f)
    <3>1. PICK i \in DOMAIN w : IsOf(w[i], f) /\ w[i].seq = k
      BY NumberIn
    <3>2. CASE i = Len(q) + 1
      BY <1>1, <1>2, <3>1, <3>2
    <3>3. CASE i # Len(q) + 1
      <4>1. i \in DOMAIN q /\ w[i] = q[i]
        BY <1>1, <3>3
      <4> QED BY <3>1, <4>1, NumberIn
    <3> QED BY <3>2, <3>3
  <2>2. ASSUME NEW k \in Numbers(q, f) PROVE k \in Numbers(w, f)
    <3>1. PICK i \in DOMAIN q : IsOf(q[i], f) /\ q[i].seq = k
      BY NumberIn
    <3>2. i \in DOMAIN w /\ w[i] = q[i]
      BY <1>1
    <3> QED BY <3>1, <3>2, NumberIn
  <2>3. ASSUME NEW k \in Number(d, f) PROVE k \in Numbers(w, f)
    <3>1. Len(q) + 1 \in DOMAIN w
      BY <1>1
    <3> QED BY <1>1, <1>2, <2>3, <3>1, NumberIn
  <2> QED BY <2>1, <2>2, <2>3
<1>4. ASSUME NEW i \in DOMAIN w, NEW j \in DOMAIN w, i < j, IsOf(w[i], f), IsOf(w[j], f)
      PROVE  w[i].seq < w[j].seq
  <2>1. i \in DOMAIN q /\ w[i] = q[i]
    BY <1>1, <1>4
  <2>2. CASE j = Len(q) + 1
    <3>1. w[i].seq \in Numbers(q, f) /\ w[j].seq \in Number(d, f)
      BY <1>1, <1>2, <1>4, <2>1, <2>2, NumberIn
    <3> QED BY <3>1 DEF Precede
  <2>3. CASE j # Len(q) + 1
    <3>1. j \in DOMAIN q /\ w[j] = q[j]
      BY <1>1, <2>3
    <3> QED BY <1>4, <2>1, <3>1 DEF Rising
  <2> QED BY <2>2, <2>3
<1> QED BY <1>3, <1>4 DEF Rising, w

\* The packet at the head of a queue comes before the others of its flow.
LEMMA TailRising ==
  ASSUME NEW T, NEW q \in Seq(T), q # <<>>, NEW f, Rising(q, f)
  PROVE  /\ Rising(Tail(q), f)
         /\ Numbers(q, f) = Number(Head(q), f) \cup Numbers(Tail(q), f)
         /\ Precede(Number(Head(q), f), Numbers(Tail(q), f))
<1> DEFINE w == Tail(q)
           d == Head(q)
<1>1. /\ Len(q) \in Nat \ {0} /\ DOMAIN q = 1 .. Len(q) /\ DOMAIN w = 1 .. Len(q) - 1
      /\ q[1] = d /\ \A i \in 1 .. Len(q) - 1 : w[i] = q[i + 1]
  OBVIOUS
<1>2. \A k : k \in Number(d, f) <=> IsOf(d, f) /\ k = d.seq
  BY DEF Number
<1> HIDE DEF w, d
<1>3. \A k : k \in Numbers(q, f) <=> k \in Number(d, f) \/ k \in Numbers(w, f)
  <2>1. ASSUME NEW k \in Numbers(q, f) PROVE k \in Number(d, f) \/ k \in Numbers(w, f)
    <3>1. PICK i \in DOMAIN q : IsOf(q[i], f) /\ q[i].seq = k
      BY NumberIn
    <3>2. CASE i = 1
      BY <1>1, <1>2, <3>1, <3>2
    <3>3. CASE i # 1
      <4>1. i - 1 \in DOMAIN w /\ w[i - 1] = q[i]
        <5>1. i - 1 \in 1 .. Len(q) - 1 /\ (i - 1) + 1 = i
          BY <1>1, <3>3
        <5> QED BY <5>1, <1>1
      <4> QED BY <3>1, <4>1, NumberIn
    <3> QED BY <3>2, <3>3
  <2>2. ASSUME NEW k \in Numbers(w, f) PROVE k \in Numbers(q, f)
    <3>1. PICK i \in DOMAIN w : IsOf(w[i], f) /\ w[i].seq = k
      BY NumberIn
    <3>2. i + 1 \in DOMAIN q /\ w[i] = q[i + 1]
      BY <1>1
    <3> QED BY <3>1, <3>2, NumberIn
  <2>3. ASSUME NEW k \in Number(d, f) PROVE k \in Numbers(q, f)
    <3>1. 1 \in DOMAIN q
      BY <1>1
    <3> QED BY <1>1, <1>2, <2>3, <3>1, NumberIn
  <2> QED BY <2>1, <2>2, <2>3
<1>4. ASSUME NEW i \in DOMAIN w, NEW j \in DOMAIN w, i < j, IsOf(w[i], f), IsOf(w[j], f)
      PROVE  w[i].seq < w[j].seq
  <2>1. /\ i + 1 \in DOMAIN q /\ j + 1 \in DOMAIN q /\ i + 1 < j + 1
        /\ w[i] = q[i + 1] /\ w[j] = q[j + 1]
    BY <1>1, <1>4
  <2> QED BY <1>4, <2>1 DEF Rising
<1>5. ASSUME NEW k \in Number(d, f), NEW l \in Numbers(w, f) PROVE k < l
  <2>1. PICK i \in DOMAIN w : IsOf(w[i], f) /\ w[i].seq = l
    BY NumberIn
  <2>2. 1 \in DOMAIN q /\ i + 1 \in DOMAIN q /\ 1 < i + 1 /\ w[i] = q[i + 1]
    BY <1>1
  <2>3. IsOf(q[1], f) /\ q[1].seq = k
    BY <1>1, <1>2, <1>5
  <2> QED BY <2>1, <2>2, <2>3 DEF Rising
<1> QED BY <1>3, <1>4, <1>5 DEF Rising, Precede, w, d

LEMMA ConcatRising ==
  ASSUME NEW T, NEW U, NEW q \in Seq(T), NEW w \in Seq(U), NEW f,
         Rising(q, f), Rising(w, f), Precede(Numbers(q, f), Numbers(w, f))
  PROVE  /\ Rising(q \o w, f)
         /\ Numbers(q \o w, f) = Numbers(q, f) \cup Numbers(w, f)
<1> DEFINE a == q \o w
<1>1. /\ Len(q) \in Nat /\ Len(w) \in Nat
      /\ DOMAIN q = 1 .. Len(q) /\ DOMAIN w = 1 .. Len(w) /\ DOMAIN a = 1 .. Len(q) + Len(w)
      /\ \A j \in 1 .. Len(q) : a[j] = q[j]
      /\ \A j \in 1 .. Len(w) : a[Len(q) + j] = w[j]
  OBVIOUS
<1> HIDE DEF a
<1>2. ASSUME NEW i \in DOMAIN a, i \notin DOMAIN q
      PROVE  i - Len(q) \in DOMAIN w /\ a[i] = w[i - Len(q)]
  <2>1. i - Len(q) \in 1 .. Len(w) /\ Len(q) + (i - Len(q)) = i
    BY <1>1, <1>2
  <2> QED BY <2>1, <1>1
<1>3. \A k : k \in Numbers(a, f) <=> k \in Numbers(q, f) \/ k \in Numbers(w, f)
  <2>1. ASSUME NEW k \in Numbers(a, f) PROVE k \in Numbers(q, f) \/ k \in Numbers(w, f)
    <3>1. PICK i \in DOMAIN a : IsOf(a[i], f) /\ a[i].seq = k
      BY NumberIn
    <3>2. CASE i \in DOMAIN q
      <4>1. a[i] = q[i]
        BY <1>1, <3>2
      <4> QED BY <3>1, <3>2, <4>1, NumberIn
    <3>3. CASE i \notin DOMAIN q
      BY <1>2, <3>1, <3>3, NumberIn
    <3> QED BY <3>2, <3>3
  <2>2. ASSUME NEW k \in Numbers(q, f) PROVE k \in Numbers(a, f)
    <3>1. PICK i \in DOMAIN q : IsOf(q[i], f) /\ q[i].seq = k
      BY NumberIn
    <3>2. i \in DOMAIN a /\ a[i] = q[i]
      BY <1>1
    <3> QED BY <3>1, <3>2, NumberIn
  <2>3. ASSUME NEW k \in Numbers(w, f) PROVE k \in Numbers(a, f)
    <3>1. PICK i \in DOMAIN w : IsOf(w[i], f) /\ w[i].seq = k
      BY NumberIn
    <3>2. Len(q) + i \in DOMAIN a /\ a[Len(q) + i] = w[i]
      BY <1>1
    <3> QED BY <3>1, <3>2, NumberIn
  <2> QED BY <2>1, <2>2, <2>3
<1>4. ASSUME NEW i \in DOMAIN a, NEW j \in DOMAIN a, i < j, IsOf(a[i], f), IsOf(a[j], f)
      PROVE  a[i].seq < a[j].seq
  <2>1. CASE j \in DOMAIN q
    <3>1. i \in DOMAIN q /\ a[i] = q[i] /\ a[j] = q[j]
      BY <1>1, <1>4, <2>1
    <3> QED BY <1>4, <2>1, <3>1 DEF Rising
  <2>2. CASE j \notin DOMAIN q /\ i \in DOMAIN q
    <3>1. a[i] = q[i]
      BY <1>1, <2>2
    <3>2. a[i].seq \in Numbers(q, f)
      BY <1>4, <2>2, <3>1, NumberIn
    <3>3. a[j].seq \in Numbers(w, f)
      BY <1>2, <1>4, <2>2, NumberIn
    <3> QED BY <3>2, <3>3 DEF Precede
  <2>3. CASE j \notin DOMAIN q /\ i \notin DOMAIN q
    <3>1. i - Len(q) \in DOMAIN w /\ a[i] = w[i - Len(q)]
      BY <1>2, <2>3
    <3>2. j - Len(q) \in DOMAIN w /\ a[j] = w[j - Len(q)]
      BY <1>2, <2>3
    <3>3. i - Len(q) < j - Len(q)
      BY <1>1, <1>4
    <3> QED BY <1>4, <3>1, <3>2, <3>3 DEF Rising
  <2> QED BY <2>1, <2>2, <2>3
<1> QED BY <1>3, <1>4 DEF Rising, a

\* No packets of a flow.
LEMMA NoNumbers ==
  ASSUME NEW q, NEW f, \A i \in DOMAIN q : ~ IsOf(q[i], f)
  PROVE  Numbers(q, f) = {} /\ Rising(q, f)
<1>1. \A k : k \notin Numbers(q, f)
  BY NumberIn
<1> QED BY <1>1 DEF Rising

-----------------------------------------------------------------------------
(* A line of queues: 0 is drained first *)

\* Each queue has the packets of the flow in order, and a queue that is
\* drained earlier has the earlier ones.
InLine(q, K, f) ==
  /\ \A k \in 0 .. K : Rising(q[k], f)
  /\ \A k, l \in 0 .. K : k < l => Precede(Numbers(q[k], f), Numbers(q[l], f))
Content(q, K, f) == UNION {Numbers(q[k], f) : k \in 0 .. K}


\* The queues hold packets, none of them of the flow between a and b.
Filled(q, K, T) == \A k \in 0 .. K : q[k] \in Seq(T)
Free(q, K, b, a, f) == \A k \in 0 .. K : b < k /\ k < a => Numbers(q[k], f) = {}

LEMMA ContentIn ==
  ASSUME NEW q, NEW K, NEW f, NEW x
  PROVE  x \in Content(q, K, f) <=> \E k \in 0 .. K : x \in Numbers(q[k], f)
  BY DEF Content

\* A queue is the same to a flow.
Alike(q, w, f) == Numbers(w, f) = Numbers(q, f) /\ (Rising(q, f) => Rising(w, f))

LEMMA LineAlike ==
  ASSUME NEW q, NEW w, NEW K, NEW f, \A k \in 0 .. K : Alike(q[k], w[k], f)
  PROVE  /\ InLine(q, K, f) => InLine(w, K, f)
         /\ Content(w, K, f) = Content(q, K, f)
<1>1. \A x : x \in Content(w, K, f) <=> x \in Content(q, K, f)
  BY ContentIn DEF Alike
<1> QED BY <1>1 DEF InLine, Alike

\* A packet of another flow at a head or a tail.
LEMMA OtherFlow ==
  ASSUME NEW T, NEW q \in Seq(T), NEW d, NEW f, ~ IsOf(d, f)
  PROVE  /\ d \in T => Alike(q, Append(q, d), f)
         /\ q # <<>> /\ d = Head(q) => Alike(q, Tail(q), f)
<1>1. Number(d, f) = {} /\ Precede(Numbers(q, f), Number(d, f))
  BY DEF Number, Precede
<1>2. ASSUME d \in T PROVE Alike(q, Append(q, d), f)
  <2> DEFINE w == Append(q, d)
  <2>1. /\ Len(q) \in Nat /\ DOMAIN q = 1 .. Len(q) /\ DOMAIN w = 1 .. Len(q) + 1
        /\ w[Len(q) + 1] = d /\ \A i \in 1 .. Len(q) : w[i] = q[i]
    BY <1>2
  <2> HIDE DEF w
  <2>2. \A i \in DOMAIN w : IsOf(w[i], f) => i \in DOMAIN q /\ w[i] = q[i]
    BY <2>1
  <2>3. \A i \in DOMAIN q : i \in DOMAIN w /\ w[i] = q[i]
    BY <2>1
  <2>4. \A k : k \in Numbers(w, f) <=> k \in Numbers(q, f)
    BY <2>2, <2>3, NumberIn
  <2>5. Rising(q, f) => Rising(w, f)
    BY <2>2 DEF Rising
  <2> QED BY <2>4, <2>5 DEF Alike, w
<1>3. ASSUME q # <<>>, d = Head(q) PROVE Alike(q, Tail(q), f)
  <2> DEFINE w == Tail(q)
  <2>1. /\ Len(q) \in Nat \ {0} /\ DOMAIN q = 1 .. Len(q) /\ DOMAIN w = 1 .. Len(q) - 1
        /\ q[1] = d /\ \A i \in 1 .. Len(q) - 1 : w[i] = q[i + 1]
    BY <1>3
  <2> HIDE DEF w
  <2>2. \A i \in DOMAIN w : i + 1 \in DOMAIN q /\ w[i] = q[i + 1]
    BY <2>1
  <2>3. \A i \in DOMAIN q : IsOf(q[i], f) => i - 1 \in DOMAIN w /\ w[i - 1] = q[i]
    <3>1. ASSUME NEW i \in DOMAIN q, i # 1 PROVE i - 1 \in 1 .. Len(q) - 1 /\ (i - 1) + 1 = i
      BY <2>1, <3>1
    <3> QED BY <2>1, <3>1
  <2>4. \A k : k \in Numbers(w, f) <=> k \in Numbers(q, f)
    BY <2>2, <2>3, NumberIn
  <2>5. ASSUME Rising(q, f), NEW i \in DOMAIN w, NEW j \in DOMAIN w, i < j, IsOf(w[i], f), IsOf(w[j], f)
        PROVE  w[i].seq < w[j].seq
    <3>1. i + 1 < j + 1
      BY <2>1, <2>5
    <3> QED BY <2>2, <2>5, <3>1 DEF Rising
  <2> QED BY <2>4, <2>5 DEF Alike, Rising, w
<1> QED BY <1>2, <1>3

\* The packet at the head of one queue goes to the tail of a nearer one, with
\* no packets of its flow in between.
MovesIn(q, w, K, a, b, d) ==
  /\ a \in 0 .. K /\ b \in 0 .. K /\ b < a
  /\ q[a] # <<>> /\ d = Head(q[a])
  /\ w[a] = Tail(q[a]) /\ w[b] = Append(q[b], d)
  /\ \A k \in 0 .. K : k # a /\ k # b => w[k] = q[k]

LEMMA LineMove ==
  ASSUME NEW T, NEW K \in Nat, NEW q, Filled(q, K, T), NEW f, InLine(q, K, f),
         NEW w, NEW a, NEW b, NEW d \in T, MovesIn(q, w, K, a, b, d), Free(q, K, b, a, f)
  PROVE  InLine(w, K, f) /\ Content(w, K, f) = Content(q, K, f)
<1> DEFINE N == Number(d, f)
<1>1. a \in 0 .. K /\ b \in 0 .. K /\ b < a /\ \A k \in 0 .. K : k # a /\ k # b => w[k] = q[k]
  BY DEF MovesIn
<1>2. /\ Rising(w[a], f) /\ Numbers(q[a], f) = N \cup Numbers(w[a], f)
      /\ Precede(N, Numbers(w[a], f))
  <2>1. q[a] \in Seq(T) /\ q[a] # <<>> /\ w[a] = Tail(q[a]) /\ d = Head(q[a]) /\ Rising(q[a], f)
    BY DEF MovesIn, InLine, Filled
  <2> QED BY <2>1, TailRising
<1>3. Precede(Numbers(q[b], f), N)
  BY <1>1, <1>2 DEF InLine, Precede
<1>4. Rising(w[b], f) /\ Numbers(w[b], f) = Numbers(q[b], f) \cup N
  <2>1. q[b] \in Seq(T) /\ w[b] = Append(q[b], d) /\ Rising(q[b], f)
    BY DEF MovesIn, InLine, Filled
  <2> QED BY <1>3, <2>1, AppendRising
<1> HIDE DEF N
<1>5. \A k \in 0 .. K : Rising(w[k], f)
  BY <1>1, <1>2, <1>4 DEF InLine
<1> DEFINE Q == [k \in 0 .. K |-> Numbers(q[k], f)]
           W == [k \in 0 .. K |-> Numbers(w[k], f)]
<1>6. /\ \A k, l \in 0 .. K : k < l => Precede(Q[k], Q[l])
      /\ \A k \in 0 .. K : b < k /\ k < a => Q[k] = {}
      /\ Q[a] = N \cup W[a] /\ Precede(N, W[a]) /\ W[b] = Q[b] \cup N
      /\ \A k \in 0 .. K : k # a /\ k # b => W[k] = Q[k]
  BY <1>1, <1>2, <1>4 DEF InLine, Free
<1>7. /\ Content(q, K, f) = UNION {Q[k] : k \in 0 .. K}
      /\ Content(w, K, f) = UNION {W[k] : k \in 0 .. K}
  BY DEF Content
<1>8. (\A k, l \in 0 .. K : k < l => Precede(W[k], W[l])) => InLine(w, K, f)
  BY <1>5 DEF InLine
<1> HIDE DEF Q, W
<1>9. ASSUME NEW k \in 0 .. K, NEW l \in 0 .. K, k < l, NEW x \in W[k], NEW y \in W[l]
      PROVE  x < y
  <2>1. CASE x \in Q[k] /\ y \in Q[l]
    BY <1>6, <1>9, <2>1 DEF Precede
  <2>2. CASE k = b /\ x \in N
    <3>1. CASE l = a
      BY <1>6, <1>9, <2>2, <3>1 DEF Precede
    <3>2. CASE l # a
      <4>1. y \in Q[l] /\ a < l
        BY <1>1, <1>6, <1>9, <2>2, <3>2
      <4> QED BY <1>1, <1>6, <2>2, <4>1 DEF Precede
    <3> QED BY <3>1, <3>2
  <2>3. CASE l = b /\ y \in N
    <3>1. x \in Q[k] /\ k < a /\ y \in Q[a]
      BY <1>1, <1>6, <1>9, <2>3
    <3> QED BY <1>1, <3>1, <1>6 DEF Precede
  <2> QED BY <1>1, <1>6, <1>9, <2>1, <2>2, <2>3
<1>10. \A x : (\E k \in 0 .. K : x \in W[k]) <=> (\E k \in 0 .. K : x \in Q[k])
  BY <1>1, <1>6
<1>11. UNION {W[k] : k \in 0 .. K} = UNION {Q[k] : k \in 0 .. K}
  BY <1>10
<1>12. \A k, l \in 0 .. K : k < l => Precede(W[k], W[l])
  BY <1>9 DEF Precede
<1> QED BY <1>7, <1>8, <1>11, <1>12

\* A packet that comes after the others of its flow goes to the tail of a
\* queue, with none of its flow in the queues beyond.
ArrivesIn(q, w, K, b, d) ==
  /\ b \in 0 .. K /\ w[b] = Append(q[b], d)
  /\ \A k \in 0 .. K : k # b => w[k] = q[k]

LEMMA LineArrive ==
  ASSUME NEW T, NEW K \in Nat, NEW q, Filled(q, K, T), NEW f, InLine(q, K, f),
         NEW w, NEW b, NEW d \in T, ArrivesIn(q, w, K, b, d),
         Precede(Content(q, K, f), Number(d, f)), Free(q, K, b, K + 1, f)
  PROVE  InLine(w, K, f) /\ Content(w, K, f) = Content(q, K, f) \cup Number(d, f)
<1> DEFINE N == Number(d, f)
<1>1. b \in 0 .. K /\ \A k \in 0 .. K : k # b => w[k] = q[k]
  BY DEF ArrivesIn
<1>2. \A k \in 0 .. K : Precede(Numbers(q[k], f), N)
  BY ContentIn DEF Precede
<1>3. Rising(w[b], f) /\ Numbers(w[b], f) = Numbers(q[b], f) \cup N
  <2>1. q[b] \in Seq(T) /\ w[b] = Append(q[b], d) /\ Rising(q[b], f)
    BY DEF ArrivesIn, InLine, Filled
  <2> QED BY <1>1, <1>2, <2>1, AppendRising
<1> HIDE DEF N
<1>4. \A k \in 0 .. K : Rising(w[k], f)
  BY <1>1, <1>3 DEF InLine
<1>5. ASSUME NEW k \in 0 .. K, NEW l \in 0 .. K, k < l, NEW x \in Numbers(w[k], f), NEW y \in Numbers(w[l], f)
      PROVE  x < y
  <2>1. CASE k = b
    <3>1. b < l /\ l # b /\ w[l] = q[l]
      BY <1>1, <1>5, <2>1
    <3>2. Numbers(w[l], f) = {}
      BY <3>1 DEF Free
    <3> QED BY <3>2, <1>5
  <2>2. CASE k # b
    <3>1. x \in Numbers(q[k], f) /\ (y \in Numbers(q[l], f) \/ y \in N)
      BY <1>1, <1>3, <1>5, <2>2
    <3> QED BY <1>2, <1>5, <3>1 DEF InLine, Precede
  <2> QED BY <2>1, <2>2
<1>6. \A x : x \in Content(w, K, f) <=> x \in Content(q, K, f) \/ x \in N
  BY <1>1, <1>3, ContentIn
<1> QED BY <1>4, <1>5, <1>6 DEF InLine, Precede, N

(***************************************************************************)
(* Maps of the code, bounds, and queues whose packets are in order.        *)
(***************************************************************************)

\* A map of the code: defined for some elements of I.
Partial(I, S) == UNION {[D -> S] : D \in SUBSET I}

LEMMA PartialIs ==
  ASSUME NEW I, NEW S, NEW f
  PROVE  f \in Partial(I, S) <=> f \in [DOMAIN f -> S] /\ DOMAIN f \subseteq I
  BY DEF Partial

\* A set of naturals below a bound has a greatest element.
LEMMA Greatest ==
  ASSUME NEW n \in Nat, NEW T, T \subseteq 0 .. n - 1, T # {}
  PROVE  \E x \in T : \A y \in T : y <= x
<1> DEFINE U == {n - x : x \in T}
<1>1. U \subseteq Nat /\ U # {}
  <2>1. \A x \in T : x \in Int /\ 0 <= x /\ x <= n - 1 /\ n - x \in Nat
    OBVIOUS
  <2> QED
    BY <2>1, Zenon
<1>2. PICK u \in U : \A v \in U : u <= v
  <2> HIDE DEF U
  <2> QED
    BY <1>1, Smallest, Zenon
<1>3. PICK x \in T : u = n - x
  OBVIOUS
<1>4. ASSUME NEW y \in T PROVE y <= x
  <2>1. n - y \in U
    OBVIOUS
  <2>2. n - x <= n - y
    BY <1>2, <1>3, <2>1
  <2>3. x \in Nat /\ y \in Nat
    OBVIOUS
  <2> QED
    BY <2>2, <2>3
<1> QED
  BY <1>4

\* The packets in a queue that k is about are in order, and within lo and hi.
Numbered(q, k, lo, hi) ==
  \A i \in DOMAIN q : q[i] \in k.mem =>
    /\ lo <= k.lo[q[i]] /\ k.hi[q[i]] <= hi
    /\ \A j \in DOMAIN q : i < j /\ q[j] \in k.mem => k.hi[q[i]] <= k.lo[q[j]]

LEMMA NumberedNone ==
  ASSUME NEW k, NEW q, \A i \in DOMAIN q : q[i] \notin k.mem, NEW lo, NEW hi
  PROVE  Numbered(q, k, lo, hi)
  BY DEF Numbered

\* Frames that k is not about do not count.
LEMMA NumberedBefore ==
  ASSUME NEW k, NEW T, NEW q \in Seq(T), NEW r \in Seq(T), \A i \in DOMAIN r : r[i] \notin k.mem,
         NEW lo, NEW hi, Numbered(q, k, lo, hi)
  PROVE  Numbered(q \o r, k, lo, hi)
<1> DEFINE z == q \o r
<1>1. /\ Len(q) \in Nat /\ Len(r) \in Nat /\ DOMAIN q = 1 .. Len(q) /\ DOMAIN r = 1 .. Len(r)
      /\ DOMAIN z = 1 .. Len(q) + Len(r)
      /\ \A i \in DOMAIN z : z[i] = IF i <= Len(q) THEN q[i] ELSE r[i - Len(q)]
  OBVIOUS
<1> HIDE DEF z
<1>2. ASSUME NEW i \in DOMAIN z, z[i] \in k.mem PROVE i \in DOMAIN q /\ z[i] = q[i]
  <2>1. CASE i <= Len(q)
    BY <1>1, <2>1
  <2>2. CASE ~ (i <= Len(q))
    <3>1. i - Len(q) \in DOMAIN r /\ z[i] = r[i - Len(q)]
      BY <1>1, <2>2
    <3> QED
      BY <1>2, <3>1
  <2> QED
    BY <2>1, <2>2
<1>3. Numbered(z, k, lo, hi)
  BY <1>2 DEF Numbered
<1> QED
  BY <1>3 DEF z

\* Every number after lo up to hi is some packet's.
Covers(q, k, lo, hi) ==
  \A n \in Int : lo < n /\ n <= hi => \E i \in DOMAIN q : q[i] \in k.mem /\ k.lo[q[i]] < n /\ n <= k.hi[q[i]]

LEMMA CoversAppend ==
  ASSUME NEW k, NEW T, NEW q \in Seq(T), NEW p \in T, NEW lo \in Int, NEW c \in Int, NEW hi \in Int, Covers(q, k, lo, c),
         c = hi \/ (p \in k.mem /\ k.lo[p] = c /\ k.hi[p] = hi)
  PROVE  Covers(Append(q, p), k, lo, hi)
<1> DEFINE r == Append(q, p)
<1>1. /\ Len(q) \in Nat /\ DOMAIN q = 1 .. Len(q) /\ DOMAIN r = 1 .. Len(q) + 1
      /\ r[Len(q) + 1] = p /\ \A i \in DOMAIN q : i \in DOMAIN r /\ r[i] = q[i]
  OBVIOUS
<1> HIDE DEF r
<1> SUFFICES ASSUME NEW n \in Int, lo < n, n <= hi
             PROVE  \E i \in DOMAIN r : r[i] \in k.mem /\ k.lo[r[i]] < n /\ n <= k.hi[r[i]]
  BY DEF Covers, r
<1>2. CASE n <= c
  <2>1. PICK i \in DOMAIN q : q[i] \in k.mem /\ k.lo[q[i]] < n /\ n <= k.hi[q[i]]
    BY <1>2 DEF Covers
  <2> QED
    BY <1>1, <2>1
<1>3. CASE ~ (n <= c)
  <2>1. p \in k.mem /\ k.lo[p] < n /\ n <= k.hi[p]
    BY <1>3
  <2>2. Len(q) + 1 \in DOMAIN r
    BY <1>1
  <2> QED
    BY <1>1, <2>1, <2>2
<1> QED
  BY <1>2, <1>3

\* What is left of a queue was there.
LEMMA TailLeft ==
  ASSUME NEW T, NEW q \in Seq(T), q # << >>
  PROVE  /\ Tail(q) \in Seq(T) /\ Head(q) \in T /\ 1 \in DOMAIN q /\ q[1] = Head(q)
         /\ \A i \in DOMAIN Tail(q) : \E j \in DOMAIN q : q[j] = Tail(q)[i]
<1>1. ASSUME NEW i \in DOMAIN Tail(q) PROVE i + 1 \in DOMAIN q /\ q[i + 1] = Tail(q)[i]
  OBVIOUS
<1> QED
  BY <1>1

\* What has arrived: in rising order, and up to b.
Arriving(r, b) ==
  /\ r \in Seq(Int) /\ Len(r) <= b
  /\ \A i \in DOMAIN r : r[i] <= b /\ \A j \in DOMAIN r : i < j => r[i] < r[j]

LEMMA ArrivingAppend ==
  ASSUME NEW r, NEW b \in Int, NEW x \in Int, Arriving(r, b), b < x
  PROVE  Arriving(Append(r, x), x)
<1> DEFINE z == Append(r, x)
<1>1. r \in Seq(Int) /\ Len(r) <= b
  BY DEF Arriving
<1>2. /\ Len(r) \in Nat /\ DOMAIN r = 1 .. Len(r) /\ DOMAIN z = 1 .. Len(r) + 1 /\ z \in Seq(Int) /\ Len(z) = Len(r) + 1
      /\ z[Len(r) + 1] = x /\ \A i \in DOMAIN r : z[i] = r[i] /\ r[i] \in Int
  BY <1>1
<1> HIDE DEF z
<1>3. ASSUME NEW i \in DOMAIN z PROVE z[i] <= x /\ \A j \in DOMAIN z : i < j => z[i] < z[j]
  <2>1. CASE i = Len(r) + 1
    BY <1>2, <2>1
  <2>2. CASE i # Len(r) + 1
    <3>1. i \in DOMAIN r /\ z[i] = r[i] /\ r[i] \in Int
      BY <1>2, <2>2
    <3>2. r[i] <= b
      BY <3>1 DEF Arriving
    <3>3. ASSUME NEW j \in DOMAIN z, i < j PROVE z[i] < z[j]
      <4>1. CASE j = Len(r) + 1
        BY <1>2, <3>1, <3>2, <4>1
      <4>2. CASE j # Len(r) + 1
        <5>1. j \in DOMAIN r /\ z[j] = r[j]
          BY <1>2, <4>2
        <5> QED
          BY <3>1, <3>3, <5>1 DEF Arriving
      <4> QED
        BY <4>1, <4>2
    <3> QED
      BY <3>1, <3>2, <3>3
  <2> QED
    BY <2>1, <2>2
<1>4. Arriving(z, x)
  BY <1>1, <1>2, <1>3 DEF Arriving
<1> QED
  BY <1>4 DEF z
=============================================================================
