--------------------------- MODULE QueuePfcProofs ---------------------------
(***************************************************************************)
(* Pauses of flow queues and of destinations (QueuePfc), for every fabric, *)
(* set of flows and settings: the two ends of every link agree on what is  *)
(* paused, and the reasons a switch counts are those its packets carry.    *)
(***************************************************************************)
EXTENDS QueuePfc, QueueProofs

-----------------------------------------------------------------------------
(* Frames on a link *)

\* What a frame makes of a pause.
Obeyed(x, id, before) == Pauses(x, id) \/ (before /\ ~ Resumes(x, id))

\* Sending one more frame, or receiving the first one, changes what the
\* frames on a link make of a pause as the frame itself says.
LEMMA PausedAppend ==
  ASSUME NEW T, NEW q \in Seq(T), NEW i \in T, NEW id, NEW before \in BOOLEAN
  PROVE  PausedAfter(Append(q, i), id, before) <=> Obeyed(i, id, PausedAfter(q, id, before))
<1> DEFINE a == Append(q, i)
           P(x) == Pauses(x, id)
           E(x) == Resumes(x, id)
<1>1. /\ Len(q) \in Nat /\ Len(a) = Len(q) + 1 /\ DOMAIN q = 1 .. Len(q)
      /\ DOMAIN a = 1 .. Len(q) + 1
      /\ a[Len(q) + 1] = i /\ \A j \in 1 .. Len(q) : a[j] = q[j]
  OBVIOUS
<1>2. ~ (P(i) /\ E(i))
  BY DEF Pauses, Resumes
<1> HIDE DEF a, P, E
<1>3. (\E j \in DOMAIN a : P(a[j]) /\ \A k \in j + 1 .. Len(a) : ~ E(a[k]))
        <=> P(i) \/ (~ E(i) /\ \E j \in DOMAIN q : P(q[j]) /\ \A k \in j + 1 .. Len(q) : ~ E(q[k]))
  <2>1. ASSUME NEW j \in DOMAIN a, P(a[j]), \A k \in j + 1 .. Len(a) : ~ E(a[k])
        PROVE  P(i) \/ (~ E(i) /\ \E l \in DOMAIN q : P(q[l]) /\ \A k \in l + 1 .. Len(q) : ~ E(q[k]))
    <3>1. CASE j = Len(q) + 1
      BY <2>1, <3>1, <1>1
    <3>2. CASE j # Len(q) + 1
      <4>1. j \in 1 .. Len(q) /\ P(q[j])
        BY <2>1, <3>2, <1>1
      <4>2. ~ E(i)
        BY <4>1, <2>1, <1>1
      <4>3. \A k \in j + 1 .. Len(q) : ~ E(q[k])
        BY <4>1, <2>1, <1>1
      <4> QED BY <4>1, <4>2, <4>3, <1>1
    <3> QED BY <3>1, <3>2
  <2>2. ASSUME P(i) PROVE \E j \in DOMAIN a : P(a[j]) /\ \A k \in j + 1 .. Len(a) : ~ E(a[k])
    <3>1. Len(q) + 1 \in DOMAIN a /\ P(a[Len(q) + 1]) /\ (Len(q) + 1) + 1 .. Len(a) = {}
      BY <2>2, <1>1
    <3> QED BY <3>1
  <2>3. ASSUME ~ E(i), NEW j \in DOMAIN q, P(q[j]), \A k \in j + 1 .. Len(q) : ~ E(q[k])
        PROVE  \E l \in DOMAIN a : P(a[l]) /\ \A k \in l + 1 .. Len(a) : ~ E(a[k])
    <3>1. j \in DOMAIN a /\ P(a[j]) /\ \A k \in j + 1 .. Len(a) : ~ E(a[k])
      BY <2>3, <1>1
    <3> QED BY <3>1
  <2> QED BY <2>1, <2>2, <2>3
<1>4. (\A j \in DOMAIN a : ~ E(a[j])) <=> ~ E(i) /\ \A j \in DOMAIN q : ~ E(q[j])
  BY <1>1
<1> QED
  BY <1>2, <1>3, <1>4 DEF a, P, E, PausedAfter, Obeyed

LEMMA PausedTail ==
  ASSUME NEW T, NEW q \in Seq(T), q # <<>>, NEW id, NEW before \in BOOLEAN
  PROVE  PausedAfter(q, id, before) <=> PausedAfter(Tail(q), id, Obeyed(Head(q), id, before))
<1> DEFINE a == Tail(q)
           P(x) == Pauses(x, id)
           E(x) == Resumes(x, id)
           i == Head(q)
<1>1. /\ Len(q) \in Nat /\ Len(q) > 0 /\ Len(a) = Len(q) - 1 /\ DOMAIN q = 1 .. Len(q)
      /\ DOMAIN a = 1 .. Len(q) - 1
      /\ q[1] = i /\ \A j \in 1 .. Len(q) - 1 : a[j] = q[j + 1]
  OBVIOUS
<1>2. ~ (P(i) /\ E(i))
  BY DEF Pauses, Resumes
<1> HIDE DEF a, P, E, i
<1>3. \A j \in 2 .. Len(q) : j - 1 \in DOMAIN a /\ a[j - 1] = q[j]
  BY <1>1
<1>4. (\E j \in DOMAIN q : P(q[j]) /\ \A k \in j + 1 .. Len(q) : ~ E(q[k]))
        <=> \/ \E j \in DOMAIN a : P(a[j]) /\ \A k \in j + 1 .. Len(a) : ~ E(a[k])
            \/ P(i) /\ \A j \in DOMAIN a : ~ E(a[j])
  <2>1. ASSUME NEW j \in DOMAIN q, P(q[j]), \A k \in j + 1 .. Len(q) : ~ E(q[k])
        PROVE  \/ \E l \in DOMAIN a : P(a[l]) /\ \A k \in l + 1 .. Len(a) : ~ E(a[k])
               \/ P(i) /\ \A l \in DOMAIN a : ~ E(a[l])
    <3>1. CASE j = 1
      BY <2>1, <3>1, <1>1
    <3>2. CASE j # 1
      <4>1. j - 1 \in DOMAIN a /\ P(a[j - 1])
        BY <2>1, <3>2, <1>1, <1>3
      <4>2. \A k \in (j - 1) + 1 .. Len(a) : ~ E(a[k])
        <5>1. ASSUME NEW k \in (j - 1) + 1 .. Len(a) PROVE ~ E(a[k])
          <6>1. k \in 1 .. Len(q) - 1 /\ k + 1 \in j + 1 .. Len(q)
            BY <1>1, <2>1
          <6> QED BY <6>1, <1>1, <2>1
        <5> QED BY <5>1
      <4> QED BY <4>1, <4>2
    <3> QED BY <3>1, <3>2
  <2>2. ASSUME P(i), \A j \in DOMAIN a : ~ E(a[j])
        PROVE  \E j \in DOMAIN q : P(q[j]) /\ \A k \in j + 1 .. Len(q) : ~ E(q[k])
    <3>1. 1 \in DOMAIN q /\ P(q[1]) /\ \A k \in 1 + 1 .. Len(q) : ~ E(q[k])
      BY <2>2, <1>1, <1>3
    <3> QED BY <3>1
  <2>3. ASSUME NEW j \in DOMAIN a, P(a[j]), \A k \in j + 1 .. Len(a) : ~ E(a[k])
        PROVE  \E l \in DOMAIN q : P(q[l]) /\ \A k \in l + 1 .. Len(q) : ~ E(q[k])
    <3>1. j + 1 \in DOMAIN q /\ P(q[j + 1])
      BY <2>3, <1>1
    <3>2. ASSUME NEW k \in (j + 1) + 1 .. Len(q) PROVE ~ E(q[k])
      <4>1. k \in 2 .. Len(q) /\ k - 1 \in j + 1 .. Len(a)
        BY <1>1, <2>3
      <4> QED BY <4>1, <1>3, <2>3
    <3> QED BY <3>1, <3>2
  <2> QED BY <2>1, <2>2, <2>3
<1>5. (\A j \in DOMAIN q : ~ E(q[j])) <=> ~ E(i) /\ \A j \in DOMAIN a : ~ E(a[j])
  <2>1. \A j \in DOMAIN q : j = 1 \/ j \in 2 .. Len(q)
    BY <1>1
  <2>2. \A j \in DOMAIN a : j + 1 \in DOMAIN q /\ a[j] = q[j + 1]
    BY <1>1
  <2>3. 1 \in DOMAIN q
    BY <1>1
  <2> QED BY <2>1, <2>2, <2>3, <1>1, <1>3
<1> QED
  BY <1>2, <1>4, <1>5 DEF a, P, E, i, PausedAfter, Obeyed

-----------------------------------------------------------------------------
(* Counting the packets of a set of queues *)

Marked(Q, I, M) == UNION {{x} \X {i \in DOMAIN Q[x] : Q[x][i] \in M} : x \in I}

LEMMA MarkedAt ==
  ASSUME NEW Q, NEW I, NEW M, NEW z
  PROVE  z \in Marked(Q, I, M) <=> \E x \in I : \E i \in DOMAIN Q[x] : z = <<x, i>> /\ Q[x][i] \in M
  BY DEF Marked

\* A packet more in one of the queues.
LEMMA MarkedMore ==
  ASSUME NEW I, NEW T, NEW M, NEW Q, NEW R, NEW y \in I, NEW d, d \in T,
         Q[y] \in Seq(T), R[y] = Append(Q[y], d), \A x \in I \ {y} : R[x] = Q[x],
         IsFiniteSet(Marked(Q, I, M))
  PROVE  /\ IsFiniteSet(Marked(R, I, M))
         /\ Cardinality(Marked(R, I, M)) = Cardinality(Marked(Q, I, M)) + (IF d \in M THEN 1 ELSE 0)
<1> DEFINE q == Q[y]
           z == <<y, Len(q) + 1>>
           H == Marked(Q, I, M)
           K == Marked(R, I, M)
<1>1. /\ Len(q) \in Nat /\ DOMAIN q = 1 .. Len(q) /\ DOMAIN R[y] = 1 .. Len(q) + 1
      /\ R[y][Len(q) + 1] = d /\ \A i \in 1 .. Len(q) : R[y][i] = q[i]
  <2>1. q \in Seq(T) /\ R[y] = Append(q, d)
    OBVIOUS
  <2> HIDE DEF q
  <2> QED BY <2>1
<1>2. \A w : w \in H => w \in K
  <2>1. ASSUME NEW w, w \in H PROVE w \in K
    <3>1. PICK x, i : x \in I /\ i \in DOMAIN Q[x] /\ w = <<x, i>> /\ Q[x][i] \in M
      BY <2>1, MarkedAt
    <3>2. i \in DOMAIN R[x] /\ R[x][i] = Q[x][i]
      <4>1. CASE x = y
        BY <3>1, <4>1, <1>1
      <4>2. CASE x # y
        BY <3>1, <4>2
      <4> QED BY <4>1, <4>2
    <3> HIDE DEF K
    <3>3. w \in Marked(R, I, M)
      BY <3>1, <3>2, MarkedAt
    <3> QED BY <3>3 DEF K
  <2> QED BY <2>1
<1>3. \A w : w \in K => w \in H \/ (w = z /\ d \in M)
  <2>1. ASSUME NEW w, w \in K PROVE w \in H \/ (w = z /\ d \in M)
    <3>1. PICK x, i : x \in I /\ i \in DOMAIN R[x] /\ w = <<x, i>> /\ R[x][i] \in M
      BY <2>1, MarkedAt
    <3>2. CASE x = y /\ i = Len(q) + 1
      BY <3>1, <3>2, <1>1
    <3>3. CASE ~ (x = y /\ i = Len(q) + 1)
      <4>1. i \in DOMAIN Q[x] /\ R[x][i] = Q[x][i]
        <5>1. CASE x = y
          BY <3>1, <5>1, <3>3, <1>1
        <5>2. CASE x # y
          BY <3>1, <5>2
        <5> QED BY <5>1, <5>2
      <4>2. w \in Marked(Q, I, M)
        BY <3>1, <4>1, MarkedAt
      <4> QED BY <4>2
    <3> QED BY <3>2, <3>3
  <2> QED BY <2>1
<1>4. d \in M => z \in K
  <2>1. Len(q) + 1 \in DOMAIN R[y]
    BY <1>1
  <2> QED BY <2>1, <1>1, MarkedAt
<1>5. z \notin H
  <2> SUFFICES ASSUME z \in H PROVE FALSE
    OBVIOUS
  <2>1. PICK x, i : x \in I /\ i \in DOMAIN Q[x] /\ z = <<x, i>> /\ Q[x][i] \in M
    BY MarkedAt
  <2>2. x = y /\ i = Len(q) + 1 /\ i \in 1 .. Len(q)
    BY <2>1, <1>1
  <2> QED BY <2>2, <1>1
<1>6. IsFiniteSet(H)
  OBVIOUS
<1> HIDE DEF H, K, z
<1>7. IsFiniteSet(H \cup {z}) /\ Cardinality(H \cup {z}) = Cardinality(H) + 1 /\ Cardinality(H) \in Nat
  BY <1>5, <1>6, FS_AddElement, FS_CardinalityType
<1>8. CASE d \in M
  <2>1. K = H \cup {z}
    BY <1>2, <1>3, <1>4, <1>8
  <2> QED BY <2>1, <1>7, <1>8 DEF H, K
<1>9. CASE d \notin M
  <2>1. K = H
    BY <1>2, <1>3, <1>9
  <2> QED BY <2>1, <1>6, <1>7, <1>9 DEF H, K
<1> QED BY <1>8, <1>9

\* The first packet taken from one of the queues.
LEMMA MarkedLess ==
  ASSUME NEW I, NEW T, NEW M, NEW Q, NEW R, NEW y \in I,
         Q[y] \in Seq(T), Q[y] # <<>>, R[y] = Tail(Q[y]), \A x \in I \ {y} : R[x] = Q[x],
         IsFiniteSet(Marked(Q, I, M))
  PROVE  /\ IsFiniteSet(Marked(R, I, M))
         /\ Cardinality(Marked(R, I, M)) = Cardinality(Marked(Q, I, M)) - (IF Head(Q[y]) \in M THEN 1 ELSE 0)
<1> DEFINE q == Q[y]
           z == <<y, 1>>
           H == Marked(Q, I, M)
           J == H \ {z}
           K == Marked(R, I, M)
           f(w) == IF w[1] = y THEN <<y, w[2] - 1>> ELSE w
           F == [w \in J |-> f(w)]
<1>1. /\ Len(q) \in Nat /\ Len(q) > 0 /\ DOMAIN q = 1 .. Len(q) /\ DOMAIN R[y] = 1 .. Len(q) - 1
      /\ q[1] = Head(q) /\ \A i \in 1 .. Len(q) - 1 : R[y][i] = q[i + 1]
  <2>1. q \in Seq(T) /\ R[y] = Tail(q) /\ q # <<>>
    OBVIOUS
  <2> HIDE DEF q
  <2>2. /\ Len(q) \in Nat /\ Len(q) > 0 /\ DOMAIN q = 1 .. Len(q) /\ DOMAIN Tail(q) = 1 .. Len(q) - 1
        /\ q[1] = Head(q) /\ \A i \in 1 .. Len(q) - 1 : Tail(q)[i] = q[i + 1]
    BY <2>1
  <2> QED BY <2>1, <2>2
<1>2. ASSUME NEW w, w \in J
      PROVE  /\ w[1] = y => w[2] \in 2 .. Len(q) /\ w = <<y, w[2]>>
             /\ f(w) \in K
  <2>1. PICK x, i : x \in I /\ i \in DOMAIN Q[x] /\ w = <<x, i>> /\ Q[x][i] \in M
    BY <1>2, MarkedAt
  <2>2. CASE x = y
    <3>1. i \in 2 .. Len(q)
      <4>1. i # 1 /\ i \in 1 .. Len(q)
        BY <2>1, <2>2, <1>1, <1>2
      <4> QED BY <4>1, <1>1
    <3>2. i - 1 \in DOMAIN R[y] /\ R[y][i - 1] = Q[y][i]
      <4>1. i - 1 \in 1 .. Len(q) - 1 /\ (i - 1) + 1 = i
        BY <3>1, <1>1
      <4> QED BY <4>1, <1>1
    <3>3. f(w) = <<y, i - 1>>
      BY <2>1, <2>2
    <3>4. <<y, i - 1>> \in Marked(R, I, M)
      <4>1. R[y][i - 1] \in M /\ y \in I
        BY <3>2, <2>1, <2>2
      <4> QED BY <3>2, <4>1, MarkedAt
    <3> QED BY <3>1, <3>3, <3>4, <2>1, <2>2
  <2>3. CASE x # y
    <3>1. f(w) = w /\ w[1] # y
      BY <2>1, <2>3
    <3>2. w \in Marked(R, I, M)
      BY <2>1, <2>3, MarkedAt
    <3> QED BY <3>1, <3>2
  <2> QED BY <2>2, <2>3
<1>3. ASSUME NEW w, w \in K PROVE \E v \in J : f(v) = w
  <2>1. PICK x, i : x \in I /\ i \in DOMAIN R[x] /\ w = <<x, i>> /\ R[x][i] \in M
    BY <1>3, MarkedAt
  <2>2. CASE x = y
    <3>1. i + 1 \in DOMAIN q /\ q[i + 1] \in M /\ i \in Int /\ i >= 1
      <4>1. i \in 1 .. Len(q) - 1
        BY <2>1, <2>2, <1>1
      <4>2. i + 1 \in 1 .. Len(q) /\ q[i + 1] = R[y][i] /\ i \in Int /\ i >= 1
        BY <4>1, <1>1
      <4> QED BY <4>2, <2>1, <2>2, <1>1
    <3>2. <<y, i + 1>> \in Marked(Q, I, M)
      BY <3>1, MarkedAt
    <3>3. <<y, i + 1>> # z
      BY <3>1
    <3>4. f(<<y, i + 1>>) = <<y, i>>
      <4>1. (i + 1) - 1 = i
        BY <3>1
      <4> QED BY <4>1
    <3> QED BY <3>2, <3>3, <3>4, <2>1, <2>2
  <2>3. CASE x # y
    <3>1. w \in Marked(Q, I, M)
      BY <2>1, <2>3, MarkedAt
    <3>2. f(w) = w /\ w # z
      BY <2>1, <2>3
    <3> QED BY <3>1, <3>2
  <2> QED BY <2>2, <2>3
<1>4. z \in H <=> Head(q) \in M
  <2>1. ASSUME z \in H PROVE Head(q) \in M
    <3>1. PICK x, i : x \in I /\ i \in DOMAIN Q[x] /\ z = <<x, i>> /\ Q[x][i] \in M
      BY <2>1, MarkedAt
    <3>2. x = y /\ i = 1
      BY <3>1
    <3> QED BY <3>1, <3>2, <1>1
  <2>2. ASSUME Head(q) \in M PROVE z \in H
    <3>1. 1 \in DOMAIN Q[y] /\ Q[y][1] \in M
      BY <2>2, <1>1
    <3> QED BY <3>1, MarkedAt
  <2> QED BY <2>1, <2>2
<1>5. \A v, w \in J : f(v) = f(w) => v = w
  <2>1. ASSUME NEW v \in J, NEW w \in J, f(v) = f(w) PROVE v = w
    <3>1. /\ v[1] = y => v[2] \in 2 .. Len(q) /\ v = <<y, v[2]>>
          /\ w[1] = y => w[2] \in 2 .. Len(q) /\ w = <<y, w[2]>>
      BY <1>2
    <3> HIDE DEF J
    <3>2. CASE v[1] = y /\ w[1] = y
      <4>1. v[2] - 1 = w[2] - 1
        BY <2>1, <3>2
      <4>2. v[2] \in Int /\ w[2] \in Int
        BY <3>1, <3>2
      <4>3. v[2] = w[2]
        BY <4>1, <4>2
      <4> QED BY <3>1, <3>2, <4>3
    <3>3. CASE v[1] = y /\ w[1] # y
      <4>1. w = <<y, v[2] - 1>>
        BY <2>1, <3>3
      <4> QED BY <4>1, <3>3
    <3>4. CASE v[1] # y /\ w[1] = y
      <4>1. v = <<y, w[2] - 1>>
        BY <2>1, <3>4
      <4> QED BY <4>1, <3>4
    <3>5. CASE v[1] # y /\ w[1] # y
      BY <2>1, <3>5
    <3> QED BY <3>2, <3>3, <3>4, <3>5
  <2> QED BY <2>1
<1>6. IsFiniteSet(H)
  OBVIOUS
<1> HIDE DEF H, J, K, z, f
<1>7. F \in Bijection(J, K)
  <2>1. F \in [J -> K] /\ \A v \in J : F[v] = f(v)
    BY <1>2
  <2> HIDE DEF F
  <2>2. \A v, w \in J : F[v] = F[w] => v = w
    BY <2>1, <1>5
  <2>3. \A w \in K : \E v \in J : F[v] = w
    BY <2>1, <1>3
  <2> QED BY <2>1, <2>2, <2>3, Fun_IsBij
<1>8. /\ IsFiniteSet(J) /\ Cardinality(H) \in Nat
      /\ Cardinality(J) = IF z \in H THEN Cardinality(H) - 1 ELSE Cardinality(H)
  BY <1>6, FS_RemoveElement, FS_CardinalityType DEF J
<1>9. IsFiniteSet(K) /\ Cardinality(K) = Cardinality(J)
  <2>1. ExistsBijection(J, K)
    BY <1>7 DEF ExistsBijection
  <2> QED BY <1>8, <2>1, FS_Bijection
<1>10. Cardinality(K) = Cardinality(H) - (IF Head(q) \in M THEN 1 ELSE 0)
  BY <1>4, <1>8, <1>9
<1> QED BY <1>9, <1>10 DEF H, K

-----------------------------------------------------------------------------
(* Links *)

LEMMA LinkEnds ==
  /\ \A l \in Link : l = <<l[1], l[2]>> /\ l[1] \in Switch /\ l[2] \in Switch \cup Host
  /\ \A l \in Link : l[2] \in Switch => <<l[2], l[1]>> \in Link
  /\ \A s \in Switch, h \in Host : <<s, NextHop[s][h]>> \in Link
<1> USE QueuePfcParameters
<1>1. \A l \in Routed : l = <<l[1], l[2]>> /\ l[1] \in Switch /\ l[2] \in Switch \cup Host
  BY DEF Routed
<1>2. \A s \in Switch, h \in Host : <<s, NextHop[s][h]>> \in Routed
  BY DEF Routed
<1>3. \A l : l \in Link <=> \/ l \in Routed
                            \/ \E r \in Routed : r[2] \in Switch /\ l = <<r[2], r[1]>>
  BY DEF Link
<1>4. \A l \in Link : l = <<l[1], l[2]>> /\ l[1] \in Switch /\ l[2] \in Switch \cup Host
  BY <1>1, <1>3
<1>5. ASSUME NEW l \in Link, l[2] \in Switch PROVE <<l[2], l[1]>> \in Link
  <2>1. CASE l \in Routed
    BY <1>3, <1>5, <2>1
  <2>2. CASE \E r \in Routed : r[2] \in Switch /\ l = <<r[2], r[1]>>
    <3>1. PICK r \in Routed : r[2] \in Switch /\ l = <<r[2], r[1]>>
      BY <2>2
    <3>2. <<l[2], l[1]>> = r
      BY <3>1, <1>1
    <3> QED BY <3>2, <1>3
  <2> QED BY <1>3, <2>1, <2>2
<1> QED BY <1>2, <1>3, <1>4, <1>5

\* A host has one ToR.
ToR(h) == CHOOSE s \in Switch : NextHop[s][h] = h

LEMMA HostLink ==
  ASSUME NEW h \in Host
  PROVE  /\ ToR(h) \in Switch /\ <<ToR(h), h>> \in Link
         /\ \A l \in Link : l[2] = h => l[1] = ToR(h)
<1> USE QueuePfcParameters
<1>1. PICK s \in Switch : {t \in Switch : NextHop[t][h] = h} = {s}
  OBVIOUS
<1>2. \A t \in Switch : NextHop[t][h] = h <=> t = s
  BY <1>1
<1>3. ToR(h) = s
  BY <1>2 DEF ToR
<1>4. <<s, h>> \in Link
  <2>1. NextHop[s][h] = h
    BY <1>2
  <2> QED BY <2>1, LinkEnds
<1>5. ASSUME NEW l \in Link, l[2] = h PROVE l[1] = s
  <2>1. l \in Routed
    <3>1. ASSUME NEW r \in Routed PROVE r[1] \in Switch
      BY DEF Routed
    <3>2. \A r \in Routed : l # <<r[2], r[1]>>
      <4>1. h \notin Switch
        OBVIOUS
      <4> QED BY <3>1, <1>5, <4>1
    <3> QED BY <3>2 DEF Link
  <2>2. PICK t \in Switch, d \in Host : l = <<t, NextHop[t][d]>>
    BY <2>1 DEF Routed
  <2>3. NextHop[t][d] = h /\ l[1] = t
    BY <2>2, <1>5
  <2>4. NextHop[t][h] = h
    BY <2>3
  <2> QED BY <2>3, <2>4, <1>2
<1> QED BY <1>3, <1>4, <1>5

-----------------------------------------------------------------------------
(* What a switch, a port and a link hold under the settings c *)

UnderBfc(c) == c.fc_mode = "BFC"
UpQ(c) == IF UnderBfc(c) THEN DataQ \cup Range(c.hostQ) ELSE Nat
Ids(c) == IF UnderBfc(c) THEN UpQ(c) ELSE Host

PacketAt(c, s) ==
  [flow : Flow, num : Nat, sch : BOOLEAN, in : {n \in Switch \cup Host : <<s, n>> \in Link},
   upq : UpQ(c), meta : BOOLEAN]
FrameOn(c, l) == [type : {"data"}, p : PacketAt(c, l[2])] \cup [type : {"pause", "resume"}, id : Ids(c)]

\* A port with m queues.  Under BFC there are no others than those it starts
\* with, and data stays out of queue 0.
IsPortOf(c, s, pt, m) ==
  /\ pt = [queues |-> pt.queues, priorities |-> pt.priorities, rrlasts |-> pt.rrlasts,
           ctrls |-> pt.ctrls, paused |-> pt.paused, dstQ |-> pt.dstQ]
  /\ m \in Nat /\ m >= QueueNum
  /\ pt.queues \in [0 .. m - 1 -> Seq(PacketAt(c, s))]
  /\ pt.priorities \in Seq(Seq(0 .. m - 1)) /\ pt.priorities # <<>>
  /\ pt.rrlasts \in [DOMAIN pt.priorities -> Nat]
  /\ pt.paused \in [DOMAIN pt.paused -> BOOLEAN]
  /\ pt.dstQ \in [DOMAIN pt.dstQ -> 0 .. m - 1]
  /\ \A d, e \in DOMAIN pt.dstQ : pt.dstQ[d] = pt.dstQ[e] => d = e
  /\ UnderBfc(c) => m = QueueNum /\ pt.queues[0] = <<>>
IsPort(c, s, pt) == \E m \in Nat : IsPortOf(c, s, pt, m)

\* Where a port may put a packet or take one from.
MayHold(c, pt) == IF UnderBfc(c) THEN DataQ ELSE DOMAIN pt.queues

\* What the pauses of a port stop is the same.
SameStops(pt, pu) == pu.dstQ = pt.dstQ /\ \A id : IsPaused(pu, id) <=> IsPaused(pt, id)

LEMMA NewPortOK ==
  ASSUME NEW c, NEW s, NEW pri, NEW ctrls,
         pri \in Seq(Seq(0 .. QueueNum - 1)), pri # <<>>
  PROVE  IsPort(c, s, NewPort(pri, ctrls, QueueNum))
<1> DEFINE pt == NewPort(pri, ctrls, QueueNum)
<1>1. QueueNum \in Nat /\ QueueNum > 2
  BY QueuePfcParameters
<1>2. /\ pt = [queues |-> pt.queues, priorities |-> pt.priorities, rrlasts |-> pt.rrlasts,
               ctrls |-> pt.ctrls, paused |-> pt.paused, dstQ |-> pt.dstQ]
      /\ pt.queues = [id \in 0 .. QueueNum - 1 |-> <<>>] /\ pt.priorities = pri
      /\ pt.rrlasts = [k \in DOMAIN pri |-> 0] /\ pt.paused = <<>> /\ pt.dstQ = <<>>
  BY DEF NewPort
<1> HIDE DEF pt
<1>3. DOMAIN pt.paused = {} /\ DOMAIN pt.dstQ = {}
  BY <1>2
<1>4. /\ pt.paused \in [DOMAIN pt.paused -> BOOLEAN]
      /\ pt.dstQ \in [DOMAIN pt.dstQ -> 0 .. QueueNum - 1]
  <2>1. <<>> \in [{} -> BOOLEAN] /\ <<>> \in [{} -> 0 .. QueueNum - 1]
    OBVIOUS
  <2> QED BY <2>1, <1>2, <1>3
<1>5. pt.queues \in [0 .. QueueNum - 1 -> Seq(PacketAt(c, s))] /\ pt.queues[0] = <<>>
  BY <1>1, <1>2
<1>6. pt.rrlasts \in [DOMAIN pt.priorities -> Nat]
  BY <1>2
<1>7. IsPortOf(c, s, pt, QueueNum)
  BY <1>1, <1>2, <1>3, <1>4, <1>5, <1>6 DEF IsPortOf
<1> QED BY <1>1, <1>7 DEF IsPort, pt

\* A port with one field changed.
LEMMA PortChanged ==
  ASSUME NEW pt, NEW a, NEW b, NEW r, NEW e, NEW f, NEW g,
         pt = [queues |-> a, priorities |-> b, rrlasts |-> r, ctrls |-> e, paused |-> f, dstQ |-> g]
  PROVE  /\ \A x : [pt EXCEPT !.queues = x] =
                   [queues |-> x, priorities |-> b, rrlasts |-> r, ctrls |-> e, paused |-> f, dstQ |-> g]
         /\ \A x : [pt EXCEPT !.priorities = x] =
                   [queues |-> a, priorities |-> x, rrlasts |-> r, ctrls |-> e, paused |-> f, dstQ |-> g]
         /\ \A x : [pt EXCEPT !.rrlasts = x] =
                   [queues |-> a, priorities |-> b, rrlasts |-> x, ctrls |-> e, paused |-> f, dstQ |-> g]
         /\ \A x : [pt EXCEPT !.ctrls = x] =
                   [queues |-> a, priorities |-> b, rrlasts |-> r, ctrls |-> x, paused |-> f, dstQ |-> g]
         /\ \A x : [pt EXCEPT !.paused = x] =
                   [queues |-> a, priorities |-> b, rrlasts |-> r, ctrls |-> e, paused |-> x, dstQ |-> g]
         /\ \A x : [pt EXCEPT !.dstQ = x] =
                   [queues |-> a, priorities |-> b, rrlasts |-> r, ctrls |-> e, paused |-> f, dstQ |-> x]
  OBVIOUS

LEMMA EnqueueOK ==
  ASSUME NEW c, NEW s, NEW pt, IsPort(c, s, pt), NEW id \in MayHold(c, pt), NEW p \in PacketAt(c, s)
  PROVE  /\ IsPort(c, s, Enqueue(pt, id, p)) /\ SameStops(pt, Enqueue(pt, id, p))
         /\ id \in DOMAIN pt.queues
         /\ Enqueue(pt, id, p).queues[id] = Append(pt.queues[id], p)
         /\ \A k \in DOMAIN pt.queues \ {id} : Enqueue(pt, id, p).queues[k] = pt.queues[k]
<1> DEFINE pu == Enqueue(pt, id, p)
           S == PacketAt(c, s)
<1>1. PICK m \in Nat : IsPortOf(c, s, pt, m)
  BY DEF IsPort
<1>2. /\ pu = [queues |-> pu.queues, priorities |-> pu.priorities, rrlasts |-> pu.rrlasts,
               ctrls |-> pu.ctrls, paused |-> pu.paused, dstQ |-> pu.dstQ]
      /\ pu.queues = [pt.queues EXCEPT ![id] = Append(@, p)] /\ pu.priorities = pt.priorities
      /\ pu.rrlasts = pt.rrlasts /\ pu.paused = pt.paused /\ pu.dstQ = pt.dstQ
  <2>1. pt = [queues |-> pt.queues, priorities |-> pt.priorities, rrlasts |-> pt.rrlasts,
              ctrls |-> pt.ctrls, paused |-> pt.paused, dstQ |-> pt.dstQ]
    BY <1>1 DEF IsPortOf
  <2>2. pu = [queues |-> [pt.queues EXCEPT ![id] = Append(@, p)], priorities |-> pt.priorities,
              rrlasts |-> pt.rrlasts, ctrls |-> pt.ctrls, paused |-> pt.paused, dstQ |-> pt.dstQ]
    <3>1. pu = [pt EXCEPT !.queues = [pt.queues EXCEPT ![id] = Append(@, p)]]
      BY DEF Enqueue
    <3> HIDE DEF pu
    <3> QED BY <2>1, <3>1, PortChanged
  <2> HIDE DEF pu
  <2> QED BY <2>2
<1>3. id \in 0 .. m - 1 /\ (UnderBfc(c) => id # 0) /\ pt.queues \in [0 .. m - 1 -> Seq(S)]
  BY <1>1, QueuePfcParameters DEF IsPortOf, MayHold, DataQ
<1>4. pt.queues[id] \in Seq(S) /\ p \in S
  BY <1>3
<1> HIDE DEF pu, S
<1>5. Append(pt.queues[id], p) \in Seq(S)
  BY <1>4
<1>6. /\ pu.queues \in [0 .. m - 1 -> Seq(S)]
      /\ UnderBfc(c) => pu.queues[0] = pt.queues[0]
  BY <1>2, <1>3, <1>5
<1>7. IsPortOf(c, s, pu, m)
  BY <1>1, <1>2, <1>6 DEF IsPortOf, S
<1>8. SameStops(pt, pu)
  BY <1>2 DEF SameStops, IsPaused
<1> QED BY <1>1, <1>2, <1>3, <1>7, <1>8 DEF IsPort, pu

LEMMA Remainder ==
  ASSUME NEW a \in Nat, NEW b \in Nat, b > 0
  PROVE  a % b \in 0 .. b - 1
  OBVIOUS

LEMMA MinIn ==
  ASSUME NEW S, S \subseteq Nat, S # {}
  PROVE  Min(S) \in S
<1>1. \E x \in S : \A y \in S : x =< y
  BY Smallest
<1> QED BY <1>1 DEF Min

\* DoDequeueRR finds one of the queues that may send.
LEMMA FirstTurnOK ==
  ASSUME NEW c, NEW s, NEW pt, NEW m \in Nat, IsPortOf(c, s, pt, m), CanDequeue(pt)
  PROVE  /\ FirstTurn(pt) \in Turns(pt) /\ FirstTurn(pt)[2] \in Nat
         /\ NextQ(pt) \in 0 .. m - 1 /\ MaySend(pt, NextQ(pt))
<1> DEFINE A == {t[1] : t \in Turns(pt)}
           pri == pt.priorities
<1>1. /\ pri \in Seq(Seq(0 .. m - 1)) /\ DOMAIN pri = 1 .. Len(pri) /\ Len(pri) \in Nat
      /\ pt.rrlasts \in [DOMAIN pri -> Nat]
  BY DEF IsPortOf
<1>2. \A t : t \in Turns(pt) <=> /\ \E k \in DOMAIN pri : \E i \in 0 .. Len(pri[k]) - 1 : t = <<k, i>>
                                /\ MaySend(pt, IdAt(pt, t))
  BY DEF Turns
<1>3. \A k \in DOMAIN pri : k \in Nat /\ pri[k] \in Seq(0 .. m - 1) /\ Len(pri[k]) \in Nat
  <2>1. \A k \in DOMAIN pri : k \in Nat /\ pri[k] \in Seq(0 .. m - 1)
    BY <1>1
  <2> HIDE DEF pri
  <2> QED BY <2>1
<1>4. Turns(pt) # {}
  BY DEF CanDequeue
<1> HIDE DEF pri
<1>5. \A t \in Turns(pt) : t = <<t[1], t[2]>> /\ t[1] \in DOMAIN pri /\ t[1] \in Nat /\ t[2] \in Nat
                            /\ t[2] \in 0 .. Len(pri[t[1]]) - 1
  BY <1>2, <1>3
<1>6. \E t \in Turns(pt) : \A o \in Turns(pt) : t[1] < o[1] \/ (t[1] = o[1] /\ t[2] <= o[2])
  <2>1. A \subseteq Nat /\ A # {}
    BY <1>4, <1>5
  <2>2. PICK a \in A : \A b \in A : a <= b
    <3> HIDE DEF A
    <3> QED BY <2>1, Smallest
  <2> DEFINE B == {t[2] : t \in {o \in Turns(pt) : o[1] = a}}
  <2>3. B \subseteq Nat /\ B # {}
    BY <1>5, <2>2
  <2>4. PICK b \in B : \A e \in B : b <= e
    <3> HIDE DEF B
    <3> QED BY <2>3, Smallest
  <2>5. PICK t \in Turns(pt) : t[1] = a /\ t[2] = b
    BY <2>4
  <2>6. ASSUME NEW o \in Turns(pt) PROVE t[1] < o[1] \/ (t[1] = o[1] /\ t[2] <= o[2])
    <3>1. a <= o[1] /\ a \in Nat /\ o[1] \in Nat
      BY <2>1, <2>2, <1>5
    <3>2. o[1] = a => b <= o[2]
      BY <2>4
    <3> QED BY <3>1, <3>2, <2>5
  <2> QED BY <2>6
<1>7. FirstTurn(pt) \in Turns(pt)
  BY <1>6 DEF FirstTurn
<1> DEFINE t == FirstTurn(pt)
           n == Len(pri[t[1]])
<1>8. n \in Nat /\ n > 0 /\ pri[t[1]] \in Seq(0 .. m - 1) /\ t[2] \in Nat /\ pt.rrlasts[t[1]] \in Nat
  <2>1. t[1] \in DOMAIN pri /\ t[2] \in Nat /\ t[2] \in 0 .. n - 1
    BY <1>5, <1>7
  <2>2. pri[t[1]] \in Seq(0 .. m - 1) /\ n \in Nat /\ pt.rrlasts[t[1]] \in Nat
    <3> HIDE DEF t
    <3> QED BY <2>1, <1>1, <1>3
  <2> HIDE DEF t, n
  <2> QED BY <2>1, <2>2
<1>9. NextQ(pt) = pri[t[1]][((t[2] + pt.rrlasts[t[1]]) % n) + 1]
  BY DEF NextQ, IdAt, pri
<1>10. (t[2] + pt.rrlasts[t[1]]) % n \in 0 .. n - 1
  <2> DEFINE a == t[2] + pt.rrlasts[t[1]]
  <2>1. a \in Nat
    BY <1>8
  <2> HIDE DEF a, n
  <2>2. a % n \in 0 .. n - 1
    BY <2>1, <1>8, Remainder
  <2> QED BY <2>2 DEF a
<1>11. NextQ(pt) \in 0 .. m - 1
  <2> DEFINE j == (t[2] + pt.rrlasts[t[1]]) % n
             q == pri[t[1]]
  <2>1. q \in Seq(0 .. m - 1) /\ n = Len(q) /\ j \in 0 .. n - 1 /\ n \in Nat /\ NextQ(pt) = q[j + 1]
    BY <1>8, <1>9, <1>10
  <2> HIDE DEF j, q, n
  <2> QED BY <2>1
<1>12. MaySend(pt, NextQ(pt))
  BY <1>2, <1>7 DEF NextQ
<1> QED BY <1>7, <1>8, <1>11, <1>12

\* pu is pt without the first packet of its queue id, and no pause changes.
Taken(c, s, pt, pu, id) ==
  /\ IsPort(c, s, pu) /\ SameStops(pt, pu)
  /\ id \in MayHold(c, pt) /\ id \in Nat /\ id \in DOMAIN pt.queues
  /\ pt.queues[id] # <<>> /\ pt.queues[id] \in Seq(PacketAt(c, s))
  /\ pu.queues[id] = Tail(pt.queues[id])
  /\ \A k \in DOMAIN pt.queues \ {id} : pu.queues[k] = pt.queues[k]

LEMMA DequeueOK ==
  ASSUME NEW c, NEW s, NEW pt, IsPort(c, s, pt), CanDequeue(pt)
  PROVE  Taken(c, s, pt, Dequeue(pt), NextQ(pt))
<1> DEFINE pu == Dequeue(pt)
           S == PacketAt(c, s)
           id == NextQ(pt)
           turn == FirstTurn(pt)
           rr == IF id # 0 /\ turn[1] + 1 \in DOMAIN pt.rrlasts
                   THEN [pt.rrlasts EXCEPT ![turn[1] + 1] = turn[2]] ELSE pt.rrlasts
<1>1. PICK m \in Nat : IsPortOf(c, s, pt, m)
  BY DEF IsPort
<1>2. turn[2] \in Nat /\ id \in 0 .. m - 1 /\ pt.queues[id] # <<>>
  BY <1>1, FirstTurnOK DEF MaySend
<1>3. pu = [queues |-> [pt.queues EXCEPT ![id] = Tail(@)], priorities |-> pt.priorities,
            rrlasts |-> rr, ctrls |-> pt.ctrls, paused |-> pt.paused, dstQ |-> pt.dstQ]
  <2>1. pt = [queues |-> pt.queues, priorities |-> pt.priorities, rrlasts |-> pt.rrlasts,
              ctrls |-> pt.ctrls, paused |-> pt.paused, dstQ |-> pt.dstQ]
    BY <1>1 DEF IsPortOf
  <2>2. pu = [pt EXCEPT !.queues = [pt.queues EXCEPT ![id] = Tail(@)], !.rrlasts = rr]
    BY DEF Dequeue
  <2> HIDE DEF rr, pu, id
  <2> QED BY <2>1, <2>2, PortChanged
<1>4. rr \in [DOMAIN pt.priorities -> Nat]
  <2>1. pt.rrlasts \in [DOMAIN pt.priorities -> Nat]
    BY <1>1 DEF IsPortOf
  <2> HIDE DEF turn, id
  <2> QED BY <1>2, <2>1
<1> HIDE DEF pu, S, id, turn, rr
<1>5. pt.queues \in [0 .. m - 1 -> Seq(S)] /\ (UnderBfc(c) => m = QueueNum /\ pt.queues[0] = <<>>)
  BY <1>1 DEF IsPortOf, S
<1>6. pt.queues[id] \in Seq(S) /\ Tail(pt.queues[id]) \in Seq(S) /\ (UnderBfc(c) => id # 0)
  <2>1. pt.queues[id] \in Seq(S) /\ pt.queues[id] # <<>>
    BY <1>2, <1>5
  <2> QED BY <2>1, <1>2, <1>5
<1>7. /\ pu.queues \in [0 .. m - 1 -> Seq(S)] /\ pu.queues[id] = Tail(pt.queues[id])
      /\ \A k \in 0 .. m - 1 : k # id => pu.queues[k] = pt.queues[k]
      /\ UnderBfc(c) => pu.queues[0] = pt.queues[0]
  BY <1>2, <1>3, <1>5, <1>6
<1>8. /\ pu = [queues |-> pu.queues, priorities |-> pu.priorities, rrlasts |-> pu.rrlasts,
               ctrls |-> pu.ctrls, paused |-> pu.paused, dstQ |-> pu.dstQ]
      /\ pu.priorities = pt.priorities /\ pu.rrlasts = rr /\ pu.paused = pt.paused /\ pu.dstQ = pt.dstQ
  BY <1>3
<1>9. IsPortOf(c, s, pu, m)
  BY <1>1, <1>4, <1>7, <1>8 DEF IsPortOf, S
<1>10. SameStops(pt, pu)
  BY <1>8 DEF SameStops, IsPaused
<1>11. id \in MayHold(c, pt) /\ id \in Nat
  BY <1>2, <1>5, <1>6, QueuePfcParameters DEF MayHold, DataQ
<1>12. IsPort(c, s, pu) /\ id \in DOMAIN pt.queues
  BY <1>2, <1>5, <1>9 DEF IsPort
<1>13. \A k \in DOMAIN pt.queues \ {id} : pu.queues[k] = pt.queues[k]
  BY <1>5, <1>7
<1>14. Taken(c, s, pt, pu, id)
  BY <1>2, <1>5, <1>6, <1>7, <1>10, <1>11, <1>12, <1>13 DEF Taken, S
<1> QED BY <1>14 DEF pu, id

LEMMA PauseOK ==
  ASSUME NEW c, NEW s, NEW pt, IsPort(c, s, pt), NEW id, NEW v \in BOOLEAN
  PROVE  /\ IsPort(c, s, Pause(pt, id, v)) /\ Pause(pt, id, v).queues = pt.queues
         /\ Pause(pt, id, v).dstQ = pt.dstQ
         /\ \A k : IsPaused(Pause(pt, id, v), k) <=> IF k = id THEN v ELSE IsPaused(pt, k)
<1> DEFINE pu == Pause(pt, id, v)
           S == PacketAt(c, s)
<1>1. PICK m \in Nat : IsPortOf(c, s, pt, m)
  BY DEF IsPort
<1>2. pu = [queues |-> pt.queues, priorities |-> pt.priorities, rrlasts |-> pt.rrlasts,
            ctrls |-> pt.ctrls, paused |-> Put(pt.paused, id, v), dstQ |-> pt.dstQ]
  <2>1. pt = [queues |-> pt.queues, priorities |-> pt.priorities, rrlasts |-> pt.rrlasts,
              ctrls |-> pt.ctrls, paused |-> pt.paused, dstQ |-> pt.dstQ]
    BY <1>1 DEF IsPortOf
  <2>2. pu = [pt EXCEPT !.paused = Put(pt.paused, id, v)]
    BY DEF Pause
  <2> HIDE DEF pu
  <2> QED BY <2>1, <2>2, PortChanged
<1> HIDE DEF pu
<1>3. /\ pu = [queues |-> pu.queues, priorities |-> pu.priorities, rrlasts |-> pu.rrlasts,
               ctrls |-> pu.ctrls, paused |-> pu.paused, dstQ |-> pu.dstQ]
      /\ pu.queues = pt.queues /\ pu.priorities = pt.priorities /\ pu.rrlasts = pt.rrlasts
      /\ pu.dstQ = pt.dstQ /\ pu.paused = Put(pt.paused, id, v)
  BY <1>2
<1>4. pt.paused \in [DOMAIN pt.paused -> BOOLEAN]
  BY <1>1 DEF IsPortOf
<1>5. /\ pu.paused \in [DOMAIN pu.paused -> BOOLEAN] /\ DOMAIN pu.paused = DOMAIN pt.paused \cup {id}
      /\ \A k \in DOMAIN pu.paused : pu.paused[k] = IF k = id THEN v ELSE pt.paused[k]
  BY <1>3, <1>4 DEF Put
<1>6. IsPortOf(c, s, pu, m)
  BY <1>1, <1>3, <1>5 DEF IsPortOf
<1>7. ASSUME NEW k PROVE IsPaused(pu, k) <=> IF k = id THEN v ELSE IsPaused(pt, k)
  BY <1>5 DEF IsPaused
<1> QED BY <1>3, <1>6, <1>7 DEF IsPort, pu

\* Looking keys up changes no pause.
LEMMA LookedUpOK ==
  ASSUME NEW c, NEW s, NEW pt, IsPort(c, s, pt), NEW tb
  PROVE  /\ IsPort(c, s, LookedUp(pt, tb)) /\ SameStops(pt, LookedUp(pt, tb))
         /\ LookedUp(pt, tb).queues = pt.queues
<1>1. CASE AssignPaused
  BY <1>1 DEF LookedUp, SameStops
<1>2. CASE ~ AssignPaused
  <2> DEFINE seen == {tb[e].q : e \in Idle(tb)} \cap DataQ
             pa == [id \in DOMAIN pt.paused \cup seen |-> IsPaused(pt, id)]
             pu == LookedUp(pt, tb)
  <2>1. PICK m \in Nat : IsPortOf(c, s, pt, m)
    BY DEF IsPort
  <2>2. pu = [queues |-> pt.queues, priorities |-> pt.priorities, rrlasts |-> pt.rrlasts,
              ctrls |-> pt.ctrls, paused |-> pa, dstQ |-> pt.dstQ]
    <3>1. pt = [queues |-> pt.queues, priorities |-> pt.priorities, rrlasts |-> pt.rrlasts,
                ctrls |-> pt.ctrls, paused |-> pt.paused, dstQ |-> pt.dstQ]
      BY <2>1 DEF IsPortOf
    <3>2. pu = [pt EXCEPT !.paused = pa]
      BY <1>2 DEF LookedUp
    <3> HIDE DEF pu, pa
    <3> QED BY <3>1, <3>2, PortChanged
  <2> HIDE DEF pu
  <2>3. pt.paused \in [DOMAIN pt.paused -> BOOLEAN]
    BY <2>1 DEF IsPortOf
  <2>4. \A k : IsPaused(pt, k) \in BOOLEAN
    BY <2>3 DEF IsPaused
  <2>5. pa \in [DOMAIN pa -> BOOLEAN] /\ DOMAIN pa = DOMAIN pt.paused \cup seen
        /\ \A k \in DOMAIN pa : pa[k] = IsPaused(pt, k)
    <3> HIDE DEF seen
    <3> QED BY <2>4
  <2> HIDE DEF pa, seen
  <2>6. /\ pu = [queues |-> pu.queues, priorities |-> pu.priorities, rrlasts |-> pu.rrlasts,
                 ctrls |-> pu.ctrls, paused |-> pu.paused, dstQ |-> pu.dstQ]
        /\ pu.queues = pt.queues /\ pu.priorities = pt.priorities /\ pu.rrlasts = pt.rrlasts
        /\ pu.dstQ = pt.dstQ /\ pu.paused = pa
    BY <2>2
  <2>7. IsPortOf(c, s, pu, m)
    BY <2>1, <2>5, <2>6 DEF IsPortOf
  <2>8. ASSUME NEW k PROVE IsPaused(pu, k) <=> IsPaused(pt, k)
    <3>1. IsPaused(pu, k) <=> k \in DOMAIN pa /\ pa[k]
      BY <2>6 DEF IsPaused
    <3>2. IsPaused(pt, k) => k \in DOMAIN pt.paused
      BY DEF IsPaused
    <3> QED BY <3>1, <3>2, <2>5
  <2> QED BY <2>6, <2>7, <2>8 DEF IsPort, SameStops, pu
<1> QED BY <1>1, <1>2

\* A destination paused for the first time gets a VOQ that no other has.
LEMMA RegisterOK ==
  ASSUME NEW c, NEW s, NEW pt, IsPort(c, s, pt), ~ UnderBfc(c), NEW d
  PROVE  /\ IsPort(c, s, RegisterVOQ(pt, d)) /\ d \in DOMAIN RegisterVOQ(pt, d).dstQ
         /\ RegisterVOQ(pt, d).paused = pt.paused
         /\ \A e : e # d => /\ e \in DOMAIN RegisterVOQ(pt, d).dstQ <=> e \in DOMAIN pt.dstQ
                            /\ e \in DOMAIN pt.dstQ =>
                                 RegisterVOQ(pt, d).dstQ[e] = pt.dstQ[e]
         /\ \A e \in DOMAIN pt.dstQ : e # d => RegisterVOQ(pt, d).dstQ[e] # RegisterVOQ(pt, d).dstQ[d]
<1> DEFINE pu == RegisterVOQ(pt, d)
           S == PacketAt(c, s)
<1>1. PICK m \in Nat : IsPortOf(c, s, pt, m)
  BY DEF IsPort
<1>2. CASE d \in DOMAIN pt.dstQ
  <2>1. pu = pt
    BY <1>2 DEF RegisterVOQ
  <2>2. \A e \in DOMAIN pt.dstQ : e # d => pt.dstQ[e] # pt.dstQ[d]
    BY <1>1, <1>2 DEF IsPortOf
  <2> HIDE DEF pu
  <2>3. /\ IsPort(c, s, pu) /\ d \in DOMAIN pu.dstQ /\ pu.paused = pt.paused
        /\ \A e : e # d => /\ e \in DOMAIN pu.dstQ <=> e \in DOMAIN pt.dstQ
                           /\ e \in DOMAIN pt.dstQ => pu.dstQ[e] = pt.dstQ[e]
        /\ \A e \in DOMAIN pt.dstQ : e # d => pu.dstQ[e] # pu.dstQ[d]
    BY <1>2, <2>1, <2>2
  <2> QED BY <2>3 DEF pu
<1>3. CASE d \notin DOMAIN pt.dstQ
  <2> DEFINE id == Cardinality(DOMAIN pt.queues)
             qs == Put(pt.queues, id, <<>>)
             n == Len(pt.priorities)
             pri == [pt.priorities EXCEPT ![n] = Append(@, id)]
             dq == Put(pt.dstQ, d, id)
             ct == pt.ctrls \cup {id}
  <2>1. /\ DOMAIN pt.queues = 0 .. m - 1 /\ pt.queues \in [0 .. m - 1 -> Seq(S)]
        /\ pt.priorities \in Seq(Seq(0 .. m - 1)) /\ pt.priorities # <<>>
        /\ pt.dstQ \in [DOMAIN pt.dstQ -> 0 .. m - 1]
        /\ \A e, g \in DOMAIN pt.dstQ : pt.dstQ[e] = pt.dstQ[g] => e = g
        /\ m >= QueueNum /\ QueueNum \in Nat /\ QueueNum > 2
    BY <1>1, QueuePfcParameters DEF IsPortOf
  <2>2. id = m
    <3>1. 0 \in Int /\ m - 1 \in Int /\ m >= 1
      BY <2>1
    <3>2. Cardinality(0 .. m - 1) = IF 0 > m - 1 THEN 0 ELSE (m - 1) - 0 + 1
      BY <3>1, FS_Interval
    <3>3. Cardinality(0 .. m - 1) = m
      BY <3>1, <3>2
    <3> QED BY <2>1, <3>3
  <2>3. pu = [queues |-> qs, priorities |-> pri, rrlasts |-> pt.rrlasts,
              ctrls |-> ct, paused |-> pt.paused, dstQ |-> dq]
    <3> DEFINE p1 == [pt EXCEPT !.queues = qs]
               p2 == [p1 EXCEPT !.priorities = pri]
               p3 == [p2 EXCEPT !.ctrls = ct]
               p4 == [p3 EXCEPT !.dstQ = dq]
    <3>1. pt = [queues |-> pt.queues, priorities |-> pt.priorities, rrlasts |-> pt.rrlasts,
                ctrls |-> pt.ctrls, paused |-> pt.paused, dstQ |-> pt.dstQ]
      BY <1>1 DEF IsPortOf
    <3>2. p1 = [queues |-> qs, priorities |-> pt.priorities, rrlasts |-> pt.rrlasts,
                ctrls |-> pt.ctrls, paused |-> pt.paused, dstQ |-> pt.dstQ]
      <4> HIDE DEF qs
      <4> QED BY <3>1, PortChanged
    <3>3. pu = p4
      <4>1. p1.priorities = pt.priorities /\ p2.ctrls = pt.ctrls /\ p3.dstQ = pt.dstQ
        <5> HIDE DEF qs, pri, id
        <5> QED BY <3>1
      <4> QED BY <1>3, <4>1 DEF RegisterVOQ
    <3> HIDE DEF p1, qs, pri, dq, id, ct
    <3>4. p2 = [queues |-> qs, priorities |-> pri, rrlasts |-> pt.rrlasts,
                ctrls |-> pt.ctrls, paused |-> pt.paused, dstQ |-> pt.dstQ]
      BY <3>2, PortChanged
    <3> HIDE DEF p2
    <3>5. p3 = [queues |-> qs, priorities |-> pri, rrlasts |-> pt.rrlasts,
                ctrls |-> ct, paused |-> pt.paused, dstQ |-> pt.dstQ]
      BY <3>4, PortChanged
    <3> HIDE DEF p3, pu
    <3> QED BY <3>3, <3>5, PortChanged
  <2> HIDE DEF pu, id, ct
  <2>4. /\ pu = [queues |-> pu.queues, priorities |-> pu.priorities, rrlasts |-> pu.rrlasts,
                 ctrls |-> pu.ctrls, paused |-> pu.paused, dstQ |-> pu.dstQ]
        /\ pu.queues = qs /\ pu.priorities = pri /\ pu.rrlasts = pt.rrlasts
        /\ pu.paused = pt.paused /\ pu.dstQ = dq
    <3> HIDE DEF qs, pri, dq
    <3> QED BY <2>3
  <2>5. qs \in [0 .. (m + 1) - 1 -> Seq(S)]
    <3>1. 0 .. (m + 1) - 1 = (0 .. m - 1) \cup {m}
      BY <2>1
    <3>2. <<>> \in Seq(S)
      OBVIOUS
    <3> QED BY <2>1, <2>2, <3>1, <3>2 DEF Put
  <2>6. pri \in Seq(Seq(0 .. (m + 1) - 1)) /\ pri # <<>> /\ DOMAIN pri = DOMAIN pt.priorities
    <3> DEFINE S1 == Seq(0 .. m - 1)
               S2 == Seq(0 .. (m + 1) - 1)
    <3>1. \A q \in S1 : q \in S2 /\ Append(q, id) \in S2
      <4>1. ASSUME NEW q \in S1 PROVE q \in S2
        <5>1. q \in [1 .. Len(q) -> 0 .. m - 1] /\ Len(q) \in Nat
          OBVIOUS
        <5>2. \A i \in 1 .. Len(q) : q[i] \in 0 .. (m + 1) - 1
          BY <5>1
        <5> QED BY <5>1, <5>2
      <4>2. id \in 0 .. (m + 1) - 1
        BY <2>2
      <4> QED BY <4>1, <4>2
    <3>2. pt.priorities \in Seq(S1) /\ pt.priorities # <<>>
      BY <2>1
    <3> HIDE DEF S1, S2
    <3>3. n \in Nat /\ n > 0 /\ n \in DOMAIN pt.priorities /\ DOMAIN pt.priorities = 1 .. n
          /\ pt.priorities \in [1 .. n -> S1]
      BY <3>2
    <3> HIDE DEF n
    <3>4. pri \in [1 .. n -> S2]
      BY <3>1, <3>3
    <3>5. pri \in Seq(S2) /\ Len(pri) = n
      <4> HIDE DEF pri
      <4> QED BY <3>3, <3>4
    <3> QED BY <3>3, <3>4, <3>5 DEF S2
  <2>7. /\ DOMAIN dq = DOMAIN pt.dstQ \cup {d}
        /\ \A e \in DOMAIN dq : dq[e] = IF e = d THEN m ELSE pt.dstQ[e]
        /\ dq = [e \in DOMAIN dq |-> dq[e]]
    BY <2>2 DEF Put
  <2> HIDE DEF dq, qs, pri
  <2>8. \A e \in DOMAIN pt.dstQ : pt.dstQ[e] \in 0 .. m - 1
    BY <2>1
  <2>9. dq \in [DOMAIN dq -> 0 .. (m + 1) - 1]
    <3>1. \A e \in DOMAIN dq : dq[e] \in 0 .. (m + 1) - 1
      BY <2>7, <2>8
    <3> QED BY <3>1, <2>7
  <2>10. \A e, g \in DOMAIN dq : dq[e] = dq[g] => e = g
    <3>1. \A e \in DOMAIN pt.dstQ : pt.dstQ[e] # m
      BY <2>8
    <3> QED BY <2>1, <2>7, <3>1
  <2>11. pu.rrlasts \in [DOMAIN pu.priorities -> Nat] /\ pu.paused \in [DOMAIN pu.paused -> BOOLEAN]
    BY <1>1, <2>4, <2>6 DEF IsPortOf
  <2>12. IsPortOf(c, s, pu, m + 1)
    BY <2>1, <2>4, <2>5, <2>6, <2>9, <2>10, <2>11 DEF IsPortOf, S
  <2>13. IsPort(c, s, pu)
    BY <2>12 DEF IsPort
  <2>14. \A e \in DOMAIN pt.dstQ : e # d => dq[e] # dq[d]
    BY <2>7, <2>10
  <2>15. /\ IsPort(c, s, pu) /\ d \in DOMAIN pu.dstQ /\ pu.paused = pt.paused
         /\ \A e : e # d => /\ e \in DOMAIN pu.dstQ <=> e \in DOMAIN pt.dstQ
                            /\ e \in DOMAIN pt.dstQ => pu.dstQ[e] = pt.dstQ[e]
         /\ \A e \in DOMAIN pt.dstQ : e # d => pu.dstQ[e] # pu.dstQ[d]
    BY <2>4, <2>7, <2>13, <2>14
  <2> QED BY <2>15 DEF pu
<1> QED BY <1>2, <1>3

-----------------------------------------------------------------------------
(* Matching a packet to a queue *)

TableOK(tb) == tb \in [DOMAIN tb -> [size : Int, q : DataQ]]

\* A match leaves the queues and pauses of a port as they are and names a
\* queue that may hold data.
Matched(c, s, pt, m) ==
  /\ IsPort(c, s, m.port) /\ SameStops(pt, m.port) /\ m.port.queues = pt.queues
  /\ m.q \in MayHold(c, m.port) /\ TableOK(m.table)

LEMMA ReassignOK ==
  ASSUME NEW s, NEW pt, IsPort(settings, s, pt), Bfc, NEW tb, TableOK(tb), NEW fid,
         NEW m, m \in Reassign(pt, tb, fid)
  PROVE  Matched(settings, s, pt, m)
<1>1. PICK e, sticky, id : /\ e \in TableSeen(tb, fid) /\ id \in UsableQ(pt, e, sticky)
                           /\ m = [q |-> id, port |-> LookedUp(pt, e), table |-> [e EXCEPT ![fid].q = id]]
  BY DEF Reassign
<1>2. id \in DataQ
  <2> DEFINE free == DataQ \ UsedQ(pt, e, sticky)
  <2>1. free \subseteq Nat
    BY QueuePfcParameters DEF DataQ
  <2>2. id \in IF free # {} THEN {Min(free)} ELSE DataQ
    BY <1>1 DEF UsableQ
  <2>3. free \subseteq DataQ
    OBVIOUS
  <2> HIDE DEF free
  <2>4. free # {} => Min(free) \in free
    BY <2>1, MinIn
  <2> QED BY <2>2, <2>3, <2>4
<1> DEFINE T == [size : Int, q : DataQ]
           f == [e EXCEPT ![fid].q = id]
<1>3. /\ e = [x \in DOMAIN e |-> e[x]] /\ fid \in DOMAIN e
      /\ \A x \in DOMAIN e \ {fid} : e[x] \in T
      /\ \E a \in Int : \E b : e[fid] = [size |-> a, q |-> b]
  <2>1. tb \in [DOMAIN tb -> T]
    BY DEF TableOK
  <2>2. CASE fid \in DOMAIN tb
    <3>1. e = tb
      BY <1>1, <2>2 DEF TableSeen
    <3>2. tb[fid] \in T
      BY <2>1, <2>2
    <3>3. tb[fid] = [size |-> tb[fid].size, q |-> tb[fid].q] /\ tb[fid].size \in Int
      BY <3>2
    <3> HIDE DEF T
    <3> QED BY <2>1, <2>2, <3>1, <3>3
  <2>3. CASE fid \notin DOMAIN tb
    <3>1. PICK any : e = Put(tb, fid, [size |-> 0, q |-> any])
      BY <1>1, <2>3 DEF TableSeen
    <3> HIDE DEF T
    <3>2. /\ e = [x \in DOMAIN e |-> e[x]] /\ DOMAIN e = DOMAIN tb \cup {fid}
          /\ e[fid] = [size |-> 0, q |-> any] /\ \A x \in DOMAIN tb \ {fid} : e[x] = tb[x]
      BY <3>1 DEF Put
    <3>3. ASSUME NEW x \in DOMAIN e \ {fid} PROVE e[x] \in T
      <4>1. x \in DOMAIN tb /\ e[x] = tb[x] /\ tb[x] \in T
        BY <3>2, <2>1
      <4> QED BY <4>1
    <3>4. \E a \in Int : \E b : e[fid] = [size |-> a, q |-> b]
      <4>1. 0 \in Int /\ e[fid] = [size |-> 0, q |-> any]
        BY <3>2
      <4> QED BY <4>1
    <3> QED BY <3>2, <3>3, <3>4
  <2> QED BY <2>2, <2>3
<1>4. TableOK(f)
  <2>1. PICK a, b : a \in Int /\ e[fid] = [size |-> a, q |-> b]
    BY <1>3
  <2>2. [e[fid] EXCEPT !.q = id] = [size |-> a, q |-> id]
    BY <2>1
  <2>3. DOMAIN f = DOMAIN e /\ f = [x \in DOMAIN f |-> f[x]]
        /\ f[fid] = [size |-> a, q |-> id] /\ \A x \in DOMAIN e \ {fid} : f[x] = e[x]
    BY <1>3, <2>2
  <2>4. f[fid] \in T
    BY <2>1, <2>3, <1>2
  <2> HIDE DEF f, T
  <2>5. \A x \in DOMAIN f : f[x] \in T
    BY <1>3, <2>3, <2>4
  <2>6. f \in [DOMAIN f -> T]
    BY <2>3, <2>5
  <2> QED BY <2>6 DEF TableOK, T
<1>5. UnderBfc(settings)
  BY DEF Bfc, UnderBfc
<1>6. m.q = id /\ m.port = LookedUp(pt, e) /\ m.table = f
  BY <1>1
<1> QED BY <1>2, <1>4, <1>5, <1>6, LookedUpOK DEF Matched, MayHold

LEMMA MatchQOK ==
  ASSUME NEW l \in Link, NEW p, p.flow \in Flow, IsPort(settings, l[1], port[l]), TableOK(flowtb[l]),
         NEW m \in MatchQ(l, p)
  PROVE  Matched(settings, l[1], port[l], m)
<1> DEFINE pt == port[l]
           tb == flowtb[l]
           fid == Fid[p.flow]
<1>1. CASE Bfc
  <2>1. m \in MatchFlow(pt, tb, fid)
    BY <1>1 DEF MatchQ
  <2> HIDE DEF pt, tb, fid
  <2>2. \/ m \in Reassign(pt, tb, fid)
        \/ fid \in DOMAIN tb /\ m = Keep(pt, tb, fid)
    BY <2>1 DEF MatchFlow
  <2>3. CASE m \in Reassign(pt, tb, fid)
    BY <1>1, <2>3, ReassignOK DEF pt, tb
  <2>4. CASE fid \in DOMAIN tb /\ m = Keep(pt, tb, fid)
    <3>1. tb \in [DOMAIN tb -> [size : Int, q : DataQ]]
      BY DEF TableOK, tb
    <3>2. tb[fid].q \in DataQ
      BY <2>4, <3>1
    <3>3. m.q = tb[fid].q /\ m.port = pt /\ m.table = tb
      BY <2>4 DEF Keep
    <3>4. UnderBfc(settings)
      BY <1>1 DEF Bfc, UnderBfc
    <3> QED BY <3>2, <3>3, <3>4 DEF Matched, MayHold, SameStops, pt, tb
  <2> QED BY <2>2, <2>3, <2>4
<1>2. CASE ~ Bfc
  <2>1. m.q = MatchVOQ(pt, p, IsLastHop(l)) /\ m.port = pt /\ m.table = tb
    BY <1>2 DEF MatchQ
  <2>2. PICK k \in Nat : IsPortOf(settings, l[1], pt, k)
    BY DEF IsPort
  <2> HIDE DEF pt, tb
  <2>3. /\ DOMAIN pt.queues = 0 .. k - 1 /\ k > 2
        /\ \A d \in DOMAIN pt.dstQ : pt.dstQ[d] \in 0 .. k - 1
    BY <2>2, QueuePfcParameters DEF IsPortOf
  <2>4. \/ Dst(p) \in DOMAIN pt.dstQ /\ m.q = pt.dstQ[Dst(p)]
        \/ m.q = 1 \/ m.q = 2
    BY <2>1 DEF MatchVOQ
  <2>5. m.q \in DOMAIN pt.queues
    <3>1. 1 \in 0 .. k - 1 /\ 2 \in 0 .. k - 1
      BY <2>2, <2>3
    <3> QED BY <2>3, <2>4, <3>1
  <2>6. ~ UnderBfc(settings)
    BY <1>2 DEF Bfc, UnderBfc
  <2> QED BY <2>1, <2>5, <2>6 DEF Matched, MayHold, SameStops, pt, tb
<1> QED BY <1>1, <1>2

-----------------------------------------------------------------------------
(* The invariant *)

PortsOK(c, ps) == ps = [l \in Link |-> ps[l]] /\ \A l \in Link : IsPort(c, l[1], ps[l])
TablesOK(tbs) == tbs = [l \in Link |-> tbs[l]] /\ \A l \in Link : TableOK(tbs[l])
WiresOK(c, w) == w = [l \in Link |-> w[l]] /\ \A l \in Link : w[l] \in Seq(FrameOn(c, l))
NicsOK(ns) == ns = [h \in Host |-> ns[h]] /\ \A h \in Host : ns[h] \in [DOMAIN ns[h] -> BOOLEAN]
CountersOK(c, cs) == UnderBfc(c) => cs \in [Link -> [UpQ(c) -> Int]]

\* The part of a state that a switch changes when it handles a packet, and the
\* part it does not.
SwitchesTyped == PortsOK(settings, port) /\ TablesOK(flowtb) /\ CountersOK(settings, counter)
Typed == settings \in Configuration /\ SwitchesTyped /\ NicsOK(nic) /\ sent \in [Flow -> Nat]

\* The pauses a switch counts are the reasons its packets carry.
Counted ==
  Bfc => \A l \in Link : \A id \in UpQ(settings) :
           /\ IsFiniteSet(Reasons(l[1], l[2], id))
           /\ counter[l][id] = Cardinality(Reasons(l[1], l[2], id))

\* What PauseAgreement says of two ends, were w on the wires.
AgreedOver(w) ==
  \A l \in Link : \A id \in Ids(settings) :
    \/ Bfc /\ l[2] \in Host /\ id = AckQ
    \/ Wanted(l[1], l[2], id) <=> PausedAfter(w[l], id, Stopped(l[2], l[1], id))

QInv == Typed /\ Counted /\ WiresOK(settings, wire) /\ AgreedOver(wire)

-----------------------------------------------------------------------------
(* How an agreement is kept *)

LEMMA SettingsSame ==
  ASSUME settings' = settings
  PROVE  /\ Bfc' <=> Bfc
         /\ Bfc <=> UnderBfc(settings)
  BY DEF Bfc, UnderBfc

\* A link carries on as it was, or one frame is sent that says what its sender
\* wants now.
Told(T, w, v, id, want, now) ==
  \/ v = w /\ (now <=> want)
  \/ \E fr \in T : v = Append(w, fr) /\ (now <=> Obeyed(fr, id, want))

LEMMA ToldAgrees ==
  ASSUME NEW T, NEW w \in Seq(T), NEW v, NEW id, NEW want, NEW now, NEW before \in BOOLEAN,
         Told(T, w, v, id, want, now), want <=> PausedAfter(w, id, before)
  PROVE  now <=> PausedAfter(v, id, before)
<1>1. CASE v = w /\ (now <=> want)
  BY <1>1
<1>2. CASE \E fr \in T : v = Append(w, fr) /\ (now <=> Obeyed(fr, id, want))
  <2>1. PICK fr \in T : v = Append(w, fr) /\ (now <=> Obeyed(fr, id, want))
    BY <1>2
  <2>2. PausedAfter(v, id, before) <=> Obeyed(fr, id, PausedAfter(w, id, before))
    BY <2>1, PausedAppend
  <2> QED BY <2>1, <2>2 DEF Obeyed
<1> QED BY <1>1, <1>2 DEF Told

LEMMA StoppedType ==
  ASSUME PortsOK(settings, port), NicsOK(nic), NEW l \in Link, NEW id
  PROVE  Stopped(l[2], l[1], id) \in BOOLEAN
<1>1. l[2] \in Host \/ (l[2] \in Switch /\ <<l[2], l[1]>> \in Link)
  BY LinkEnds
<1>2. CASE l[2] \in Host
  BY <1>2 DEF NicsOK, Stopped
<1>3. CASE l[2] \notin Host
  <2> DEFINE pt == port[<<l[2], l[1]>>]
  <2>1. IsPort(settings, l[2], pt)
    BY <1>1, <1>3 DEF PortsOK
  <2> HIDE DEF pt
  <2>2. pt.paused \in [DOMAIN pt.paused -> BOOLEAN]
    BY <2>1 DEF IsPort, IsPortOf
  <2>3. \A k : IsPaused(pt, k) \in BOOLEAN
    BY <2>2 DEF IsPaused
  <2> QED BY <1>3, <2>3 DEF Stopped, pt
<1> QED BY <1>1, <1>2, <1>3

StopsSame == \A l \in Link : \A id : Stopped(l[2], l[1], id)' <=> Stopped(l[2], l[1], id)

LEMMA StopsKept ==
  ASSUME settings' = settings, nic' = nic, \A l \in Link : SameStops(port[l], port'[l])
  PROVE  StopsSame
<1> SUFFICES ASSUME NEW l \in Link, NEW id
             PROVE  Stopped(l[2], l[1], id)' <=> Stopped(l[2], l[1], id)
  BY DEF StopsSame
<1>1. CASE l[2] \in Host
  BY <1>1 DEF Stopped
<1>2. CASE l[2] \notin Host
  <2>1. <<l[2], l[1]>> \in Link
    BY <1>2, LinkEnds
  <2>2. SameStops(port[<<l[2], l[1]>>], port'[<<l[2], l[1]>>])
    BY <2>1
  <2>3. Bfc' <=> Bfc
    BY SettingsSame
  <2> QED BY <1>2, <2>2, <2>3 DEF Stopped, SameStops
<1> QED BY <1>1, <1>2

LEMMA AgreedStep ==
  ASSUME settings' = settings, PortsOK(settings, port), NicsOK(nic), StopsSame,
         NEW w, WiresOK(settings, w), AgreedOver(w),
         \A l \in Link : \A id \in Ids(settings) :
           Told(FrameOn(settings, l), w[l], wire'[l], id, Wanted(l[1], l[2], id), Wanted(l[1], l[2], id)')
  PROVE  AgreedOver(wire)'
<1>1. ASSUME NEW l \in Link, NEW id \in Ids(settings), ~ (Bfc /\ l[2] \in Host /\ id = AckQ)
      PROVE  Wanted(l[1], l[2], id)' <=> PausedAfter(wire'[l], id, Stopped(l[2], l[1], id)')
  <2> DEFINE T == FrameOn(settings, l)
             want == Wanted(l[1], l[2], id)
             now == Wanted(l[1], l[2], id)'
             before == Stopped(l[2], l[1], id)
             after == Stopped(l[2], l[1], id)'
             ws == w[l]
             v == wire'[l]
  <2>2. before \in BOOLEAN /\ ws \in Seq(T)
    BY StoppedType DEF WiresOK
  <2>3. want <=> PausedAfter(ws, id, before)
    BY <1>1 DEF AgreedOver
  <2>4. Told(T, ws, v, id, want, now)
    OBVIOUS
  <2>5. after <=> before
    BY DEF StopsSame
  <2> HIDE DEF T, want, now, before, after, ws, v
  <2>6. now <=> PausedAfter(v, id, before)
    BY <2>2, <2>3, <2>4, ToldAgrees
  <2>7. PausedAfter(v, id, before) <=> PausedAfter(v, id, after)
    BY <2>5 DEF PausedAfter
  <2>8. now <=> PausedAfter(v, id, after)
    BY <2>6, <2>7
  <2> QED BY <2>8 DEF now, v, after
<1>2. (Bfc' <=> Bfc) /\ Ids(settings') = Ids(settings)
  BY SettingsSame
<1> QED BY <1>1, <1>2 DEF AgreedOver

-----------------------------------------------------------------------------
(* Counting the packets that carry a reason *)

Lines(s) == {l \in Link : l[1] = s} \X DataQ
QueuesAt(ps, s) == [x \in Lines(s) |-> ps[x[1]].queues[x[2]]]
Carriers(c, s, n, id) == {q \in PacketAt(c, s) : Carries(q, n, id)}
ReasonsIn(ps, s, n, id) ==
  UNION {{<<l, k>>} \X {i \in DOMAIN ps[l].queues[k] : Carries(ps[l].queues[k][i], n, id)} :
           l \in {x \in Link : x[1] = s}, k \in DataQ}

LEMMA DataQueues ==
  ASSUME NEW c, NEW ps, PortsOK(c, ps), NEW l \in Link, NEW k \in DataQ
  PROVE  ps[l].queues[k] \in Seq(PacketAt(c, l[1])) /\ k \in DOMAIN ps[l].queues
<1> DEFINE pt == ps[l]
           S == PacketAt(c, l[1])
<1>1. IsPort(c, l[1], pt)
  BY DEF PortsOK
<1> HIDE DEF pt
<1>2. PICK m \in Nat : IsPortOf(c, l[1], pt, m)
  BY <1>1 DEF IsPort
<1>3. pt.queues \in [0 .. m - 1 -> Seq(S)] /\ m >= QueueNum /\ QueueNum \in Nat
  BY <1>2, QueuePfcParameters DEF IsPortOf
<1>4. k \in 0 .. m - 1
  BY <1>3 DEF DataQ
<1> HIDE DEF S
<1>5. pt.queues[k] \in Seq(S) /\ k \in DOMAIN pt.queues
  BY <1>3, <1>4
<1> QED BY <1>5 DEF pt, S

LEMMA ReasonsMarked ==
  ASSUME NEW c, NEW ps, PortsOK(c, ps), NEW s, NEW n, NEW id
  PROVE  ReasonsIn(ps, s, n, id) = Marked(QueuesAt(ps, s), Lines(s), Carriers(c, s, n, id))
<1> DEFINE Q == QueuesAt(ps, s)
           M == Carriers(c, s, n, id)
<1>1. ASSUME NEW l \in Link, l[1] = s, NEW k \in DataQ
      PROVE  /\ <<l, k>> \in Lines(s)
             /\ {<<l, k>>} \X {i \in DOMAIN ps[l].queues[k] : Carries(ps[l].queues[k][i], n, id)}
                  = {<<l, k>>} \X {i \in DOMAIN Q[<<l, k>>] : Q[<<l, k>>][i] \in M}
  <2> DEFINE q == ps[l].queues[k]
  <2>1. <<l, k>> \in Lines(s)
    BY <1>1 DEF Lines
  <2>2. Q[<<l, k>>] = q
    BY <2>1 DEF QueuesAt
  <2>3. q \in Seq(PacketAt(c, s))
    BY <1>1, DataQueues
  <2> HIDE DEF q, Q
  <2>4. \A i \in DOMAIN q : q[i] \in PacketAt(c, s)
    BY <2>3
  <2>5. {i \in DOMAIN q : Carries(q[i], n, id)} = {i \in DOMAIN q : q[i] \in M}
    BY <2>4 DEF Carriers
  <2> QED BY <2>1, <2>2, <2>5 DEF q
<1> HIDE DEF Q, M
<1>2. ASSUME NEW z \in ReasonsIn(ps, s, n, id) PROVE z \in Marked(Q, Lines(s), M)
  <2>1. PICK l, k : /\ l \in Link /\ l[1] = s /\ k \in DataQ
                    /\ z \in {<<l, k>>} \X {i \in DOMAIN ps[l].queues[k] : Carries(ps[l].queues[k][i], n, id)}
    BY <1>2 DEF ReasonsIn
  <2>2. <<l, k>> \in Lines(s) /\ z \in {<<l, k>>} \X {i \in DOMAIN Q[<<l, k>>] : Q[<<l, k>>][i] \in M}
    BY <1>1, <2>1
  <2> QED BY <2>2 DEF Marked
<1>3. ASSUME NEW z \in Marked(Q, Lines(s), M) PROVE z \in ReasonsIn(ps, s, n, id)
  <2>1. PICK x \in Lines(s) : z \in {x} \X {i \in DOMAIN Q[x] : Q[x][i] \in M}
    BY <1>3 DEF Marked
  <2>2. PICK l, k : l \in Link /\ l[1] = s /\ k \in DataQ /\ x = <<l, k>>
    BY DEF Lines
  <2> DEFINE Y(a, b) == {<<a, b>>} \X {i \in DOMAIN ps[a].queues[b] : Carries(ps[a].queues[b][i], n, id)}
  <2>3. z \in Y(l, k)
    BY <1>1, <2>1, <2>2
  <2>4. ReasonsIn(ps, s, n, id) = UNION {Y(a, b) : a \in {x1 \in Link : x1[1] = s}, b \in DataQ}
    BY DEF ReasonsIn
  <2> HIDE DEF Y
  <2>5. l \in {x1 \in Link : x1[1] = s} /\ k \in DataQ
    BY <2>2
  <2> QED BY <2>3, <2>4, <2>5
<1> QED BY <1>2, <1>3 DEF Q, M

\* The ports of ps and pn differ in one queue.
OnlyQueue(ps, pn, l, k) ==
  \A o \in Link : \A j \in DataQ : ~ (o = l /\ j = k) => pn[o].queues[j] = ps[o].queues[j]

LEMMA ReasonsElsewhere ==
  ASSUME NEW ps, NEW pn, NEW l \in Link, NEW k, OnlyQueue(ps, pn, l, k), NEW s, s # l[1], NEW n, NEW id
  PROVE  ReasonsIn(pn, s, n, id) = ReasonsIn(ps, s, n, id)
<1>1. \A o \in {x \in Link : x[1] = s} : \A j \in DataQ : pn[o].queues[j] = ps[o].queues[j]
  BY DEF OnlyQueue
<1> QED BY <1>1 DEF ReasonsIn

LEMMA ReasonsMore ==
  ASSUME NEW c, NEW ps, NEW pn, PortsOK(c, ps), PortsOK(c, pn), NEW l \in Link, NEW k \in DataQ,
         OnlyQueue(ps, pn, l, k), NEW p \in PacketAt(c, l[1]),
         pn[l].queues[k] = Append(ps[l].queues[k], p),
         NEW s, NEW n, NEW id, IsFiniteSet(ReasonsIn(ps, s, n, id))
  PROVE  /\ IsFiniteSet(ReasonsIn(pn, s, n, id))
         /\ Cardinality(ReasonsIn(pn, s, n, id))
              = Cardinality(ReasonsIn(ps, s, n, id)) + (IF s = l[1] /\ Carries(p, n, id) THEN 1 ELSE 0)
<1>1. CASE s # l[1]
  <2>1. Cardinality(ReasonsIn(ps, s, n, id)) \in Nat
    BY FS_CardinalityType
  <2> QED BY <1>1, <2>1, ReasonsElsewhere
<1>2. CASE s = l[1]
  <2> DEFINE Q == QueuesAt(ps, s)
             R == QueuesAt(pn, s)
             y == <<l, k>>
             I == Lines(s)
             T == PacketAt(c, s)
             M == Carriers(c, s, n, id)
  <2>1. y \in I
    BY <1>2 DEF Lines
  <2>2. \A x \in I \ {y} : R[x] = Q[x]
    <3>1. ASSUME NEW x \in I \ {y} PROVE R[x] = Q[x]
      <4>1. x = <<x[1], x[2]>> /\ x[1] \in Link /\ x[2] \in DataQ
        BY DEF Lines
      <4>2. pn[x[1]].queues[x[2]] = ps[x[1]].queues[x[2]]
        BY <4>1, <3>1 DEF OnlyQueue
      <4> QED BY <4>2 DEF QueuesAt
    <3> QED BY <3>1
  <2>3. Q[y] = ps[l].queues[k] /\ R[y] = pn[l].queues[k]
    BY <2>1 DEF QueuesAt
  <2>4. Q[y] \in Seq(T) /\ R[y] = Append(Q[y], p) /\ p \in T
    BY <1>2, <2>3, DataQueues
  <2>5. ReasonsIn(ps, s, n, id) = Marked(Q, I, M) /\ ReasonsIn(pn, s, n, id) = Marked(R, I, M)
    BY ReasonsMarked
  <2>6. p \in M <=> Carries(p, n, id)
    BY <1>2 DEF Carriers
  <2> HIDE DEF Q, R, y, I, T, M
  <2>7. IsFiniteSet(Marked(Q, I, M))
    BY <2>5
  <2>8. /\ IsFiniteSet(Marked(R, I, M))
        /\ Cardinality(Marked(R, I, M)) = Cardinality(Marked(Q, I, M)) + (IF p \in M THEN 1 ELSE 0)
    <3> DEFINE d == p
    <3>1. d \in T /\ Q[y] \in Seq(T) /\ R[y] = Append(Q[y], d)
      BY <2>4
    <3> HIDE DEF d
    <3>2. /\ IsFiniteSet(Marked(R, I, M))
          /\ Cardinality(Marked(R, I, M)) = Cardinality(Marked(Q, I, M)) + (IF d \in M THEN 1 ELSE 0)
      BY <2>1, <2>2, <3>1, <2>7, MarkedMore
    <3> QED BY <3>2 DEF d
  <2> QED BY <1>2, <2>5, <2>6, <2>8
<1> QED BY <1>1, <1>2

LEMMA ReasonsLess ==
  ASSUME NEW c, NEW ps, NEW pn, PortsOK(c, ps), PortsOK(c, pn), NEW l \in Link, NEW k \in DataQ,
         OnlyQueue(ps, pn, l, k), ps[l].queues[k] # <<>>,
         pn[l].queues[k] = Tail(ps[l].queues[k]),
         NEW s, NEW n, NEW id, IsFiniteSet(ReasonsIn(ps, s, n, id))
  PROVE  /\ IsFiniteSet(ReasonsIn(pn, s, n, id))
         /\ Cardinality(ReasonsIn(pn, s, n, id))
              = Cardinality(ReasonsIn(ps, s, n, id))
                  - (IF s = l[1] /\ Carries(Head(ps[l].queues[k]), n, id) THEN 1 ELSE 0)
<1>1. CASE s # l[1]
  <2>1. Cardinality(ReasonsIn(ps, s, n, id)) \in Nat
    BY FS_CardinalityType
  <2> QED BY <1>1, <2>1, ReasonsElsewhere
<1>2. CASE s = l[1]
  <2> DEFINE Q == QueuesAt(ps, s)
             R == QueuesAt(pn, s)
             y == <<l, k>>
             I == Lines(s)
             T == PacketAt(c, s)
             M == Carriers(c, s, n, id)
  <2>1. y \in I
    BY <1>2 DEF Lines
  <2>2. \A x \in I \ {y} : R[x] = Q[x]
    <3>1. ASSUME NEW x \in I \ {y} PROVE R[x] = Q[x]
      <4>1. x = <<x[1], x[2]>> /\ x[1] \in Link /\ x[2] \in DataQ
        BY DEF Lines
      <4>2. pn[x[1]].queues[x[2]] = ps[x[1]].queues[x[2]]
        BY <4>1, <3>1 DEF OnlyQueue
      <4> QED BY <4>2 DEF QueuesAt
    <3> QED BY <3>1
  <2>3. Q[y] = ps[l].queues[k] /\ R[y] = pn[l].queues[k]
    BY <2>1 DEF QueuesAt
  <2>4. Q[y] \in Seq(T) /\ R[y] = Tail(Q[y]) /\ Q[y] # <<>>
    BY <1>2, <2>3, DataQueues
  <2>5. ReasonsIn(ps, s, n, id) = Marked(Q, I, M) /\ ReasonsIn(pn, s, n, id) = Marked(R, I, M)
    BY ReasonsMarked
  <2>6. Head(Q[y]) \in M <=> Carries(Head(ps[l].queues[k]), n, id)
    <3>1. Head(Q[y]) \in T
      <4> HIDE DEF Q, y, T
      <4> QED BY <2>4
    <3> QED BY <2>3, <3>1 DEF Carriers
  <2> HIDE DEF Q, R, y, I, T, M
  <2>7. IsFiniteSet(Marked(Q, I, M))
    BY <2>5
  <2>8. /\ IsFiniteSet(Marked(R, I, M))
        /\ Cardinality(Marked(R, I, M)) = Cardinality(Marked(Q, I, M)) - (IF Head(Q[y]) \in M THEN 1 ELSE 0)
    BY <2>1, <2>2, <2>4, <2>7, MarkedLess
  <2> QED BY <1>2, <2>5, <2>6, <2>8
<1> QED BY <1>1, <1>2

LEMMA ReasonsAre ==
  ASSUME NEW s, NEW n, NEW id
  PROVE  /\ Reasons(s, n, id) = ReasonsIn(port, s, n, id)
         /\ Reasons(s, n, id)' = ReasonsIn(port', s, n, id)
  BY DEF Reasons, ReasonsIn

LEMMA ReasonsSame ==
  ASSUME NEW ps, NEW pn, \A o \in Link : \A k \in DataQ : pn[o].queues[k] = ps[o].queues[k],
         NEW s, NEW n, NEW id
  PROVE  ReasonsIn(pn, s, n, id) = ReasonsIn(ps, s, n, id)
  BY DEF ReasonsIn

\* Changing no queue and no counter leaves the count of reasons as it is.
LEMMA CountedKept ==
  ASSUME settings' = settings, Counted, UNCHANGED counter,
         \A o \in Link : \A k \in DataQ : port'[o].queues[k] = port[o].queues[k]
  PROVE  Counted'
<1>1. \A s, n, id : Reasons(s, n, id)' = Reasons(s, n, id)
  BY ReasonsSame, ReasonsAre
<1>2. (Bfc' <=> Bfc) /\ UpQ(settings') = UpQ(settings)
  BY SettingsSame
<1> QED BY <1>1, <1>2 DEF Counted

\* What a packet is, field by field.
LEMMA PacketFields ==
  ASSUME NEW c, NEW s, NEW p \in PacketAt(c, s)
  PROVE  /\ p.flow \in Flow /\ p.upq \in UpQ(c) /\ p.meta \in BOOLEAN
         /\ <<s, p.in>> \in Link /\ Dst(p) \in Host
         /\ \A b \in BOOLEAN : /\ [p EXCEPT !.meta = b] \in PacketAt(c, s)
                               /\ [p EXCEPT !.meta = b].meta = b
                               /\ [p EXCEPT !.meta = b].in = p.in
                               /\ [p EXCEPT !.meta = b].upq = p.upq
<1> DEFINE N == {n \in Switch \cup Host : <<s, n>> \in Link}
           U == UpQ(c)
<1>1. p \in [flow : Flow, num : Nat, sch : BOOLEAN, in : N, upq : U, meta : BOOLEAN]
  BY DEF PacketAt
<1>2. p.flow \in Flow /\ p.upq \in U /\ p.meta \in BOOLEAN /\ p.in \in N
  <2> HIDE DEF N, U
  <2> QED BY <1>1
<1>3. \A b \in BOOLEAN :
        /\ [p EXCEPT !.meta = b] \in [flow : Flow, num : Nat, sch : BOOLEAN, in : N, upq : U, meta : BOOLEAN]
        /\ [p EXCEPT !.meta = b].meta = b
        /\ [p EXCEPT !.meta = b].in = p.in
        /\ [p EXCEPT !.meta = b].upq = p.upq
  <2> HIDE DEF N, U
  <2> QED BY <1>1
<1>4. Dst(p) \in Host
  BY <1>2, QueuePfcParameters DEF Dst
<1> QED BY <1>2, <1>3, <1>4 DEF PacketAt

\* The counters of a state are the sizes of finite sets.
LEMMA CountersNat ==
  ASSUME Counted, Bfc, SwitchesTyped
  PROVE  /\ counter \in [Link -> [UpQ(settings) -> Int]]
         /\ \A l \in Link : \A id \in UpQ(settings) : counter[l][id] \in Nat
<1>1. counter \in [Link -> [UpQ(settings) -> Int]]
  BY SettingsSame DEF SwitchesTyped, CountersOK, Bfc, UnderBfc
<1>2. ASSUME NEW l \in Link, NEW id \in UpQ(settings) PROVE counter[l][id] \in Nat
  BY FS_CardinalityType DEF Counted
<1> QED BY <1>1, <1>2

\* The wires v are w with one more frame on k.
OneMore(w, v, k, fr) ==
  /\ WiresOK(settings, v) /\ fr \in FrameOn(settings, k) /\ v[k] = Append(w[k], fr)
  /\ \A l \in Link : l # k => v[l] = w[l]

\* The frame that carries a pause or a resumption.
LEMMA SendPfcOK ==
  ASSUME NEW w, WiresOK(settings, w), NEW k \in Link, NEW id \in Ids(settings),
         NEW type \in {"pause", "resume"}
  PROVE  OneMore(w, SendPfc(w, k[1], k[2], type, id), k, [type |-> type, id |-> id])
<1> DEFINE fr == [type |-> type, id |-> id]
           v == SendPfc(w, k[1], k[2], type, id)
<1>1. fr \in FrameOn(settings, k)
  <2> DEFINE D == Ids(settings)
  <2>1. fr \in [type : {"pause", "resume"}, id : D]
    <3>1. id \in D
      OBVIOUS
    <3> HIDE DEF D
    <3> QED BY <3>1
  <2> QED BY <2>1 DEF FrameOn
<1>2. v = [w EXCEPT ![k] = Append(@, fr)]
  BY LinkEnds DEF SendPfc
<1>3. w = [l \in Link |-> w[l]] /\ \A l \in Link : w[l] \in Seq(FrameOn(settings, l))
  BY DEF WiresOK
<1>4. k \in Link
  OBVIOUS
<1> HIDE DEF fr, v
<1>5. Append(w[k], fr) \in Seq(FrameOn(settings, k))
  <2> DEFINE T == FrameOn(settings, k)
             a == w[k]
  <2>1. a \in Seq(T) /\ fr \in T
    BY <1>1, <1>3, <1>4
  <2> HIDE DEF T, a
  <2>2. Append(a, fr) \in Seq(T)
    BY <2>1
  <2> QED BY <2>2 DEF T, a
<1>6. /\ v = [l \in Link |-> v[l]] /\ v[k] = Append(w[k], fr)
      /\ \A l \in Link : l # k => v[l] = w[l]
  BY <1>2, <1>3, <1>4
<1>7. WiresOK(settings, v)
  BY <1>3, <1>5, <1>6 DEF WiresOK
<1> QED BY <1>1, <1>6, <1>7 DEF fr, v, OneMore

-----------------------------------------------------------------------------
(* SendToDev *)

\* What a handler leaves behind when it starts from the wires w.
Kept(w) == SwitchesTyped' /\ Counted' /\ WiresOK(settings, wire)' /\ AgreedOver(wire)'
Before(w) ==
  /\ Typed /\ Counted /\ WiresOK(settings, w) /\ AgreedOver(w)
  /\ settings' = settings /\ nic' = nic

\* One port replaced by another.
LEMMA PortReplaced ==
  ASSUME PortsOK(settings, port), NEW l \in Link, NEW pt, IsPort(settings, l[1], pt),
         port' = [port EXCEPT ![l] = pt], settings' = settings
  PROVE  /\ PortsOK(settings, port') /\ port'[l] = pt
         /\ \A o \in Link : o # l => port'[o] = port[o]
<1>1. port' = [o \in Link |-> port'[o]] /\ port'[l] = pt /\ \A o \in Link : o # l => port'[o] = port[o]
  BY DEF PortsOK
<1>2. \A o \in Link : IsPort(settings, o[1], port'[o])
  BY <1>1 DEF PortsOK
<1> QED BY <1>1, <1>2 DEF PortsOK

LEMMA TableReplaced ==
  ASSUME TablesOK(flowtb), NEW l \in Link, NEW tb, TableOK(tb), flowtb' = [flowtb EXCEPT ![l] = tb]
  PROVE  TablesOK(flowtb)'
<1>1. flowtb' = [o \in Link |-> flowtb'[o]] /\ flowtb'[l] = tb /\ \A o \in Link : o # l => flowtb'[o] = flowtb[o]
  BY DEF TablesOK
<1>2. \A o \in Link : TableOK(flowtb'[o])
  BY <1>1 DEF TablesOK
<1> QED BY <1>1, <1>2 DEF TablesOK

LEMMA SizeChanged ==
  ASSUME NEW tb, TableOK(tb), NEW fid, NEW d, fid \in DOMAIN tb => d \in Int
  PROVE  TableOK([tb EXCEPT ![fid].size = d])
<1> DEFINE u == [tb EXCEPT ![fid].size = d]
           E == [size : Int, q : DataQ]
<1>1. tb \in [DOMAIN tb -> E]
  BY DEF TableOK
<1>2. d \in Int => \A e \in E : [e EXCEPT !.size = d] \in E
  <2> HIDE DEF DataQ
  <2> QED OBVIOUS
<1>3. u = [x \in DOMAIN tb |-> IF x = fid THEN [tb[x] EXCEPT !.size = d] ELSE tb[x]]
  <2> HIDE DEF E
  <2> QED BY <1>1
<1> HIDE DEF u, E
<1>4. u \in [DOMAIN tb -> E]
  BY <1>1, <1>2, <1>3
<1>5. DOMAIN u = DOMAIN tb
  BY <1>3
<1> QED BY <1>4, <1>5 DEF TableOK, u, E

LEMMA SizeInt ==
  ASSUME NEW tb, TableOK(tb), NEW fid
  PROVE  fid \in DOMAIN tb => tb[fid].size + 1 \in Int /\ tb[fid].size - 1 \in Int
<1> HIDE DEF DataQ
<1>1. tb \in [DOMAIN tb -> [size : Int, q : DataQ]]
  BY DEF TableOK
<1> SUFFICES ASSUME fid \in DOMAIN tb PROVE tb[fid].size \in Int
  OBVIOUS
<1>2. tb[fid] \in [size : Int, q : DataQ]
  BY <1>1
<1> QED BY <1>2

\* The egress admission drops the packet.
LEMMA LossKeeps ==
  ASSUME NEW w, Before(w), NEW l \in Link, NEW m, Matched(settings, l[1], port[l], m),
         port' = [port EXCEPT ![l] = m.port], flowtb' = [flowtb EXCEPT ![l] = m.table],
         wire' = w, UNCHANGED <<counter, paused>>
  PROVE  Kept(w)
<1>1. PortsOK(settings, port) /\ TablesOK(flowtb) /\ CountersOK(settings, counter) /\ NicsOK(nic)
  BY DEF Before, Typed, SwitchesTyped
<1>2. IsPort(settings, l[1], m.port) /\ SameStops(port[l], m.port) /\ m.port.queues = port[l].queues
      /\ TableOK(m.table)
  BY DEF Matched
<1>3. /\ PortsOK(settings, port') /\ port'[l] = m.port
      /\ \A o \in Link : o # l => port'[o] = port[o]
  BY <1>1, <1>2, PortReplaced DEF Before
<1>4. TablesOK(flowtb)'
  BY <1>1, <1>2, TableReplaced
<1>5. SwitchesTyped'
  BY <1>1, <1>3, <1>4 DEF SwitchesTyped, Before
<1>6. Counted'
  <2>1. \A o \in Link : port'[o].queues = port[o].queues
    BY <1>2, <1>3
  <2> QED BY <2>1, CountedKept DEF Before
<1>7. AgreedOver(wire)'
  <2>1. \A o \in Link : SameStops(port[o], port'[o])
    BY <1>2, <1>3 DEF SameStops
  <2>2. StopsSame
    BY <2>1, StopsKept DEF Before
  <2>3. (Bfc' <=> Bfc)
    BY SettingsSame DEF Before
  <2>4. \A s, n, id : Wanted(s, n, id)' <=> Wanted(s, n, id)
    BY <2>3 DEF Wanted
  <2>5. ASSUME NEW o \in Link, NEW id \in Ids(settings)
        PROVE  Told(FrameOn(settings, o), w[o], wire'[o], id, Wanted(o[1], o[2], id), Wanted(o[1], o[2], id)')
    BY <2>4 DEF Told
  <2> QED BY <1>1, <2>2, <2>5, AgreedStep DEF Before
<1> QED BY <1>5, <1>6, <1>7 DEF Kept, Before

\* One reason more or less to pause u on the link k, and the frame that says so.
Raised(w, k, u) ==
  /\ counter' = [counter EXCEPT ![k][u] = @ + 1]
  /\ wire' = IF counter[k][u] = 0 THEN SendPfc(w, k[1], k[2], "pause", u) ELSE w
Lowered(w, k, u) ==
  /\ counter' = [counter EXCEPT ![k][u] = @ - 1]
  /\ wire' = IF counter[k][u] = 1 THEN SendPfc(w, k[1], k[2], "resume", u) ELSE w
Unmoved(w) == counter' = counter /\ wire' = w

LEMMA CounterStep ==
  ASSUME NEW k \in Link, NEW u \in UpQ(settings), NEW d \in Int,
         counter \in [Link -> [UpQ(settings) -> Int]], counter' = [counter EXCEPT ![k][u] = @ + d]
  PROVE  /\ counter' \in [Link -> [UpQ(settings) -> Int]]
         /\ \A o \in Link : \A id \in UpQ(settings) :
              counter'[o][id] = counter[o][id] + (IF o = k /\ id = u THEN d ELSE 0)
<1> DEFINE U == UpQ(settings)
<1>1. u \in U /\ counter \in [Link -> [U -> Int]]
  OBVIOUS
<1> HIDE DEF U
<1>2. /\ counter' \in [Link -> [U -> Int]]
      /\ \A o \in Link : \A id \in U :
           counter'[o][id] = counter[o][id] + (IF o = k /\ id = u THEN d ELSE 0)
  BY <1>1
<1> QED BY <1>2 DEF U

LEMMA CounterTold ==
  ASSUME NEW w, WiresOK(settings, w), Bfc, settings' = settings,
         counter \in [Link -> [UpQ(settings) -> Int]],
         \A l \in Link : \A id \in UpQ(settings) : counter[l][id] \in Nat,
         NEW k \in Link, NEW u \in UpQ(settings),
         Raised(w, k, u) \/ (Lowered(w, k, u) /\ counter[k][u] >= 1) \/ Unmoved(w)
  PROVE  /\ WiresOK(settings, wire')
         /\ \A o \in Link : \A id \in Ids(settings) :
              Told(FrameOn(settings, o), w[o], wire'[o], id, Wanted(o[1], o[2], id), Wanted(o[1], o[2], id)')
<1>1. /\ k = <<k[1], k[2]>> /\ (Bfc' <=> Bfc) /\ Ids(settings) = UpQ(settings) /\ u \in Ids(settings)
      /\ \A o \in Link : o = <<o[1], o[2]>>
  BY LinkEnds, SettingsSame DEF Ids
<1>2. \A o \in Link : \A id \in Ids(settings) :
         /\ Wanted(o[1], o[2], id) <=> counter[o][id] > 0
         /\ Wanted(o[1], o[2], id)' <=> counter'[o][id] > 0
  <2>1. ASSUME NEW o \in Link, NEW id \in Ids(settings) PROVE Wanted(o[1], o[2], id) <=> counter[o][id] > 0
    BY <1>1 DEF Wanted
  <2>2. ASSUME NEW o \in Link, NEW id \in Ids(settings) PROVE Wanted(o[1], o[2], id)' <=> counter'[o][id] > 0
    BY <1>1 DEF Wanted
  <2> QED BY <2>1, <2>2
<1>3. CASE Raised(w, k, u)
  <2>1. \A o \in Link : \A id \in UpQ(settings) :
          counter'[o][id] = counter[o][id] + (IF o = k /\ id = u THEN 1 ELSE 0)
    BY <1>3, CounterStep DEF Raised
  <2>2. CASE counter[k][u] = 0
    <3> DEFINE fr == [type |-> "pause", id |-> u]
    <3>0. OneMore(w, wire', k, fr)
      <4>1. "pause" \in {"pause", "resume"} /\ u \in Ids(settings)
        BY <1>1
      <4> QED BY <4>1, <1>3, <2>2, SendPfcOK DEF Raised
    <3>1. /\ WiresOK(settings, wire') /\ fr \in FrameOn(settings, k) /\ wire'[k] = Append(w[k], fr)
          /\ \A l \in Link : l # k => wire'[l] = w[l]
      BY <3>0 DEF OneMore
    <3>2. ASSUME NEW o \in Link, NEW id \in Ids(settings)
          PROVE  Told(FrameOn(settings, o), w[o], wire'[o], id, Wanted(o[1], o[2], id), Wanted(o[1], o[2], id)')
      <4>0. counter[o][id] \in Nat /\ counter'[o][id] = counter[o][id] + (IF o = k /\ id = u THEN 1 ELSE 0)
        BY <1>1, <2>1
      <4>1. CASE o # k
        <5>1. counter'[o][id] = counter[o][id] /\ wire'[o] = w[o]
          BY <4>0, <4>1, <3>1
        <5> QED BY <5>1, <1>2 DEF Told
      <4>2. CASE o = k
        <5>1. counter'[o][id] > 0 <=> Obeyed(fr, id, counter[o][id] > 0)
          <6>1. CASE id = u
            BY <4>0, <4>2, <6>1, <2>2 DEF Obeyed, Pauses, Resumes
          <6>2. CASE id # u
            BY <4>0, <4>2, <6>2 DEF Obeyed, Pauses, Resumes
          <6> QED BY <6>1, <6>2
        <5>2. Wanted(o[1], o[2], id)' <=> Obeyed(fr, id, Wanted(o[1], o[2], id))
          BY <5>1, <1>2 DEF Obeyed
        <5>3. fr \in FrameOn(settings, o) /\ wire'[o] = Append(w[o], fr)
          BY <3>1, <4>2
        <5> HIDE DEF fr
        <5> QED BY <5>2, <5>3 DEF Told
      <4> QED BY <4>1, <4>2
    <3> QED BY <3>1, <3>2
  <2>3. CASE counter[k][u] # 0
    <3>1. wire' = w
      BY <1>3, <2>3 DEF Raised
    <3>2. ASSUME NEW o \in Link, NEW id \in Ids(settings)
          PROVE  Told(FrameOn(settings, o), w[o], wire'[o], id, Wanted(o[1], o[2], id), Wanted(o[1], o[2], id)')
      <4>1. counter[o][id] \in Nat /\ counter'[o][id] = counter[o][id] + (IF o = k /\ id = u THEN 1 ELSE 0)
        BY <1>1, <2>1
      <4>2. counter'[o][id] > 0 <=> counter[o][id] > 0
        BY <4>1, <2>3
      <4> QED BY <3>1, <4>2, <1>2 DEF Told
    <3> QED BY <3>1, <3>2
  <2> QED BY <2>2, <2>3
<1>4. CASE Lowered(w, k, u) /\ counter[k][u] >= 1
  <2>1. \A o \in Link : \A id \in UpQ(settings) :
          counter'[o][id] = counter[o][id] + (IF o = k /\ id = u THEN -1 ELSE 0)
    <3> DEFINE U == UpQ(settings)
    <3>1. u \in U /\ counter \in [Link -> [U -> Int]] /\ counter' = [counter EXCEPT ![k][u] = @ - 1]
      BY <1>4 DEF Lowered
    <3> HIDE DEF U
    <3>2. \A o \in Link : \A id \in U : counter'[o][id] = counter[o][id] + (IF o = k /\ id = u THEN -1 ELSE 0)
      BY <3>1
    <3> QED BY <3>2 DEF U
  <2>2. CASE counter[k][u] = 1
    <3> DEFINE fr == [type |-> "resume", id |-> u]
    <3>0. OneMore(w, wire', k, fr)
      <4>1. "resume" \in {"pause", "resume"} /\ u \in Ids(settings)
        BY <1>1
      <4> QED BY <4>1, <1>4, <2>2, SendPfcOK DEF Lowered
    <3>1. /\ WiresOK(settings, wire') /\ fr \in FrameOn(settings, k) /\ wire'[k] = Append(w[k], fr)
          /\ \A l \in Link : l # k => wire'[l] = w[l]
      BY <3>0 DEF OneMore
    <3>2. ASSUME NEW o \in Link, NEW id \in Ids(settings)
          PROVE  Told(FrameOn(settings, o), w[o], wire'[o], id, Wanted(o[1], o[2], id), Wanted(o[1], o[2], id)')
      <4>0. counter[o][id] \in Nat /\ counter'[o][id] = counter[o][id] + (IF o = k /\ id = u THEN -1 ELSE 0)
        BY <1>1, <2>1
      <4>1. CASE o # k
        <5>1. counter'[o][id] = counter[o][id] /\ wire'[o] = w[o]
          BY <4>0, <4>1, <3>1
        <5> QED BY <5>1, <1>2 DEF Told
      <4>2. CASE o = k
        <5>1. counter'[o][id] > 0 <=> Obeyed(fr, id, counter[o][id] > 0)
          <6>1. CASE id = u
            BY <4>0, <4>2, <6>1, <2>2 DEF Obeyed, Pauses, Resumes
          <6>2. CASE id # u
            BY <4>0, <4>2, <6>2 DEF Obeyed, Pauses, Resumes
          <6> QED BY <6>1, <6>2
        <5>2. Wanted(o[1], o[2], id)' <=> Obeyed(fr, id, Wanted(o[1], o[2], id))
          BY <5>1, <1>2 DEF Obeyed
        <5>3. fr \in FrameOn(settings, o) /\ wire'[o] = Append(w[o], fr)
          BY <3>1, <4>2
        <5> HIDE DEF fr
        <5> QED BY <5>2, <5>3 DEF Told
      <4> QED BY <4>1, <4>2
    <3> QED BY <3>1, <3>2
  <2>3. CASE counter[k][u] # 1
    <3>1. wire' = w
      BY <1>4, <2>3 DEF Lowered
    <3>2. ASSUME NEW o \in Link, NEW id \in Ids(settings)
          PROVE  Told(FrameOn(settings, o), w[o], wire'[o], id, Wanted(o[1], o[2], id), Wanted(o[1], o[2], id)')
      <4>1. /\ counter[o][id] \in Nat /\ counter[k][u] \in Nat
            /\ counter'[o][id] = counter[o][id] + (IF o = k /\ id = u THEN -1 ELSE 0)
        BY <1>1, <2>1
      <4>2. counter'[o][id] > 0 <=> counter[o][id] > 0
        BY <4>1, <2>3, <1>4
      <4> QED BY <3>1, <4>2, <1>2 DEF Told
    <3> QED BY <3>1, <3>2
  <2> QED BY <2>2, <2>3
<1>5. CASE Unmoved(w)
  <2>1. \A o \in Link : \A id \in Ids(settings) : Wanted(o[1], o[2], id)' <=> Wanted(o[1], o[2], id)
    BY <1>2, <1>5 DEF Unmoved
  <2> QED BY <1>5, <2>1 DEF Unmoved, Told
<1> QED BY <1>3, <1>4, <1>5

LEMMA SameStopsTrans ==
  ASSUME NEW a, NEW b, NEW c, SameStops(a, b), SameStops(b, c)
  PROVE  SameStops(a, c)
  BY DEF SameStops

\* A packet in one more place, with the counters as their frames say.
LEMMA StoredKeeps ==
  ASSUME NEW w, Before(w), NEW l \in Link, NEW q \in MayHold(settings, port[l]), NEW d \in PacketAt(settings, l[1]),
         NEW mp, IsPort(settings, l[1], mp), SameStops(port[l], mp), mp.queues = port[l].queues,
         q \in MayHold(settings, mp),
         port' = [port EXCEPT ![l] = Enqueue(mp, q, d)]
  PROVE  /\ PortsOK(settings, port') /\ StopsSame
         /\ Bfc => /\ OnlyQueue(port, port', l, q) /\ q \in DataQ
                   /\ port'[l].queues[q] = Append(port[l].queues[q], d)
<1> DEFINE pt == Enqueue(mp, q, d)
<1>1. PortsOK(settings, port) /\ NicsOK(nic) /\ settings' = settings /\ nic' = nic
  BY DEF Before, Typed, SwitchesTyped
<1>2. /\ IsPort(settings, l[1], pt) /\ SameStops(mp, pt) /\ pt.queues[q] = Append(mp.queues[q], d)
      /\ \A k \in DOMAIN mp.queues \ {q} : pt.queues[k] = mp.queues[k]
  BY EnqueueOK
<1> HIDE DEF pt
<1>3. /\ PortsOK(settings, port') /\ port'[l] = pt
      /\ \A o \in Link : o # l => port'[o] = port[o]
  BY <1>1, <1>2, PortReplaced DEF pt
<1>4. SameStops(port[l], pt)
  BY <1>2, SameStopsTrans
<1>5. StopsSame
  <2>1. \A o \in Link : SameStops(port[o], port'[o])
    BY <1>3, <1>4 DEF SameStops
  <2> QED BY <2>1, <1>1, StopsKept
<1>6. ASSUME Bfc
      PROVE  /\ OnlyQueue(port, port', l, q) /\ q \in DataQ
             /\ port'[l].queues[q] = Append(port[l].queues[q], d)
  <2>1. q \in DataQ
    BY <1>6 DEF MayHold, Bfc, UnderBfc
  <2>2. ASSUME NEW o \in Link, NEW j \in DataQ, ~ (o = l /\ j = q)
        PROVE  port'[o].queues[j] = port[o].queues[j]
    <3>1. CASE o # l
      BY <1>3, <3>1
    <3>2. CASE o = l
      <4>1. j \in DOMAIN port[l].queues
        BY <1>1, DataQueues
      <4>2. j \in DOMAIN mp.queues \ {q}
        BY <4>1, <2>2, <3>2
      <4> QED BY <4>2, <1>2, <1>3, <3>2
    <3> QED BY <3>1, <3>2
  <2> QED BY <2>1, <2>2, <1>2, <1>3 DEF OnlyQueue
<1> QED BY <1>3, <1>5, <1>6

\* SendToDev under BFC: a packet that finds its queue too long is one reason
\* more, and the first reason is sent.
LEMMA FlowStored ==
  ASSUME NEW w, Before(w), Bfc, NEW l \in Link, NEW p \in PacketAt(settings, l[1]),
         NEW m, Matched(settings, l[1], port[l], m), EnqueueFlow(l, p, m, w)
  PROVE  Kept(w)
<1> DEFINE long == CheckBFCPause(Enqueue(m.port, m.q, p), m.q)
           d == [p EXCEPT !.meta = long]
           k == <<l[1], p.in>>
           u == p.upq
           fid == Fid[p.flow]
<1>1. /\ settings' = settings /\ nic' = nic /\ PortsOK(settings, port) /\ TablesOK(flowtb)
      /\ NicsOK(nic) /\ Counted /\ SwitchesTyped /\ WiresOK(settings, w) /\ AgreedOver(w)
  BY DEF Before, Typed, SwitchesTyped
<1>2. long \in BOOLEAN
  BY DEF CheckBFCPause
<1>3. /\ port' = [port EXCEPT ![l] = Enqueue(m.port, m.q, d)]
      /\ flowtb' = [flowtb EXCEPT ![l] = [m.table EXCEPT ![fid].size = @ + 1]]
      /\ IF long THEN Raised(w, k, u) ELSE Unmoved(w)
  BY DEF EnqueueFlow, Raised, Unmoved
<1> HIDE DEF long
<1>4. /\ d \in PacketAt(settings, l[1]) /\ d.meta = long /\ d.in = p.in /\ d.upq = u
      /\ k \in Link /\ u \in UpQ(settings)
  BY <1>2, PacketFields
<1> HIDE DEF d, k, u, fid
<1>5. /\ IsPort(settings, l[1], m.port) /\ SameStops(port[l], m.port) /\ m.port.queues = port[l].queues
      /\ m.q \in MayHold(settings, m.port) /\ TableOK(m.table)
  BY DEF Matched
<1>6. m.q \in MayHold(settings, port[l])
  BY <1>5 DEF MayHold
<1>7. /\ PortsOK(settings, port') /\ StopsSame /\ OnlyQueue(port, port', l, m.q) /\ m.q \in DataQ
      /\ port'[l].queues[m.q] = Append(port[l].queues[m.q], d)
  <2> DEFINE mp == m.port
             q == m.q
  <2>1. /\ IsPort(settings, l[1], mp) /\ SameStops(port[l], mp) /\ mp.queues = port[l].queues
        /\ q \in MayHold(settings, mp) /\ q \in MayHold(settings, port[l])
        /\ port' = [port EXCEPT ![l] = Enqueue(mp, q, d)]
    BY <1>3, <1>5, <1>6
  <2> HIDE DEF mp, q
  <2>2. /\ PortsOK(settings, port') /\ StopsSame /\ OnlyQueue(port, port', l, q) /\ q \in DataQ
        /\ port'[l].queues[q] = Append(port[l].queues[q], d)
    BY <1>4, <2>1, StoredKeeps
  <2> QED BY <2>2 DEF mp, q
<1>8. TablesOK(flowtb)'
  <2>1. TableOK([m.table EXCEPT ![fid].size = @ + 1])
    <3> DEFINE tb == m.table
               x == tb[fid].size + 1
    <3>1. TableOK(tb) /\ (fid \in DOMAIN tb => x \in Int)
      BY <1>5, SizeInt
    <3> HIDE DEF tb, x
    <3>2. TableOK([tb EXCEPT ![fid].size = x])
      BY <3>1, SizeChanged
    <3> QED BY <3>2 DEF tb, x
  <2> QED BY <1>1, <1>3, <2>1, TableReplaced
<1>9. /\ counter \in [Link -> [UpQ(settings) -> Int]]
      /\ \A o \in Link : \A id \in UpQ(settings) : counter[o][id] \in Nat
  BY <1>1, CountersNat
<1>10. /\ counter' \in [Link -> [UpQ(settings) -> Int]]
       /\ \A o \in Link : \A id \in UpQ(settings) :
            counter'[o][id] = counter[o][id] + (IF long /\ o = k /\ id = u THEN 1 ELSE 0)
  <2>1. CASE long
    BY <1>3, <1>4, <1>9, <2>1, CounterStep DEF Raised
  <2>2. CASE ~ long
    BY <1>3, <1>9, <2>2 DEF Unmoved
  <2> QED BY <2>1, <2>2
<1>11. SwitchesTyped'
  BY <1>1, <1>7, <1>8, <1>10 DEF SwitchesTyped, CountersOK
<1>12. Counted'
  <2>1. ASSUME NEW o \in Link, NEW id \in UpQ(settings)
        PROVE  /\ IsFiniteSet(Reasons(o[1], o[2], id)')
               /\ counter'[o][id] = Cardinality(Reasons(o[1], o[2], id)')
    <3>1. /\ IsFiniteSet(ReasonsIn(port, o[1], o[2], id))
          /\ counter[o][id] = Cardinality(ReasonsIn(port, o[1], o[2], id))
      BY <1>1, ReasonsAre DEF Counted
    <3>2. /\ IsFiniteSet(ReasonsIn(port', o[1], o[2], id))
          /\ Cardinality(ReasonsIn(port', o[1], o[2], id))
               = Cardinality(ReasonsIn(port, o[1], o[2], id)) + (IF o[1] = l[1] /\ Carries(d, o[2], id) THEN 1 ELSE 0)
      <4> DEFINE ps == port
                 pn == port'
                 a == o[1]
                 b == o[2]
                 q == m.q
                 e == d
      <4>1. /\ PortsOK(settings, ps) /\ PortsOK(settings, pn) /\ q \in DataQ /\ OnlyQueue(ps, pn, l, q)
            /\ e \in PacketAt(settings, l[1]) /\ pn[l].queues[q] = Append(ps[l].queues[q], e)
            /\ IsFiniteSet(ReasonsIn(ps, a, b, id))
        BY <1>1, <1>4, <1>7, <3>1
      <4> HIDE DEF ps, pn, a, b, q, e
      <4>2. /\ IsFiniteSet(ReasonsIn(pn, a, b, id))
            /\ Cardinality(ReasonsIn(pn, a, b, id))
                 = Cardinality(ReasonsIn(ps, a, b, id)) + (IF a = l[1] /\ Carries(e, b, id) THEN 1 ELSE 0)
        BY <4>1, ReasonsMore
      <4> QED BY <4>2 DEF ps, pn, a, b, e
    <3>3. (o[1] = l[1] /\ Carries(d, o[2], id)) <=> long /\ o = k /\ id = u
      <4>1. o = <<o[1], o[2]>>
        BY LinkEnds
      <4> QED BY <4>1, <1>4 DEF Carries, k
    <3>4. counter'[o][id] = Cardinality(ReasonsIn(port', o[1], o[2], id))
      BY <1>10, <3>1, <3>2, <3>3
    <3> QED BY <3>2, <3>4, ReasonsAre
  <2>2. (Bfc' <=> Bfc) /\ UpQ(settings') = UpQ(settings)
    BY <1>1, SettingsSame
  <2> QED BY <2>1, <2>2 DEF Counted
<1>13. /\ WiresOK(settings, wire')
       /\ \A o \in Link : \A id \in Ids(settings) :
            Told(FrameOn(settings, o), w[o], wire'[o], id, Wanted(o[1], o[2], id), Wanted(o[1], o[2], id)')
  BY <1>1, <1>3, <1>4, <1>9, CounterTold
<1>14. AgreedOver(wire)'
  BY <1>1, <1>7, <1>13, AgreedStep
<1> QED BY <1>1, <1>11, <1>12, <1>13, <1>14 DEF Kept

-----------------------------------------------------------------------------
(* SwitchNotifyDequeue *)

\* The packet that DoDequeueRR takes leaves its queue, and no pause changes.
LEMMA TakenKeeps ==
  ASSUME NEW w, Before(w), NEW l \in Link, CanDequeue(port[l]),
         port' = [port EXCEPT ![l] = Dequeue(port[l])], NEW q, q = NextQ(port[l])
  PROVE  /\ PortsOK(settings, port') /\ StopsSame
         /\ Head(port[l].queues[q]) \in PacketAt(settings, l[1]) /\ q \in UpQ(settings)
         /\ Bfc => /\ OnlyQueue(port, port', l, q) /\ q \in DataQ
                   /\ port[l].queues[q] # <<>> /\ port'[l].queues[q] = Tail(port[l].queues[q])
<1> DEFINE mp == port[l]
           pt == Dequeue(mp)
<1>1. PortsOK(settings, port) /\ NicsOK(nic) /\ settings' = settings /\ nic' = nic
  BY DEF Before, Typed, SwitchesTyped
<1>2. IsPort(settings, l[1], mp) /\ CanDequeue(mp) /\ q = NextQ(mp) /\ port' = [port EXCEPT ![l] = pt]
  BY <1>1 DEF PortsOK
<1> HIDE DEF mp
<1>3. /\ IsPort(settings, l[1], pt) /\ SameStops(mp, pt)
      /\ q \in MayHold(settings, mp) /\ q \in Nat /\ q \in DOMAIN mp.queues
      /\ mp.queues[q] # <<>> /\ mp.queues[q] \in Seq(PacketAt(settings, l[1]))
      /\ pt.queues[q] = Tail(mp.queues[q])
      /\ \A k \in DOMAIN mp.queues \ {q} : pt.queues[k] = mp.queues[k]
  <2>1. Taken(settings, l[1], mp, Dequeue(mp), NextQ(mp))
    BY <1>2, DequeueOK
  <2>2. Taken(settings, l[1], mp, pt, q)
    BY <1>2, <2>1
  <2> HIDE DEF pt
  <2> QED BY <2>2 DEF Taken
<1> HIDE DEF pt
<1>4. /\ PortsOK(settings, port') /\ port'[l] = pt
      /\ \A o \in Link : o # l => port'[o] = port[o]
  BY <1>1, <1>2, <1>3, PortReplaced
<1>5. StopsSame
  <2>1. \A o \in Link : SameStops(port[o], port'[o])
    BY <1>3, <1>4 DEF SameStops, mp
  <2> QED BY <2>1, <1>1, StopsKept
<1>6. Head(mp.queues[q]) \in PacketAt(settings, l[1])
  <2> DEFINE a == mp.queues[q]
             T == PacketAt(settings, l[1])
  <2>1. a \in Seq(T) /\ a # <<>>
    BY <1>3
  <2> HIDE DEF a, T
  <2>2. Head(a) \in T
    BY <2>1
  <2> QED BY <2>2 DEF a, T
<1>7. q \in UpQ(settings)
  BY <1>3 DEF UpQ, MayHold
<1>8. ASSUME Bfc
      PROVE  /\ OnlyQueue(port, port', l, q) /\ q \in DataQ
             /\ port[l].queues[q] # <<>> /\ port'[l].queues[q] = Tail(port[l].queues[q])
  <2>1. q \in DataQ
    BY <1>3, <1>8 DEF MayHold, Bfc, UnderBfc
  <2>2. ASSUME NEW o \in Link, NEW j \in DataQ, ~ (o = l /\ j = q)
        PROVE  port'[o].queues[j] = port[o].queues[j]
    <3>1. CASE o # l
      BY <1>4, <3>1
    <3>2. CASE o = l
      <4>1. j \in DOMAIN port[l].queues
        BY <1>1, DataQueues
      <4>2. j \in DOMAIN mp.queues \ {q}
        BY <4>1, <2>2, <3>2 DEF mp
      <4> QED BY <4>2, <1>3, <1>4, <3>2 DEF mp
    <3> QED BY <3>1, <3>2
  <2> QED BY <2>1, <2>2, <1>3, <1>4 DEF OnlyQueue, mp
<1> QED BY <1>4, <1>5, <1>6, <1>7, <1>8 DEF mp

\* SwitchNotifyDequeue under BFC: a packet takes its reason with it, and the
\* last one to leave is the one that resumes.
LEMMA FlowSent ==
  ASSUME NEW w, Before(w), Bfc, NEW l \in Link, CanDequeue(port[l]),
         port' = [port EXCEPT ![l] = Dequeue(port[l])], NEW q, q = NextQ(port[l]),
         NEW p, p = Head(port[l].queues[q]), DequeueFlow(l, p, q, w)
  PROVE  Kept(w)
<1> DEFINE k == <<l[1], p.in>>
           u == p.upq
           fid == Fid[p.flow]
<1>1. /\ settings' = settings /\ nic' = nic /\ PortsOK(settings, port) /\ TablesOK(flowtb)
      /\ NicsOK(nic) /\ Counted /\ SwitchesTyped /\ WiresOK(settings, w) /\ AgreedOver(w)
  BY DEF Before, Typed, SwitchesTyped
<1>2. /\ PortsOK(settings, port') /\ StopsSame /\ p \in PacketAt(settings, l[1])
      /\ OnlyQueue(port, port', l, q) /\ q \in DataQ
      /\ port[l].queues[q] # <<>> /\ port'[l].queues[q] = Tail(port[l].queues[q])
  BY TakenKeeps
<1>3. p.meta \in BOOLEAN /\ k \in Link /\ u \in UpQ(settings)
  BY <1>2, PacketFields
<1>4. /\ flowtb' = [flowtb EXCEPT ![l] = [flowtb[l] EXCEPT ![fid].size = @ - 1]]
      /\ IF p.meta THEN Lowered(w, k, u) ELSE Unmoved(w)
  BY <1>3 DEF DequeueFlow, Lowered, Unmoved
<1> HIDE DEF k, u, fid
<1>5. TablesOK(flowtb)'
  <2> DEFINE tb == flowtb[l]
             x == tb[fid].size - 1
             tn == [tb EXCEPT ![fid].size = x]
  <2>1. TableOK(tb)
    BY <1>1 DEF TablesOK
  <2>2. fid \in DOMAIN tb => x \in Int
    BY <2>1, SizeInt
  <2>3. flowtb' = [flowtb EXCEPT ![l] = tn]
    BY <1>4
  <2> HIDE DEF tb, x
  <2>4. TableOK(tn)
    BY <2>1, <2>2, SizeChanged
  <2> HIDE DEF tn
  <2> QED BY <1>1, <2>3, <2>4, TableReplaced
<1>6. /\ counter \in [Link -> [UpQ(settings) -> Int]]
      /\ \A o \in Link : \A id \in UpQ(settings) : counter[o][id] \in Nat
  BY <1>1, CountersNat
<1>7. /\ counter' \in [Link -> [UpQ(settings) -> Int]]
      /\ \A o \in Link : \A id \in UpQ(settings) :
           counter'[o][id] = counter[o][id] - (IF p.meta /\ o = k /\ id = u THEN 1 ELSE 0)
  <2>1. CASE p.meta
    <3> DEFINE U == UpQ(settings)
    <3>1. u \in U /\ counter \in [Link -> [U -> Int]] /\ counter' = [counter EXCEPT ![k][u] = @ - 1]
      BY <1>3, <1>4, <1>6, <2>1 DEF Lowered
    <3> HIDE DEF U
    <3>2. /\ counter' \in [Link -> [U -> Int]]
          /\ \A o \in Link : \A id \in U : counter'[o][id] = counter[o][id] - (IF o = k /\ id = u THEN 1 ELSE 0)
      BY <1>3, <3>1
    <3> QED BY <2>1, <3>2 DEF U
  <2>2. CASE ~ p.meta
    BY <1>4, <1>6, <2>2 DEF Unmoved
  <2> QED BY <2>1, <2>2
<1>8. SwitchesTyped'
  BY <1>1, <1>2, <1>5, <1>7 DEF SwitchesTyped, CountersOK
<1>9. ASSUME NEW o \in Link, NEW id \in UpQ(settings)
      PROVE  /\ IsFiniteSet(Reasons(o[1], o[2], id)')
             /\ counter'[o][id] = Cardinality(Reasons(o[1], o[2], id)')
  <2>1. /\ IsFiniteSet(ReasonsIn(port, o[1], o[2], id))
        /\ counter[o][id] = Cardinality(ReasonsIn(port, o[1], o[2], id))
    BY <1>1, <1>9, ReasonsAre DEF Counted
  <2>2. /\ IsFiniteSet(ReasonsIn(port', o[1], o[2], id))
        /\ Cardinality(ReasonsIn(port', o[1], o[2], id))
             = Cardinality(ReasonsIn(port, o[1], o[2], id)) - (IF o[1] = l[1] /\ Carries(p, o[2], id) THEN 1 ELSE 0)
    <3> DEFINE ps == port
               pn == port'
               a == o[1]
               b == o[2]
    <3>1. /\ PortsOK(settings, ps) /\ PortsOK(settings, pn) /\ q \in DataQ /\ OnlyQueue(ps, pn, l, q)
          /\ ps[l].queues[q] # <<>> /\ pn[l].queues[q] = Tail(ps[l].queues[q])
          /\ p = Head(ps[l].queues[q]) /\ IsFiniteSet(ReasonsIn(ps, a, b, id))
      BY <1>1, <1>2, <2>1
    <3> HIDE DEF ps, pn, a, b
    <3>2. /\ IsFiniteSet(ReasonsIn(pn, a, b, id))
          /\ Cardinality(ReasonsIn(pn, a, b, id))
               = Cardinality(ReasonsIn(ps, a, b, id))
                   - (IF a = l[1] /\ Carries(Head(ps[l].queues[q]), b, id) THEN 1 ELSE 0)
      BY <3>1, ReasonsLess
    <3> QED BY <3>1, <3>2 DEF ps, pn, a, b
  <2>3. (o[1] = l[1] /\ Carries(p, o[2], id)) <=> p.meta /\ o = k /\ id = u
    <3>1. o = <<o[1], o[2]>>
      BY LinkEnds
    <3> QED BY <3>1, <1>3 DEF Carries, k, u
  <2>4. counter'[o][id] = Cardinality(ReasonsIn(port', o[1], o[2], id))
    BY <1>7, <2>1, <2>2, <2>3
  <2> QED BY <2>2, <2>4, ReasonsAre
<1>10. Counted'
  <2>1. (Bfc' <=> Bfc) /\ UpQ(settings') = UpQ(settings)
    BY <1>1, SettingsSame
  <2> QED BY <1>9, <2>1 DEF Counted
<1>11. p.meta => counter[k][u] >= 1
  <2>1. counter'[k][u] \in Nat
    BY <1>3, <1>9, FS_CardinalityType
  <2>2. counter[k][u] \in Nat /\ (p.meta => counter'[k][u] = counter[k][u] - 1)
    BY <1>3, <1>6, <1>7
  <2> QED BY <2>1, <2>2
<1>12. /\ WiresOK(settings, wire')
       /\ \A o \in Link : \A id \in Ids(settings) :
            Told(FrameOn(settings, o), w[o], wire'[o], id, Wanted(o[1], o[2], id), Wanted(o[1], o[2], id)')
  BY <1>1, <1>3, <1>4, <1>6, <1>11, CounterTold
<1>13. AgreedOver(wire)'
  BY <1>1, <1>2, <1>12, AgreedStep
<1> QED BY <1>1, <1>8, <1>10, <1>12, <1>13 DEF Kept

-----------------------------------------------------------------------------
(* The same two handlers under VOQ + destination PFC *)

LEMMA NoCounts ==
  ASSUME ~ Bfc, settings' = settings, SwitchesTyped, PortsOK(settings, port'), UNCHANGED <<flowtb, counter>>
  PROVE  SwitchesTyped' /\ Counted'
<1>1. ~ Bfc'
  BY SettingsSame
<1> QED BY <1>1 DEF Counted, SwitchesTyped

LEMMA WantedVOQ ==
  ASSUME ~ Bfc, settings' = settings, NEW s, NEW n, NEW id
  PROVE  /\ Wanted(s, n, id) <=> <<s, n, id>> \in paused
         /\ Wanted(s, n, id)' <=> <<s, n, id>> \in paused'
<1>1. ~ Bfc'
  BY SettingsSame
<1>2. Wanted(s, n, id) <=> <<s, n, id>> \in paused
  BY DEF Wanted
<1>3. Wanted(s, n, id)' <=> <<s, n, id>> \in paused'
  BY <1>1 DEF Wanted
<1> QED BY <1>2, <1>3

\* The first packet too many pauses its destination at the ingress.
LEMMA VOQStored ==
  ASSUME NEW w, Before(w), ~ Bfc, NEW l \in Link, NEW p \in PacketAt(settings, l[1]),
         NEW m, Matched(settings, l[1], port[l], m), EnqueueVOQ(l, p, m, w)
  PROVE  Kept(w)
<1> DEFINE d == Dst(p)
           k == <<l[1], p.in>>
           fr == [type |-> "pause", id |-> d]
<1>1. /\ settings' = settings /\ nic' = nic /\ PortsOK(settings, port)
      /\ NicsOK(nic) /\ SwitchesTyped /\ WiresOK(settings, w) /\ AgreedOver(w)
  BY DEF Before, Typed, SwitchesTyped
<1>2. /\ port' = [port EXCEPT ![l] = Enqueue(m.port, m.q, p)] /\ UNCHANGED <<flowtb, counter>>
      /\ \/ paused' = paused \cup {<<l[1], p.in, d>>} /\ wire' = SendPfc(w, l[1], p.in, "pause", d)
         \/ paused' = paused /\ wire' = w
  BY DEF EnqueueVOQ
<1>3. k \in Link /\ d \in Host /\ Ids(settings) = Host
  BY <1>1, PacketFields, SettingsSame DEF Ids
<1>4. PortsOK(settings, port') /\ StopsSame
  <2> DEFINE mp == m.port
             q == m.q
  <2>1. /\ IsPort(settings, l[1], mp) /\ SameStops(port[l], mp) /\ mp.queues = port[l].queues
        /\ q \in MayHold(settings, mp)
    BY DEF Matched
  <2>2. q \in MayHold(settings, port[l]) /\ port' = [port EXCEPT ![l] = Enqueue(mp, q, p)]
    BY <1>2, <2>1 DEF MayHold
  <2> HIDE DEF mp, q
  <2> QED BY <2>1, <2>2, StoredKeeps
<1>5. SwitchesTyped' /\ Counted'
  BY <1>1, <1>2, <1>4, NoCounts
<1> HIDE DEF d
<1>6. CASE paused' = paused \cup {<<l[1], p.in, d>>} /\ wire' = SendPfc(w, l[1], p.in, "pause", d)
  <2>1. k[1] = l[1] /\ k[2] = p.in /\ d \in Ids(settings) /\ "pause" \in {"pause", "resume"}
    BY <1>3
  <2>2. wire' = SendPfc(w, k[1], k[2], "pause", d)
    BY <1>6, <2>1
  <2> HIDE DEF k
  <2>3. OneMore(w, wire', k, fr)
    BY <1>1, <1>3, <2>1, <2>2, SendPfcOK
  <2>4. ASSUME NEW o \in Link, NEW id \in Ids(settings)
        PROVE  Told(FrameOn(settings, o), w[o], wire'[o], id, Wanted(o[1], o[2], id), Wanted(o[1], o[2], id)')
    <3>1. /\ Wanted(o[1], o[2], id) <=> <<o[1], o[2], id>> \in paused
          /\ Wanted(o[1], o[2], id)' <=> <<o[1], o[2], id>> \in paused'
      BY <1>1, WantedVOQ
    <3>2. o = <<o[1], o[2]>> /\ k = <<k[1], k[2]>>
      BY <1>3, LinkEnds
    <3>3. CASE o # k
      <4>1. wire'[o] = w[o]
        BY <2>3, <3>3 DEF OneMore
      <4>2. <<o[1], o[2], id>> # <<l[1], p.in, d>>
        BY <2>1, <3>2, <3>3
      <4> QED BY <3>1, <4>1, <4>2, <1>6 DEF Told
    <3>4. CASE o = k
      <4>1. fr \in FrameOn(settings, o) /\ wire'[o] = Append(w[o], fr)
        BY <2>3, <3>4 DEF OneMore
      <4>2. <<o[1], o[2], id>> \in paused' <=> id = d \/ <<o[1], o[2], id>> \in paused
        BY <1>6, <2>1, <3>4
      <4>3. Wanted(o[1], o[2], id)' <=> Obeyed(fr, id, Wanted(o[1], o[2], id))
        BY <3>1, <4>2 DEF Obeyed, Pauses, Resumes
      <4> HIDE DEF fr
      <4> QED BY <4>1, <4>3 DEF Told
    <3> QED BY <3>3, <3>4
  <2>5. AgreedOver(wire)'
    BY <1>1, <1>4, <2>4, AgreedStep
  <2> QED BY <1>1, <1>5, <2>3, <2>5 DEF Kept, OneMore
<1>7. CASE paused' = paused /\ wire' = w
  <2>1. ASSUME NEW o \in Link, NEW id \in Ids(settings)
        PROVE  Told(FrameOn(settings, o), w[o], wire'[o], id, Wanted(o[1], o[2], id), Wanted(o[1], o[2], id)')
    <3>1. Wanted(o[1], o[2], id)' <=> Wanted(o[1], o[2], id)
      BY <1>1, <1>7, WantedVOQ
    <3> QED BY <3>1, <1>7 DEF Told
  <2>2. AgreedOver(wire)'
    BY <1>1, <1>4, <2>1, AgreedStep
  <2> QED BY <1>1, <1>5, <1>7, <2>2 DEF Kept
<1> QED BY <1>2, <1>6, <1>7

\* A packet that leaves little behind resumes every ingress that was paused.
LEMMA VOQSent ==
  ASSUME NEW w, Before(w), ~ Bfc, NEW l \in Link, CanDequeue(port[l]),
         port' = [port EXCEPT ![l] = Dequeue(port[l])], NEW q, q = NextQ(port[l]),
         NEW p, p = Head(port[l].queues[q]), NEW pt, DequeueVOQ(l, p, q, w, pt)
  PROVE  Kept(w)
<1> DEFINE d == Dst(p)
           s == l[1]
           held == IF CheckVOQResume(l, pt, q, d) THEN {n \in Switch \cup Host : <<s, n, d>> \in paused} ELSE {}
           fr == [type |-> "resume", id |-> d]
<1>1. /\ settings' = settings /\ nic' = nic /\ PortsOK(settings, port)
      /\ NicsOK(nic) /\ SwitchesTyped /\ WiresOK(settings, w) /\ AgreedOver(w)
  BY DEF Before, Typed, SwitchesTyped
<1>2. PortsOK(settings, port') /\ StopsSame /\ p \in PacketAt(settings, l[1])
  BY TakenKeeps
<1>3. d \in Host /\ Ids(settings) = Host
  BY <1>1, <1>2, PacketFields, SettingsSame DEF Ids
<1>4. /\ paused' = paused \ {<<s, n, d>> : n \in held} /\ UNCHANGED <<flowtb, counter>>
      /\ wire' = [k \in Link |-> IF k[1] = s /\ k[2] \in held THEN Append(w[k], fr) ELSE w[k]]
  BY DEF DequeueVOQ
<1>5. SwitchesTyped' /\ Counted'
  BY <1>1, <1>2, <1>4, NoCounts
<1>6. \A o \in Link : fr \in FrameOn(settings, o)
  <2> DEFINE D == Ids(settings)
  <2>1. d \in D
    BY <1>3
  <2> HIDE DEF D, d
  <2>2. fr \in [type : {"pause", "resume"}, id : D]
    BY <2>1
  <2> QED BY <2>2 DEF FrameOn, D
<1> HIDE DEF d, s, held
<1>7. ASSUME NEW o \in Link
      PROVE  /\ wire'[o] \in Seq(FrameOn(settings, o))
             /\ \A id \in Ids(settings) :
                  Told(FrameOn(settings, o), w[o], wire'[o], id, Wanted(o[1], o[2], id), Wanted(o[1], o[2], id)')
  <2>1. \A id \in Ids(settings) : /\ Wanted(o[1], o[2], id) <=> <<o[1], o[2], id>> \in paused
                                  /\ Wanted(o[1], o[2], id)' <=> <<o[1], o[2], id>> \in paused'
    BY <1>1, WantedVOQ
  <2>2. \A id : <<o[1], o[2], id>> \in paused' <=>
                  <<o[1], o[2], id>> \in paused /\ ~ (o[1] = s /\ o[2] \in held /\ id = d)
    BY <1>4
  <2>3. w[o] \in Seq(FrameOn(settings, o)) /\ fr \in FrameOn(settings, o)
    BY <1>1, <1>6 DEF WiresOK
  <2>4. CASE o[1] = s /\ o[2] \in held
    <3>1. wire'[o] = Append(w[o], fr)
      BY <1>4, <2>4
    <3>2. wire'[o] \in Seq(FrameOn(settings, o))
      <4> DEFINE T == FrameOn(settings, o)
                 a == w[o]
                 x == fr
      <4>1. a \in Seq(T) /\ x \in T /\ wire'[o] = Append(a, x)
        BY <2>3, <3>1
      <4> HIDE DEF T, a, x
      <4>2. wire'[o] \in Seq(T)
        BY <4>1
      <4> QED BY <4>2 DEF T
    <3>3. ASSUME NEW id \in Ids(settings)
          PROVE  Told(FrameOn(settings, o), w[o], wire'[o], id, Wanted(o[1], o[2], id), Wanted(o[1], o[2], id)')
      <4>1. Wanted(o[1], o[2], id)' <=> Obeyed(fr, id, Wanted(o[1], o[2], id))
        BY <2>1, <2>2, <2>4 DEF Obeyed, Pauses, Resumes
      <4> HIDE DEF fr
      <4> QED BY <2>3, <3>1, <4>1 DEF Told
    <3> QED BY <3>2, <3>3
  <2>5. CASE ~ (o[1] = s /\ o[2] \in held)
    <3>1. wire'[o] = w[o]
      BY <1>4, <2>5
    <3>2. \A id \in Ids(settings) : Wanted(o[1], o[2], id)' <=> Wanted(o[1], o[2], id)
      BY <2>1, <2>2, <2>5
    <3> QED BY <2>3, <3>1, <3>2 DEF Told
  <2> QED BY <2>4, <2>5
<1>8. WiresOK(settings, wire')
  <2>1. wire' = [o \in Link |-> wire'[o]]
    BY <1>4
  <2> QED BY <1>7, <2>1 DEF WiresOK
<1>9. AgreedOver(wire)'
  BY <1>1, <1>2, <1>7, AgreedStep
<1> QED BY <1>1, <1>5, <1>8, <1>9 DEF Kept

-----------------------------------------------------------------------------
(* The handlers *)

LEMMA SendKeeps ==
  ASSUME NEW w, Before(w), NEW s \in Switch, NEW p \in PacketAt(settings, s), SendToDev(s, p, w)
  PROVE  Kept(w)
<1> DEFINE l == <<s, NextHop[s][Dst(p)]>>
<1>1. p.flow \in Flow /\ Dst(p) \in Host
  BY PacketFields
<1>2. l \in Link /\ l[1] = s
  BY <1>1, LinkEnds
<1>3. PICK m \in MatchQ(l, p) :
        \/ IF Bfc THEN EnqueueFlow(l, p, m, w) ELSE EnqueueVOQ(l, p, m, w)
        \/ /\ port' = [port EXCEPT ![l] = m.port] /\ flowtb' = [flowtb EXCEPT ![l] = m.table]
           /\ wire' = w /\ UNCHANGED <<counter, paused>>
  BY DEF SendToDev
<1> HIDE DEF l
<1>4. IsPort(settings, l[1], port[l]) /\ TableOK(flowtb[l])
  BY <1>2 DEF Before, Typed, SwitchesTyped, PortsOK, TablesOK
<1>5. Matched(settings, l[1], port[l], m)
  BY <1>1, <1>2, <1>4, MatchQOK
<1>6. p \in PacketAt(settings, l[1])
  BY <1>2
<1> QED BY <1>2, <1>3, <1>5, <1>6, FlowStored, VOQStored, LossKeeps

\* A data frame says nothing about pauses.
LEMMA DataSent ==
  ASSUME PortsOK(settings, port), NicsOK(nic), WiresOK(settings, wire), AgreedOver(wire),
         NEW l \in Link, NEW fr \in FrameOn(settings, l), fr.type = "data"
  PROVE  /\ WiresOK(settings, [wire EXCEPT ![l] = Append(@, fr)])
         /\ AgreedOver([wire EXCEPT ![l] = Append(@, fr)])
<1> DEFINE w == [wire EXCEPT ![l] = Append(@, fr)]
<1>1. wire = [o \in Link |-> wire[o]] /\ \A o \in Link : wire[o] \in Seq(FrameOn(settings, o))
  BY DEF WiresOK
<1>2. w = [o \in Link |-> w[o]] /\ w[l] = Append(wire[l], fr) /\ \A o \in Link : o # l => w[o] = wire[o]
  BY <1>1
<1> HIDE DEF w
<1>3. w[l] \in Seq(FrameOn(settings, l))
  <2> DEFINE T == FrameOn(settings, l)
             a == wire[l]
  <2>1. a \in Seq(T) /\ fr \in T
    BY <1>1
  <2> HIDE DEF T, a
  <2>2. Append(a, fr) \in Seq(T)
    BY <2>1
  <2> QED BY <1>2, <2>2 DEF T, a
<1>4. WiresOK(settings, w)
  BY <1>1, <1>2, <1>3 DEF WiresOK
<1>5. ASSUME NEW id
      PROVE  PausedAfter(w[l], id, Stopped(l[2], l[1], id)) <=> PausedAfter(wire[l], id, Stopped(l[2], l[1], id))
  <2> DEFINE T == FrameOn(settings, l)
             a == wire[l]
             b == Stopped(l[2], l[1], id)
  <2>1. a \in Seq(T) /\ fr \in T /\ b \in BOOLEAN
    BY <1>1, StoppedType
  <2> HIDE DEF T, a, b
  <2>2. PausedAfter(Append(a, fr), id, b) <=> Obeyed(fr, id, PausedAfter(a, id, b))
    BY <2>1, PausedAppend
  <2>3. PausedAfter(Append(a, fr), id, b) <=> PausedAfter(a, id, b)
    BY <2>2 DEF Obeyed, Pauses, Resumes
  <2> QED BY <1>2, <2>3 DEF a, b
<1>6. AgreedOver(w)
  BY <1>2, <1>5 DEF AgreedOver
<1> QED BY <1>4, <1>6 DEF w

\* What the first frame leaves to the others.
LEMMA WireTail ==
  ASSUME WiresOK(settings, wire), NEW l \in Link, wire[l] # <<>>
  PROVE  /\ WiresOK(settings, [wire EXCEPT ![l] = Tail(@)]) /\ Head(wire[l]) \in FrameOn(settings, l)
         /\ [wire EXCEPT ![l] = Tail(@)][l] = Tail(wire[l])
         /\ \A o \in Link : o # l => [wire EXCEPT ![l] = Tail(@)][o] = wire[o]
<1> DEFINE w == [wire EXCEPT ![l] = Tail(@)]
<1>1. wire = [o \in Link |-> wire[o]] /\ \A o \in Link : wire[o] \in Seq(FrameOn(settings, o))
  BY DEF WiresOK
<1>2. w = [o \in Link |-> w[o]] /\ w[l] = Tail(wire[l]) /\ \A o \in Link : o # l => w[o] = wire[o]
  BY <1>1
<1> HIDE DEF w
<1>3. w[l] \in Seq(FrameOn(settings, l)) /\ Head(wire[l]) \in FrameOn(settings, l)
  <2> DEFINE T == FrameOn(settings, l)
             a == wire[l]
  <2>1. a \in Seq(T) /\ a # <<>>
    BY <1>1
  <2> HIDE DEF T, a
  <2>2. Tail(a) \in Seq(T) /\ Head(a) \in T
    BY <2>1
  <2> QED BY <1>2, <2>2 DEF T, a
<1>4. WiresOK(settings, w)
  BY <1>1, <1>2, <1>3 DEF WiresOK
<1> QED BY <1>2, <1>3, <1>4 DEF w

LEMMA TailObeyed ==
  ASSUME PortsOK(settings, port), NicsOK(nic), WiresOK(settings, wire), NEW l \in Link, wire[l] # <<>>, NEW id
  PROVE  PausedAfter(wire[l], id, Stopped(l[2], l[1], id))
           <=> PausedAfter(Tail(wire[l]), id, Obeyed(Head(wire[l]), id, Stopped(l[2], l[1], id)))
<1> DEFINE T == FrameOn(settings, l)
           a == wire[l]
           b == Stopped(l[2], l[1], id)
<1>1. a \in Seq(T) /\ a # <<>> /\ b \in BOOLEAN
  BY StoppedType DEF WiresOK
<1> HIDE DEF T, a, b
<1>2. PausedAfter(a, id, b) <=> PausedAfter(Tail(a), id, Obeyed(Head(a), id, b))
  BY <1>1, PausedTail
<1> QED BY <1>2 DEF a, b

LEMMA DataTaken ==
  ASSUME PortsOK(settings, port), NicsOK(nic), WiresOK(settings, wire), AgreedOver(wire),
         NEW l \in Link, wire[l] # <<>>, Head(wire[l]).type = "data"
  PROVE  AgreedOver([wire EXCEPT ![l] = Tail(@)])
<1> DEFINE w == [wire EXCEPT ![l] = Tail(@)]
<1>1. w[l] = Tail(wire[l]) /\ \A o \in Link : o # l => w[o] = wire[o]
  BY WireTail
<1> HIDE DEF w
<1>2. ASSUME NEW id
      PROVE  PausedAfter(w[l], id, Stopped(l[2], l[1], id)) <=> PausedAfter(wire[l], id, Stopped(l[2], l[1], id))
  <2> DEFINE fr == Head(wire[l])
             b == Stopped(l[2], l[1], id)
             a == Tail(wire[l])
  <2>1. (PausedAfter(wire[l], id, b) <=> PausedAfter(a, id, Obeyed(fr, id, b))) /\ fr.type = "data"
    BY TailObeyed
  <2> HIDE DEF fr, b, a
  <2>2. Obeyed(fr, id, b) <=> b
    BY <2>1 DEF Obeyed, Pauses, Resumes
  <2>3. PausedAfter(a, id, Obeyed(fr, id, b)) <=> PausedAfter(a, id, b)
    BY <2>2 DEF PausedAfter
  <2> QED BY <2>1, <2>3, <1>1 DEF a, b
<1>3. AgreedOver(w)
  BY <1>1, <1>2 DEF AgreedOver
<1> QED BY <1>3 DEF w

LEMMA KeptInv ==
  ASSUME QInv, NEW w, Kept(w), settings' = settings, nic' = nic, sent' \in [Flow -> Nat]
  PROVE  QInv'
<1>1. settings' \in Configuration /\ NicsOK(nic')
  BY DEF QInv, Typed
<1> QED BY <1>1 DEF QInv, Typed, Kept

LEMMA SettingsTyped ==
  ASSUME settings \in Configuration
  PROVE  /\ settings.hostQ \in [Flow -> Nat] /\ settings.flow_sch_th \in Nat /\ settings.total \in [Flow -> Nat]
         /\ \A f \in Flow : settings.hostQ[f] \in UpQ(settings)
<1>1. settings.hostQ \in [Flow -> Nat] /\ settings.flow_sch_th \in Nat /\ settings.total \in [Flow -> Nat]
  BY QueuePfcParameters
<1>2. \A f \in Flow : settings.hostQ[f] \in Range(settings.hostQ)
  BY <1>1 DEF Range
<1> QED BY <1>1, <1>2 DEF UpQ

\* A host hands a packet to its ToR.
LEMMA HostSendKeeps ==
  ASSUME QInv, NEW f \in Flow, HostSend(f)
  PROVE  QInv'
<1> DEFINE h == FlowSrc[f]
           s == ToR(h)
           i == sent[f] + 1
           sch == sent[f] >= SchTh
           q == HostQ[f]
           p == [flow |-> f, num |-> i, sch |-> sch, in |-> h, upq |-> q, meta |-> FALSE]
           N == {n \in Switch \cup Host : <<s, n>> \in Link}
           U == UpQ(settings)
<1>1. /\ SendToDev(s, p, wire) /\ settings' = settings /\ nic' = nic /\ sent' = [sent EXCEPT ![f] = @ + 1]
  BY DEF HostSend, ToR
<1>2. h \in Host
  BY QueuePfcParameters
<1>3. s \in Switch /\ <<s, h>> \in Link
  BY <1>2, HostLink
<1>4. settings \in Configuration /\ sent \in [Flow -> Nat]
  BY DEF QInv, Typed
<1>5. q \in U /\ i \in Nat /\ sch \in BOOLEAN /\ h \in N
  BY <1>2, <1>3, <1>4, SettingsTyped DEF HostQ
<1>6. p \in PacketAt(settings, s)
  <2> HIDE DEF h, i, sch, q, N, U
  <2>1. p \in [flow : Flow, num : Nat, sch : BOOLEAN, in : N, upq : U, meta : BOOLEAN]
    BY <1>5
  <2> QED BY <2>1 DEF PacketAt, N, U
<1>7. Before(wire)
  BY <1>1 DEF Before, QInv
<1> HIDE DEF p, s
<1>8. Kept(wire)
  BY <1>1, <1>3, <1>6, <1>7, SendKeeps
<1>9. sent' \in [Flow -> Nat]
  BY <1>1, <1>4
<1> QED BY <1>1, <1>8, <1>9, KeptInv

\* A packet leaves a switch, and with it the reason it carried.
LEMMA TransmitKeeps ==
  ASSUME QInv, NEW l \in Link, Transmit(l)
  PROVE  QInv'
<1> DEFINE q == NextQ(port[l])
           p == Head(port[l].queues[q])
           r == [p EXCEPT !.in = l[1], !.upq = q, !.meta = FALSE]
           fr == [type |-> "data", p |-> r]
           w == IF IsLastHop(l) THEN wire ELSE [wire EXCEPT ![l] = Append(@, fr)]
           pt == Dequeue(port[l])
<1>1. /\ CanDequeue(port[l]) /\ port' = [port EXCEPT ![l] = Dequeue(port[l])]
      /\ IF Bfc THEN DequeueFlow(l, p, q, w) ELSE DequeueVOQ(l, p, q, w, pt)
      /\ settings' = settings /\ nic' = nic /\ sent' = sent
  BY DEF Transmit
<1>2. Before(wire) /\ sent \in [Flow -> Nat]
  BY <1>1 DEF Before, QInv, Typed
<1>3. /\ PortsOK(settings, port) /\ NicsOK(nic) /\ WiresOK(settings, wire) /\ AgreedOver(wire)
  BY DEF QInv, Typed, SwitchesTyped
<1> HIDE DEF q
<1>4. q = NextQ(port[l])
  BY DEF q
<1>5. p \in PacketAt(settings, l[1]) /\ q \in UpQ(settings)
  BY <1>1, <1>2, <1>4, TakenKeeps
<1> HIDE DEF p, pt
<1>6. ~ IsLastHop(l) => fr \in FrameOn(settings, l)
  <2> SUFFICES ASSUME ~ IsLastHop(l) PROVE fr \in FrameOn(settings, l)
    OBVIOUS
  <2> DEFINE N == {n \in Switch \cup Host : <<l[1], n>> \in Link}
             K == {n \in Switch \cup Host : <<l[2], n>> \in Link}
             U == UpQ(settings)
             a == l[1]
  <2>1. a \in K
    BY LinkEnds DEF IsLastHop
  <2>2. p \in [flow : Flow, num : Nat, sch : BOOLEAN, in : N, upq : U, meta : BOOLEAN]
    BY <1>5 DEF PacketAt
  <2>3. q \in U
    BY <1>5
  <2> HIDE DEF N, K, U, a
  <2>4. [p EXCEPT !.in = a, !.upq = q, !.meta = FALSE]
           \in [flow : Flow, num : Nat, sch : BOOLEAN, in : K, upq : U, meta : BOOLEAN]
    BY <2>1, <2>2, <2>3
  <2>5. r \in PacketAt(settings, l[2])
    BY <2>4 DEF PacketAt, K, U, a
  <2> HIDE DEF r
  <2>6. fr \in [type : {"data"}, p : PacketAt(settings, l[2])]
    <3> DEFINE T == PacketAt(settings, l[2])
    <3>1. r \in T
      BY <2>5
    <3> HIDE DEF T
    <3>2. fr \in [type : {"data"}, p : T]
      BY <3>1
    <3> QED BY <3>2 DEF T
  <2> QED BY <2>6 DEF FrameOn
<1>7. WiresOK(settings, w) /\ AgreedOver(w)
  <2>1. CASE IsLastHop(l)
    BY <1>3, <2>1
  <2>2. CASE ~ IsLastHop(l)
    <3>1. fr \in FrameOn(settings, l) /\ fr.type = "data"
      BY <1>6, <2>2
    <3> HIDE DEF fr
    <3> QED BY <1>3, <2>2, <3>1, DataSent
  <2> QED BY <2>1, <2>2
<1> HIDE DEF w
<1>8. Before(w)
  BY <1>2, <1>7 DEF Before
<1>9. p = Head(port[l].queues[q])
  BY DEF p
<1>10. Kept(w)
  BY <1>1, <1>4, <1>8, <1>9, FlowSent, VOQSent
<1> QED BY <1>1, <1>2, <1>10, KeptInv

\* A pause frame that arrives is taken off the link and obeyed.
Heard(l) ==
  \A id \in Ids(settings) :
    /\ \A o \in Link : o # l => (Stopped(o[2], o[1], id)' <=> Stopped(o[2], o[1], id))
    /\ ~ (Bfc /\ l[2] \in Host /\ id = AckQ) =>
         (Stopped(l[2], l[1], id)' <=> Obeyed(Head(wire[l]), id, Stopped(l[2], l[1], id)))

LEMMA AgreedReceive ==
  ASSUME PortsOK(settings, port), NicsOK(nic), WiresOK(settings, wire), AgreedOver(wire), settings' = settings,
         UNCHANGED <<counter, paused>>, NEW l \in Link, wire[l] # <<>>, wire' = [wire EXCEPT ![l] = Tail(@)], Heard(l)
  PROVE  AgreedOver(wire)'
<1>1. wire'[l] = Tail(wire[l]) /\ \A o \in Link : o # l => wire'[o] = wire[o]
  BY WireTail
<1>2. (Bfc' <=> Bfc) /\ Ids(settings') = Ids(settings)
  BY SettingsSame
<1>3. ASSUME NEW o \in Link, NEW id \in Ids(settings), ~ (Bfc /\ o[2] \in Host /\ id = AckQ)
      PROVE  Wanted(o[1], o[2], id)' <=> PausedAfter(wire'[o], id, Stopped(o[2], o[1], id)')
  <2> DEFINE want == Wanted(o[1], o[2], id)
             now == Wanted(o[1], o[2], id)'
             before == Stopped(o[2], o[1], id)
             after == Stopped(o[2], o[1], id)'
             a == wire[o]
             v == wire'[o]
  <2>1. now <=> want
    BY <1>2 DEF Wanted
  <2>2. want <=> PausedAfter(a, id, before)
    BY <1>3 DEF AgreedOver
  <2>3. CASE o # l
    <3>1. v = a /\ (after <=> before)
      BY <1>1, <2>3 DEF Heard
    <3> HIDE DEF want, now, before, after, a, v
    <3>2. PausedAfter(a, id, before) <=> PausedAfter(v, id, after)
      BY <3>1 DEF PausedAfter
    <3>3. now <=> PausedAfter(v, id, after)
      BY <2>1, <2>2, <3>2
    <3> QED BY <3>3 DEF now, v, after
  <2>4. CASE o = l
    <3> DEFINE fr == Head(wire[l])
    <3>1. v = Tail(a)
      BY <1>1, <2>4
    <3>2. after <=> Obeyed(fr, id, before)
      BY <1>3, <2>4 DEF Heard
    <3>3. PausedAfter(a, id, before) <=> PausedAfter(Tail(a), id, Obeyed(fr, id, before))
      BY <2>4, TailObeyed
    <3> HIDE DEF want, now, before, after, a, v, fr
    <3>4. PausedAfter(Tail(a), id, Obeyed(fr, id, before)) <=> PausedAfter(v, id, after)
      BY <3>1, <3>2 DEF PausedAfter
    <3>5. now <=> PausedAfter(v, id, after)
      BY <2>1, <2>2, <3>3, <3>4
    <3> QED BY <3>5 DEF now, v, after
  <2> QED BY <2>3, <2>4
<1> QED BY <1>2, <1>3 DEF AgreedOver

\* A NIC obeys: PAUSE_QP, PAUSE_QUEUE or PAUSE_DST.
LEMMA NicHears ==
  ASSUME NicsOK(nic), settings' = settings, NEW l \in Link, l[2] \in Host,
         NEW fr, fr = Head(wire[l]), fr.type = "pause" \/ fr.type = "resume", NicReceivePFC(l[2], fr), UNCHANGED port
  PROVE  NicsOK(nic') /\ Heard(l)
<1> DEFINE h == l[2]
           v == fr.type = "pause"
           nh == Put(nic[h], fr.id, v)
<1>1. Bfc' <=> Bfc
  BY SettingsSame
<1>2. v \in BOOLEAN /\ nic = [g \in Host |-> nic[g]] /\ nic[h] \in [DOMAIN nic[h] -> BOOLEAN]
  BY DEF NicsOK
<1>3. /\ nh \in [DOMAIN nh -> BOOLEAN] /\ DOMAIN nh = DOMAIN nic[h] \cup {fr.id}
      /\ \A k \in DOMAIN nh : nh[k] = IF k = fr.id THEN v ELSE nic[h][k]
  <2> DEFINE m == nic[h]
             d == fr.id
  <2>1. v \in BOOLEAN /\ m \in [DOMAIN m -> BOOLEAN]
    BY <1>2
  <2> HIDE DEF v, m, d
  <2> QED BY <2>1 DEF Put, m, d
<1>4. \A o \in Link : o[2] = h => o = l
  <2>1. ASSUME NEW o \in Link, o[2] = h PROVE o = l
    <3>1. o = <<o[1], o[2]>> /\ l = <<l[1], l[2]>> /\ o[1] = ToR(h) /\ l[1] = ToR(h)
      BY <2>1, LinkEnds, HostLink
    <3> QED BY <2>1, <3>1
  <2> QED BY <2>1
<1>5. CASE Bfc /\ fr.id = AckQ
  <2>1. nic' = nic
    BY <1>5 DEF NicReceivePFC
  <2>2. \A s, n, id : Stopped(n, s, id)' <=> Stopped(n, s, id)
    BY <1>1, <2>1 DEF Stopped
  <2>3. \A id : id # AckQ => (Obeyed(fr, id, Stopped(l[2], l[1], id)) <=> Stopped(l[2], l[1], id))
    BY <1>5 DEF Obeyed, Pauses, Resumes
  <2> QED BY <1>5, <2>1, <2>2, <2>3 DEF Heard, NicsOK
<1>6. CASE ~ (Bfc /\ fr.id = AckQ)
  <2>1. nic' = [nic EXCEPT ![h] = nh]
    BY <1>6 DEF NicReceivePFC
  <2> HIDE DEF nh
  <2>2. nic' = [g \in Host |-> nic'[g]] /\ nic'[h] = nh /\ \A g \in Host : g # h => nic'[g] = nic[g]
    BY <1>2, <2>1
  <2>3. NicsOK(nic')
    BY <1>3, <2>2 DEF NicsOK
  <2>4. ASSUME NEW id, NEW o \in Link, o # l PROVE Stopped(o[2], o[1], id)' <=> Stopped(o[2], o[1], id)
    <3>1. o[2] # h
      BY <1>4, <2>4
    <3>2. o[2] \in Host => nic'[o[2]] = nic[o[2]]
      BY <2>2, <3>1
    <3> QED BY <1>1, <3>2 DEF Stopped
  <2>5. ASSUME NEW id PROVE Stopped(l[2], l[1], id)' <=> Obeyed(fr, id, Stopped(l[2], l[1], id))
    <3>1. Stopped(l[2], l[1], id) <=> id \in DOMAIN nic[h] /\ nic[h][id]
      BY DEF Stopped
    <3>2. Stopped(l[2], l[1], id)' <=> id \in DOMAIN nh /\ nh[id]
      BY <2>2 DEF Stopped
    <3>3. (id \in DOMAIN nh /\ nh[id]) <=> IF id = fr.id THEN v ELSE id \in DOMAIN nic[h] /\ nic[h][id]
      BY <1>3
    <3> QED BY <3>1, <3>2, <3>3 DEF Obeyed, Pauses, Resumes
  <2> QED BY <2>3, <2>4, <2>5 DEF Heard
<1> QED BY <1>5, <1>6

\* A switch obeys: it pauses a flow queue, or the VOQ of a destination.
LEMMA SwitchHears ==
  ASSUME PortsOK(settings, port), settings' = settings, UNCHANGED nic, NEW l \in Link, l[2] \notin Host,
         NEW fr, fr = Head(wire[l]), fr.type = "pause" \/ fr.type = "resume", SwitchReceivePFC(<<l[2], l[1]>>, fr)
  PROVE  /\ PortsOK(settings, port') /\ Heard(l)
         /\ Bfc => \A o \in Link : \A k \in DataQ : port'[o].queues[k] = port[o].queues[k]
<1> DEFINE b == <<l[2], l[1]>>
           v == fr.type = "pause"
           po == port[b]
           pr == IF Bfc THEN po ELSE RegisterVOQ(po, fr.id)
           q == IF Bfc THEN fr.id ELSE pr.dstQ[fr.id]
           pn == Pause(pr, q, v)
<1>1. (Bfc' <=> Bfc) /\ (Bfc <=> UnderBfc(settings))
  BY SettingsSame
<1>2. b \in Link /\ b[1] = l[2] /\ v \in BOOLEAN
  BY LinkEnds
<1>3. port' = [port EXCEPT ![b] = pn]
  BY DEF SwitchReceivePFC
<1>4. IsPort(settings, b[1], po)
  BY <1>2 DEF PortsOK
<1>5. IsPort(settings, b[1], pr)
  BY <1>1, <1>4, RegisterOK
<1> HIDE DEF b, v, po
<1>6. /\ IsPort(settings, b[1], pn) /\ pn.queues = pr.queues /\ pn.dstQ = pr.dstQ
      /\ \A k : IsPaused(pn, k) <=> IF k = q THEN v ELSE IsPaused(pr, k)
  <2> HIDE DEF pr, q
  <2> QED BY <1>2, <1>5, PauseOK
<1> HIDE DEF pn
<1>7. PortsOK(settings, port') /\ port'[b] = pn /\ \A o \in Link : o # b => port'[o] = port[o]
  BY <1>2, <1>3, <1>6, PortReplaced
<1>8. ASSUME Bfc PROVE \A o \in Link : \A k \in DataQ : port'[o].queues[k] = port[o].queues[k]
  <2>1. pr = po
    BY <1>8
  <2> HIDE DEF pr
  <2> QED BY <1>6, <1>7, <2>1 DEF po
<1>9. ASSUME NEW id, NEW o \in Link, o # l PROVE Stopped(o[2], o[1], id)' <=> Stopped(o[2], o[1], id)
  <2>1. CASE o[2] \in Host
    BY <2>1 DEF Stopped
  <2>2. CASE o[2] \notin Host
    <3>1. <<o[2], o[1]>> \in Link
      BY <2>2, LinkEnds
    <3>2. <<o[2], o[1]>> # b
      <4>1. o = <<o[1], o[2]>> /\ l = <<l[1], l[2]>>
        BY LinkEnds
      <4> QED BY <4>1, <1>9 DEF b
    <3>3. port'[<<o[2], o[1]>>] = port[<<o[2], o[1]>>]
      BY <1>7, <3>1, <3>2
    <3> QED BY <1>1, <2>2, <3>3 DEF Stopped
  <2> QED BY <2>1, <2>2
<1>10. ASSUME NEW id PROVE Stopped(l[2], l[1], id)' <=> Obeyed(fr, id, Stopped(l[2], l[1], id))
  <2>1. Obeyed(fr, id, Stopped(l[2], l[1], id)) <=> IF id = fr.id THEN v ELSE Stopped(l[2], l[1], id)
    BY DEF Obeyed, Pauses, Resumes, v
  <2>2. CASE Bfc
    <3>1. pr = po /\ q = fr.id
      BY <2>2
    <3>2. Stopped(l[2], l[1], id) <=> IsPaused(po, id)
      BY <2>2 DEF Stopped, po, b
    <3>3. Stopped(l[2], l[1], id)' <=> IsPaused(pn, id)
      BY <1>1, <1>7, <2>2 DEF Stopped, b
    <3> HIDE DEF pr, q
    <3> QED BY <1>6, <2>1, <3>1, <3>2, <3>3
  <2>3. CASE ~ Bfc
    <3>1. Stopped(l[2], l[1], id) <=> id \in DOMAIN po.dstQ /\ IsPaused(po, po.dstQ[id])
      BY <2>3 DEF Stopped, po, b
    <3>2. Stopped(l[2], l[1], id)' <=> id \in DOMAIN pn.dstQ /\ IsPaused(pn, pn.dstQ[id])
      BY <1>1, <1>7, <2>3 DEF Stopped, b
    <3>3. pr = RegisterVOQ(po, fr.id) /\ q = pr.dstQ[fr.id]
      BY <2>3
    <3> HIDE DEF pr, q
    <3>4. /\ fr.id \in DOMAIN pr.dstQ /\ pr.paused = po.paused
          /\ \A e : e # fr.id => /\ e \in DOMAIN pr.dstQ <=> e \in DOMAIN po.dstQ
                                 /\ e \in DOMAIN po.dstQ => pr.dstQ[e] = po.dstQ[e]
          /\ \A e \in DOMAIN po.dstQ : e # fr.id => pr.dstQ[e] # pr.dstQ[fr.id]
      BY <1>1, <1>4, <2>3, <3>3, RegisterOK
    <3>5. \A k : IsPaused(pr, k) <=> IsPaused(po, k)
      BY <3>4 DEF IsPaused
    <3>6. CASE id = fr.id
      BY <1>6, <2>1, <3>2, <3>3, <3>4, <3>6
    <3>7. CASE id # fr.id
      <4>1. (id \in DOMAIN pn.dstQ <=> id \in DOMAIN po.dstQ)
            /\ (id \in DOMAIN po.dstQ => pn.dstQ[id] = po.dstQ[id] /\ pn.dstQ[id] # q)
        BY <1>6, <3>3, <3>4, <3>7
      <4> QED BY <1>6, <2>1, <3>1, <3>2, <3>5, <3>7, <4>1
    <3> QED BY <3>6, <3>7
  <2> QED BY <2>2, <2>3
<1> QED BY <1>7, <1>8, <1>9, <1>10 DEF Heard

LEMMA ReceiveKeeps ==
  ASSUME QInv, NEW l \in Link, Receive(l)
  PROVE  QInv'
<1> DEFINE fr == Head(wire[l])
           w == [wire EXCEPT ![l] = Tail(@)]
<1>1. /\ wire[l] # <<>> /\ settings' = settings /\ sent' = sent
      /\ \/ fr.type = "data" /\ SendToDev(l[2], fr.p, w) /\ nic' = nic
         \/ /\ fr.type # "data" /\ wire' = w /\ UNCHANGED <<flowtb, counter, paused>>
            /\ IF IsLastHop(l) THEN NicReceivePFC(l[2], fr) /\ UNCHANGED port
               ELSE SwitchReceivePFC(<<l[2], l[1]>>, fr) /\ UNCHANGED nic
  BY DEF Receive
<1>2. /\ PortsOK(settings, port) /\ NicsOK(nic) /\ WiresOK(settings, wire) /\ AgreedOver(wire)
      /\ Typed /\ SwitchesTyped /\ Counted /\ sent \in [Flow -> Nat]
  BY DEF QInv, Typed, SwitchesTyped
<1>3. WiresOK(settings, w) /\ fr \in FrameOn(settings, l)
  BY <1>1, <1>2, WireTail
<1>4. CASE fr.type = "data" /\ SendToDev(l[2], fr.p, w) /\ nic' = nic
  <2>1. fr.p \in PacketAt(settings, l[2])
    <3> DEFINE T == PacketAt(settings, l[2])
               I == Ids(settings)
    <3>1. fr \in [type : {"data"}, p : T] \cup [type : {"pause", "resume"}, id : I]
      BY <1>3 DEF FrameOn
    <3> HIDE DEF T, I, fr
    <3>2. fr.p \in T
      BY <3>1, <1>4
    <3> QED BY <3>2 DEF T
  <2>2. l[2] \in Switch
    <3>1. <<l[2], fr.p.in>> \in Link
      BY <2>1, PacketFields
    <3> QED BY <3>1, LinkEnds
  <2>3. AgreedOver(w)
    BY <1>1, <1>2, <1>4, DataTaken
  <2> HIDE DEF w, fr
  <2>4. Before(w)
    BY <1>1, <1>2, <1>3, <1>4, <2>3 DEF Before
  <2>5. Kept(w)
    BY <1>4, <2>1, <2>2, <2>4, SendKeeps
  <2> QED BY <1>1, <1>2, <1>4, <2>5, KeptInv
<1>5. CASE /\ fr.type # "data" /\ wire' = w /\ UNCHANGED <<flowtb, counter, paused>>
           /\ IF IsLastHop(l) THEN NicReceivePFC(l[2], fr) /\ UNCHANGED port
              ELSE SwitchReceivePFC(<<l[2], l[1]>>, fr) /\ UNCHANGED nic
  <2>1. fr.type = "pause" \/ fr.type = "resume"
    <3> DEFINE T == PacketAt(settings, l[2])
               I == Ids(settings)
    <3>1. fr \in [type : {"data"}, p : T] \cup [type : {"pause", "resume"}, id : I]
      BY <1>3 DEF FrameOn
    <3> HIDE DEF T, I, fr
    <3> QED BY <3>1, <1>5
  <2>2. /\ PortsOK(settings, port') /\ NicsOK(nic') /\ Heard(l)
        /\ Bfc => \A o \in Link : \A k \in DataQ : port'[o].queues[k] = port[o].queues[k]
    <3> DEFINE x == fr
    <3>0. /\ x = Head(wire[l]) /\ (x.type = "pause" \/ x.type = "resume")
          /\ IF IsLastHop(l) THEN NicReceivePFC(l[2], x) /\ UNCHANGED port
              ELSE SwitchReceivePFC(<<l[2], l[1]>>, x) /\ UNCHANGED nic
      BY <1>5, <2>1
    <3> HIDE DEF x
    <3>1. CASE IsLastHop(l)
      <4>1. l[2] \in Host /\ NicReceivePFC(l[2], x) /\ UNCHANGED port
        BY <3>0, <3>1 DEF IsLastHop
      <4>2. NicsOK(nic') /\ Heard(l)
        BY <1>1, <1>2, <3>0, <4>1, NicHears
      <4> QED BY <1>2, <4>1, <4>2
    <3>2. CASE ~ IsLastHop(l)
      <4>1. l[2] \notin Host /\ SwitchReceivePFC(<<l[2], l[1]>>, x) /\ UNCHANGED nic
        BY <3>0, <3>2 DEF IsLastHop
      <4>2. /\ PortsOK(settings, port') /\ Heard(l)
            /\ Bfc => \A o \in Link : \A k \in DataQ : port'[o].queues[k] = port[o].queues[k]
        BY <1>1, <1>2, <3>0, <4>1, SwitchHears
      <4> QED BY <1>2, <4>1, <4>2
    <3> QED BY <3>1, <3>2
  <2>3. SwitchesTyped'
    BY <1>1, <1>2, <1>5, <2>2 DEF SwitchesTyped
  <2>4. Counted'
    <3>1. CASE Bfc
      BY <1>1, <1>2, <1>5, <2>2, <3>1, CountedKept
    <3>2. CASE ~ Bfc
      <4>1. ~ Bfc'
        BY <1>1, <3>2, SettingsSame
      <4> QED BY <4>1 DEF Counted
    <3> QED BY <3>1, <3>2
  <2>5. AgreedOver(wire)'
    BY <1>1, <1>2, <1>5, <2>2, AgreedReceive
  <2>6. WiresOK(settings, wire')
    BY <1>3, <1>5
  <2>7. settings' \in Configuration
    BY <1>1 DEF QInv, Typed
  <2> QED BY <1>1, <1>2, <2>2, <2>3, <2>4, <2>5, <2>6, <2>7 DEF QInv, Typed
<1> QED BY <1>1, <1>4, <1>5

-----------------------------------------------------------------------------
(* The invariant holds *)

\* SetPriority is given queues that the port has.
LEMMA PrioritiesOK ==
  /\ Priorities \in Seq(Seq(0 .. QueueNum - 1)) /\ Priorities # <<>>
<1>1. QueueNum \in Nat /\ QueueNum > 2
  BY QueuePfcParameters
<1> DEFINE I == 0 .. QueueNum - 1
           a == <<0>>
           b == [k \in 1 .. QueueNum - 1 |-> k]
           c == <<1>>
           d == [k \in 1 .. QueueNum - 2 |-> k + 1]
<1>2. a \in Seq(I) /\ c \in Seq(I)
  <2>1. 0 \in I /\ 1 \in I
    BY <1>1
  <2> HIDE DEF I
  <2> QED BY <2>1
<1>3. b \in Seq(I)
  <2>1. QueueNum - 1 \in Nat /\ b \in [1 .. QueueNum - 1 -> I]
    BY <1>1
  <2> HIDE DEF b, I
  <2> QED BY <2>1
<1>4. d \in Seq(I)
  <2>1. QueueNum - 2 \in Nat /\ d \in [1 .. QueueNum - 2 -> I]
    BY <1>1
  <2> HIDE DEF d, I
  <2> QED BY <2>1
<1>5. Priorities = <<a, b>> \/ Priorities = <<a, c, d>>
  BY DEF Priorities, DataQ
<1> HIDE DEF a, b, c, d
<1>6. <<a, b>> \in Seq(Seq(I)) /\ <<a, c, d>> \in Seq(Seq(I)) /\ <<a, b>> # <<>> /\ <<a, c, d>> # <<>>
  <2> DEFINE S == Seq(I)
  <2>1. a \in S /\ b \in S /\ c \in S /\ d \in S
    BY <1>2, <1>3, <1>4
  <2> HIDE DEF S
  <2>2. <<a, b>> \in Seq(S) /\ <<a, c, d>> \in Seq(S)
    BY <2>1
  <2>3. Len(<<a, b>>) = 2 /\ Len(<<a, c, d>>) = 3 /\ Len(<<>>) = 0
    OBVIOUS
  <2>4. <<a, b>> # <<>> /\ <<a, c, d>> # <<>>
    BY <2>3
  <2> QED BY <2>2, <2>4 DEF S
<1> QED BY <1>5, <1>6

LEMMA Initially == Init => QInv
<1> SUFFICES ASSUME Init PROVE QInv
  OBVIOUS
<1>1. /\ settings \in Configuration
      /\ port = [l \in Link |-> NewPort(Priorities, Controlled, QueueNum)]
      /\ flowtb = [l \in Link |-> << >>]
      /\ counter = [l \in Link |-> [id \in UpstreamQ |-> 0]]
      /\ paused = {} /\ nic = [h \in Host |-> << >>] /\ wire = [l \in Link |-> << >>]
      /\ sent = [f \in Flow |-> 0]
  BY DEF Init
<1>2. Bfc <=> UnderBfc(settings)
  BY DEF Bfc, UnderBfc
<1> DEFINE np == NewPort(Priorities, Controlled, QueueNum)
<1>3. \A s : IsPort(settings, s, np)
  BY PrioritiesOK, NewPortOK
<1>4. np.queues = [id \in 0 .. QueueNum - 1 |-> <<>>] /\ np.paused = <<>> /\ np.dstQ = <<>>
  BY DEF NewPort
<1> HIDE DEF np
<1>5. port = [l \in Link |-> np]
  BY <1>1 DEF np
<1>6. PortsOK(settings, port)
  BY <1>3, <1>5 DEF PortsOK
<1>7. \A T : <<>> \in [DOMAIN <<>> -> T] /\ DOMAIN <<>> = {}
  OBVIOUS
<1>8. TablesOK(flowtb) /\ NicsOK(nic)
  BY <1>1, <1>7 DEF TablesOK, TableOK, NicsOK
<1>9. Bfc => counter = [l \in Link |-> [id \in UpQ(settings) |-> 0]]
  BY <1>1, <1>2 DEF UpstreamQ, UpQ, HostQ
<1>10. CountersOK(settings, counter)
  BY <1>2, <1>9 DEF CountersOK
<1>11. Typed
  BY <1>1, <1>6, <1>8, <1>10 DEF Typed, SwitchesTyped
<1>12. WiresOK(settings, wire)
  BY <1>1 DEF WiresOK
<1>13. ASSUME NEW s, NEW n, NEW id PROVE Reasons(s, n, id) = {}
  <2>1. \A l \in Link : \A k \in DataQ : port[l].queues[k] = <<>>
    <3>1. DataQ \subseteq 0 .. QueueNum - 1
      BY QueuePfcParameters DEF DataQ
    <3> QED BY <1>4, <1>5, <3>1
  <2>2. \A l \in Link : \A k \in DataQ : DOMAIN port[l].queues[k] = {}
    BY <2>1, <1>7
  <2> QED BY <2>2 DEF Reasons
<1>14. Counted
  <2>1. Bfc => \A l \in Link : \A id \in UpQ(settings) : counter[l][id] = 0
    BY <1>9
  <2> QED BY <1>13, <2>1, FS_EmptySet DEF Counted
<1>15. AgreedOver(wire)
  <2>1. ASSUME NEW l \in Link, NEW id \in Ids(settings)
        PROVE  Wanted(l[1], l[2], id) <=> PausedAfter(wire[l], id, Stopped(l[2], l[1], id))
    <3>1. ~ Wanted(l[1], l[2], id)
      <4>1. CASE Bfc
        <5>1. <<l[1], l[2]>> = l /\ id \in UpQ(settings)
          BY <1>2, <4>1, LinkEnds DEF Ids
        <5> QED BY <1>9, <4>1, <5>1 DEF Wanted
      <4>2. CASE ~ Bfc
        BY <1>1, <4>2 DEF Wanted
      <4> QED BY <4>1, <4>2
    <3>2. ~ Stopped(l[2], l[1], id)
      <4>1. CASE l[2] \in Host
        BY <1>1, <1>7, <4>1 DEF Stopped
      <4>2. CASE l[2] \notin Host
        <5>1. <<l[2], l[1]>> \in Link
          BY <4>2, LinkEnds
        <5>2. port[<<l[2], l[1]>>] = np
          BY <1>5, <5>1
        <5>3. DOMAIN np.paused = {} /\ DOMAIN np.dstQ = {}
          BY <1>4, <1>7
        <5> QED BY <4>2, <5>2, <5>3 DEF Stopped, IsPaused
      <4> QED BY <4>1, <4>2
    <3>3. wire[l] = <<>> /\ DOMAIN wire[l] = {}
      BY <1>1, <1>7
    <3> QED BY <3>1, <3>2, <3>3 DEF PausedAfter
  <2> QED BY <2>1 DEF AgreedOver
<1> QED BY <1>11, <1>12, <1>14, <1>15 DEF QInv

LEMMA StutterKeeps ==
  ASSUME QInv, UNCHANGED vars
  PROVE  QInv'
<1>1. /\ settings' = settings /\ port' = port /\ flowtb' = flowtb /\ counter' = counter /\ paused' = paused
      /\ nic' = nic /\ wire' = wire /\ sent' = sent
  BY DEF vars
<1>2. Typed'
  BY <1>1 DEF QInv, Typed, SwitchesTyped
<1>3. Counted'
  BY <1>1, CountedKept DEF QInv
<1>4. AgreedOver(wire)'
  <2>1. (Bfc' <=> Bfc) /\ Ids(settings') = Ids(settings)
    BY <1>1, SettingsSame
  <2>2. \A s, n, id : (Wanted(s, n, id)' <=> Wanted(s, n, id)) /\ (Stopped(n, s, id)' <=> Stopped(n, s, id))
    BY <1>1, <2>1 DEF Wanted, Stopped
  <2>3. \A l \in Link : \A id \in Ids(settings) :
          PausedAfter(wire'[l], id, Stopped(l[2], l[1], id)') <=> PausedAfter(wire[l], id, Stopped(l[2], l[1], id))
    BY <1>1, <2>2 DEF PausedAfter
  <2> QED BY <2>1, <2>2, <2>3 DEF QInv, AgreedOver
<1> QED BY <1>1, <1>2, <1>3, <1>4 DEF QInv

\* QInv holds in every state: ports, tables, counters, NICs and frames are well
\* formed, the counters are exact, and both ends of every link agree, after
\* every send, transmission and reception of a packet or a frame.
THEOREM Invariance == Spec => []QInv
<1>1. QInv /\ [Next]_vars => QInv'
  <2> SUFFICES ASSUME QInv, [Next]_vars PROVE QInv'
    OBVIOUS
  <2>1. CASE \E f \in Flow : HostSend(f)
    BY <2>1, HostSendKeeps
  <2>2. ASSUME NEW l \in Link, Transmit(l) PROVE QInv'
    BY <2>2, TransmitKeeps
  <2>3. ASSUME NEW l \in Link, Receive(l) PROVE QInv'
    BY <2>3, ReceiveKeeps
  <2>4. CASE UNCHANGED vars
    BY <2>4, StutterKeeps
  <2> QED BY <2>1, <2>2, <2>3, <2>4 DEF Next
<1> QED BY <1>1, Initially, PTL DEF Spec

LEMMA InvAgreement == QInv => PauseAgreement
<1> SUFFICES ASSUME QInv, NEW l \in Link, NEW id \in IF Bfc THEN UpstreamQ ELSE Host
             PROVE  /\ Bfc => counter[l][id] = Cardinality(Reasons(l[1], l[2], id))
                    /\ (Bfc /\ l[2] \in Host /\ id = AckQ) \/ Agreed(l[1], l[2], id)
  BY DEF PauseAgreement
<1>1. id \in Ids(settings) /\ (Bfc => id \in UpQ(settings))
  BY DEF Ids, UpQ, UpstreamQ, HostQ, Bfc, UnderBfc
<1>2. l = <<l[1], l[2]>>
  BY LinkEnds
<1>3. Counted /\ AgreedOver(wire)
  BY DEF QInv
<1> QED BY <1>1, <1>2, <1>3 DEF Counted, AgreedOver, Agreed

\* Whatever queue a flow is given next, whichever flows share an id and whatever
\* VOQ is registered meanwhile, a neighbour holds back (or will, once the frames
\* on the link have arrived) exactly what the switch wants held back, and under
\* BFC each pause has the packets in the switch that will end it: SendToDev,
\* SwitchNotifyDequeue and SwitchReceivePFC (switch-node.cc) count, send and
\* obey one pause.
THEOREM PausesAgree == Spec => []PauseAgreement
  BY Invariance, InvAgreement, PTL
=============================================================================
