------------------------------- MODULE CiProofs -------------------------------
(***************************************************************************)
(* Theorems about congestion isolation, for every fabric, set of flows and *)
(* settings: the records two ends of a link keep of each other agree, and  *)
(* the counters, queues and pauses of a switch fit together.  The          *)
(* invariant says of every switch that it is sane (CiHandlerProofs), given *)
(* what the signals on its links will make of the devices at their ends.   *)
(* The second part is about the order of the packets.                      *)
(***************************************************************************)
EXTENDS CiHandlerProofs

-----------------------------------------------------------------------------
(* Signals on a link *)

\* What two parts of a link make of a device, they make one after the other.
LEMMA PausedConcat ==
  ASSUME NEW T, NEW U, NEW q \in Seq(T), NEW w \in Seq(U), NEW r, NEW before \in BOOLEAN
  PROVE  PausedAfter(q \o w, r, before) <=> PausedAfter(w, r, PausedAfter(q, r, before))
<1> DEFINE a == q \o w
           P(x) == Pauses(x, r)
           E(x) == Resumes(x, r)
           In(s) == \E j \in DOMAIN s : P(s[j]) /\ \A k \in j + 1 .. Len(s) : ~ E(s[k])
           None(s) == \A j \in DOMAIN s : ~ E(s[j])
<1>1. /\ Len(q) \in Nat /\ Len(w) \in Nat /\ Len(a) = Len(q) + Len(w)
      /\ DOMAIN q = 1 .. Len(q) /\ DOMAIN w = 1 .. Len(w) /\ DOMAIN a = 1 .. Len(q) + Len(w)
      /\ \A j \in 1 .. Len(q) : a[j] = q[j]
      /\ \A j \in 1 .. Len(w) : a[Len(q) + j] = w[j]
  OBVIOUS
<1> HIDE DEF a, P, E
<1>2. \A k \in 1 .. Len(a) : k \in 1 .. Len(q) \/ (k - Len(q) \in 1 .. Len(w) /\ a[k] = w[k - Len(q)])
  <2>1. ASSUME NEW k \in 1 .. Len(a), k \notin 1 .. Len(q)
        PROVE  k - Len(q) \in 1 .. Len(w) /\ a[k] = w[k - Len(q)]
    <3>1. k - Len(q) \in 1 .. Len(w) /\ k = Len(q) + (k - Len(q))
      BY <1>1, <2>1
    <3> QED BY <3>1, <1>1
  <2> QED BY <2>1
<1>3. None(a) <=> None(q) /\ None(w)
  <2>1. ASSUME None(a), NEW j \in DOMAIN w PROVE ~ E(w[j])
    <3>1. Len(q) + j \in DOMAIN a /\ a[Len(q) + j] = w[j]
      BY <1>1
    <3> QED BY <3>1, <2>1
  <2>2. ASSUME None(a), NEW j \in DOMAIN q PROVE ~ E(q[j])
    <3>1. j \in DOMAIN a /\ a[j] = q[j]
      BY <1>1
    <3> QED BY <3>1, <2>2
  <2>3. ASSUME None(q), None(w), NEW j \in DOMAIN a PROVE ~ E(a[j])
    BY <1>1, <1>2, <2>3
  <2> QED BY <2>1, <2>2, <2>3
<1>4. In(a) <=> In(w) \/ (In(q) /\ None(w))
  <2>1. ASSUME NEW j \in DOMAIN a, P(a[j]), \A k \in j + 1 .. Len(a) : ~ E(a[k])
        PROVE  In(w) \/ (In(q) /\ None(w))
    <3>1. CASE j \in 1 .. Len(q)
      <4>1. ASSUME NEW k \in j + 1 .. Len(q) PROVE ~ E(q[k])
        <5>1. k \in j + 1 .. Len(a) /\ a[k] = q[k]
          BY <1>1, <3>1
        <5> QED BY <5>1, <2>1
      <4>2. ASSUME NEW k \in DOMAIN w PROVE ~ E(w[k])
        <5>1. Len(q) + k \in j + 1 .. Len(a) /\ a[Len(q) + k] = w[k]
          BY <1>1, <3>1
        <5> QED BY <5>1, <2>1
      <4>3. j \in DOMAIN q /\ P(q[j])
        BY <1>1, <2>1, <3>1
      <4> QED BY <4>1, <4>2, <4>3
    <3>2. CASE j \notin 1 .. Len(q)
      <4> DEFINE i == j - Len(q)
      <4>1. i \in DOMAIN w /\ P(w[i]) /\ j = Len(q) + i
        BY <1>1, <1>2, <2>1, <3>2
      <4> HIDE DEF i
      <4>2. ASSUME NEW k \in i + 1 .. Len(w) PROVE ~ E(w[k])
        <5>1. Len(q) + k \in j + 1 .. Len(a) /\ a[Len(q) + k] = w[k]
          BY <1>1, <4>1
        <5> QED BY <5>1, <2>1
      <4> QED BY <4>1, <4>2
    <3> QED BY <3>1, <3>2
  <2>2. ASSUME NEW j \in DOMAIN w, P(w[j]), \A k \in j + 1 .. Len(w) : ~ E(w[k])
        PROVE  In(a)
    <3>1. Len(q) + j \in DOMAIN a /\ P(a[Len(q) + j])
      BY <1>1, <2>2
    <3>2. ASSUME NEW k \in (Len(q) + j) + 1 .. Len(a) PROVE ~ E(a[k])
      <4>1. k \in 1 .. Len(a) /\ k \notin 1 .. Len(q) /\ k - Len(q) \in j + 1 .. Len(w)
        BY <1>1
      <4> QED BY <4>1, <1>2, <2>2
    <3> QED BY <3>1, <3>2
  <2>3. ASSUME None(w), NEW j \in DOMAIN q, P(q[j]), \A k \in j + 1 .. Len(q) : ~ E(q[k])
        PROVE  In(a)
    <3>1. j \in DOMAIN a /\ P(a[j])
      BY <1>1, <2>3
    <3>2. ASSUME NEW k \in j + 1 .. Len(a) PROVE ~ E(a[k])
      <4>1. k \in 1 .. Len(a)
        BY <1>1
      <4>2. CASE k \in 1 .. Len(q)
        BY <4>2, <1>1, <2>3
      <4>3. CASE k \notin 1 .. Len(q)
        BY <4>1, <4>3, <1>1, <1>2, <2>3
      <4> QED BY <4>2, <4>3
    <3> QED BY <3>1, <3>2
  <2> QED BY <2>1, <2>2, <2>3
<1>5. \A s, b : PausedAfter(s, r, b) <=> In(s) \/ (b /\ None(s))
  BY DEF PausedAfter, P, E
<1> HIDE DEF In, None
<1>6. PausedAfter(a, r, before) <=> In(a) \/ (before /\ None(a))
  BY <1>5
<1>7. PausedAfter(w, r, PausedAfter(q, r, before)) <=> In(w) \/ (PausedAfter(q, r, before) /\ None(w))
  BY <1>5
<1>8. PausedAfter(q, r, before) <=> In(q) \/ (before /\ None(q))
  BY <1>5
<1> QED BY <1>3, <1>4, <1>6, <1>7, <1>8 DEF a

-----------------------------------------------------------------------------
(* The invariant of the system, of the switches S, links C and hosts H *)

\* What is on a link: the signals and the packets its sender may send there.
Carries(a, b) == SignalOn(a, b) \cup Leaving(a, b)

\* The roots the device of node up that leads to n is paused for.
PausedAt(up, n, S, H) == IF up \in Host THEN H[up] ELSE S[up].paused[n]

\* What the upstream devices of n will be once its signals have arrived.
Reaching(n, S, C, H) ==
  [up \in PortOf[n] |-> [r \in Root |-> PausedAfter(C[<<n, up>>], r, r \in PausedAt(up, n, S, H))]]

SwitchOK(n, S, C, H) ==
  /\ Sane(S[n], n, Reaching(n, S, C, H))
  /\ S[n].wire = [p \in PortOf[n] |-> <<>>] /\ S[n].ctrl = [p \in PortOf[n] |-> <<>>]

LinksOK(C) ==
  /\ DOMAIN C = Link
  /\ \A l \in Link : C[l] \in Seq(Carries(l[1], l[2]))

SystemOK(S, C, H) ==
  /\ DOMAIN S = Switch /\ LinksOK(C) /\ H \in [Host -> SUBSET Root]
  /\ \A n \in Switch : SwitchOK(n, S, C, H)

LEMMA ReachingAt ==
  ASSUME NEW n, NEW S, NEW C, NEW H
  PROVE  /\ Reaching(n, S, C, H) \in [PortOf[n] -> [Root -> BOOLEAN]]
         /\ \A up \in PortOf[n], r \in Root :
              Reaching(n, S, C, H)[up][r] <=> PausedAfter(C[<<n, up>>], r, r \in PausedAt(up, n, S, H))
<1>1. \A up \in PortOf[n], r \in Root :
         PausedAfter(C[<<n, up>>], r, r \in PausedAt(up, n, S, H)) \in BOOLEAN
  BY DEF PausedAfter
<1> QED BY <1>1 DEF Reaching

\* Sanity depends only on what the devices will be.
LEMMA SaneUnder ==
  ASSUME NEW n, NEW s, NEW A, NEW B, Sane(s, n, A),
         \A up \in PortOf[n], r \in Root : B[up][r] <=> A[up][r]
  PROVE  Sane(s, n, B)
<1>1. Told(s, n, B)
  <2>1. ASSUME NEW up \in PortOf[n], NEW r \in Root
        PROVE  RecordedIn(s, n, up, r) <=> PausedAfter(s.ctrl[up], r, B[up][r])
    <3>1. RecordedIn(s, n, up, r) <=> PausedAfter(s.ctrl[up], r, A[up][r])
      BY DEF Sane, Told
    <3>2. PausedAfter(s.ctrl[up], r, B[up][r]) <=> PausedAfter(s.ctrl[up], r, A[up][r])
      BY DEF PausedAfter
    <3> QED BY <3>1, <3>2
  <2> QED BY <2>1 DEF Told
<1> QED BY <1>1 DEF Sane

\* Output: what is transmitted and scheduled leaves the state of the switch.
Cleared(s, t, n) ==
  t = [s EXCEPT !.wire = [p \in PortOf[n] |-> <<>>], !.ctrl = [p \in PortOf[n] |-> <<>>]]

LEMMA ClearedSane ==
  ASSUME NEW n, NEW s, NEW A, Sane(s, n, A), NEW t, Cleared(s, t, n), NEW B,
         \A up \in PortOf[n], r \in Root : B[up][r] <=> PausedAfter(s.ctrl[up], r, A[up][r])
  PROVE  /\ Sane(t, n, B) /\ t.paused = s.paused
         /\ t.wire = [p \in PortOf[n] |-> <<>>] /\ t.ctrl = [p \in PortOf[n] |-> <<>>]
<1> DEFINE W == [p \in PortOf[n] |-> <<>>]
<1>1. W \in [PortOf[n] -> Seq(Packet)] /\ W \in [PortOf[n] -> Seq(Signal)]
      /\ \A p \in PortOf[n] : W[p] = <<>> /\ W[p] \in Seq(Leaving(n, p)) /\ W[p] \in Seq(SignalOn(n, p))
  OBVIOUS
<1>2. t = [s EXCEPT !.wire = W, !.ctrl = W]
  BY DEF Cleared
<1>3. s \in State(n)
  BY DEF Sane
<1> HIDE DEF W
<1>4. /\ t \in State(n) /\ t.entries = s.entries /\ t.rootChild = s.rootChild /\ t.oq = s.oq
      /\ t.ciq = s.ciq /\ t.paused = s.paused /\ t.hier = s.hier /\ t.wire = W /\ t.ctrl = W
  BY <1>1, <1>2, <1>3, StateOf
<1>5. OnTree(t, n)
  BY <1>1, <1>4 DEF Sane, OnTree
<1>6. InPlace(t, n)
  BY <1>1, <1>4 DEF Sane, InPlace
<1>7. Agree(t, n)
  BY <1>4 DEF Sane, Agree, HasCIQ
<1>8. Served(t, n)
  BY <1>4 DEF Sane, Served, HasCIQ
<1>9. Counted(t, n)
  <2>1. \A x, m : Held(t, n, x, m) = Held(s, n, x, m)
    BY <1>4 DEF Held
  <2> QED BY <2>1, <1>4 DEF Sane, Counted
<1>10. Told(t, n, B)
  <2>1. ASSUME NEW up \in PortOf[n], NEW r \in Root
        PROVE  RecordedIn(t, n, up, r) <=> PausedAfter(t.ctrl[up], r, B[up][r])
    <3>1. RecordedIn(t, n, up, r) <=> RecordedIn(s, n, up, r)
      BY <1>4 DEF RecordedIn
    <3>2. RecordedIn(s, n, up, r) <=> PausedAfter(s.ctrl[up], r, A[up][r])
      BY DEF Sane, Told
    <3>3. t.ctrl[up] = <<>>
      BY <1>1, <1>4
    <3>4. PausedAfter(<<>>, r, B[up][r]) <=> B[up][r]
      BY DEF PausedAfter
    <3>5. B[up][r] <=> PausedAfter(s.ctrl[up], r, A[up][r])
      OBVIOUS
    <3> QED BY <3>1, <3>2, <3>3, <3>4, <3>5
  <2> QED BY <2>1 DEF Told
<1> QED BY <1>4, <1>5, <1>6, <1>7, <1>8, <1>9, <1>10 DEF Sane, W

\* The state s of switch n comes of an item taken from link in, or of none.
Took(S, C, n, in, s) ==
  \/ in \notin Link /\ s.paused = S[n].paused
  \/ \E m : /\ in = <<m, n>> /\ in \in Link /\ C[in] # <<>>
            /\ PausedBy(S[n], s, n, m, Head(C[in]))

Takes(C, n, in) == in \in Link => C[in] # <<>> /\ \E m : in = <<m, n>>

LEMMA TookTakes ==
  ASSUME NEW S, NEW C, NEW n, NEW in, NEW s, Took(S, C, n, in, s)
  PROVE  Takes(C, n, in)
  BY DEF Took, Takes

\* Carried: the links after switch n took an item and put out its output.
Moved(C, D, n, in, s) ==
  D = [l \in Link |->
         (IF l = in THEN Tail(C[l]) ELSE C[l])
           \o (IF l[1] = n THEN s.wire[l[2]] \o s.ctrl[l[2]] ELSE <<>>)]

LEMMA RestOfLink ==
  ASSUME NEW T, NEW q \in Seq(T), q # <<>>
  PROVE  Tail(q) \in Seq(T)
  OBVIOUS

MovedFrom(C, D, n, s) ==
  \A p \in PortOf[n] :
    <<n, p>> \in Link /\ D[<<n, p>>] = C[<<n, p>>] \o (s.wire[p] \o s.ctrl[p])

MovedTo(C, D, n, in) ==
  \A a, b : <<a, b>> \in Link /\ a # n =>
    /\ <<a, b>> = in => C[<<a, b>>] # <<>> /\ D[<<a, b>>] = Tail(C[<<a, b>>])
    /\ <<a, b>> # in => D[<<a, b>>] = C[<<a, b>>]

LEMMA MovedAt ==
  ASSUME NEW C, LinksOK(C), NEW n \in Switch, NEW s \in State(n), NEW in, Takes(C, n, in),
         NEW D, Moved(C, D, n, in, s)
  PROVE  DOMAIN D = Link /\ MovedFrom(C, D, n, s) /\ MovedTo(C, D, n, in)
<1>1. \A l \in Link : C[l] \in Seq(Carries(l[1], l[2]))
  BY DEF LinksOK
<1>2. DOMAIN D = Link
  BY DEF Moved
<1>3. ASSUME NEW p \in PortOf[n]
      PROVE  <<n, p>> \in Link /\ D[<<n, p>>] = C[<<n, p>>] \o (s.wire[p] \o s.ctrl[p])
  <2>1. <<n, p>> \in Link /\ p # n
    BY Ports
  <2>2. <<n, p>> # in
    <3>1. ASSUME NEW m, <<n, p>> = <<m, n>> PROVE FALSE
      BY <2>1, <3>1
    <3> QED BY <2>1, <3>1 DEF Takes
  <2>3. <<n, p>>[1] = n /\ <<n, p>>[2] = p
    OBVIOUS
  <2> QED BY <2>1, <2>2, <2>3 DEF Moved
<1>4. ASSUME NEW a, NEW b, <<a, b>> \in Link, a # n
      PROVE  /\ <<a, b>> = in => C[<<a, b>>] # <<>> /\ D[<<a, b>>] = Tail(C[<<a, b>>])
             /\ <<a, b>> # in => D[<<a, b>>] = C[<<a, b>>]
  <2> DEFINE l == <<a, b>>
  <2>1. l \in Link /\ l[1] # n /\ C[l] \in Seq(Carries(l[1], l[2]))
    BY <1>1, <1>4
  <2> HIDE DEF l
  <2>2. D[l] = (IF l = in THEN Tail(C[l]) ELSE C[l]) \o <<>>
    BY <2>1 DEF Moved
  <2>3. CASE l = in
    <3>1. C[l] # <<>>
      BY <2>1, <2>3 DEF Takes
    <3>2. D[l] = Tail(C[l]) \o <<>>
      BY <2>2, <2>3
    <3>3. Tail(C[l]) \in Seq(Carries(l[1], l[2]))
      BY <2>1, <3>1, RestOfLink
    <3>4. D[l] = Tail(C[l])
      BY <3>2, <3>3
    <3> QED BY <2>3, <3>1, <3>4 DEF l
  <2>4. CASE l # in
    <3>1. D[l] = C[l]
      BY <2>1, <2>2, <2>4
    <3> QED BY <2>4, <3>1 DEF l
  <2> QED BY <2>3, <2>4
<1> QED BY <1>2, <1>3, <1>4 DEF MovedFrom, MovedTo

LEMMA MovedLinks ==
  ASSUME NEW C, LinksOK(C), NEW n \in Switch, NEW s, NEW A, Sane(s, n, A), NEW in, NEW S,
         Took(S, C, n, in, s), NEW D, Moved(C, D, n, in, s)
  PROVE  LinksOK(D)
<1>1. s \in State(n) /\ \A l \in Link : C[l] \in Seq(Carries(l[1], l[2]))
  BY DEF LinksOK, Sane
<1>2. DOMAIN D = Link /\ MovedFrom(C, D, n, s) /\ MovedTo(C, D, n, in)
  BY <1>1, TookTakes, MovedAt
<1>3. ASSUME NEW l \in Link PROVE D[l] \in Seq(Carries(l[1], l[2]))
  <2>1. l = <<l[1], l[2]>> /\ C[l] \in Seq(Carries(l[1], l[2]))
    BY <1>1, LinkPair
  <2>2. CASE l[1] = n
    <3> DEFINE p == l[2]
    <3>1. p \in PortOf[n] /\ l = <<n, p>>
      BY <2>1, <2>2, Ports
    <3>2. s.wire[p] \in Seq(Leaving(n, p)) /\ s.ctrl[p] \in Seq(SignalOn(n, p))
      BY <3>1 DEF Sane, InPlace, OnTree
    <3>3. s.wire[p] \in Seq(Carries(n, p)) /\ s.ctrl[p] \in Seq(Carries(n, p))
      BY <3>2 DEF Carries
    <3>4. C[l] \in Seq(Carries(n, p))
      BY <2>1, <2>2
    <3>5. D[l] = C[l] \o (s.wire[p] \o s.ctrl[p])
      BY <3>1, <1>2 DEF MovedFrom
    <3> HIDE DEF p
    <3>6. D[l] \in Seq(Carries(n, p))
      BY <3>3, <3>4, <3>5
    <3> QED BY <3>6, <2>2 DEF p
  <2>3. CASE l[1] # n
    <3>1. (l = in => C[l] # <<>> /\ D[l] = Tail(C[l])) /\ (l # in => D[l] = C[l])
      BY <1>2, <2>1, <2>3 DEF MovedTo
    <3>2. C[l] # <<>> => Tail(C[l]) \in Seq(Carries(l[1], l[2]))
      BY <2>1, RestOfLink
    <3> QED BY <2>1, <3>1, <3>2
  <2> QED BY <2>2, <2>3
<1> QED BY <1>2, <1>3 DEF LinksOK

\* What n sends is what its devices will learn of.
LEMMA SenderReaching ==
  ASSUME NEW S, NEW C, LinksOK(C), NEW H, NEW n \in Switch, NEW in, NEW s,
         Sane(s, n, Reaching(n, S, C, H)), Took(S, C, n, in, s),
         NEW D, Moved(C, D, n, in, s), NEW T, \A m \in Switch : m # n => T[m] = S[m],
         NEW up \in PortOf[n], NEW r \in Root
  PROVE  Reaching(n, T, D, H)[up][r] <=> PausedAfter(s.ctrl[up], r, Reaching(n, S, C, H)[up][r])
<1> DEFINE b == r \in PausedAt(up, n, S, H)
           q == C[<<n, up>>]
<1>1. s \in State(n) /\ s.wire[up] \in Seq(Leaving(n, up)) /\ s.ctrl[up] \in Seq(SignalOn(n, up))
  BY DEF Sane, InPlace, OnTree
<1>2. <<n, up>> \in Link /\ D[<<n, up>>] = q \o (s.wire[up] \o s.ctrl[up])
  <2>1. MovedFrom(C, D, n, s)
    BY <1>1, TookTakes, MovedAt
  <2> QED BY <2>1 DEF MovedFrom
<1>3. q \in Seq(Carries(n, up))
  <2>1. <<n, up>>[1] = n /\ <<n, up>>[2] = up
    OBVIOUS
  <2> QED BY <2>1, <1>2 DEF LinksOK
<1>4. PausedAt(up, n, T, H) = PausedAt(up, n, S, H)
  <2>1. up # n /\ up \in Switch \cup Host
    BY <1>2, Ports
  <2> QED BY <2>1 DEF PausedAt
<1>5. b \in BOOLEAN
  OBVIOUS
<1>6. Reaching(n, T, D, H)[up][r] <=> PausedAfter(D[<<n, up>>], r, b)
  BY <1>4, ReachingAt
<1>7. Reaching(n, S, C, H)[up][r] <=> PausedAfter(q, r, b)
  BY ReachingAt
<1> HIDE DEF b, q
<1> DEFINE w == s.wire[up]
           c == s.ctrl[up]
<1>8. w \in Seq(Packet) /\ c \in Seq(Signal) /\ w \o c \in Seq(Carries(n, up))
  <2>1. w \in Seq(Carries(n, up)) /\ c \in Seq(Carries(n, up))
    BY <1>1 DEF Carries
  <2>2. w \in Seq(Packet) /\ c \in Seq(Signal)
    BY <1>1, StateOf
  <2> HIDE DEF w, c
  <2> QED BY <2>1, <2>2
<1>9. \A i \in DOMAIN w : w[i].kind = "DATA"
  BY <1>8 DEF Packet
<1> HIDE DEF w, c
<1> DEFINE a == PausedAfter(q, r, b)
<1>10. a \in BOOLEAN
  BY DEF PausedAfter
<1>11. PausedAfter(q \o (w \o c), r, b) <=> PausedAfter(w \o c, r, a)
  BY <1>3, <1>5, <1>8, PausedConcat
<1> HIDE DEF a
<1>12. PausedAfter(w \o c, r, a) <=> PausedAfter(c, r, PausedAfter(w, r, a))
  BY <1>8, <1>10, PausedConcat
<1>13. PausedAfter(w, r, a) <=> a
  BY <1>9, <1>10, PausedData
<1>14. PausedAfter(c, r, PausedAfter(w, r, a)) <=> PausedAfter(c, r, a)
  BY <1>13 DEF PausedAfter
<1>15. PausedAfter(c, r, a) <=> PausedAfter(c, r, Reaching(n, S, C, H)[up][r])
  BY <1>7 DEF PausedAfter, a
<1>16. D[<<n, up>>] = q \o (w \o c)
  BY <1>2 DEF w, c, q
<1> QED BY <1>6, <1>11, <1>12, <1>14, <1>15, <1>16 DEF w, c

\* The devices of another switch will be what they would have been: an item
\* that was taken off the link has been obeyed.
LEMMA OtherReaching ==
  ASSUME NEW S, NEW C, LinksOK(C), NEW H, NEW n \in Switch, NEW in, NEW s \in State(n),
         Took(S, C, n, in, s), NEW D, Moved(C, D, n, in, s),
         NEW T, \A k \in Switch : k # n => T[k] = S[k], T[n].paused = s.paused,
         NEW m \in Switch, m # n, NEW up \in PortOf[m], NEW r \in Root
  PROVE  Reaching(m, T, D, H)[up][r] <=> Reaching(m, S, C, H)[up][r]
<1> DEFINE l == <<m, up>>
<1>1. l \in Link /\ up # m /\ up \in Switch \cup Host
  BY Ports
<1>2. (l = in => C[l] # <<>> /\ D[l] = Tail(C[l])) /\ (l # in => D[l] = C[l])
  <2>1. MovedTo(C, D, n, in)
    BY TookTakes, MovedAt
  <2> QED BY <1>1, <2>1 DEF MovedTo
<1>3. Reaching(m, T, D, H)[up][r] <=> PausedAfter(D[l], r, r \in PausedAt(up, m, T, H))
  BY ReachingAt
<1>4. Reaching(m, S, C, H)[up][r] <=> PausedAfter(C[l], r, r \in PausedAt(up, m, S, H))
  BY ReachingAt
<1>5. CASE up # n
  <2>1. l # in
    <3>1. ASSUME NEW k, l = <<k, n>> PROVE FALSE
      BY <1>5, <3>1
    <3> QED BY <1>1, <3>1 DEF Took
  <2>2. PausedAt(up, m, T, H) = PausedAt(up, m, S, H)
    BY <1>1, <1>5 DEF PausedAt
  <2> QED BY <1>2, <1>3, <1>4, <2>1, <2>2
<1>6. CASE up = n
  <2> DEFINE b == r \in S[n].paused[m]
             c == r \in s.paused[m]
             q == C[l]
  <2>1. n \notin Host
    BY CiParameters
  <2>2. PausedAt(up, m, T, H) = s.paused[m] /\ PausedAt(up, m, S, H) = S[n].paused[m]
    BY <1>6, <2>1 DEF PausedAt
  <2>3. m \in PortOf[n]
    BY <1>1, <1>6, Ports
  <2>4. /\ Reaching(m, T, D, H)[up][r] <=> PausedAfter(D[l], r, c)
        /\ Reaching(m, S, C, H)[up][r] <=> PausedAfter(q, r, b)
    BY <1>3, <1>4, <2>2
  <2>5. q \in Seq(Carries(l[1], l[2]))
    BY <1>1 DEF LinksOK
  <2>6. CASE l = in
    <3> DEFINE i == Head(q)
    <3>1. PausedBy(S[n], s, n, m, i)
      <4>1. PICK k : /\ in = <<k, n>> /\ PausedBy(S[n], s, n, k, Head(C[in]))
        BY <1>1, <2>6 DEF Took
      <4>2. k = m
        BY <4>1, <2>6, <1>6
      <4> QED BY <4>1, <4>2, <2>6
    <3>2. c <=> Obeyed(i, r, b)
      BY <3>1, <2>3 DEF PausedBy
    <3>3. q # <<>> /\ D[l] = Tail(q)
      BY <1>2, <2>6
    <3>4. b \in BOOLEAN
      OBVIOUS
    <3> HIDE DEF q, b, c
    <3>5. PausedAfter(q, r, b) <=> PausedAfter(Tail(q), r, Obeyed(i, r, b))
      BY <2>5, <3>3, <3>4, PausedTail
    <3> HIDE DEF i
    <3>6. PausedAfter(Tail(q), r, Obeyed(i, r, b)) <=> PausedAfter(Tail(q), r, c)
      BY <3>2 DEF PausedAfter
    <3> QED BY <2>4, <3>3, <3>5, <3>6
  <2>7. CASE l # in
    <3>1. c <=> b
      <4>1. CASE in \notin Link
        <5>1. s.paused = S[n].paused
          BY <4>1 DEF Took
        <5> QED BY <5>1
      <4>2. ASSUME NEW k, in = <<k, n>>, PausedBy(S[n], s, n, k, Head(C[in]))
            PROVE  c <=> b
        <5>1. k # m
          BY <4>2, <2>7, <1>6
        <5> QED BY <4>2, <5>1, <2>3 DEF PausedBy
      <4> QED BY <4>1, <4>2 DEF Took
    <3>2. D[l] = q
      BY <1>2, <2>7
    <3> HIDE DEF q, b, c
    <3>3. PausedAfter(q, r, b) <=> PausedAfter(q, r, c)
      BY <3>1 DEF PausedAfter
    <3> QED BY <2>4, <3>2, <3>3
  <2> QED BY <2>6, <2>7
<1> QED BY <1>5, <1>6

\* A handler of switch n leads to a state that is well again.
LEMMA SwitchStep ==
  ASSUME NEW S, NEW C, NEW H, SystemOK(S, C, H), NEW n \in Switch, NEW in, NEW s,
         Sane(s, n, Reaching(n, S, C, H)), Took(S, C, n, in, s),
         NEW D, Moved(C, D, n, in, s), NEW t, Cleared(s, t, n),
         NEW T, DOMAIN T = Switch, T[n] = t, \A k \in Switch : k # n => T[k] = S[k]
  PROVE  SystemOK(T, D, H)
<1>1. LinksOK(C) /\ H \in [Host -> SUBSET Root] /\ \A m \in Switch : SwitchOK(m, S, C, H)
  BY DEF SystemOK
<1>2. LinksOK(D)
  BY <1>1, MovedLinks
<1>3. SwitchOK(n, T, D, H) /\ T[n].paused = s.paused
  <2>1. \A up \in PortOf[n], r \in Root :
          Reaching(n, T, D, H)[up][r] <=> PausedAfter(s.ctrl[up], r, Reaching(n, S, C, H)[up][r])
    BY <1>1, SenderReaching
  <2>2. /\ Sane(t, n, Reaching(n, T, D, H)) /\ t.paused = s.paused
        /\ t.wire = [p \in PortOf[n] |-> <<>>] /\ t.ctrl = [p \in PortOf[n] |-> <<>>]
    BY <2>1, ClearedSane
  <2> QED BY <2>2 DEF SwitchOK
<1>4. ASSUME NEW m \in Switch, m # n PROVE SwitchOK(m, T, D, H)
  <2>1. T[m] = S[m] /\ SwitchOK(m, S, C, H)
    BY <1>1, <1>4
  <2>2. s \in State(n)
    BY DEF Sane
  <2>3. \A up \in PortOf[m], r \in Root :
          Reaching(m, T, D, H)[up][r] <=> Reaching(m, S, C, H)[up][r]
    BY <1>1, <1>3, <1>4, <2>2, OtherReaching
  <2>4. Sane(S[m], m, Reaching(m, S, C, H))
    BY <2>1 DEF SwitchOK
  <2>5. Sane(S[m], m, Reaching(m, T, D, H))
    BY <2>3, <2>4, SaneUnder
  <2> QED BY <2>1, <2>5 DEF SwitchOK
<1> QED BY <1>1, <1>2, <1>3, <1>4 DEF SystemOK

\* A host takes an item off its link and obeys it.
HostTook(C, D, H, G, m, h) ==
  /\ <<m, h>> \in Link /\ h \in Host /\ C[<<m, h>>] # <<>>
  /\ D = [C EXCEPT ![<<m, h>>] = Tail(@)]
  /\ G \in [Host -> SUBSET Root]
  /\ \A k \in Host, r \in Root :
       r \in G[k] <=> IF k = h THEN Obeyed(Head(C[<<m, h>>]), r, r \in H[k]) ELSE r \in H[k]

LEMMA HostReaching ==
  ASSUME NEW S, NEW C, LinksOK(C), NEW H, NEW D, NEW G, NEW m, NEW h, HostTook(C, D, H, G, m, h),
         NEW n \in Switch, NEW up \in PortOf[n], NEW r \in Root
  PROVE  Reaching(n, S, D, G)[up][r] <=> Reaching(n, S, C, H)[up][r]
<1> DEFINE l == <<n, up>>
<1>1. l \in Link /\ up # n /\ up \in Switch \cup Host
  BY Ports
<1>2. DOMAIN C = Link /\ C[l] \in Seq(Carries(l[1], l[2]))
  BY <1>1 DEF LinksOK
<1>3. /\ Reaching(n, S, D, G)[up][r] <=> PausedAfter(D[l], r, r \in PausedAt(up, n, S, G))
      /\ Reaching(n, S, C, H)[up][r] <=> PausedAfter(C[l], r, r \in PausedAt(up, n, S, H))
  BY ReachingAt
<1>4. CASE up # h
  <2>1. D[l] = C[l]
    <3>1. l # <<m, h>>
      BY <1>4
    <3> QED BY <1>1, <1>2, <3>1 DEF HostTook
  <2>2. (r \in PausedAt(up, n, S, G)) <=> (r \in PausedAt(up, n, S, H))
    BY <1>4 DEF PausedAt, HostTook
  <2>3. PausedAfter(C[l], r, r \in PausedAt(up, n, S, G))
          <=> PausedAfter(C[l], r, r \in PausedAt(up, n, S, H))
    BY <2>2 DEF PausedAfter
  <2> QED BY <1>3, <2>1, <2>3
<1>5. CASE up = h
  <2>1. <<m, h>> \in Link /\ h \in Host
    BY DEF HostTook
  <2>2. m = n
    <3>1. <<h, m>> \in Link /\ <<h, n>> \in Link
      BY <1>1, <1>5, <2>1, LinkOf
    <3>2. <<h, m>>[1] = h /\ <<h, n>>[1] = h /\ <<h, m>>[2] = m /\ <<h, n>>[2] = n
      OBVIOUS
    <3>3. <<h, m>> = <<h, n>>
      BY <2>1, <3>1, <3>2, CiParameters
    <3> QED BY <3>2, <3>3
  <2> DEFINE b == r \in H[h]
             c == r \in G[h]
             q == C[l]
             i == Head(q)
  <2>3. PausedAt(up, n, S, G) = G[h] /\ PausedAt(up, n, S, H) = H[h]
    BY <1>5, <2>1 DEF PausedAt
  <2>4. /\ Reaching(n, S, D, G)[up][r] <=> PausedAfter(D[l], r, c)
        /\ Reaching(n, S, C, H)[up][r] <=> PausedAfter(q, r, b)
    BY <1>3, <2>3
  <2>5. q # <<>> /\ D[l] = Tail(q)
    BY <1>1, <1>2, <1>5, <2>2 DEF HostTook
  <2>6. c <=> Obeyed(i, r, b)
    BY <1>5, <2>1, <2>2 DEF HostTook
  <2>7. b \in BOOLEAN
    OBVIOUS
  <2> HIDE DEF b, c, q
  <2>8. PausedAfter(q, r, b) <=> PausedAfter(Tail(q), r, Obeyed(i, r, b))
    BY <1>2, <2>5, <2>7, PausedTail DEF q
  <2> HIDE DEF i
  <2>9. PausedAfter(Tail(q), r, Obeyed(i, r, b)) <=> PausedAfter(Tail(q), r, c)
    BY <2>6 DEF PausedAfter
  <2> QED BY <2>4, <2>5, <2>8, <2>9
<1> QED BY <1>4, <1>5

LEMMA HostStep ==
  ASSUME NEW S, NEW C, NEW H, SystemOK(S, C, H), NEW D, NEW G, NEW m, NEW h,
         HostTook(C, D, H, G, m, h)
  PROVE  SystemOK(S, D, G)
<1>1. /\ LinksOK(C) /\ DOMAIN S = Switch /\ G \in [Host -> SUBSET Root]
      /\ \A n \in Switch : SwitchOK(n, S, C, H)
  BY DEF SystemOK, HostTook
<1>2. LinksOK(D)
  <2>1. DOMAIN C = Link /\ \A l \in Link : C[l] \in Seq(Carries(l[1], l[2]))
    BY <1>1 DEF LinksOK
  <2>2. DOMAIN D = Link
    BY <2>1 DEF HostTook
  <2>3. ASSUME NEW l \in Link PROVE D[l] \in Seq(Carries(l[1], l[2]))
    <3>1. C[l] # <<>> => Tail(C[l]) \in Seq(Carries(l[1], l[2]))
      BY <2>1, RestOfLink
    <3>2. D[l] = C[l] \/ (C[l] # <<>> /\ D[l] = Tail(C[l]))
      BY <2>1 DEF HostTook
    <3> QED BY <2>1, <3>1, <3>2
  <2> QED BY <2>2, <2>3 DEF LinksOK
<1>3. ASSUME NEW n \in Switch PROVE SwitchOK(n, S, D, G)
  <2>1. \A up \in PortOf[n], r \in Root :
          Reaching(n, S, D, G)[up][r] <=> Reaching(n, S, C, H)[up][r]
    BY <1>1, HostReaching
  <2>2. SwitchOK(n, S, C, H)
    BY <1>1
  <2>3. Sane(S[n], n, Reaching(n, S, D, G))
    BY <2>1, <2>2, SaneUnder DEF SwitchOK
  <2> QED BY <2>2, <2>3 DEF SwitchOK
<1> QED BY <1>1, <1>2, <1>3 DEF SystemOK

\* A host sends a packet.
HostPut(C, D, h, p, d) ==
  /\ h \in Host /\ <<h, p>> \in Link /\ d \in Leaving(h, p)
  /\ D = [C EXCEPT ![<<h, p>>] = Append(@, d)]

LEMMA HostSendStep ==
  ASSUME NEW S, NEW C, NEW H, SystemOK(S, C, H), NEW D, NEW h, NEW p, NEW d, HostPut(C, D, h, p, d)
  PROVE  SystemOK(S, D, H)
<1>1. /\ LinksOK(C) /\ DOMAIN S = Switch /\ H \in [Host -> SUBSET Root]
      /\ \A n \in Switch : SwitchOK(n, S, C, H)
  BY DEF SystemOK
<1>2. DOMAIN C = Link /\ \A l \in Link : C[l] \in Seq(Carries(l[1], l[2]))
  BY <1>1 DEF LinksOK
<1>3. LinksOK(D)
  <2>1. ASSUME NEW l \in Link PROVE D[l] \in Seq(Carries(l[1], l[2]))
    <3>1. CASE l = <<h, p>>
      <4>1. d \in Carries(l[1], l[2])
        BY <3>1 DEF HostPut, Carries
      <4>2. D[l] = Append(C[l], d)
        BY <1>2, <3>1 DEF HostPut
      <4> QED BY <1>2, <4>1, <4>2
    <3>2. CASE l # <<h, p>>
      <4>1. D[l] = C[l]
        BY <1>2, <3>2 DEF HostPut
      <4> QED BY <1>2, <4>1
    <3> QED BY <3>1, <3>2
  <2>2. DOMAIN D = Link
    BY <1>2 DEF HostPut
  <2> QED BY <2>1, <2>2 DEF LinksOK
<1>4. ASSUME NEW n \in Switch PROVE SwitchOK(n, S, D, H)
  <2>1. ASSUME NEW up \in PortOf[n], NEW r \in Root
        PROVE  Reaching(n, S, D, H)[up][r] <=> Reaching(n, S, C, H)[up][r]
    <3>1. <<n, up>> \in Link
      BY Ports
    <3>2. n # h
      BY CiParameters DEF HostPut
    <3>3. <<n, up>> # <<h, p>>
      BY <3>2
    <3>4. D[<<n, up>>] = C[<<n, up>>]
      BY <1>2, <3>1, <3>3 DEF HostPut
    <3> QED BY <3>4, ReachingAt
  <2>2. SwitchOK(n, S, C, H)
    BY <1>1
  <2>3. Sane(S[n], n, Reaching(n, S, D, H))
    BY <2>1, <2>2, SaneUnder DEF SwitchOK
  <2> QED BY <2>2, <2>3 DEF SwitchOK
<1> QED BY <1>1, <1>3, <1>4 DEF SystemOK

-----------------------------------------------------------------------------
(* The invariant, from event to event *)

CiInv ==
  /\ settings \in Configuration
  /\ SystemOK(sw, chan, hostPaused)
  /\ sent \in [Flow -> Nat]
  /\ DOMAIN received = Flow
  /\ \A f \in Flow : received[f] \in Seq(Nat) /\ \A i \in DOMAIN received[f] : received[f][i] < Packets[f]

\* The settings do not change, so that a state of the system that is well by
\* the settings of before is well.
LEMMA SettingsKept ==
  ASSUME settings' = settings, SystemOK(sw', chan', hostPaused')
  PROVE  SystemOK(sw, chan, hostPaused)'
<1>1. Packet' = Packet
  BY DEF Packet, Packets
<1>2. \A n, p : Leaving(n, p)' = Leaving(n, p)
  BY <1>1 DEF Leaving
<1>3. \A n, p, r : Waiting(n, p, r)' = Waiting(n, p, r)
  BY <1>2 DEF Waiting
<1>4. \A n : State(n)' = State(n)
  BY <1>1 DEF State
<1>5. LinksOK(chan)'
  BY <1>2 DEF SystemOK, LinksOK, Carries
<1>6. ASSUME NEW n \in Switch PROVE SwitchOK(n, sw, chan, hostPaused)'
  <2>1. Sane(sw[n], n, Reaching(n, sw, chan, hostPaused))'
    <3>1. Sane(sw'[n], n, Reaching(n, sw', chan', hostPaused'))
      BY DEF SystemOK, SwitchOK
    <3>2. InPlace(sw[n], n)'
      BY <3>1, <1>2, <1>3 DEF Sane, InPlace
    <3>3. (sw[n] \in State(n))'
      BY <3>1, <1>4 DEF Sane
    <3>4. OnTree(sw[n], n)' /\ Agree(sw[n], n)' /\ Served(sw[n], n)'
      BY <3>1 DEF Sane, OnTree, Agree, Served, HasCIQ
    <3>5. Counted(sw[n], n)'
      BY <3>1 DEF Sane, Counted, Held
    <3>6. Told(sw[n], n, Reaching(n, sw, chan, hostPaused))'
      BY <3>1 DEF Sane, Told, RecordedIn, Reaching, PausedAt, PausedAfter
    <3> QED BY <3>2, <3>3, <3>4, <3>5, <3>6 DEF Sane
  <2> QED BY <2>1 DEF SystemOK, SwitchOK
<1> QED BY <1>5, <1>6 DEF SystemOK

LEMMA Initially == Init => CiInv
<1> SUFFICES ASSUME Init PROVE CiInv
  OBVIOUS
<1>1. /\ settings \in Configuration /\ HolLimit \subseteq [Switch -> Nat]
      /\ chan = [l \in Link |-> <<>>] /\ hostPaused = [h \in Host |-> {}]
      /\ sent = [f \in Flow |-> 0] /\ received = [f \in Flow |-> <<>>]
  BY CiParameters DEF Init, HolLimit
<1>2. PICK hol \in [Switch -> Nat] : sw = [n \in Switch |-> InitSwitch(n, hol[n])]
  BY <1>1 DEF Init
<1>3. LinksOK(chan) /\ hostPaused \in [Host -> SUBSET Root]
  BY <1>1 DEF LinksOK
<1>4. ASSUME NEW n \in Switch PROVE SwitchOK(n, sw, chan, hostPaused)
  <2> DEFINE s == sw[n]
             B == Reaching(n, sw, chan, hostPaused)
  <2>1. s = InitSwitch(n, hol[n]) /\ hol[n] \in Nat
    BY <1>2
  <2>2. /\ Empty \in Children(n) /\ Empty \in Entries(n) /\ DOMAIN Empty = {}
        /\ \A up : ~ IsTrue(Empty, up)
    <3>1. Empty \in Entries(n)
      BY EntryMap DEF Empty
    <3> QED BY <3>1, EmptyChild
  <2>3. /\ s.entries = Empty /\ s.rootChild = [p \in PortOf[n] |-> Empty]
        /\ s.oq = [p \in PortOf[n] |-> <<>>] /\ s.ciq = [p \in PortOf[n] |-> [r \in Root |-> <<>>]]
        /\ s.paused = [p \in PortOf[n] |-> {}]
        /\ s.wire = [p \in PortOf[n] |-> <<>>] /\ s.ctrl = [p \in PortOf[n] |-> <<>>]
    BY <2>1 DEF InitSwitch
  <2>4. s \in State(n)
    <3> DEFINE E == [p \in PortOf[n] |-> Empty]
               Q == [p \in PortOf[n] |-> <<>>]
               Z == [p \in PortOf[n] |-> [r \in Root |-> <<>>]]
               U == [p \in PortOf[n] |-> {}]
               k == hol[n]
    <3>1. E \in [PortOf[n] -> Children(n)]
      BY <2>2
    <3>2. Q \in [PortOf[n] -> Seq(Packet)] /\ Q \in [PortOf[n] -> Seq(Signal)]
      OBVIOUS
    <3>3. Z \in [PortOf[n] -> [Root -> Seq(Packet)]]
      OBVIOUS
    <3>4. U \in [PortOf[n] -> SUBSET Root]
      OBVIOUS
    <3>5. s = [entries |-> Empty, rootChild |-> E, oq |-> Q, ciq |-> Z, paused |-> U,
               hier |-> FALSE, hol |-> k, wire |-> Q, ctrl |-> Q]
      BY <2>1 DEF InitSwitch
    <3>6. k \in Nat /\ Empty \in Entries(n)
      BY <2>1, <2>2
    <3> HIDE DEF E, Q, Z, U, k, s
    <3> QED BY <3>1, <3>2, <3>3, <3>4, <3>5, <3>6, StateOf
  <2> HIDE DEF s
  <2>5. OnTree(s, n) /\ InPlace(s, n)
    <3>1. OnTree(s, n)
      BY <2>2, <2>3 DEF OnTree
    <3> QED BY <3>1, <2>3 DEF InPlace
  <2>6. Agree(s, n) /\ Served(s, n)
    BY <2>2, <2>3 DEF Agree, Served, HasCIQ
  <2>7. Counted(s, n)
    <3>1. ASSUME NEW r \in Root, NEW in \in PortOf[n] PROVE IsFiniteSet(Held(s, n, r, in))
      <4>1. \A p \in PortOf[n] : s.ciq[p][r] = <<>>
        BY <2>3
      <4>2. Held(s, n, r, in) = {}
        BY <4>1, HeldAt
      <4> QED BY <4>2, FS_EmptySet
    <3> QED BY <3>1, <2>2, <2>3 DEF Counted
  <2>8. Told(s, n, B)
    <3>1. ASSUME NEW up \in PortOf[n], NEW r \in Root
          PROVE  RecordedIn(s, n, up, r) <=> PausedAfter(s.ctrl[up], r, B[up][r])
      <4>1. ~ RecordedIn(s, n, up, r)
        <5>1. r[1] = n => r[2] \in PortOf[n]
          BY RootEnds
        <5> QED BY <5>1, <2>2, <2>3 DEF RecordedIn
      <4>2. r \notin PausedAt(up, n, sw, hostPaused)
        <5>1. up \in Switch \cup Host /\ n \in PortOf[up]
          BY Ports
        <5>2. CASE up \in Host
          BY <5>2, <1>1 DEF PausedAt
        <5>3. CASE up \notin Host
          <6>1. sw[up].paused = [p \in PortOf[up] |-> {}]
            BY <5>1, <5>3, <1>2 DEF InitSwitch
          <6> QED BY <6>1, <5>1, <5>3 DEF PausedAt
        <5> QED BY <5>2, <5>3
      <4>3. chan[<<n, up>>] = <<>> /\ s.ctrl[up] = <<>>
        <5>1. <<n, up>> \in Link
          BY Ports
        <5> QED BY <5>1, <1>1, <2>3
      <4>4. ~ B[up][r]
        <5>1. B[up][r] <=> PausedAfter(chan[<<n, up>>], r, r \in PausedAt(up, n, sw, hostPaused))
          BY ReachingAt
        <5> QED BY <5>1, <4>2, <4>3 DEF PausedAfter
      <4>5. ~ PausedAfter(s.ctrl[up], r, B[up][r])
        <5> HIDE DEF B
        <5> QED BY <4>3, <4>4 DEF PausedAfter
      <4> QED BY <4>1, <4>5
    <3> QED BY <3>1 DEF Told
  <2> QED BY <2>3, <2>4, <2>5, <2>6, <2>7, <2>8 DEF SwitchOK, Sane, s
<1>5. DOMAIN sw = Switch
  BY <1>2
<1>6. SystemOK(sw, chan, hostPaused)
  BY <1>3, <1>4, <1>5 DEF SystemOK
<1> QED BY <1>1, <1>6 DEF CiInv

\* A handler of a switch, from the state it leaves to what the system becomes.
LEMMA HandlerStep ==
  ASSUME CiInv, UNCHANGED settings, NEW n \in Switch, NEW in, NEW s,
         Sane(s, n, Reaching(n, sw, chan, hostPaused)), Took(sw, chan, n, in, s),
         Output(n, s), chan' = Carried(n, in, s)
  PROVE  CiInv'
<1> DEFINE t == [s EXCEPT !.wire = [p \in PortOf[n] |-> <<>>], !.ctrl = [p \in PortOf[n] |-> <<>>]]
<1>1. SystemOK(sw, chan, hostPaused) /\ DOMAIN sw = Switch
  BY DEF CiInv, SystemOK
<1>2. Moved(chan, chan', n, in, s)
  BY DEF Carried, Moved
<1>3. Cleared(s, t, n)
  BY DEF Cleared
<1>4. /\ hostPaused' = hostPaused /\ sent' = sent /\ received' = received /\ settings' = settings
      /\ sw' = [sw EXCEPT ![n] = t]
  BY DEF Output
<1> HIDE DEF t
<1>5. DOMAIN sw' = Switch /\ sw'[n] = t /\ \A k \in Switch : k # n => sw'[k] = sw[k]
  BY <1>1, <1>4
<1>6. SystemOK(sw', chan', hostPaused)
  BY <1>1, <1>2, <1>3, <1>5, SwitchStep
<1>7. SystemOK(sw', chan', hostPaused')
  BY <1>4, <1>6
<1>8. SystemOK(sw, chan, hostPaused)'
  BY <1>4, <1>7, SettingsKept
<1> QED BY <1>4, <1>8 DEF CiInv, Packets

\* Between handlers, every switch is sane.
LEMMA Wellness ==
  ASSUME CiInv, NEW n \in Switch
  PROVE  /\ Sane(sw[n], n, Reaching(n, sw, chan, hostPaused))
         /\ Reaching(n, sw, chan, hostPaused) \in [PortOf[n] -> [Root -> BOOLEAN]]
         /\ sw[n].wire = [p \in PortOf[n] |-> <<>>] /\ sw[n].ctrl = [p \in PortOf[n] |-> <<>>]
<1>1. SwitchOK(n, sw, chan, hostPaused)
  BY DEF CiInv, SystemOK
<1> QED BY <1>1, ReachingAt DEF SwitchOK

LEMMA NoLink == <<>> \notin Link
<1> SUFFICES ASSUME <<>> \in Link PROVE FALSE
  OBVIOUS
<1>1. <<>> = <<<<>>[1], <<>>[2]>>
  BY LinkPair
<1>2. Len(<<<<>>[1], <<>>[2]>>) = 2 /\ Len(<<>>) = 0
  OBVIOUS
<1> QED BY <1>1, <1>2

\* A handler that takes no item off a link.
LEMMA OwnStep ==
  ASSUME CiInv, UNCHANGED settings, NEW n \in Switch, NEW s,
         Sane(s, n, Reaching(n, sw, chan, hostPaused)), s.paused = sw[n].paused,
         Output(n, s), chan' = Carried(n, <<>>, s)
  PROVE  CiInv'
<1>1. Took(sw, chan, n, <<>>, s)
  BY NoLink DEF Took
<1> QED BY <1>1, HandlerStep

LEMMA RoundStep ==
  ASSUME CiInv, UNCHANGED settings, NEW n \in Switch, DoHierQRR(n)
  PROVE  CiInv'
<1> DEFINE B == Reaching(n, sw, chan, hostPaused)
           v == sw[n]
           s == [v EXCEPT !.hier = Queued(v, n)]
<1>1. Sane(v, n, B) /\ B \in [PortOf[n] -> [Root -> BOOLEAN]]
  BY Wellness
<1>2. PICK idle : /\ Output(n, Round(s, n, idle))
                  /\ chan' = Carried(n, <<>>, Round(s, n, idle))
  BY DEF DoHierQRR
<1> HIDE DEF v
<1>3. v \in State(n) /\ InPlace(v, n)
  BY <1>1 DEF Sane
<1>4. Queued(v, n) \in BOOLEAN /\ (Queued(v, n) \/ \A p \in PortOf[n], r \in Root : v.ciq[p][r] = <<>>)
  BY DEF Queued
<1> DEFINE q == Queued(v, n)
<1> HIDE DEF q
<1>5. s = [v EXCEPT !.hier = q]
  BY DEF q
<1> HIDE DEF s
<1>6. /\ s \in State(n) /\ s.entries = v.entries /\ s.rootChild = v.rootChild /\ s.oq = v.oq
      /\ s.ciq = v.ciq /\ s.paused = v.paused /\ s.hier = q /\ s.wire = v.wire /\ s.ctrl = v.ctrl
  <2>1. q \in BOOLEAN
    BY <1>4 DEF q
  <2> QED BY <1>3, <1>5, <2>1, StateOf
<1>7. InPlace(s, n)
  BY <1>3, <1>6 DEF InPlace
<1>8. s.hier \/ \A p \in PortOf[n], r \in Root : v.ciq[p][r] = <<>>
  BY <1>4, <1>6 DEF q
<1>9. Sane(s, n, B)
  BY <1>1, <1>6, <1>7, <1>8, QueuesSane
<1> HIDE DEF B
<1>10. Sane(Round(s, n, idle), n, B) /\ Round(s, n, idle).paused = v.paused
  BY <1>1, <1>6, <1>9, RoundSane
<1> QED BY <1>2, <1>10, OwnStep DEF B, v

LEMMA TransmitStep ==
  ASSUME CiInv, UNCHANGED settings, NEW n \in Switch, NEW port \in PortOf[n], Transmit(n, port)
  PROVE  CiInv'
<1> DEFINE B == Reaching(n, sw, chan, hostPaused)
           t == TransmitFrom(sw[n], n, port)
<1>1. Sane(sw[n], n, B) /\ B \in [PortOf[n] -> [Root -> BOOLEAN]]
  BY Wellness
<1>2. sw[n].oq[port] # <<>> /\ Output(n, t) /\ chan' = Carried(n, <<>>, t)
  BY DEF Transmit
<1>3. Sane(t, n, B) /\ t.paused = sw[n].paused
  BY <1>1, <1>2, TransmitSane
<1> HIDE DEF t
<1> QED BY <1>2, <1>3, OwnStep

\* What is first on a link is a signal or a packet its sender may send there.
LEMMA FirstOnLink ==
  ASSUME CiInv, NEW a, NEW b, <<a, b>> \in Link, chan[<<a, b>>] # <<>>, NEW item,
         item = Head(chan[<<a, b>>])
  PROVE  IF item.kind = "DATA" THEN item \in Leaving(a, b) ELSE item \in SignalOn(a, b)
<1> DEFINE l == <<a, b>>
<1>1. chan[l] \in Seq(Carries(l[1], l[2]))
  BY DEF CiInv, SystemOK, LinksOK
<1>2. l[1] = a /\ l[2] = b
  OBVIOUS
<1> HIDE DEF l
<1>3. item \in Carries(a, b)
  BY <1>1, <1>2 DEF l
<1>4. item \in SignalOn(a, b) => item.kind # "DATA"
  BY DEF SignalOn, Signal
<1>5. item \in Leaving(a, b) => item.kind = "DATA"
  BY DEF Leaving, Packet
<1> QED BY <1>3, <1>4, <1>5 DEF Carries

LEMMA ReceiveStep ==
  ASSUME CiInv, UNCHANGED settings, NEW m, NEW n \in Switch, <<m, n>> \in Link, Receive(m, n)
  PROVE  CiInv'
<1> DEFINE B == Reaching(n, sw, chan, hostPaused)
           v == sw[n]
           item == Head(chan[<<m, n>>])
           s == IF item.kind = "DATA" THEN ReceiveData(v, n, item) ELSE ReceiveCI(v, n, m, item)
<1>1. Sane(v, n, B) /\ B \in [PortOf[n] -> [Root -> BOOLEAN]]
  BY Wellness
<1>2. chan[<<m, n>>] # <<>> /\ Output(n, s) /\ chan' = Carried(n, <<m, n>>, s)
  BY DEF Receive
<1>3. IF item.kind = "DATA" THEN item \in Leaving(m, n) ELSE item \in SignalOn(m, n)
  BY <1>2, FirstOnLink
<1>4. Sane(s, n, B) /\ PausedBy(v, s, n, m, item)
  <2>1. CASE item.kind = "DATA"
    <3> DEFINE t == ReceiveData(v, n, item)
    <3>1. s = t
      BY <2>1
    <3> HIDE DEF s, item, v, B
    <3>2. Sane(t, n, B) /\ t.paused = v.paused
      BY <1>1, <1>3, <2>1, ReceiveDataSane
    <3> HIDE DEF t
    <3>3. PausedBy(v, t, n, m, item)
      BY <2>1, <3>2 DEF PausedBy, Obeyed, Pauses, Resumes
    <3> QED BY <3>1, <3>2, <3>3
  <2>2. CASE item.kind # "DATA"
    <3> DEFINE t == ReceiveCI(v, n, m, item)
    <3>1. s = t
      BY <2>2
    <3> HIDE DEF s, item, v, B
    <3>2. Sane(t, n, B) /\ PausedBy(v, t, n, m, item)
      BY <1>1, <1>3, <2>2, ReceiveCISane
    <3> QED BY <3>1, <3>2
  <2> QED BY <2>1, <2>2
<1>5. Took(sw, chan, n, <<m, n>>, s)
  BY <1>2, <1>4 DEF Took
<1> HIDE DEF s
<1> QED BY <1>2, <1>4, <1>5, HandlerStep

\* The device of a host sends a packet.
LEMMA HostSends ==
  ASSUME CiInv, UNCHANGED settings, NEW f \in Flow, HostSend(f)
  PROVE  CiInv'
<1> DEFINE h == Path[f][1]
           p == Path[f][2]
           d == Data(f, sent[f])
<1>1. /\ Path[f] \in Seq(Switch \cup Host) /\ Len(Path[f]) > 2 /\ h \in Host
  BY CiParameters
<1>2. /\ sent[f] < Packets[f] /\ sent' = [sent EXCEPT ![f] = @ + 1]
      /\ chan' = [chan EXCEPT ![<<h, p>>] = Append(@, d)]
      /\ sw' = sw /\ hostPaused' = hostPaused /\ received' = received
  BY DEF HostSend, RootAt
<1>3. /\ SystemOK(sw, chan, hostPaused) /\ sent \in [Flow -> Nat] /\ settings \in Configuration
      /\ DOMAIN received = Flow
      /\ \A g \in Flow : /\ received[g] \in Seq(Nat)
                         /\ \A i \in DOMAIN received[g] : received[g][i] < Packets[g]
  BY DEF CiInv
<1>4. <<h, p>> \in Hops(f)
  BY <1>1, HopOf
<1>5. d \in Leaving(h, p)
  BY <1>2, <1>3, <1>4 DEF Leaving, Packet, Data
<1>6. <<h, p>> \in Link
  BY <1>4, LinkOf
<1> HIDE DEF h, p, d
<1>7. HostPut(chan, chan', h, p, d)
  BY <1>1, <1>2, <1>5, <1>6 DEF HostPut
<1>8. SystemOK(sw', chan', hostPaused')
  BY <1>2, <1>3, <1>7, HostSendStep
<1>9. SystemOK(sw, chan, hostPaused)'
  BY <1>8, SettingsKept
<1>10. sent' \in [Flow -> Nat]
  BY <1>2, <1>3
<1> QED BY <1>2, <1>3, <1>9, <1>10 DEF CiInv, Packets

\* A host takes a packet or obeys a signal; no dealloc comes to a host.
LEMMA HostReceives ==
  ASSUME CiInv, UNCHANGED settings, NEW m, NEW h \in Host, <<m, h>> \in Link, HostReceive(m, h)
  PROVE  CiInv'
<1> DEFINE item == Head(chan[<<m, h>>])
<1>1. /\ SystemOK(sw, chan, hostPaused) /\ sent \in [Flow -> Nat] /\ settings \in Configuration
      /\ hostPaused \in [Host -> SUBSET Root] /\ DOMAIN received = Flow
      /\ \A g \in Flow : /\ received[g] \in Seq(Nat)
                         /\ \A i \in DOMAIN received[g] : received[g][i] < Packets[g]
  BY DEF CiInv, SystemOK
<1>2. /\ chan[<<m, h>>] # <<>> /\ chan' = [chan EXCEPT ![<<m, h>>] = Tail(@)]
      /\ sw' = sw /\ sent' = sent
      /\ IF item.kind = "DATA"
           THEN /\ received' = [received EXCEPT ![item.flow] = Append(@, item.seq)]
                /\ hostPaused' = hostPaused
           ELSE /\ hostPaused' = [hostPaused EXCEPT ![h] =
                     CASE item.kind = "PAUSE"  -> @ \cup {item.root}
                       [] item.kind = "RESUME" -> @ \ {item.root}
                       [] item.kind = "MERGE"  -> @ \ {item.root, item.old}]
                /\ received' = received
  BY DEF HostReceive
<1>3. IF item.kind = "DATA" THEN item \in Leaving(m, h) ELSE item \in SignalOn(m, h)
  BY <1>2, FirstOnLink
<1>4. ASSUME item.kind = "DATA"
      PROVE  /\ \A r, b : b \in BOOLEAN => (Obeyed(item, r, b) <=> b)
             /\ DOMAIN received' = Flow
             /\ \A g \in Flow : /\ received'[g] \in Seq(Nat)
                                /\ \A i \in DOMAIN received'[g] : received'[g][i] < Packets[g]
  <2>1. item.flow \in Flow /\ item.seq \in Nat /\ item.seq < Packets[item.flow]
    BY <1>3, <1>4 DEF Leaving, Packet
  <2>2. received' = [received EXCEPT ![item.flow] = Append(@, item.seq)]
    BY <1>2, <1>4
  <2>3. \A r, b : b \in BOOLEAN => (Obeyed(item, r, b) <=> b)
    BY <1>4 DEF Obeyed, Pauses, Resumes
  <2> DEFINE f == item.flow
             k == item.seq
             w == received[f]
             P == Packets
  <2> HIDE DEF item
  <2>4. w \in Seq(Nat) /\ k \in Nat /\ k < P[f] /\ \A i \in DOMAIN w : w[i] < P[f]
    BY <1>1, <2>1
  <2> HIDE DEF f, k, w, P
  <2>5. Append(w, k) \in Seq(Nat) /\ \A i \in DOMAIN Append(w, k) : Append(w, k)[i] < P[f]
    BY <2>4
  <2>6. f \in Flow /\ received' = [received EXCEPT ![f] = Append(w, k)]
    BY <2>1, <2>2 DEF f, k, w
  <2>7. DOMAIN received' = Flow
    BY <1>1, <2>6
  <2>8. \A g \in Flow : received'[g] = IF g = f THEN Append(w, k) ELSE received[g]
    BY <1>1, <2>6
  <2> QED BY <1>1, <2>3, <2>5, <2>7, <2>8 DEF P
<1>5. HostTook(chan, chan', hostPaused, hostPaused', m, h)
  <2>1. CASE item.kind = "DATA"
    <3>1. hostPaused' = hostPaused
      BY <1>2, <2>1
    <3>2. \A r, b : b \in BOOLEAN => (Obeyed(item, r, b) <=> b)
      BY <1>4, <2>1
    <3>3. ASSUME NEW k \in Host, NEW r \in Root
          PROVE  r \in hostPaused'[k] <=> IF k = h THEN Obeyed(item, r, r \in hostPaused[k])
                                          ELSE r \in hostPaused[k]
      BY <2>1, <3>1 DEF Obeyed, Pauses, Resumes
    <3> QED BY <1>1, <1>2, <3>1, <3>3 DEF HostTook
  <2>2. CASE item.kind # "DATA"
    <3>1. item \in SignalOn(m, h)
      BY <1>3, <2>2
    <3> HIDE DEF item
    <3>2. item.kind # "DEALLOC"
      <4>1. item.kind = "DEALLOC" => <<m, h, item.root>> \in Tree
        BY <3>1 DEF SignalOn
      <4>2. <<m, h, item.root>> \in Tree => h \in Switch
        BY InTree
      <4> QED BY <4>1, <4>2, CiParameters
    <3>3. item.kind \in {"PAUSE", "RESUME", "MERGE"} /\ item.root \in Root
      BY <3>1, <3>2 DEF SignalOn, Signal
    <3> DEFINE G == hostPaused[h]
               X == CASE item.kind = "PAUSE"  -> G \cup {item.root}
                      [] item.kind = "RESUME" -> G \ {item.root}
                      [] item.kind = "MERGE"  -> G \ {item.root, item.old}
    <3>4. hostPaused' = [hostPaused EXCEPT ![h] = X]
      BY <1>2, <2>2
    <3>5. G \in SUBSET Root
      BY <1>1
    <3> HIDE DEF G
    <3>6. X \subseteq Root /\ \A r : r \in X <=> Obeyed(item, r, r \in G)
      <4>1. CASE item.kind = "PAUSE"
        BY <4>1, <3>3, <3>5 DEF Obeyed, Pauses, Resumes
      <4>2. CASE item.kind = "RESUME"
        BY <4>2, <3>3, <3>5 DEF Obeyed, Pauses, Resumes
      <4>3. CASE item.kind = "MERGE"
        BY <4>3, <3>3, <3>5 DEF Obeyed, Pauses, Resumes
      <4> QED BY <3>3, <4>1, <4>2, <4>3
    <3> HIDE DEF X
    <3>7. hostPaused' \in [Host -> SUBSET Root]
      BY <1>1, <3>4, <3>6
    <3>8. ASSUME NEW k \in Host, NEW r \in Root
          PROVE  r \in hostPaused'[k] <=> IF k = h THEN Obeyed(item, r, r \in hostPaused[k])
                                          ELSE r \in hostPaused[k]
      <4>1. CASE k = h
        <5>1. hostPaused'[k] = X /\ hostPaused[k] = G
          BY <4>1, <1>1, <3>4 DEF G
        <5> QED BY <5>1, <4>1, <3>6
      <4>2. CASE k # h
        BY <4>2, <1>1, <3>4
      <4> QED BY <4>1, <4>2
    <3> QED BY <1>2, <3>7, <3>8 DEF HostTook, item
  <2> QED BY <2>1, <2>2
<1>6. SystemOK(sw', chan', hostPaused')
  BY <1>1, <1>2, <1>5, HostStep
<1>7. SystemOK(sw, chan, hostPaused)'
  BY <1>6, SettingsKept
<1>8. \/ received' = received
      \/ /\ DOMAIN received' = Flow
         /\ \A g \in Flow : /\ received'[g] \in Seq(Nat)
                            /\ \A i \in DOMAIN received'[g] : received'[g][i] < Packets[g]
  BY <1>2, <1>4
<1> QED BY <1>1, <1>2, <1>7, <1>8 DEF CiInv, Packets

\* An event preserves the invariant.
LEMMA EventKeeps == CiInv /\ [Next]_vars => CiInv'
<1> SUFFICES ASSUME CiInv, [Next]_vars PROVE CiInv'
  OBVIOUS
<1>1. CASE UNCHANGED vars
  <2>1. SystemOK(sw, chan, hostPaused)'
    BY <1>1, SettingsKept DEF CiInv, vars
  <2> QED BY <1>1, <2>1 DEF CiInv, vars, Packets
<1>2. CASE Next
  <2>1. UNCHANGED settings
    BY <1>2 DEF Next, NextBesides
  <2>2. ASSUME NEW f \in Flow, HostSend(f) PROVE CiInv'
    BY <2>1, <2>2, HostSends
  <2>3. ASSUME NEW l \in Link, l[2] \in Host, HostReceive(l[1], l[2]) PROVE CiInv'
    <3>1. <<l[1], l[2]>> \in Link
      BY LinkPair
    <3> QED BY <2>1, <2>3, <3>1, HostReceives
  <2>4. ASSUME NEW l \in Link, l[2] \in Switch, Receive(l[1], l[2]) PROVE CiInv'
    <3>1. <<l[1], l[2]>> \in Link
      BY LinkPair
    <3> QED BY <2>1, <2>4, <3>1, ReceiveStep
  <2>5. ASSUME NEW l \in Link, l[1] \in Switch, Transmit(l[1], l[2]) PROVE CiInv'
    <3>1. l[2] \in PortOf[l[1]]
      BY <2>5, LinkPair, Ports
    <3> QED BY <2>1, <2>5, <3>1, TransmitStep
  <2>6. ASSUME NEW n \in Switch, DoHierQRR(n) PROVE CiInv'
    BY <2>1, <2>6, RoundStep
  <2> QED BY <1>2, <2>2, <2>3, <2>4, <2>5, <2>6 DEF Next, NextBesides
<1> QED BY <1>1, <1>2


-----------------------------------------------------------------------------
(* What the invariant says *)

LEMMA InvTypes == CiInv => TypeOK
<1> SUFFICES ASSUME CiInv PROVE TypeOK
  OBVIOUS
<1>1. ASSUME NEW n \in Switch
      PROVE  /\ \A r \in DOMAIN sw[n].entries : r \in Root /\ sw[n].entries[r] \in EntryOf(n)
             /\ \A p \in PortOf[n] :
                  /\ sw[n].rootChild[p] \in Children(n)
                  /\ sw[n].paused[p] \subseteq Root
                  /\ sw[n].wire[p] = <<>> /\ sw[n].ctrl[p] = <<>>
             /\ sw[n].hier \in BOOLEAN
  <2> DEFINE s == sw[n]
  <2>1. /\ s \in State(n) /\ Counted(s, n)
        /\ s.wire = [p \in PortOf[n] |-> <<>>] /\ s.ctrl = [p \in PortOf[n] |-> <<>>]
    BY Wellness DEF Sane
  <2> HIDE DEF s
  <2>2. ASSUME NEW r \in DOMAIN s.entries PROVE r \in Root /\ s.entries[r] \in EntryOf(n)
    <3> DEFINE e == s.entries[r]
    <3>1. r \in Root /\ e \in Entry(n)
      BY <2>1, EntryAt
    <3>2. ASSUME NEW in \in PortOf[n] PROVE e.counter[in] \in Nat
      <4> DEFINE T == Held(s, n, r, in)
      <4>1. IsFiniteSet(T) /\ e.counter[in] = Cardinality(T)
        BY <2>1, <3>1 DEF Counted
      <4> HIDE DEF T
      <4>2. Cardinality(T) \in Nat
        BY <4>1, FS_CardinalityType
      <4> QED BY <4>1, <4>2
    <3> HIDE DEF e
    <3>3. e.counter \in [PortOf[n] -> Nat]
      BY <3>1, <3>2 DEF Entry
    <3>4. e \in EntryOf(n)
      BY <3>1, <3>3 DEF Entry, EntryOf
    <3> QED BY <3>1, <3>4 DEF e
  <2>3. ASSUME NEW p \in PortOf[n]
        PROVE  s.rootChild[p] \in Children(n) /\ s.paused[p] \subseteq Root
    BY <2>1, StateOf
  <2>4. s.hier \in BOOLEAN
    BY <2>1, StateOf
  <2> QED BY <2>1, <2>2, <2>3, <2>4 DEF s
<1>2. ASSUME NEW l \in Link, NEW i \in DOMAIN chan[l] PROVE chan[l][i] \in Item
  <2>1. chan[l] \in Seq(Carries(l[1], l[2]))
    BY DEF CiInv, SystemOK, LinksOK
  <2>2. chan[l][i] \in Carries(l[1], l[2])
    BY <2>1
  <2> QED BY <2>2 DEF Carries, SignalOn, Leaving, Packet, Item
<1>3. /\ hostPaused \in [Host -> SUBSET Root] /\ sent \in [Flow -> Nat]
      /\ \A f \in Flow : \A i \in DOMAIN received[f] : received[f][i] < Packets[f]
  BY DEF CiInv, SystemOK
<1> QED BY <1>1, <1>2, <1>3 DEF TypeOK

LEMMA InvServed == CiInv => CiqServed
<1> SUFFICES ASSUME CiInv PROVE CiqServed
  OBVIOUS
<1>1. \A n \in Switch : Served(sw[n], n)
  BY Wellness DEF Sane
<1> QED BY <1>1 DEF Served, CiqServed

LEMMA InvCounter == CiInv => CounterExact
<1> SUFFICES ASSUME CiInv PROVE CounterExact
  OBVIOUS
<1>1. \A n \in Switch : Counted(sw[n], n)
  BY Wellness DEF Sane
<1> QED BY <1>1 DEF Counted, CounterExact

LEMMA InvStatus == CiInv => StatusAgrees
<1> SUFFICES ASSUME CiInv PROVE StatusAgrees
  OBVIOUS
<1>1. \A n \in Switch : Agree(sw[n], n)
  BY Wellness DEF Sane
<1> QED BY <1>1 DEF Agree, StatusAgrees

LEMMA InvAgreement == CiInv => PauseAgreement
<1> SUFFICES ASSUME CiInv, NEW n \in Switch, NEW up \in PortOf[n], NEW r \in Root
             PROVE  Recorded(n, up, r)
                      = PausedAfter(chan[<<n, up>>], r,
                                    IF up \in Host THEN r \in hostPaused[up] ELSE r \in sw[up].paused[n])
  BY DEF PauseAgreement
<1> DEFINE B == Reaching(n, sw, chan, hostPaused)
           b == IF up \in Host THEN r \in hostPaused[up] ELSE r \in sw[up].paused[n]
<1>1. Told(sw[n], n, B) /\ sw[n].ctrl[up] = <<>>
  <2>1. Sane(sw[n], n, B)
    BY Wellness
  <2>2. Told(sw[n], n, B)
    BY <2>1 DEF Sane
  <2>3. sw[n].ctrl[up] = <<>>
    BY Wellness
  <2> QED BY <2>2, <2>3
<1>2. B[up][r] <=> PausedAfter(chan[<<n, up>>], r, r \in PausedAt(up, n, sw, hostPaused))
  BY ReachingAt
<1>3. (r \in PausedAt(up, n, sw, hostPaused)) <=> b
  BY DEF PausedAt
<1>4. PausedAfter(chan[<<n, up>>], r, r \in PausedAt(up, n, sw, hostPaused))
        <=> PausedAfter(chan[<<n, up>>], r, b)
  BY <1>3 DEF PausedAfter
<1>5. RecordedIn(sw[n], n, up, r) <=> PausedAfter(<<>>, r, B[up][r])
  BY <1>1 DEF Told
<1> HIDE DEF B, b
<1>6. PausedAfter(<<>>, r, B[up][r]) <=> B[up][r]
  BY DEF PausedAfter
<1>7. Recorded(n, up, r) <=> RecordedIn(sw[n], n, up, r)
  BY DEF Recorded, RecordedIn
<1>8. Recorded(n, up, r) <=> PausedAfter(chan[<<n, up>>], r, b)
  BY <1>2, <1>4, <1>5, <1>6, <1>7
<1>9. Recorded(n, up, r) \in BOOLEAN
  <2>1. r[1] = n /\ up \in DOMAIN sw[n].rootChild[r[2]] => sw[n].rootChild[r[2]][up] \in BOOLEAN
    <3>1. ASSUME r[1] = n, up \in DOMAIN sw[n].rootChild[r[2]]
          PROVE  sw[n].rootChild[r[2]][up] \in BOOLEAN
      <4>1. r[2] \in PortOf[n]
        BY <3>1, RootEnds
      <4>2. sw[n].rootChild[r[2]] \in Children(n)
        BY <4>1, InvTypes DEF TypeOK
      <4> QED BY <3>1, <4>2, ChildMap
    <3> QED BY <3>1
  <2>2. r \in DOMAIN sw[n].entries /\ up \in DOMAIN sw[n].entries[r].child
          => sw[n].entries[r].child[up] \in BOOLEAN
    <3>1. r \in DOMAIN sw[n].entries => sw[n].entries[r].child \in Children(n)
      BY InvTypes DEF TypeOK, EntryOf
    <3> QED BY <3>1, ChildMap
  <2> QED BY <2>1, <2>2 DEF Recorded, IsTrue
<1>10. PausedAfter(chan[<<n, up>>], r, b) \in BOOLEAN
  BY DEF PausedAfter
<1> QED BY <1>8, <1>9, <1>10 DEF b

-----------------------------------------------------------------------------
(* The theorems *)

\* After every event each switch of the fabric is sane: its entries, CIQs,
\* counters, m_paused and oport_status fit together, a packet is only where
\* its path leads, and what the switch has on record of each upstream device
\* is what the signals on the link will make of that device.
THEOREM Invariance == Spec => []CiInv
<1>1. Init => CiInv
  BY Initially
<1>2. CiInv /\ [Next]_vars => CiInv'
  BY EventKeeps
<1> QED BY <1>1, <1>2, PTL DEF Spec

\* Every variable has its type; iport_counter, which is unsigned in the code
\* and counted down by NotifyDequeueFromCIQ, is never below zero.
THEOREM TypeCorrect == Spec => []TypeOK
<1> QED BY Invariance, InvTypes, PTL

\* The assertions of NotifyDequeueFromCIQ and DoHierQRR hold: a CIQ is
\* released (CheckAndSendDealloc, ReleaseMergeCIQEntry) only when it is empty,
\* and while it holds a packet a round of DoHierQRR is scheduled.
THEOREM NoCiqAbandoned == Spec => []CiqServed
<1> QED BY Invariance, InvServed, PTL

\* iport_counter, which CheckCIQPause and CheckCIQResume compare with their
\* thresholds, is the number of packets the CIQs of the root hold from the
\* upstream device, whatever pauses, merges and releases there have been.
THEOREM CountersExact == Spec => []CounterExact
<1> QED BY Invariance, InvCounter, PTL

\* m_paused of a device, which DoHierQRR reads, and oport_status, which
\* decides on releases and signals, say the same of every CIQ.
THEOREM StatusesAgree == Spec => []StatusAgrees
<1> QED BY Invariance, InvStatus, PTL

\* Both ends of every link agree on every root, counted the signals on their
\* way: whatever pauses, resumes, deallocs and merges cross, no switch or host
\* stays paused that its downstream switch believes to be running, or runs
\* when it is believed to be paused.
THEOREM PausesAgree == Spec => []PauseAgreement
<1> QED BY Invariance, InvAgreement, PTL

-----------------------------------------------------------------------------
(***************************************************************************)
(* Congestion isolation keeps the packets of a flow in order, for every    *)
(* fabric, set of flows and settings.  At a switch the packets of a flow   *)
(* may lie in several queues at once: at the port of the flow, the default *)
(* queue and the CIQs of the roots on its path.  Earlier packets are in    *)
(* the queues of nearer roots; a packet that comes in enters the farthest  *)
(* CIQ and a packet moves on to the next nearer one, so none is overtaken. *)
(***************************************************************************)

(* The line a flow forms at a switch *)

\* The flows that leave by a port of switch n, and their queues there: what
\* is on the wire, the OQ, and the CIQs of the roots on the path, nearest first.
Through(n) == {f \in Flow : <<n, NextHop(n, f)>> \in Hops(f)}
Depth(n, f) == Len(Path[f]) - Pos(n, f)
Lane(s, n, f) ==
  [k \in 0 .. Depth(n, f) |->
     IF k = 0 THEN s.wire[NextHop(n, f)]
     ELSE IF k = 1 THEN s.oq[NextHop(n, f)]
     ELSE s.ciq[NextHop(n, f)][RootAt(f, Pos(n, f) + k - 1)]]

SwitchLine(s, n, f) == InLine(Lane(s, n, f), Depth(n, f), f)
Inside(s, n, f) == Content(Lane(s, n, f), Depth(n, f), f)

\* A step within a switch keeps the line of a flow and the packets in it.
KeepsFlow(s, t, n, f) ==
  SwitchLine(s, n, f) => SwitchLine(t, n, f) /\ Inside(t, n, f) = Inside(s, n, f)
KeepsLines(s, t, n) == \A f \in Through(n) : KeepsFlow(s, t, n, f)

LEMMA FlowThrough ==
  ASSUME NEW n \in Switch, NEW f \in Flow, NEW p
  PROVE  <<n, p>> \in Hops(f) => f \in Through(n) /\ p = NextHop(n, f)
  BY HopOut DEF Through

LEMMA LanePlaces ==
  ASSUME NEW n \in Switch, NEW f \in Through(n), NEW p, p = NextHop(n, f),
         NEW i, i = Pos(n, f), NEW K, K = Depth(n, f)
  PROVE  /\ f \in Flow /\ p \in PortOf[n] /\ Len(Path[f]) \in Nat /\ i \in 2 .. Len(Path[f]) - 1
         /\ K \in Nat /\ K > 0 /\ K = Len(Path[f]) - i
         /\ \A j \in i + 1 .. Len(Path[f]) - 1 : j \in Int /\ RootAt(f, j) \in Root /\ j - i + 1 \in 2 .. K
         /\ \A k \in 2 .. K : i + k - 1 \in i + 1 .. Len(Path[f]) - 1 /\ (i + k - 1) - i + 1 = k
<1>1. f \in Flow /\ <<n, p>> \in Hops(f)
  BY DEF Through
<1>2. p \in PortOf[n] /\ i \in 2 .. Len(Path[f]) - 1 /\ Len(Path[f]) \in Nat
  BY <1>1, HopOut, CiParameters
<1>3. K = Len(Path[f]) - i
  BY DEF Depth
<1> DEFINE m == Len(Path[f])
<1>4. ASSUME NEW j \in i + 1 .. m - 1 PROVE RootAt(f, j) \in Root
  <2>1. j \in 2 .. Len(Path[f]) - 1
    BY <1>2
  <2> QED BY <1>1, <2>1, RootOnPath
<1>5. m \in Nat /\ i \in 2 .. m - 1 /\ K = m - i
  BY <1>2, <1>3
<1> HIDE DEF m
<1>6. /\ i \in Int /\ K \in Nat /\ K > 0
      /\ \A j \in i + 1 .. m - 1 : j \in Int /\ j - i + 1 \in 2 .. K
      /\ \A k \in 2 .. K : i + k - 1 \in i + 1 .. m - 1 /\ (i + k - 1) - i + 1 = k
  BY <1>5
<1> QED BY <1>1, <1>2, <1>3, <1>4, <1>6 DEF m

LEMMA LaneAt ==
  ASSUME NEW n \in Switch, NEW f \in Through(n), NEW s, NEW q, q = Lane(s, n, f),
         NEW p, p = NextHop(n, f), NEW i, i = Pos(n, f), NEW K, K = Depth(n, f)
  PROVE  /\ q[0] = s.wire[p] /\ q[1] = s.oq[p]
         /\ \A j \in i + 1 .. Len(Path[f]) - 1 : q[j - i + 1] = s.ciq[p][RootAt(f, j)]
         /\ \A k \in 2 .. K : q[k] = s.ciq[p][RootAt(f, i + k - 1)]
<1>1. /\ i \in 2 .. Len(Path[f]) - 1 /\ K \in Nat /\ K > 0
      /\ \A j \in i + 1 .. Len(Path[f]) - 1 : j - i + 1 \in 2 .. K /\ j \in Int
  BY LanePlaces
<1>2. q = [k \in 0 .. K |-> IF k = 0 THEN s.wire[p] ELSE IF k = 1 THEN s.oq[p]
                            ELSE s.ciq[p][RootAt(f, i + k - 1)]]
  BY DEF Lane
<1>3. q[0] = s.wire[p] /\ q[1] = s.oq[p]
  BY <1>1, <1>2
<1>4. \A k \in 2 .. K : q[k] = s.ciq[p][RootAt(f, i + k - 1)]
  BY <1>1, <1>2
<1>5. ASSUME NEW j \in i + 1 .. Len(Path[f]) - 1 PROVE q[j - i + 1] = s.ciq[p][RootAt(f, j)]
  <2>1. j - i + 1 \in 2 .. K /\ i + (j - i + 1) - 1 = j
    BY <1>1
  <2> QED BY <2>1, <1>4
<1> QED BY <1>3, <1>4, <1>5

LEMMA LaneTypes ==
  ASSUME NEW n \in Switch, NEW f \in Through(n), NEW s \in State(n)
  PROVE  Filled(Lane(s, n, f), Depth(n, f), Packet)
<1> DEFINE q == Lane(s, n, f)
           p == NextHop(n, f)
           i == Pos(n, f)
           K == Depth(n, f)
<1>1. /\ s.oq \in [PortOf[n] -> Seq(Packet)] /\ s.wire \in [PortOf[n] -> Seq(Packet)]
      /\ s.ciq \in [PortOf[n] -> [Root -> Seq(Packet)]]
  BY StateOf
<1>2. /\ q[0] = s.wire[p] /\ q[1] = s.oq[p]
      /\ \A k \in 2 .. K : q[k] = s.ciq[p][RootAt(f, i + k - 1)]
  BY LaneAt
<1>3. /\ p \in PortOf[n] /\ K \in Nat
      /\ \A k \in 2 .. K : RootAt(f, i + k - 1) \in Root
  BY LanePlaces
<1> HIDE DEF q, p, i, K
<1>4. \A k \in 0 .. K : k = 0 \/ k = 1 \/ k \in 2 .. K
  BY <1>3
<1>5. \A k \in 0 .. K : q[k] \in Seq(Packet)
  BY <1>1, <1>2, <1>3, <1>4
<1> QED BY <1>5 DEF q, K, Filled

\* The roots on a path differ.
LEMMA RootsDiffer ==
  ASSUME NEW f \in Flow, NEW j \in 1 .. Len(Path[f]) - 1, NEW k \in 1 .. Len(Path[f]) - 1,
         RootAt(f, j) = RootAt(f, k)
  PROVE  j = k
<1>1. Path[f][j] = Path[f][k]
  BY DEF RootAt
<1>2. j \in DOMAIN Path[f] /\ k \in DOMAIN Path[f] /\ IsInjective(Path[f])
  BY CiParameters
<1> QED BY <1>1, <1>2 DEF IsInjective

\* No queue of the switch changes for a flow.
AlikeIn(s, t, n, f) ==
  \A p \in PortOf[n] :
    /\ Alike(s.wire[p], t.wire[p], f) /\ Alike(s.oq[p], t.oq[p], f)
    /\ \A r \in Root : Alike(s.ciq[p][r], t.ciq[p][r], f)

LEMMA AlikeKeeps ==
  ASSUME NEW n \in Switch, NEW f \in Through(n), NEW s, NEW t, AlikeIn(s, t, n, f)
  PROVE  KeepsFlow(s, t, n, f)
<1> DEFINE q == Lane(s, n, f)
           w == Lane(t, n, f)
           p == NextHop(n, f)
           i == Pos(n, f)
           K == Depth(n, f)
<1>1. /\ q[0] = s.wire[p] /\ q[1] = s.oq[p]
      /\ \A k \in 2 .. K : q[k] = s.ciq[p][RootAt(f, i + k - 1)]
  BY LaneAt
<1>2. /\ w[0] = t.wire[p] /\ w[1] = t.oq[p]
      /\ \A k \in 2 .. K : w[k] = t.ciq[p][RootAt(f, i + k - 1)]
  BY LaneAt
<1>3. /\ p \in PortOf[n] /\ K \in Nat
      /\ \A k \in 2 .. K : RootAt(f, i + k - 1) \in Root
  BY LanePlaces
<1> HIDE DEF q, w, p, i, K
<1>4. \A k \in 0 .. K : k = 0 \/ k = 1 \/ k \in 2 .. K
  BY <1>3
<1>5. \A k \in 0 .. K : Alike(q[k], w[k], f)
  BY <1>1, <1>2, <1>3, <1>4 DEF AlikeIn
<1>6. (InLine(q, K, f) => InLine(w, K, f)) /\ Content(w, K, f) = Content(q, K, f)
  BY <1>5, LineAlike
<1> QED BY <1>6 DEF KeepsFlow, SwitchLine, Inside, q, w, K

SameQueues(s, t) == t.oq = s.oq /\ t.ciq = s.ciq /\ t.wire = s.wire

LEMMA SameKeeps ==
  ASSUME NEW n, NEW s, NEW t, SameQueues(s, t)
  PROVE  /\ KeepsLines(s, t, n)
         /\ \A f : Lane(t, n, f) = Lane(s, n, f)
<1>1. \A f : Lane(t, n, f) = Lane(s, n, f)
  BY DEF Lane, SameQueues
<1> QED BY <1>1 DEF KeepsLines, KeepsFlow, SwitchLine, Inside

LEMMA KeepsTwice ==
  ASSUME NEW n, NEW s, NEW t, NEW u, KeepsLines(s, t, n), KeepsLines(t, u, n)
  PROVE  KeepsLines(s, u, n)
  BY DEF KeepsLines, KeepsFlow

-----------------------------------------------------------------------------
(* A step of a round *)

\* The fields of the queues are there.
HasQueues(s) == {"oq", "ciq", "wire"} \subseteq DOMAIN s

LEMMA StateHasQueues ==
  ASSUME NEW n, NEW s \in State(n)
  PROVE  HasQueues(s)
  BY StateOf DEF HasQueues

LEMMA NotifyOQQueues ==
  ASSUME NEW s, HasQueues(s), NEW n, NEW in, NEW port, NEW k
  PROVE  /\ SameQueues(s, NotifyEnqueueIntoOQ(s, n, in, port, k))
         /\ HasQueues(NotifyEnqueueIntoOQ(s, n, in, port, k))
         /\ SameQueues(s, NotifyDequeueFromOQ(s, n, port))
<1>1. /\ SameQueues(s, NotifyEnqueueIntoOQ(s, n, in, port, k))
      /\ HasQueues(NotifyEnqueueIntoOQ(s, n, in, port, k))
  BY DEF NotifyEnqueueIntoOQ, SetRootChild, Schedule, HasQueues, SameQueues
<1>2. SameQueues(s, NotifyDequeueFromOQ(s, n, port))
  BY DEF NotifyDequeueFromOQ, HasQueues, SameQueues
<1> QED BY <1>1, <1>2

\* The head of a CIQ goes to the OQ or to another CIQ.
ToOQ(s, u, port, r, d) ==
  /\ u.wire = s.wire /\ u.oq = [s.oq EXCEPT ![port] = Append(@, d)]
  /\ u.ciq = [s.ciq EXCEPT ![port][r] = Tail(@)]

ToCIQ(s, u, port, r, next, d) ==
  /\ u.wire = s.wire /\ u.oq = s.oq
  /\ u.ciq = [[s.ciq EXCEPT ![port][r] = Tail(@)] EXCEPT ![port][next] = Append(@, d)]

\* A move of packet d, for whose flow the matches are m.
MovesOn(s, u, n, port, r, d) ==
  LET m == Matches(s, n, d.flow, Dist[n][r])
      next == RootAt(d.flow, Max(m))
  IN  /\ s.ciq[port][r] # <<>> /\ d = Head(s.ciq[port][r]) /\ d \in Waiting(n, port, r)
      /\ m = {} => ToOQ(s, u, port, r, d)
      /\ m # {} => /\ next \in Root /\ next # r /\ ToCIQ(s, u, port, r, next, d)

LEMMA MoveOneMoves ==
  ASSUME NEW n \in Switch, NEW before \in [PortOf[n] -> [Root -> BOOLEAN]],
         NEW s, Sane(s, n, before), NEW port \in PortOf[n], NEW r \in Root, NEW u,
         u = MoveOne(s, n, port, r)
  PROVE  u = s \/ \E d : MovesOn(s, u, n, port, r, d)
<1> DEFINE d == Head(s.ciq[port][r])
           in == PrevHop(n, d.flow)
           m == Matches(s, n, d.flow, s.entries[r].hop)
           next == RootAt(d.flow, Max(m))
           t == NotifyDequeueFromCIQ([s EXCEPT !.ciq[port][r] = Tail(@)], n, in, port, r)
<1>1. CASE s.ciq[port][r] = <<>> \/ r \in s.paused[port]
  BY <1>1 DEF MoveOne
<1>2. CASE ~ (s.ciq[port][r] = <<>> \/ r \in s.paused[port])
  <2>1. u = IF m = {}
              THEN [NotifyEnqueueIntoOQ(t, n, in, port, Len(t.oq[port])) EXCEPT !.oq[port] = Append(@, d)]
              ELSE [NotifyEnqueueIntoCIQ(t, in, port, next) EXCEPT !.ciq[port][next] = Append(@, d)]
    BY <1>2 DEF MoveOne
  <2>2. /\ d \in Waiting(n, port, r) /\ r \in DOMAIN s.entries /\ s.hier
        /\ Sane(t, n, before) /\ t.hier = s.hier
        /\ \A x \in DOMAIN s.entries \ {r} :
             x \in DOMAIN t.entries /\ t.entries[x] = s.entries[x]
        /\ CiqLess(s, t, port, r) /\ t.oq = s.oq /\ t.wire = s.wire
    <3> HIDE DEF t, d, in
    <3>1. DequeuedCIQ(s, t, n, port, r, d)
      BY DEF t, d, in, DequeuedCIQ
    <3> QED BY <1>2, <3>1, DequeueCIQSane
  <2>3. s.entries[r].hop = Dist[n][r] /\ s.entries[r] \in Entry(n)
    BY <2>2, EntryAt DEF Sane, OnTree
  <2>4. m = Matches(s, n, d.flow, Dist[n][r])
    BY <2>3
  <2>5. s.ciq[port][r] # <<>> /\ d = Head(s.ciq[port][r])
    BY <1>2
  <2> HIDE DEF t, d, m
  <2>6. d \in Leaving(n, port)
    BY <2>2, WaitingFacts
  <2>7. CASE m = {}
    <3> DEFINE len == Len(t.oq[port])
               v == NotifyEnqueueIntoOQ(t, n, PrevHop(n, d.flow), port, len)
    <3>1. u = [v EXCEPT !.oq[port] = Append(@, d)]
      BY <2>1, <2>7
    <3>2. HasQueues(t)
      BY <2>2, StateHasQueues DEF Sane
    <3>3. SameQueues(t, v) /\ HasQueues(v)
      <4> HIDE DEF len
      <4> QED BY <3>2, NotifyOQQueues
    <3> HIDE DEF v
    <3>4. u.oq = [v.oq EXCEPT ![port] = Append(@, d)] /\ u.ciq = v.ciq /\ u.wire = v.wire
      BY <3>1, <3>3 DEF HasQueues
    <3>5. ToOQ(s, u, port, r, d)
      BY <2>2, <3>3, <3>4 DEF ToOQ, SameQueues, CiqLess
    <3> QED BY <2>2, <2>4, <2>5, <2>7, <3>5 DEF MovesOn
  <2>8. CASE m # {}
    <3>1. u = [NotifyEnqueueIntoCIQ(t, PrevHop(n, d.flow), port, next)
                 EXCEPT !.ciq[port][next] = Append(@, d)]
      BY <2>1, <2>8
    <3>2. /\ next \in DOMAIN s.entries /\ port \in s.entries[next].ciq
          /\ d \in Waiting(n, port, next) /\ Dist[n][next] < Dist[n][r]
      BY <2>4, <2>6, <2>8, Matched
    <3>3. next # r /\ next \in Root
      <4> HIDE DEF next
      <4>1. Dist[n][r] \in Nat
        BY <2>3 DEF Entry
      <4>2. next # r
        BY <3>2, <4>1
      <4>3. next \in Root
        BY <3>2, WaitingFacts
      <4> QED BY <4>2, <4>3
    <3>4. ToCIQ(s, u, port, r, next, d)
      <4> HIDE DEF next
      <4>1. next \in DOMAIN t.entries /\ port \in t.entries[next].ciq
        BY <2>2, <3>2, <3>3
      <4>2. EnqueuedCIQ(t, u, n, port, next, d)
        BY <2>2, <3>1 DEF EnqueuedCIQ
      <4>3. CiqMore(t, u, port, next, d) /\ u.oq = t.oq /\ u.wire = t.wire
        BY <2>2, <3>2, <4>1, <4>2, EnqueueCIQSane
      <4> QED BY <2>2, <4>3 DEF ToCIQ, CiqMore, CiqLess
    <3> QED BY <2>2, <2>4, <2>5, <2>8, <3>3, <3>4 DEF MovesOn
  <2> QED BY <2>7, <2>8
<1> QED BY <1>1, <1>2

\* Nothing is beyond the greatest of a set.
LEMMA MaxAbove ==
  ASSUME NEW k \in Nat, NEW S, S \subseteq 0 .. k, NEW j \in S
  PROVE  Max(S) \in S /\ j <= Max(S)
<1> DEFINE T == {k - i : i \in S}
<1>1. T \subseteq Nat /\ T # {}
  <2>1. \A i \in S : i \in 0 .. k /\ k - i \in Nat
    OBVIOUS
  <2> QED BY <2>1
<1>2. PICK x \in T : \A y \in T : x <= y
  <2> HIDE DEF T
  <2> QED BY <1>1, Smallest
<1>3. PICK i \in S : x = k - i
  BY <1>2
<1>4. ASSUME NEW l \in S PROVE i >= l
  <2>1. k - l \in T /\ i \in 0 .. k /\ l \in 0 .. k
    OBVIOUS
  <2>2. k - i <= k - l
    <3> HIDE DEF T
    <3> QED BY <2>1, <1>2, <1>3
  <2> QED BY <2>1, <2>2
<1>5. \E z \in S : \A y \in S : z >= y
  BY <1>4
<1>6. Max(S) \in S /\ \A y \in S : Max(S) >= y
  BY <1>5 DEF Max
<1> QED BY <1>6

\* The matches of a flow have a greatest, a root on its path.
LEMMA MatchesMax ==
  ASSUME NEW n \in Switch, NEW f \in Through(n), NEW s, NEW limit, NEW m,
         m = Matches(s, n, f, limit), NEW j \in m
  PROVE  Max(m) \in m /\ j <= Max(m)
<1>1. Len(Path[f]) \in Nat /\ Pos(n, f) \in 2 .. Len(Path[f]) - 1
  BY LanePlaces
<1>2. m \subseteq 0 .. Len(Path[f])
  BY <1>1 DEF Matches
<1> HIDE DEF Matches
<1> QED BY <1>1, <1>2, MaxAbove

\* A root with packets of the flow in its CIQ is a match.
LEMMA OccupiedMatch ==
  ASSUME NEW n \in Switch, NEW before, NEW s, Sane(s, n, before), NEW f \in Through(n),
         NEW j \in Pos(n, f) + 1 .. Len(Path[f]) - 1,
         Numbers(s.ciq[NextHop(n, f)][RootAt(f, j)], f) # {},
         NEW limit, j - Pos(n, f) < limit
  PROVE  j \in Matches(s, n, f, limit)
<1> DEFINE p == NextHop(n, f)
           r == RootAt(f, j)
<1>1. p \in PortOf[n] /\ r \in Root
  BY LanePlaces
<1>2. s.ciq[p][r] # <<>>
  <2>1. Numbers(<<>>, f) = {}
    BY NoNumbers
  <2> QED BY <2>1
<1>3. HasCIQ(s, r, p)
  BY <1>1, <1>2 DEF Sane, Served
<1> QED BY <1>3 DEF HasCIQ, Matches

\* For the other flows a move changes nothing.
LEMMA OthersAlike ==
  ASSUME NEW n \in Switch, NEW s \in State(n), NEW port \in PortOf[n], NEW r \in Root, NEW u, NEW d,
         MovesOn(s, u, n, port, r, d), NEW f, f # d.flow
  PROVE  AlikeIn(s, u, n, f)
<1> DEFINE m == Matches(s, n, d.flow, Dist[n][r])
           next == RootAt(d.flow, Max(m))
<1>1. /\ s.oq \in [PortOf[n] -> Seq(Packet)] /\ s.ciq \in [PortOf[n] -> [Root -> Seq(Packet)]]
      /\ d \in Packet /\ ~ IsOf(d, f)
  BY StateOf DEF MovesOn, IsOf, Waiting, Leaving
<1>2. /\ s.ciq[port][r] # <<>> /\ d = Head(s.ciq[port][r])
      /\ m = {} => ToOQ(s, u, port, r, d)
      /\ m # {} => next \in Root /\ next # r /\ ToCIQ(s, u, port, r, next, d)
  BY DEF MovesOn
<1> HIDE DEF m, next
<1>3. \A x : Alike(x, x, f)
  BY DEF Alike
<1>4. Alike(s.ciq[port][r], Tail(s.ciq[port][r]), f)
  BY <1>1, <1>2, OtherFlow
<1>5. \A x \in Seq(Packet) : Alike(x, Append(x, d), f)
  BY <1>1, OtherFlow
<1> DEFINE C == [s.ciq EXCEPT ![port][r] = Tail(@)]
<1>6. \A p \in PortOf[n], x \in Root : Alike(s.ciq[p][x], C[p][x], f)
  <2> SUFFICES ASSUME NEW p \in PortOf[n], NEW x \in Root
               PROVE  Alike(s.ciq[p][x], C[p][x], f)
    OBVIOUS
  <2>1. CASE p = port /\ x = r
    <3>1. C[p][x] = Tail(s.ciq[port][r])
      BY <1>1, <2>1
    <3> QED BY <1>4, <2>1, <3>1
  <2>2. CASE ~ (p = port /\ x = r)
    <3>1. C[p][x] = s.ciq[p][x]
      BY <1>1, <2>2
    <3> QED BY <1>3, <3>1
  <2> QED BY <2>1, <2>2
<1>7. CASE m = {}
  <2>1. u.wire = s.wire /\ u.oq = [s.oq EXCEPT ![port] = Append(@, d)] /\ u.ciq = C
    BY <1>2, <1>7 DEF ToOQ
  <2> HIDE DEF C
  <2>2. ASSUME NEW p \in PortOf[n] PROVE Alike(s.oq[p], u.oq[p], f)
    <3>1. CASE p = port
      <4>1. u.oq[p] = Append(s.oq[p], d) /\ s.oq[p] \in Seq(Packet)
        BY <1>1, <2>1, <3>1
      <4> QED BY <1>5, <4>1
    <3>2. CASE p # port
      <4>1. u.oq[p] = s.oq[p]
        BY <1>1, <2>1, <3>2
      <4> QED BY <1>3, <4>1
    <3> QED BY <3>1, <3>2
  <2> QED BY <1>3, <1>6, <2>1, <2>2 DEF AlikeIn
<1>8. CASE m # {}
  <2>1. u.wire = s.wire /\ u.oq = s.oq /\ u.ciq = [C EXCEPT ![port][next] = Append(@, d)]
        /\ next \in Root /\ next # r
    BY <1>2, <1>8 DEF ToCIQ
  <2>2. C \in [PortOf[n] -> [Root -> Seq(Packet)]]
    <3>1. Tail(s.ciq[port][r]) \in Seq(Packet)
      BY <1>1, <1>2, RestOfLink
    <3> QED BY <1>1, <3>1
  <2>3. C[port][next] = s.ciq[port][next]
    BY <1>1, <2>1
  <2> HIDE DEF C
  <2>4. ASSUME NEW p \in PortOf[n], NEW x \in Root PROVE Alike(s.ciq[p][x], u.ciq[p][x], f)
    <3>1. CASE p = port /\ x = next
      <4>1. u.ciq[p][x] = Append(s.ciq[p][x], d) /\ s.ciq[p][x] \in Seq(Packet)
        BY <1>1, <2>1, <2>2, <2>3, <3>1
      <4> QED BY <1>5, <4>1
    <3>2. CASE ~ (p = port /\ x = next)
      <4>1. u.ciq[p][x] = C[p][x]
        BY <2>1, <2>2, <3>2
      <4> QED BY <1>6, <4>1
    <3> QED BY <3>1, <3>2
  <2> QED BY <1>3, <2>1, <2>4 DEF AlikeIn
<1> QED BY <1>7, <1>8

\* For its flow the packet moves on in the line, past no other.
LEMMA OwnMoves ==
  ASSUME NEW n \in Switch, NEW s \in State(n), NEW port, NEW r, NEW u, NEW d,
         MovesOn(s, u, n, port, r, d)
  PROVE  /\ d \in Packet /\ d.flow \in Through(n) /\ port = NextHop(n, d.flow)
         /\ \E j \in Pos(n, d.flow) + 1 .. Len(Path[d.flow]) - 1 :
              RootAt(d.flow, j) = r /\ Dist[n][r] = j - Pos(n, d.flow)
<1> DEFINE f == d.flow
           i == Pos(n, f)
<1>1. d \in Waiting(n, port, r)
  BY DEF MovesOn
<1>2. d \in Packet /\ f \in Flow /\ <<n, port>> \in Hops(f)
  BY <1>1, WaitingFacts
<1>3. f \in Through(n) /\ port = NextHop(n, f)
  BY <1>2, FlowThrough
<1>4. PICK j \in i + 1 .. Len(Path[f]) - 1 : RootAt(f, j) = r
  BY <1>1 DEF Waiting
<1>5. i \in 2 .. Len(Path[f]) - 1 /\ Path[f][i] = n /\ Len(Path[f]) \in Nat
  BY <1>2, HopOut, CiParameters
<1> HIDE DEF f, i
<1>6. j \in i .. Len(Path[f]) - 1
  BY <1>5
<1>7. Dist[n][RootAt(f, j)] = j - i
  BY <1>2, <1>5, <1>6, FlowInTree
<1> QED BY <1>2, <1>3, <1>4, <1>7 DEF f, i

LEMMA MoveKeeps ==
  ASSUME NEW n \in Switch, NEW before, NEW s, Sane(s, n, before),
         NEW port \in PortOf[n], NEW r \in Root, NEW u, NEW d, MovesOn(s, u, n, port, r, d)
  PROVE  KeepsLines(s, u, n)
<1> DEFINE f == d.flow
           i == Pos(n, f)
           K == Depth(n, f)
           q == Lane(s, n, f)
           w == Lane(u, n, f)
           L == Len(Path[f]) - 1
           m == Matches(s, n, f, Dist[n][r])
           M == Max(m)
           next == RootAt(f, M)
<1>1. s \in State(n)
  BY DEF Sane
<1>2. d \in Packet /\ f \in Through(n) /\ f \in Flow /\ port = NextHop(n, f)
  <2>1. d \in Packet /\ f \in Through(n) /\ port = NextHop(n, f)
    BY <1>1, OwnMoves
  <2> QED BY <2>1 DEF Through
<1>3. PICK j \in i + 1 .. L : RootAt(f, j) = r /\ Dist[n][r] = j - i
  BY <1>1, OwnMoves
<1>4. /\ L \in Nat /\ i \in 2 .. L /\ K \in Nat /\ K > 0 /\ K = L + 1 - i
      /\ \A l \in i + 1 .. L : l \in Int /\ RootAt(f, l) \in Root /\ l - i + 1 \in 2 .. K
      /\ \A k \in 2 .. K : i + k - 1 \in i + 1 .. L /\ (i + k - 1) - i + 1 = k
  <2>1. /\ Len(Path[f]) \in Nat /\ i \in 2 .. Len(Path[f]) - 1
        /\ K \in Nat /\ K > 0 /\ K = Len(Path[f]) - i
        /\ \A l \in i + 1 .. Len(Path[f]) - 1 : l \in Int /\ RootAt(f, l) \in Root /\ l - i + 1 \in 2 .. K
        /\ \A k \in 2 .. K : i + k - 1 \in i + 1 .. Len(Path[f]) - 1 /\ (i + k - 1) - i + 1 = k
    BY <1>2, LanePlaces
  <2> QED BY <2>1
<1>5. /\ q[0] = s.wire[port] /\ q[1] = s.oq[port]
      /\ \A l \in i + 1 .. L : q[l - i + 1] = s.ciq[port][RootAt(f, l)]
      /\ \A k \in 2 .. K : q[k] = s.ciq[port][RootAt(f, i + k - 1)]
  BY <1>2, LaneAt
<1>6. /\ w[0] = u.wire[port] /\ w[1] = u.oq[port]
      /\ \A l \in i + 1 .. L : w[l - i + 1] = u.ciq[port][RootAt(f, l)]
      /\ \A k \in 2 .. K : w[k] = u.ciq[port][RootAt(f, i + k - 1)]
  BY <1>2, LaneAt
<1>7. /\ s.ciq[port][r] # <<>> /\ d = Head(s.ciq[port][r])
      /\ m = {} => ToOQ(s, u, port, r, d)
      /\ m # {} => next \in Root /\ next # r /\ ToCIQ(s, u, port, r, next, d)
  BY DEF MovesOn
<1>8. /\ s.oq \in [PortOf[n] -> Seq(Packet)] /\ s.ciq \in [PortOf[n] -> [Root -> Seq(Packet)]]
      /\ Filled(q, K, Packet)
  BY <1>1, <1>2, StateOf, LaneTypes
<1>9. m # {} => M \in i + 1 .. L /\ M < j
  <2>1. m # {} => M \in m
    BY <1>2, MatchesMax
  <2> HIDE DEF M, i, L
  <2>2. M \in m => M \in i + 1 .. L /\ M - i < j - i
    BY <1>3 DEF Matches, i, L
  <2> QED BY <1>3, <1>4, <2>1, <2>2
<1>10. ASSUME NEW k \in 0 .. K, IF m = {} THEN 1 < k ELSE M - i + 1 < k, k < j - i + 1
       PROVE  Numbers(q[k], f) = {}
  <2>1. k \in 2 .. K
    <3>1. k > 1
      <4>1. CASE m = {}
        BY <1>10, <4>1
      <4>2. CASE m # {}
        <5> HIDE DEF m, M, i, L, K
        <5>1. M \in Int /\ i \in Int /\ M >= i + 1 /\ k \in Int /\ M - i + 1 < k
          BY <1>4, <1>9, <1>10, <4>2
        <5> QED BY <5>1
      <4> QED BY <4>1, <4>2
    <3> QED BY <3>1, <1>4
  <2>2. i + k - 1 \in i + 1 .. L /\ (i + k - 1) - i < j - i
    BY <1>3, <1>4, <1>10, <2>1
  <2>3. SUFFICES ASSUME Numbers(q[k], f) # {} PROVE FALSE
    OBVIOUS
  <2>4. Numbers(s.ciq[port][RootAt(f, i + k - 1)], f) # {}
    BY <1>5, <2>1, <2>3
  <2>5. i + k - 1 \in m
    <3> DEFINE l == i + k - 1
    <3>1. l \in Pos(n, f) + 1 .. Len(Path[f]) - 1 /\ l - Pos(n, f) < j - i
      BY <2>2
    <3>2. Numbers(s.ciq[NextHop(n, f)][RootAt(f, l)], f) # {}
      BY <1>2, <2>4
    <3> HIDE DEF l, i, f
    <3>3. l \in Matches(s, n, f, j - i)
      BY <1>2, <3>1, <3>2, OccupiedMatch
    <3> QED BY <1>3, <3>3 DEF l, f
  <2>6. i + k - 1 <= M
    BY <1>2, <2>5, MatchesMax
  <2> QED BY <1>4, <1>9, <1>10, <2>1, <2>5, <2>6
<1>11. \A l \in i + 1 .. L, k \in i + 1 .. L : RootAt(f, l) = RootAt(f, k) => l = k
  <2>1. \A l \in i + 1 .. L : l \in 1 .. Len(Path[f]) - 1
    BY <1>4
  <2> QED BY <1>2, <2>1, RootsDiffer
<1>12. port \in PortOf[n] /\ r \in Root
  OBVIOUS
<1>13. ASSUME NEW g \in Through(n), g # f PROVE KeepsFlow(s, u, n, g)
  BY <1>1, <1>13, OthersAlike, AlikeKeeps
<1> HIDE DEF f, i, K, q, w, L, m, M, next
<1>14. j \in Int /\ j - i + 1 \in 2 .. K /\ q[j - i + 1] = s.ciq[port][r] /\ w[j - i + 1] = u.ciq[port][r]
  BY <1>3, <1>4, <1>5, <1>6
<1>15. \A k \in 2 .. K : k # j - i + 1 => RootAt(f, i + k - 1) # r /\ RootAt(f, i + k - 1) \in Root
  <2>1. ASSUME NEW k \in 2 .. K, k # j - i + 1, RootAt(f, i + k - 1) = r PROVE FALSE
    <3>1. i + k - 1 = j
      BY <1>3, <1>4, <1>11, <2>1
    <3> QED BY <1>4, <1>14, <2>1, <3>1
  <2> QED BY <1>4, <2>1
<1>16. CASE m = {}
  <2>1. ToOQ(s, u, port, r, d)
    BY <1>7, <1>16
  <2>2. /\ u.wire = s.wire /\ u.oq[port] = Append(s.oq[port], d)
        /\ u.ciq[port][r] = Tail(s.ciq[port][r])
        /\ \A x \in Root : x # r => u.ciq[port][x] = s.ciq[port][x]
    BY <1>8, <1>12, <2>1 DEF ToOQ
  <2>3. \A k \in 2 .. K : k # j - i + 1 => w[k] = q[k]
    BY <1>5, <1>6, <1>15, <2>2
  <2>4. MovesIn(q, w, K, j - i + 1, 1, d)
    <3>1. \A k \in 0 .. K : k = 0 \/ k = 1 \/ k \in 2 .. K
      BY <1>4
    <3>2. \A k \in 0 .. K : k # j - i + 1 /\ k # 1 => w[k] = q[k]
      BY <1>5, <1>6, <2>2, <2>3, <3>1
    <3>3. j - i + 1 \in 0 .. K /\ 1 \in 0 .. K /\ 1 < j - i + 1
      BY <1>4, <1>14
    <3> QED BY <1>5, <1>6, <1>7, <1>14, <2>2, <3>2, <3>3 DEF MovesIn
  <2>5. KeepsFlow(s, u, n, f)
    <3>1. Free(q, K, 1, j - i + 1, f)
      BY <1>10, <1>16 DEF Free
    <3>2. ASSUME InLine(q, K, f)
          PROVE  InLine(w, K, f) /\ Content(w, K, f) = Content(q, K, f)
      <4> DEFINE a == j - i + 1
      <4>1. MovesIn(q, w, K, a, 1, d) /\ Free(q, K, 1, a, f)
        BY <2>4, <3>1
      <4> HIDE DEF a
      <4>2. K \in Nat /\ d \in Packet /\ Filled(q, K, Packet)
        BY <1>2, <1>4, <1>8
      <4> QED BY <3>2, <4>1, <4>2, LineMove
    <3> QED BY <3>2 DEF KeepsFlow, SwitchLine, Inside, q, w, K
  <2> QED BY <1>13, <2>5 DEF KeepsLines
<1>17. CASE m # {}
  <2> DEFINE b == M - i + 1
  <2>1. ToCIQ(s, u, port, r, next, d) /\ next # r /\ next \in Root
    BY <1>7, <1>17
  <2>2. /\ u.wire = s.wire /\ u.oq = s.oq
        /\ u.ciq[port][r] = Tail(s.ciq[port][r])
        /\ u.ciq[port][next] = Append(s.ciq[port][next], d)
        /\ \A x \in Root : x # r /\ x # next => u.ciq[port][x] = s.ciq[port][x]
    BY <1>8, <1>12, <2>1 DEF ToCIQ
  <2>3. /\ b \in 2 .. K /\ b < j - i + 1 /\ M \in Int
        /\ q[b] = s.ciq[port][next] /\ w[b] = u.ciq[port][next]
    BY <1>3, <1>4, <1>5, <1>6, <1>9, <1>14, <1>17 DEF next
  <2>4. ASSUME NEW k \in 2 .. K, k # j - i + 1, k # b PROVE w[k] = q[k]
    <3>1. RootAt(f, i + k - 1) # next
      <4>1. SUFFICES ASSUME RootAt(f, i + k - 1) = RootAt(f, M) PROVE FALSE
        BY DEF next
      <4>2. i + k - 1 = M
        BY <1>4, <1>9, <1>11, <1>17, <4>1
      <4> QED BY <1>4, <2>3, <2>4, <4>2
    <3> QED BY <1>5, <1>6, <1>15, <2>2, <2>4, <3>1
  <2> HIDE DEF b
  <2>5. MovesIn(q, w, K, j - i + 1, b, d)
    <3>1. \A k \in 0 .. K : k = 0 \/ k = 1 \/ k \in 2 .. K
      BY <1>4
    <3>2. \A k \in 0 .. K : k # j - i + 1 /\ k # b => w[k] = q[k]
      BY <1>5, <1>6, <2>2, <2>4, <3>1
    <3>3. j - i + 1 \in 0 .. K /\ b \in 0 .. K /\ b < j - i + 1
      BY <1>4, <1>14, <2>3
    <3> QED BY <1>7, <1>14, <2>2, <2>3, <3>2, <3>3 DEF MovesIn
  <2>6. KeepsFlow(s, u, n, f)
    <3>1. Free(q, K, b, j - i + 1, f)
      BY <1>10, <1>17 DEF Free, b
    <3>2. ASSUME InLine(q, K, f)
          PROVE  InLine(w, K, f) /\ Content(w, K, f) = Content(q, K, f)
      <4> DEFINE a == j - i + 1
      <4>1. MovesIn(q, w, K, a, b, d) /\ Free(q, K, b, a, f)
        BY <2>5, <3>1
      <4> HIDE DEF a
      <4>2. K \in Nat /\ d \in Packet /\ Filled(q, K, Packet)
        BY <1>2, <1>4, <1>8
      <4> QED BY <3>2, <4>1, <4>2, LineMove
    <3> QED BY <3>2 DEF KeepsFlow, SwitchLine, Inside, q, w, K
  <2> QED BY <1>13, <2>6 DEF KeepsLines
<1> QED BY <1>16, <1>17

\* A device transmits: from the OQ on the wire.
OnWire(s, u, port, d) ==
  /\ s.oq[port] # <<>> /\ d = Head(s.oq[port])
  /\ u.oq = [s.oq EXCEPT ![port] = Tail(@)] /\ u.ciq = s.ciq
  /\ u.wire = [s.wire EXCEPT ![port] = Append(@, d)]

LEMMA TransmitMoves ==
  ASSUME NEW n, NEW s \in State(n), NEW port, s.oq[port] # <<>>
  PROVE  OnWire(s, TransmitFrom(s, n, port), port, Head(s.oq[port]))
<1> DEFINE t == [s EXCEPT !.wire[port] = Append(@, Head(s.oq[port])), !.oq[port] = Tail(@)]
<1>1. HasQueues(s)
  BY StateHasQueues
<1>2. /\ t.oq = [s.oq EXCEPT ![port] = Tail(@)] /\ t.ciq = s.ciq
      /\ t.wire = [s.wire EXCEPT ![port] = Append(@, Head(s.oq[port]))]
      /\ HasQueues(t)
  BY <1>1 DEF HasQueues
<1>3. TransmitFrom(s, n, port) = NotifyDequeueFromOQ(t, n, port)
  BY DEF TransmitFrom
<1> HIDE DEF t
<1>4. SameQueues(t, NotifyDequeueFromOQ(t, n, port))
  BY <1>2, NotifyOQQueues
<1> QED BY <1>2, <1>3, <1>4 DEF OnWire, SameQueues

LEMMA TransmitKeeps ==
  ASSUME NEW n \in Switch, NEW before, NEW s, Sane(s, n, before), NEW port \in PortOf[n],
         NEW u, NEW d, OnWire(s, u, port, d)
  PROVE  KeepsLines(s, u, n)
<1>1. /\ s \in State(n) /\ s.oq \in [PortOf[n] -> Seq(Packet)] /\ s.wire \in [PortOf[n] -> Seq(Packet)]
      /\ s.oq[port] \in Seq(Leaving(n, port))
  BY StateOf DEF Sane, InPlace
<1>2. d \in Leaving(n, port)
  <2>1. d = s.oq[port][1] /\ 1 \in DOMAIN s.oq[port]
    BY <1>1 DEF OnWire
  <2> QED BY <1>1, <2>1
<1>3. d \in Packet /\ d.flow \in Flow /\ <<n, port>> \in Hops(d.flow)
  BY <1>2 DEF Leaving, Packet
<1>4. d.flow \in Through(n) /\ port = NextHop(n, d.flow)
  BY <1>3, FlowThrough
<1>5. /\ u.ciq = s.ciq /\ s.oq[port] # <<>> /\ d = Head(s.oq[port])
      /\ u.oq[port] = Tail(s.oq[port]) /\ u.wire[port] = Append(s.wire[port], d)
      /\ \A p \in PortOf[n] : p # port => u.oq[p] = s.oq[p] /\ u.wire[p] = s.wire[p]
  BY <1>1 DEF OnWire
<1>6. ASSUME NEW f \in Through(n), f # d.flow PROVE KeepsFlow(s, u, n, f)
  <2>1. ~ IsOf(d, f) /\ \A x : Alike(x, x, f)
    BY <1>6 DEF IsOf, Alike
  <2>2. s.oq[port] \in Seq(Packet) /\ s.wire[port] \in Seq(Packet)
    BY <1>1
  <2>3. Alike(s.oq[port], u.oq[port], f) /\ Alike(s.wire[port], u.wire[port], f)
    BY <1>3, <1>5, <2>1, <2>2, OtherFlow
  <2>4. AlikeIn(s, u, n, f)
    BY <1>5, <2>1, <2>3 DEF AlikeIn
  <2> QED BY <1>6, <2>4, AlikeKeeps
<1> DEFINE f == d.flow
           q == Lane(s, n, f)
           w == Lane(u, n, f)
           K == Depth(n, f)
<1>7. q[0] = s.wire[port] /\ q[1] = s.oq[port] /\ \A k \in 2 .. K : q[k] = s.ciq[port][RootAt(f, Pos(n, f) + k - 1)]
  BY <1>4, LaneAt
<1>8. w[0] = u.wire[port] /\ w[1] = u.oq[port] /\ \A k \in 2 .. K : w[k] = u.ciq[port][RootAt(f, Pos(n, f) + k - 1)]
  BY <1>4, LaneAt
<1>9. K \in Nat /\ K > 0 /\ Filled(q, K, Packet)
  BY <1>1, <1>4, LanePlaces, LaneTypes
<1> HIDE DEF f, q, w, K
<1>10. \A k \in 0 .. K : k = 0 \/ k = 1 \/ k \in 2 .. K
  BY <1>9
<1>11. \A k \in 0 .. K : k # 1 /\ k # 0 => w[k] = q[k]
  BY <1>5, <1>7, <1>8, <1>10
<1>12. MovesIn(q, w, K, 1, 0, d)
  BY <1>5, <1>7, <1>8, <1>9, <1>11 DEF MovesIn
<1>13. Free(q, K, 0, 1, f)
  BY <1>9 DEF Free
<1>14. KeepsFlow(s, u, n, f)
  <2>1. ASSUME InLine(q, K, f) PROVE InLine(w, K, f) /\ Content(w, K, f) = Content(q, K, f)
    BY <1>3, <1>9, <1>12, <1>13, <2>1, LineMove
  <2> QED BY <2>1 DEF KeepsFlow, SwitchLine, Inside, q, w, K
<1> QED BY <1>6, <1>14 DEF KeepsLines, f

-----------------------------------------------------------------------------
(* A packet comes in *)

\* It joins the line of its flow, at the end.
TakesIn(s, u, n, d) ==
  \A f \in Through(n) :
    SwitchLine(s, n, f) /\ Precede(Inside(s, n, f), Number(d, f))
      => SwitchLine(u, n, f) /\ Inside(u, n, f) = Inside(s, n, f) \cup Number(d, f)

\* The OQ takes a packet that matches no root, else the CIQ of the farthest.
Enters(s, u, n, d) ==
  LET f == d.flow
      port == NextHop(n, f)
      m == Matches(s, n, f, Len(Path[f]))
      r == RootAt(f, Max(m))
  IN  /\ u.wire = s.wire
      /\ m = {} => u.oq = [s.oq EXCEPT ![port] = Append(@, d)] /\ u.ciq = s.ciq
      /\ m # {} => r \in Root /\ u.oq = s.oq /\ u.ciq = [s.ciq EXCEPT ![port][r] = Append(@, d)]

LEMMA ReceiveDataEnters ==
  ASSUME NEW n \in Switch, NEW before \in [PortOf[n] -> [Root -> BOOLEAN]],
         NEW s, Sane(s, n, before), NEW in, NEW d \in Leaving(in, n)
  PROVE  /\ Enters(s, ReceiveData(s, n, d), n, d)
         /\ d \in Packet /\ d.flow \in Through(n)
<1> DEFINE f == d.flow
           port == NextHop(n, f)
           m == Matches(s, n, f, Len(Path[f]))
           r == RootAt(f, Max(m))
           t == ReceiveData(s, n, d)
<1>1. f \in Flow /\ <<in, n>> \in Hops(f) /\ d \in Packet
  BY DEF Leaving, Packet
<1>2. <<n, port>> \in Hops(f)
  BY <1>1, HopIn
<1>3. d \in Leaving(n, port) /\ f \in Through(n)
  BY <1>1, <1>2 DEF Leaving, Through
<1>4. s \in State(n) /\ HasQueues(s)
  BY StateHasQueues DEF Sane
<1>5. CASE m = {}
  <2> DEFINE u == [s EXCEPT !.oq[port] = Append(@, d)]
  <2>1. t = NotifyEnqueueIntoOQ(u, n, PrevHop(n, f), port, Len(s.oq[port]) + 1)
    BY <1>5 DEF ReceiveData
  <2>2. u.oq = [s.oq EXCEPT ![port] = Append(@, d)] /\ u.ciq = s.ciq /\ u.wire = s.wire /\ HasQueues(u)
    BY <1>4 DEF HasQueues
  <2> HIDE DEF u
  <2>3. SameQueues(u, t)
    BY <2>1, <2>2, NotifyOQQueues
  <2> QED BY <1>1, <1>3, <1>5, <2>2, <2>3 DEF SameQueues, Enters
<1>6. CASE m # {}
  <2>1. t = NotifyEnqueueIntoCIQ([s EXCEPT !.ciq[port][r] = Append(@, d), !.hier = TRUE],
                                 PrevHop(n, d.flow), port, r)
    BY <1>6 DEF ReceiveData
  <2>2. r \in DOMAIN s.entries /\ port \in s.entries[r].ciq /\ d \in Waiting(n, port, r)
    <3> HIDE DEF port
    <3> QED BY <1>3, <1>6, Matched
  <2>3. EnqueuedCIQ(s, t, n, port, r, d)
    BY <2>1 DEF EnqueuedCIQ
  <2>4. CiqMore(s, t, port, r, d) /\ t.oq = s.oq /\ t.wire = s.wire
    <3> HIDE DEF r, port, t
    <3> QED BY <2>2, <2>3, EnqueueCIQSane
  <2>5. r \in Root
    BY <1>4, <2>2, EntryAt
  <2> QED BY <1>1, <1>3, <1>6, <2>4, <2>5 DEF CiqMore, Enters
<1> QED BY <1>1, <1>3, <1>5, <1>6

LEMMA EntersLine ==
  ASSUME NEW n \in Switch, NEW before, NEW s, Sane(s, n, before), NEW u, NEW d \in Packet,
         d.flow \in Through(n), Enters(s, u, n, d)
  PROVE  TakesIn(s, u, n, d)
<1> DEFINE f == d.flow
           port == NextHop(n, f)
           i == Pos(n, f)
           K == Depth(n, f)
           q == Lane(s, n, f)
           w == Lane(u, n, f)
           L == Len(Path[f]) - 1
           m == Matches(s, n, f, Len(Path[f]))
           M == Max(m)
           r == RootAt(f, M)
<1>1. /\ s \in State(n) /\ s.oq \in [PortOf[n] -> Seq(Packet)]
      /\ s.ciq \in [PortOf[n] -> [Root -> Seq(Packet)]]
  BY StateOf DEF Sane
<1>2. f \in Through(n) /\ f \in Flow /\ port \in PortOf[n]
  <2>1. f \in Flow
    BY DEF Packet
  <2> QED BY <2>1, LanePlaces
<1>3. /\ u.wire = s.wire
      /\ m = {} => u.oq = [s.oq EXCEPT ![port] = Append(@, d)] /\ u.ciq = s.ciq
      /\ m # {} => r \in Root /\ u.oq = s.oq /\ u.ciq = [s.ciq EXCEPT ![port][r] = Append(@, d)]
  BY DEF Enters
<1>4. /\ L \in Nat /\ i \in 2 .. L /\ K \in Nat /\ K > 0
      /\ \A l \in i + 1 .. L : l \in Int /\ l - i + 1 \in 2 .. K
      /\ \A k \in 2 .. K : i + k - 1 \in i + 1 .. L /\ (i + k - 1) - i < Len(Path[f]) /\ RootAt(f, i + k - 1) \in Root
  <2>1. /\ Len(Path[f]) \in Nat /\ i \in 2 .. Len(Path[f]) - 1
        /\ K \in Nat /\ K > 0 /\ K = Len(Path[f]) - i
        /\ \A l \in i + 1 .. Len(Path[f]) - 1 : l \in Int /\ RootAt(f, l) \in Root /\ l - i + 1 \in 2 .. K
        /\ \A k \in 2 .. K : i + k - 1 \in i + 1 .. Len(Path[f]) - 1 /\ (i + k - 1) - i + 1 = k
    BY <1>2, LanePlaces
  <2>2. \A k \in 2 .. K : (i + k - 1) - i < Len(Path[f])
    BY <2>1
  <2> QED BY <2>1, <2>2
<1>5. /\ q[0] = s.wire[port] /\ q[1] = s.oq[port]
      /\ \A l \in i + 1 .. L : q[l - i + 1] = s.ciq[port][RootAt(f, l)]
      /\ \A k \in 2 .. K : q[k] = s.ciq[port][RootAt(f, i + k - 1)]
  BY <1>2, LaneAt
<1>6. /\ w[0] = u.wire[port] /\ w[1] = u.oq[port]
      /\ \A l \in i + 1 .. L : w[l - i + 1] = u.ciq[port][RootAt(f, l)]
      /\ \A k \in 2 .. K : w[k] = u.ciq[port][RootAt(f, i + k - 1)]
  BY <1>2, LaneAt
<1>7. Filled(q, K, Packet)
  BY <1>1, <1>2, LaneTypes
<1>8. m # {} => M \in i + 1 .. L
  <2>1. m # {} => M \in m
    BY <1>2, MatchesMax
  <2> HIDE DEF M
  <2>2. M \in m => M \in i + 1 .. L
    BY DEF Matches
  <2> QED BY <2>1, <2>2
<1>9. ASSUME NEW k \in 2 .. K, IF m = {} THEN TRUE ELSE M - i + 1 < k
      PROVE  Numbers(q[k], f) = {}
  <2> DEFINE l == i + k - 1
  <2>1. SUFFICES ASSUME Numbers(q[k], f) # {} PROVE FALSE
    OBVIOUS
  <2>2. l \in i + 1 .. L /\ l - i < Len(Path[f])
    BY <1>4
  <2>3. Numbers(s.ciq[port][RootAt(f, l)], f) # {}
    BY <1>5, <2>1
  <2>4. l \in m
    <3> HIDE DEF l
    <3> QED BY <1>2, <2>2, <2>3, OccupiedMatch
  <2>5. l <= M
    BY <1>2, <2>4, MatchesMax
  <2> HIDE DEF m, M, i, L, K
  <2>6. i \in Int /\ k \in Int
    BY <1>4
  <2>7. M \in Int /\ M - i + 1 < k
    BY <1>8, <1>9, <2>4
  <2> QED BY <2>5, <2>6, <2>7
<1>10. ASSUME NEW g \in Through(n), g # f PROVE KeepsFlow(s, u, n, g) /\ Number(d, g) = {}
  <2>1. ~ IsOf(d, g) /\ Number(d, g) = {} /\ \A x : Alike(x, x, g)
    BY <1>10 DEF IsOf, Number, Alike
  <2>2. \A x \in Seq(Packet) : Alike(x, Append(x, d), g)
    BY <2>1, OtherFlow
  <2> HIDE DEF m, r
  <2>3. ASSUME NEW p \in PortOf[n] PROVE Alike(s.oq[p], u.oq[p], g)
    <3>1. u.oq[p] = s.oq[p] \/ u.oq[p] = Append(s.oq[p], d)
      BY <1>1, <1>3
    <3> QED BY <1>1, <2>1, <2>2, <3>1
  <2>4. ASSUME NEW p \in PortOf[n], NEW x \in Root PROVE Alike(s.ciq[p][x], u.ciq[p][x], g)
    <3>1. u.ciq[p][x] = s.ciq[p][x] \/ u.ciq[p][x] = Append(s.ciq[p][x], d)
      <4>1. CASE m = {}
        BY <1>3, <4>1
      <4>2. CASE m # {}
        <5>1. u.ciq = [s.ciq EXCEPT ![port][r] = Append(@, d)]
          BY <1>3, <4>2
        <5>2. CASE p = port /\ x = r
          BY <1>1, <5>1, <5>2
        <5>3. CASE ~ (p = port /\ x = r)
          BY <1>1, <5>1, <5>3
        <5> QED BY <5>2, <5>3
      <4> QED BY <4>1, <4>2
    <3>2. s.ciq[p][x] \in Seq(Packet)
      BY <1>1
    <3> QED BY <2>1, <2>2, <3>1, <3>2
  <2>5. AlikeIn(s, u, n, g)
    BY <1>3, <2>1, <2>3, <2>4 DEF AlikeIn
  <2> QED BY <1>10, <2>1, <2>5, AlikeKeeps
<1>11. \A l \in i + 1 .. L, k \in i + 1 .. L : RootAt(f, l) = RootAt(f, k) => l = k
  <2>1. \A l \in i + 1 .. L : l \in 1 .. Len(Path[f]) - 1
    BY <1>4
  <2> QED BY <1>2, <2>1, RootsDiffer
<1> HIDE DEF f, port, i, K, q, w, L, m, M, r
<1>12. \A k \in 0 .. K : k = 0 \/ k = 1 \/ k \in 2 .. K
  BY <1>4
<1>13. \E b : ArrivesIn(q, w, K, b, d) /\ Free(q, K, b, K + 1, f)
  <2>1. CASE m = {}
    <3>1. u.oq[port] = Append(s.oq[port], d) /\ u.ciq = s.ciq
      BY <1>1, <1>2, <1>3, <2>1
    <3>2. ArrivesIn(q, w, K, 1, d)
      <4>1. \A k \in 0 .. K : k # 1 => w[k] = q[k]
        BY <1>3, <1>5, <1>6, <1>12, <3>1
      <4> QED BY <1>4, <1>5, <1>6, <3>1, <4>1 DEF ArrivesIn
    <3>3. Free(q, K, 1, K + 1, f)
      <4>1. \A k \in 0 .. K : 1 < k => k \in 2 .. K
        BY <1>4
      <4> QED BY <1>9, <2>1, <4>1 DEF Free
    <3> QED BY <3>2, <3>3
  <2>2. CASE m # {}
    <3> DEFINE b == M - i + 1
    <3>1. /\ r \in Root /\ u.oq = s.oq /\ u.ciq[port][r] = Append(s.ciq[port][r], d)
          /\ \A x \in Root : x # r => u.ciq[port][x] = s.ciq[port][x]
      BY <1>1, <1>2, <1>3, <2>2
    <3>2. b \in 2 .. K /\ M \in Int /\ q[b] = s.ciq[port][r] /\ w[b] = u.ciq[port][r]
      BY <1>4, <1>5, <1>6, <1>8, <2>2 DEF r
    <3>3. ASSUME NEW k \in 2 .. K, k # b PROVE w[k] = q[k]
      <4>1. RootAt(f, i + k - 1) # r
        <5>1. SUFFICES ASSUME RootAt(f, i + k - 1) = RootAt(f, M) PROVE FALSE
          BY DEF r
        <5>2. i + k - 1 = M
          BY <1>4, <1>8, <1>11, <2>2, <5>1
        <5> QED BY <1>4, <3>2, <3>3, <5>2
      <4> QED BY <1>4, <1>5, <1>6, <3>1, <4>1
    <3>4. \A k \in 2 .. K : b < k => Numbers(q[k], f) = {}
      BY <1>9, <2>2
    <3> HIDE DEF b
    <3>5. ArrivesIn(q, w, K, b, d)
      <4>1. \A k \in 0 .. K : k # b => w[k] = q[k]
        BY <1>3, <1>5, <1>6, <1>12, <3>1, <3>3
      <4>2. b \in 0 .. K
        BY <1>4, <3>2
      <4> QED BY <3>1, <3>2, <4>1, <4>2 DEF ArrivesIn
    <3>6. Free(q, K, b, K + 1, f)
      <4>1. \A k \in 0 .. K : b < k => k \in 2 .. K
        BY <1>4, <3>2
      <4> QED BY <3>4, <4>1 DEF Free
    <3> QED BY <3>5, <3>6
  <2> QED BY <2>1, <2>2
<1>14. ASSUME InLine(q, K, f), Precede(Content(q, K, f), Number(d, f))
       PROVE  InLine(w, K, f) /\ Content(w, K, f) = Content(q, K, f) \cup Number(d, f)
  <2>1. K \in Nat
    BY <1>4
  <2> QED BY <1>7, <1>13, <1>14, <2>1, LineArrive
<1>15. ASSUME NEW g \in Through(n), SwitchLine(s, n, g), Precede(Inside(s, n, g), Number(d, g))
       PROVE  SwitchLine(u, n, g) /\ Inside(u, n, g) = Inside(s, n, g) \cup Number(d, g)
  <2>1. CASE g = f
    BY <1>14, <1>15, <2>1 DEF SwitchLine, Inside, q, w, K
  <2>2. CASE g # f
    BY <1>10, <1>15, <2>2 DEF KeepsFlow
  <2> QED BY <2>1, <2>2
<1> QED BY <1>15 DEF TakesIn

-----------------------------------------------------------------------------
(* The other handlers *)

LEMMA RoundOfPortKeeps ==
  ASSUME NEW n \in Switch, NEW before \in [PortOf[n] -> [Root -> BOOLEAN]],
         NEW s, Sane(s, n, before), NEW port \in PortOf[n], NEW idle
  PROVE  KeepsLines(s, RoundOfPort(s, n, port, idle), n)
<1> DEFINE order == ByLevel(s, port)
           k == Len(order)
           A == CHOOSE g : g = [i \in 0 .. k |-> IF i = 0 THEN s ELSE MoveOne(g[i - 1], n, port, order[i])]
           T == {j \in 0 .. k : ~ (Sane(A[j], n, before) /\ KeepsLines(s, A[j], n))}
           t == A[k]
           u == RoundOfPort(s, n, port, idle)
<1>0. s \in State(n) /\ KeepsLines(s, s, n)
  BY SameKeeps DEF Sane, SameQueues
<1>1. k \in Nat /\ \A i \in 1 .. k : order[i] \in Root
  BY <1>0, RootsInOrder
<1>2. A = [i \in 0 .. k |-> IF i = 0 THEN s ELSE MoveOne(A[i - 1], n, port, order[i])]
  <2> HIDE DEF order, k
  <2>1. \E g : g = [i \in 0 .. k |-> IF i = 0 THEN s ELSE MoveOne(g[i - 1], n, port, order[i])]
    <3>1. \E g : Moving(g, s, n, port, order, k)
      BY <1>1, Moves
    <3> QED BY <3>1 DEF Moving
  <2> QED BY <2>1
<1>3. u = IF idle /\ Len(t.oq[port]) > Len(s.oq[port]) THEN TransmitFrom(t, n, port) ELSE t
  BY DEF RoundOfPort
<1> HIDE DEF A, order, k, u
<1>4. T = {}
  <2> SUFFICES ASSUME T # {} PROVE FALSE
    OBVIOUS
  <2>1. PICK x \in T : \A y \in T : x <= y
    <3>1. T \subseteq Nat
      OBVIOUS
    <3> HIDE DEF T
    <3> QED BY <3>1, Smallest
  <2>2. CASE x = 0
    <3>1. A[0] = s
      BY <1>1, <1>2
    <3> QED BY <1>0, <2>1, <2>2, <3>1
  <2>3. CASE x # 0
    <3> DEFINE a == A[x - 1]
               b == A[x]
    <3>1. x - 1 \in 0 .. k /\ Sane(a, n, before) /\ KeepsLines(s, a, n)
      BY <2>1, <2>3, <1>1
    <3>2. b = MoveOne(a, n, port, order[x]) /\ order[x] \in Root
      BY <1>1, <1>2, <2>3
    <3> DEFINE r == order[x]
    <3> HIDE DEF a, b, r
    <3>3. Sane(b, n, before) /\ (b = a \/ \E d : MovesOn(a, b, n, port, r, d))
      BY <3>1, <3>2, MoveOneSane, MoveOneMoves DEF r
    <3>4. KeepsLines(a, b, n)
      <4>1. ASSUME NEW d, MovesOn(a, b, n, port, r, d) PROVE KeepsLines(a, b, n)
        <5>1. r \in Root
          BY <3>2 DEF r
        <5> QED BY <3>1, <4>1, <5>1, MoveKeeps
      <4>2. b = a => KeepsLines(a, b, n)
        BY SameKeeps DEF SameQueues
      <4> QED BY <3>3, <4>1, <4>2
    <3>5. KeepsLines(s, b, n)
      BY <3>1, <3>4, KeepsTwice
    <3> QED BY <3>3, <3>5, <2>1 DEF b
  <2> QED BY <2>2, <2>3
<1>5. Sane(t, n, before) /\ KeepsLines(s, t, n)
  BY <1>1, <1>4
<1> HIDE DEF t
<1>6. CASE idle /\ Len(t.oq[port]) > Len(s.oq[port])
  <2>1. s.oq[port] \in Seq(Leaving(n, port)) /\ t.oq[port] \in Seq(Leaving(n, port))
    BY <1>5 DEF Sane, InPlace
  <2>2. t.oq[port] # <<>> /\ t \in State(n)
    BY <1>5, <2>1, <1>6 DEF Sane
  <2>3. OnWire(t, TransmitFrom(t, n, port), port, Head(t.oq[port]))
    BY <2>2, TransmitMoves
  <2> DEFINE v == TransmitFrom(t, n, port)
             d == Head(t.oq[port])
  <2> HIDE DEF v, d
  <2>4. KeepsLines(t, v, n)
    <3>1. OnWire(t, v, port, d)
      BY <2>3 DEF v, d
    <3> QED BY <1>5, <3>1, TransmitKeeps
  <2>5. u = v
    BY <1>3, <1>6 DEF v
  <2>6. KeepsLines(s, v, n)
    BY <1>5, <2>4, KeepsTwice
  <2> QED BY <2>5, <2>6 DEF u
<1>7. CASE ~ (idle /\ Len(t.oq[port]) > Len(s.oq[port]))
  BY <1>3, <1>5, <1>7 DEF u
<1> QED BY <1>6, <1>7

LEMMA RoundKeeps ==
  ASSUME NEW n \in Switch, NEW before \in [PortOf[n] -> [Root -> BOOLEAN]],
         NEW s, Sane(s, n, before), NEW idle
  PROVE  KeepsLines(s, Round(s, n, idle), n)
<1> DEFINE k == Len(Devices[n])
           A == CHOOSE g : g = [i \in 0 .. k |->
                  IF i = 0 THEN s ELSE RoundOfPort(g[i - 1], n, Devices[n][i], Devices[n][i] \in idle)]
           T == {j \in 0 .. k : ~ (Sane(A[j], n, before) /\ KeepsLines(s, A[j], n))}
<1>0. KeepsLines(s, s, n)
  BY SameKeeps DEF SameQueues
<1>1. k \in Nat /\ \A i \in 1 .. k : Devices[n][i] \in PortOf[n]
  BY PortsInOrder
<1>2. A = [i \in 0 .. k |->
             IF i = 0 THEN s ELSE RoundOfPort(A[i - 1], n, Devices[n][i], Devices[n][i] \in idle)]
  <2> HIDE DEF k
  <2>1. \E g : g = [i \in 0 .. k |->
          IF i = 0 THEN s ELSE RoundOfPort(g[i - 1], n, Devices[n][i], Devices[n][i] \in idle)]
    <3>1. \E g : Rounds(g, s, n, idle, k)
      BY <1>1, RoundOn
    <3> QED BY <3>1 DEF Rounds
  <2> QED BY <2>1
<1>3. Round(s, n, idle) = A[k]
  BY DEF Round
<1> HIDE DEF A, k
<1>4. T = {}
  <2> SUFFICES ASSUME T # {} PROVE FALSE
    OBVIOUS
  <2>1. PICK x \in T : \A y \in T : x <= y
    <3>1. T \subseteq Nat
      OBVIOUS
    <3> HIDE DEF T
    <3> QED BY <3>1, Smallest
  <2>2. CASE x = 0
    <3>1. A[0] = s
      BY <1>1, <1>2
    <3> QED BY <1>0, <2>1, <2>2, <3>1
  <2>3. CASE x # 0
    <3> DEFINE a == A[x - 1]
               b == A[x]
               port == Devices[n][x]
    <3>1. x - 1 \in 0 .. k /\ Sane(a, n, before) /\ KeepsLines(s, a, n)
      BY <2>1, <2>3, <1>1
    <3>2. PICK c : b = RoundOfPort(a, n, port, c)
      BY <1>1, <1>2, <2>3
    <3>3. port \in PortOf[n]
      BY <1>1, <2>3
    <3> HIDE DEF a, b, port
    <3>4. Sane(b, n, before) /\ KeepsLines(a, b, n)
      BY <3>1, <3>2, <3>3, RoundOfPortSane, RoundOfPortKeeps
    <3>5. KeepsLines(s, b, n)
      BY <3>1, <3>4, KeepsTwice
    <3> QED BY <3>4, <3>5, <2>1 DEF b
  <2> QED BY <2>2, <2>3
<1> QED BY <1>1, <1>3, <1>4

\* A signal moves no packet.
Still(s, t) == SameQueues(s, t) /\ HasQueues(t)

LEMMA StillTwice ==
  ASSUME NEW s, NEW t, NEW u, Still(s, t), Still(t, u)
  PROVE  Still(s, u)
  BY DEF Still, SameQueues

LEMMA DeallocStill ==
  ASSUME NEW s, HasQueues(s), NEW n, NEW r, NEW p
  PROVE  /\ Still(s, CheckAndSendDealloc(s, n, r))
         /\ Still(s, ReleaseMergeCIQEntry(s, r, p))
<1>1. Still(s, CheckAndSendDealloc(s, n, r))
  BY DEF CheckAndSendDealloc, Still, SameQueues, HasQueues
<1>2. Still(s, ReleaseMergeCIQEntry(s, r, p))
  BY DEF ReleaseMergeCIQEntry, Still, SameQueues, HasQueues
<1> QED BY <1>1, <1>2

LEMMA RegisterStill ==
  ASSUME NEW s, HasQueues(s), NEW n, NEW in, NEW sig
  PROVE  Still(s, Register(s, n, in, sig))
  BY DEF Register, Still, SameQueues, HasQueues

LEMMA SendMergeStill ==
  ASSUME NEW s, HasQueues(s), NEW n, NEW ports, NEW r, NEW old
  PROVE  Still(s, SendMerge(s, n, ports, r, old))
  BY DEF SendMerge, Still, SameQueues, HasQueues

LEMMA ReceiveCIStill ==
  ASSUME NEW s, HasQueues(s), NEW n, NEW in, NEW sig,
         sig.kind \in {"PAUSE", "RESUME", "DEALLOC", "MERGE"}
  PROVE  SameQueues(s, ReceiveCI(s, n, in, sig))
<1> DEFINE r == sig.root
           old == sig.old
           v == Register(s, n, in, sig)
<1>0. Still(s, s) /\ Still(s, v) /\ HasQueues(v)
  BY RegisterStill DEF Still, SameQueues
<1> HIDE DEF v
<1>1. Still(s, ReceivePause(s, n, in, sig))
  <2> DEFINE t == [v EXCEPT !.entries[r].status[in] = "PAUSE", !.paused[in] = @ \cup {r}]
             w == SendMerge(t, n, DOMAIN s.rootChild[in], r, <<n, in>>)
             x == [w EXCEPT !.rootChild[in] = Empty]
  <2>1. ReceivePause(s, n, in, sig) = t \/ ReceivePause(s, n, in, sig) = x
    BY DEF ReceivePause, v
  <2>2. Still(v, t) /\ HasQueues(t)
    BY <1>0 DEF Still, SameQueues, HasQueues
  <2> HIDE DEF t
  <2>3. Still(t, w) /\ HasQueues(w)
    BY <2>2, SendMergeStill DEF Still
  <2> HIDE DEF w
  <2>4. Still(w, x)
    BY <2>3 DEF Still, SameQueues, HasQueues
  <2> HIDE DEF x
  <2>5. Still(s, t)
    BY <1>0, <2>2, StillTwice
  <2>6. Still(s, x)
    BY <2>3, <2>4, <2>5, StillTwice
  <2> QED BY <2>1, <2>5, <2>6
<1>2. Still(s, ReceiveResume(s, n, in, sig))
  <2> DEFINE t == [s EXCEPT !.entries[r].status[in] = "RESUME", !.paused[in] = @ \ {r}]
  <2>1. ReceiveResume(s, n, in, sig) = CheckAndSendDealloc(t, n, r) \/ ReceiveResume(s, n, in, sig) = s
    BY DEF ReceiveResume
  <2>2. Still(s, t) /\ HasQueues(t)
    BY DEF Still, SameQueues, HasQueues
  <2> HIDE DEF t
  <2>3. Still(t, CheckAndSendDealloc(t, n, r))
    BY <2>2, DeallocStill
  <2> QED BY <1>0, <2>1, <2>2, <2>3, StillTwice
<1>3. Still(s, ReceiveDealloc(s, n, in, sig))
  <2> DEFINE t == [s EXCEPT !.entries[r].child = Erase(@, in)]
             w == [s EXCEPT !.rootChild[r[2]] = Erase(@, in)]
  <2>1. ReceiveDealloc(s, n, in, sig) \in {CheckAndSendDealloc(t, n, r), w, s}
    BY DEF ReceiveDealloc
  <2>2. Still(s, t) /\ HasQueues(t) /\ Still(s, w)
    BY DEF Still, SameQueues, HasQueues
  <2> HIDE DEF t, w
  <2>3. Still(t, CheckAndSendDealloc(t, n, r))
    BY <2>2, DeallocStill
  <2>4. Still(s, CheckAndSendDealloc(t, n, r))
    BY <2>2, <2>3, StillTwice
  <2> QED BY <1>0, <2>1, <2>2, <2>4
<1>4. Still(s, ReceiveMerge(s, n, in, sig))
  <2> DEFINE t == [v EXCEPT !.entries[r].status[in] = "RESUME", !.paused[in] = @ \ {r}]
             below == {p \in DOMAIN s.entries[old].child : n \notin ToR \/ s.entries[old].child[p]}
             w == SendMerge(t, n, below, r, old)
             x == [w EXCEPT !.entries[old].status[in] = "MERGE", !.entries[old].child = Empty,
                            !.paused[in] = @ \ {old}]
  <2>1. ReceiveMerge(s, n, in, sig) \in {ReleaseMergeCIQEntry(x, old, in), t}
    BY DEF ReceiveMerge, v
  <2>2. Still(v, t) /\ HasQueues(t)
    BY <1>0 DEF Still, SameQueues, HasQueues
  <2> HIDE DEF t, below
  <2>3. Still(t, w) /\ HasQueues(w)
    BY <2>2, SendMergeStill DEF Still
  <2> HIDE DEF w
  <2>4. Still(w, x) /\ HasQueues(x)
    BY <2>3 DEF Still, SameQueues, HasQueues
  <2> HIDE DEF x
  <2>5. Still(x, ReleaseMergeCIQEntry(x, old, in))
    BY <2>4, DeallocStill
  <2>6. Still(s, t)
    BY <1>0, <2>2, StillTwice
  <2>7. Still(s, ReleaseMergeCIQEntry(x, old, in))
    BY <2>3, <2>4, <2>5, <2>6, StillTwice
  <2> QED BY <2>1, <2>6, <2>7
<1> HIDE DEF r, old
<1>5. /\ sig.kind = "PAUSE" => ReceiveCI(s, n, in, sig) = ReceivePause(s, n, in, sig)
      /\ sig.kind = "RESUME" => ReceiveCI(s, n, in, sig) = ReceiveResume(s, n, in, sig)
      /\ sig.kind = "DEALLOC" => ReceiveCI(s, n, in, sig) = ReceiveDealloc(s, n, in, sig)
      /\ sig.kind = "MERGE" => ReceiveCI(s, n, in, sig) = ReceiveMerge(s, n, in, sig)
  BY DEF ReceiveCI
<1> QED BY <1>1, <1>2, <1>3, <1>4, <1>5 DEF Still

-----------------------------------------------------------------------------
(* A flow from its sender to its receiver *)

\* L[i] are the packets of a flow on the i-th link of its path, B[i] those in
\* the switch before it: nearer the receiver are earlier ones, and together
\* they are the packets sent and not received, from lo on, hi the next one.
Lined(L, B, m, lo, hi) ==
  /\ \A i, j \in 1 .. m : i < j => /\ Precede(L[j], L[i]) /\ Precede(B[j], B[i])
                                   /\ Precede(L[j], B[i]) /\ Precede(B[j], L[i])
  /\ \A i \in 1 .. m : Precede(L[i], B[i])
  /\ lo \in Nat /\ hi \in Nat /\ lo <= hi
  /\ \A x : x \in lo .. hi - 1 <=> \E i \in 1 .. m : x \in L[i] \/ x \in B[i]

\* Switch i takes the packets N off link i - 1 and puts W out on link i.
Passes(L, B, K, E, m, i, N, W) ==
  /\ i \in 2 .. m
  /\ L[i - 1] = N \cup K[i - 1] /\ Precede(N, K[i - 1])
  /\ B[i] \cup N = E[i] \cup W /\ Precede(W, E[i])
  /\ K[i] = L[i] \cup W
  /\ \A j \in 1 .. m : j # i => E[j] = B[j] /\ (j # i - 1 => K[j] = L[j])

LEMMA LinedPasses ==
  ASSUME NEW m \in Nat, NEW L, NEW B, NEW lo, NEW hi, Lined(L, B, m, lo, hi),
         NEW K, NEW E, NEW i, NEW N, NEW W, Passes(L, B, K, E, m, i, N, W)
  PROVE  Lined(K, E, m, lo, hi)
<1>1. /\ i \in 2 .. m /\ i - 1 \in 1 .. m /\ i \in 1 .. m /\ i - 1 < i
      /\ L[i - 1] = N \cup K[i - 1] /\ Precede(N, K[i - 1])
      /\ B[i] \cup N = E[i] \cup W /\ Precede(W, E[i])
      /\ K[i] = L[i] \cup W
      /\ \A j \in 1 .. m : j # i => E[j] = B[j] /\ (j # i - 1 => K[j] = L[j])
  BY DEF Passes
<1>2. /\ \A k, j \in 1 .. m : k < j => /\ Precede(L[j], L[k]) /\ Precede(B[j], B[k])
                                       /\ Precede(L[j], B[k]) /\ Precede(B[j], L[k])
      /\ \A j \in 1 .. m : Precede(L[j], B[j])
      /\ lo \in Nat /\ hi \in Nat /\ lo <= hi
      /\ \A x : x \in lo .. hi - 1 <=> \E j \in 1 .. m : x \in L[j] \/ x \in B[j]
  BY DEF Lined
\* Where a packet was before.
<1>3. \A j \in 1 .. m : \A x : x \in K[j] => x \in L[j] \/ (j = i /\ x \in W)
  BY <1>1
<1>4. \A j \in 1 .. m : \A x : x \in E[j] => x \in B[j] \/ (j = i /\ x \in N)
  BY <1>1
<1>5. (\A x \in W : x \in B[i] \/ x \in N) /\ \A x \in N : x \in L[i - 1]
  BY <1>1
<1>6. \A j \in 1 .. m : j < i => j <= i - 1
  BY <1>1
<1>7. ASSUME NEW k \in 1 .. m, NEW j \in 1 .. m, k < j, NEW x, NEW y
      PROVE  /\ x \in K[j] /\ y \in K[k] => x < y
             /\ x \in E[j] /\ y \in E[k] => x < y
             /\ x \in K[j] /\ y \in E[k] => x < y
             /\ x \in E[j] /\ y \in K[k] => x < y
  <2>1. /\ x \in L[j] /\ y \in L[k] => x < y
        /\ x \in B[j] /\ y \in B[k] => x < y
        /\ x \in L[j] /\ y \in B[k] => x < y
        /\ x \in B[j] /\ y \in L[k] => x < y
    BY <1>2, <1>7 DEF Precede
  \* A packet that switch i took or put out, against one nearer the receiver.
  <2>2. CASE k = i
    <3>1. j # i /\ j # i - 1 /\ K[j] = L[j] /\ E[j] = B[j] /\ i - 1 < j
      BY <1>1, <1>7, <2>2
    <3>2. \A z \in N : (x \in L[j] => x < z) /\ (x \in B[j] => x < z)
      BY <1>1, <1>2, <1>5, <3>1 DEF Precede
    <3>3. \A z \in B[i] : (x \in L[j] => x < z) /\ (x \in B[j] => x < z)
      BY <1>1, <1>2, <1>7, <2>2 DEF Precede
    <3> QED BY <1>3, <1>4, <1>5, <2>1, <2>2, <3>1, <3>2, <3>3
  <2>3. CASE j = i
    <3>1. k # i /\ E[k] = B[k] /\ (y \in K[k] => y \in L[k])
      BY <1>1, <1>3, <1>7, <2>3
    <3>2. CASE k = i - 1
      <4>1. \A z \in N : (y \in K[k] => z < y) /\ (y \in B[k] => z < y)
        BY <1>1, <1>2, <3>2 DEF Precede
      <4>2. \A z \in B[i] : (y \in L[k] => z < y) /\ (y \in B[k] => z < y)
        BY <1>1, <1>2, <1>7, <2>3 DEF Precede
      <4> QED BY <1>3, <1>4, <1>5, <2>1, <2>3, <3>1, <4>1, <4>2
    <3>3. CASE k # i - 1
      <4>1. k < i - 1
        BY <1>1, <1>7, <2>3, <3>3
      <4>2. \A z \in N : (y \in L[k] => z < y) /\ (y \in B[k] => z < y)
        BY <1>1, <1>2, <4>1 DEF Precede
      <4>3. \A z \in B[i] : (y \in L[k] => z < y) /\ (y \in B[k] => z < y)
        BY <1>1, <1>2, <1>7, <2>3 DEF Precede
      <4> QED BY <1>3, <1>4, <1>5, <2>1, <2>3, <3>1, <4>2, <4>3
    <3> QED BY <3>2, <3>3
  <2>4. CASE k # i /\ j # i
    <3>1. E[k] = B[k] /\ E[j] = B[j] /\ (y \in K[k] => y \in L[k]) /\ (x \in K[j] => x \in L[j])
      BY <1>1, <1>3, <2>4
    <3> QED BY <2>1, <3>1
  <2> QED BY <2>2, <2>3, <2>4
<1>8. ASSUME NEW j \in 1 .. m, NEW x \in K[j], NEW y \in E[j] PROVE x < y
  <2>1. CASE j = i
    <3>1. x \in L[i] /\ y \in B[i] => x < y
      BY <1>1, <1>2 DEF Precede
    <3>2. x \in L[i] /\ y \in N => x < y
      BY <1>1, <1>2, <1>5 DEF Precede
    <3>3. x \in W => x < y
      BY <1>1, <1>8, <2>1 DEF Precede
    <3> QED BY <1>3, <1>4, <1>8, <2>1, <3>1, <3>2, <3>3
  <2>2. CASE j # i
    BY <1>1, <1>2, <1>3, <1>8, <2>2 DEF Precede
  <2> QED BY <2>1, <2>2
<1>9. \A x : (\E j \in 1 .. m : x \in L[j] \/ x \in B[j]) <=> (\E j \in 1 .. m : x \in K[j] \/ x \in E[j])
  <2>1. ASSUME NEW x, NEW j \in 1 .. m, x \in L[j] \/ x \in B[j]
        PROVE  \E k \in 1 .. m : x \in K[k] \/ x \in E[k]
    <3>1. x \in N => x \in E[i] \/ x \in K[i]
      BY <1>1
    <3>2. x \in L[j] => x \in K[j] \/ x \in N
      BY <1>1
    <3>3. x \in B[j] => x \in E[j] \/ (j = i /\ x \in K[i])
      BY <1>1
    <3> QED BY <1>1, <2>1, <3>1, <3>2, <3>3
  <2>2. ASSUME NEW x, NEW j \in 1 .. m, x \in K[j] \/ x \in E[j]
        PROVE  \E k \in 1 .. m : x \in L[k] \/ x \in B[k]
    BY <1>1, <1>3, <1>4, <1>5, <2>2
  <2> QED BY <2>1, <2>2
<1>10. \A x : x \in lo .. hi - 1 <=> \E j \in 1 .. m : x \in K[j] \/ x \in E[j]
  BY <1>2, <1>9
<1> QED BY <1>2, <1>7, <1>8, <1>10 DEF Lined, Precede

\* The sender puts packet hi on the first link.
LEMMA LinedSends ==
  ASSUME NEW m \in Nat, m > 0, NEW L, NEW B, NEW lo, NEW hi, Lined(L, B, m, lo, hi), B[1] = {},
         NEW K, K[1] = L[1] \cup {hi}, \A j \in 2 .. m : K[j] = L[j]
  PROVE  Lined(K, B, m, lo, hi + 1)
<1>1. /\ \A k, j \in 1 .. m : k < j => /\ Precede(L[j], L[k]) /\ Precede(B[j], B[k])
                                       /\ Precede(L[j], B[k]) /\ Precede(B[j], L[k])
      /\ \A j \in 1 .. m : Precede(L[j], B[j])
      /\ lo \in Nat /\ hi \in Nat /\ lo <= hi
      /\ \A x : x \in lo .. hi - 1 <=> \E j \in 1 .. m : x \in L[j] \/ x \in B[j]
  BY DEF Lined
<1>2. 1 \in 1 .. m /\ \A j \in 1 .. m : j = 1 \/ j \in 2 .. m
  OBVIOUS
<1>3. \A j \in 1 .. m : \A x : x \in K[j] <=> x \in L[j] \/ (j = 1 /\ x = hi)
  BY <1>2
<1>4. \A j \in 1 .. m : \A x : x \in L[j] \/ x \in B[j] => x < hi
  <2>1. \A x \in lo .. hi - 1 : x < hi
    BY <1>1
  <2> QED BY <1>1, <2>1
<1>5. \A k, j \in 1 .. m : k < j => /\ Precede(K[j], K[k]) /\ Precede(B[j], B[k])
                                    /\ Precede(K[j], B[k]) /\ Precede(B[j], K[k])
  <2>1. \A k, j \in 1 .. m : k < j => j # 1
    OBVIOUS
  <2> QED BY <1>1, <1>3, <1>4, <2>1 DEF Precede
<1>6. \A j \in 1 .. m : Precede(K[j], B[j])
  BY <1>1, <1>3 DEF Precede
<1>7. ASSUME NEW x PROVE x \in lo .. (hi + 1) - 1 <=> \E j \in 1 .. m : x \in K[j] \/ x \in B[j]
  <2>1. x \in lo .. (hi + 1) - 1 <=> x \in lo .. hi - 1 \/ x = hi
    BY <1>1
  <2> QED BY <1>1, <1>2, <1>3, <2>1
<1>8. hi + 1 \in Nat /\ lo <= hi + 1
  BY <1>1
<1> QED BY <1>1, <1>5, <1>6, <1>7, <1>8 DEF Lined

\* The receiver takes the packet that is first on the last link: packet lo.
LEMMA LinedReceives ==
  ASSUME NEW m \in Nat, m > 0, NEW L, NEW B, NEW lo, NEW hi, Lined(L, B, m, lo, hi),
         NEW K, NEW x, L[m] = {x} \cup K[m], Precede({x}, K[m]), \A j \in 1 .. m - 1 : K[j] = L[j]
  PROVE  x = lo /\ Lined(K, B, m, lo + 1, hi)
<1>1. /\ \A k, j \in 1 .. m : k < j => /\ Precede(L[j], L[k]) /\ Precede(B[j], B[k])
                                       /\ Precede(L[j], B[k]) /\ Precede(B[j], L[k])
      /\ \A j \in 1 .. m : Precede(L[j], B[j])
      /\ lo \in Nat /\ hi \in Nat /\ lo <= hi
      /\ \A y : y \in lo .. hi - 1 <=> \E j \in 1 .. m : y \in L[j] \/ y \in B[j]
  BY DEF Lined
<1>2. m \in 1 .. m /\ \A j \in 1 .. m : j = m \/ (j \in 1 .. m - 1 /\ j < m)
  OBVIOUS
<1>3. \A j \in 1 .. m : \A y : y \in L[j] <=> y \in K[j] \/ (j = m /\ y = x)
  BY <1>2
<1>4. \A j \in 1 .. m : \A y : y \in K[j] \/ y \in B[j] => x < y
  BY <1>1, <1>2, <1>3 DEF Precede
<1>5. x \in lo .. hi - 1
  BY <1>1, <1>2, <1>3
<1>6. x = lo
  <2>1. lo \in lo .. hi - 1
    BY <1>1, <1>5
  <2>2. \E j \in 1 .. m : lo \in L[j] \/ lo \in B[j]
    BY <1>1, <2>1
  <2>3. lo = x \/ x < lo
    BY <1>3, <1>4, <2>2
  <2> QED BY <1>1, <1>5, <2>3
<1>7. \A k, j \in 1 .. m : k < j => /\ Precede(K[j], K[k]) /\ Precede(B[j], B[k])
                                    /\ Precede(K[j], B[k]) /\ Precede(B[j], K[k])
  BY <1>1, <1>3 DEF Precede
<1>8. \A j \in 1 .. m : Precede(K[j], B[j])
  BY <1>1, <1>3 DEF Precede
<1>9. ASSUME NEW y PROVE y \in lo + 1 .. hi - 1 <=> \E j \in 1 .. m : y \in K[j] \/ y \in B[j]
  <2>1. y \in lo + 1 .. hi - 1 <=> y \in lo .. hi - 1 /\ y # x
    BY <1>1, <1>6
  <2>2. ASSUME NEW j \in 1 .. m, y \in K[j] \/ y \in B[j] PROVE y \in lo .. hi - 1 /\ y # x
    <3>1. x < y
      BY <1>4, <2>2
    <3>2. y \in lo .. hi - 1
      BY <1>1, <1>3, <2>2
    <3>3. y \in Int /\ x \in Int
      BY <1>1, <1>6, <3>2
    <3> QED BY <3>1, <3>2, <3>3
  <2>3. y \in lo .. hi - 1 /\ y # x => \E j \in 1 .. m : y \in K[j] \/ y \in B[j]
    BY <1>1, <1>3
  <2> QED BY <2>1, <2>2, <2>3
<1>10. lo + 1 \in Nat /\ lo + 1 <= hi
  BY <1>1, <1>5, <1>6
<1> QED BY <1>1, <1>6, <1>7, <1>8, <1>9, <1>10 DEF Lined

-----------------------------------------------------------------------------
(* The lines of the system *)

\* The packets of a flow on the links of its path, and in the node before each.
Carry(f, C) == [i \in 1 .. Len(Path[f]) - 1 |-> Numbers(C[RootAt(f, i)], f)]
Store(f, S) ==
  [i \in 1 .. Len(Path[f]) - 1 |-> IF i = 1 THEN {} ELSE Inside(S[Path[f][i]], Path[f][i], f)]

FlowLined(f, S, C, lo, hi) ==
  /\ \A i \in 1 .. Len(Path[f]) - 1 : Rising(C[RootAt(f, i)], f)
  /\ \A i \in 2 .. Len(Path[f]) - 1 : SwitchLine(S[Path[f][i]], Path[f][i], f)
  /\ Lined(Carry(f, C), Store(f, S), Len(Path[f]) - 1, lo, hi)

\* The path of a flow, link by link.
LEMMA PathLinks ==
  ASSUME NEW f \in Flow, NEW m, m = Len(Path[f]) - 1
  PROVE  /\ m \in Nat /\ m > 1
         /\ \A i \in 1 .. m : /\ RootAt(f, i) = <<Path[f][i], Path[f][i + 1]>> /\ RootAt(f, i) \in Link
                              /\ \A j \in 1 .. m : RootAt(f, i) = RootAt(f, j) => i = j
         /\ \A i \in 2 .. m : Path[f][i] \in Switch
         /\ \A i \in 1 .. m + 1 : Path[f][i] \in Host <=> i = 1 \/ i = m + 1
         /\ \A i \in 1 .. m + 1, j \in 1 .. m + 1 : Path[f][i] = Path[f][j] => i = j
<1>1. /\ Path[f] \in Seq(Switch \cup Host) /\ Len(Path[f]) > 2 /\ IsInjective(Path[f])
      /\ \A i \in DOMAIN Path[f] : Path[f][i] \in Host <=> i \in {1, Len(Path[f])}
  BY CiParameters
<1>2. m \in Nat /\ m > 1 /\ DOMAIN Path[f] = 1 .. m + 1 /\ Len(Path[f]) = m + 1
  BY <1>1
<1>3. \A i \in 2 .. m : Path[f][i] \in Switch
  BY RootOnPath
<1>4. \A i \in 1 .. m : RootAt(f, i) = <<Path[f][i], Path[f][i + 1]>> /\ RootAt(f, i) \in Link
  <2>1. ASSUME NEW i \in 1 .. m PROVE RootAt(f, i) \in Hops(f)
    BY HopOf DEF RootAt
  <2>2. Hops(f) \subseteq Link
    BY DEF Link
  <2> QED BY <2>1, <2>2 DEF RootAt
<1>5. \A i \in 1 .. m, j \in 1 .. m : RootAt(f, i) = RootAt(f, j) => i = j
  BY RootsDiffer
<1>6. \A i \in 1 .. m + 1 : Path[f][i] \in Host <=> i = 1 \/ i = m + 1
  BY <1>1, <1>2
<1>7. \A i \in 1 .. m + 1, j \in 1 .. m + 1 : Path[f][i] = Path[f][j] => i = j
  BY <1>1, <1>2 DEF IsInjective
<1> QED BY <1>2, <1>3, <1>4, <1>5, <1>6, <1>7

\* Nothing on the path of the flow changes for it.
AlikeOn(f, S, C, T, D) ==
  /\ \A i \in 1 .. Len(Path[f]) - 1 : Alike(C[RootAt(f, i)], D[RootAt(f, i)], f)
  /\ \A i \in 2 .. Len(Path[f]) - 1 : T[Path[f][i]] = S[Path[f][i]]

LEMMA AlikeLined ==
  ASSUME NEW f \in Flow, NEW S, NEW C, NEW lo, NEW hi, FlowLined(f, S, C, lo, hi),
         NEW T, NEW D, AlikeOn(f, S, C, T, D)
  PROVE  FlowLined(f, T, D, lo, hi)
<1> DEFINE m == Len(Path[f]) - 1
<1>1. m \in Nat /\ \A i \in 1 .. m : i = 1 \/ i \in 2 .. m
  <2>1. m \in Nat
    BY PathLinks
  <2> HIDE DEF m
  <2> QED BY <2>1
<1>2. \A i \in 1 .. m : Rising(D[RootAt(f, i)], f)
  BY DEF FlowLined, AlikeOn, Alike
<1>3. \A i \in 2 .. m : SwitchLine(T[Path[f][i]], Path[f][i], f)
  BY DEF FlowLined, AlikeOn
<1>4. Carry(f, D) = Carry(f, C)
  BY DEF Carry, AlikeOn, Alike
<1>5. Store(f, T) = Store(f, S)
  BY <1>1 DEF Store, AlikeOn
<1> QED BY <1>2, <1>3, <1>4, <1>5 DEF FlowLined

\* Output: what a handler transmitted leaves the line of the switch in front.
LEMMA ClearedLine ==
  ASSUME NEW n \in Switch, NEW s \in State(n), NEW t, Cleared(s, t, n), NEW f \in Through(n),
         SwitchLine(s, n, f), NEW W, W = Numbers(s.wire[NextHop(n, f)], f)
  PROVE  /\ SwitchLine(t, n, f) /\ Rising(s.wire[NextHop(n, f)], f)
         /\ Inside(s, n, f) = Inside(t, n, f) \cup W /\ Precede(W, Inside(t, n, f))
<1> DEFINE q == Lane(s, n, f)
           w == Lane(t, n, f)
           p == NextHop(n, f)
           K == Depth(n, f)
<1>1. p \in PortOf[n] /\ K \in Nat /\ K > 0
  BY LanePlaces
<1>2. HasQueues(s)
  BY StateHasQueues
<1>3. t.oq = s.oq /\ t.ciq = s.ciq /\ t.wire = [x \in PortOf[n] |-> <<>>]
  BY <1>2 DEF Cleared, HasQueues
<1>4. q[0] = s.wire[p] /\ q[1] = s.oq[p] /\ \A k \in 2 .. K : q[k] = s.ciq[p][RootAt(f, Pos(n, f) + k - 1)]
  BY LaneAt
<1>5. w[0] = t.wire[p] /\ w[1] = t.oq[p] /\ \A k \in 2 .. K : w[k] = t.ciq[p][RootAt(f, Pos(n, f) + k - 1)]
  BY LaneAt
<1>6. InLine(q, K, f) /\ W = Numbers(q[0], f)
  BY <1>4 DEF SwitchLine
<1> HIDE DEF q, w, p, K
<1>7. \A k \in 0 .. K : k = 0 \/ (k > 0 /\ (k = 1 \/ k \in 2 .. K))
  BY <1>1
<1>8. w[0] = <<>> /\ \A k \in 0 .. K : k # 0 => w[k] = q[k]
  BY <1>1, <1>3, <1>4, <1>5, <1>7
<1>9. Numbers(w[0], f) = {} /\ Rising(w[0], f)
  BY <1>8, NoNumbers
<1>10. InLine(w, K, f)
  BY <1>6, <1>8, <1>9 DEF InLine, Precede
<1>11. \A x : x \in Content(q, K, f) <=> x \in W \/ x \in Content(w, K, f)
  <2>1. 0 \in 0 .. K
    BY <1>1
  <2> QED BY <1>6, <1>8, <1>9, <2>1, ContentIn
<1>12. Precede(W, Content(w, K, f))
  <2>1. ASSUME NEW x \in W, NEW y \in Content(w, K, f) PROVE x < y
    <3>1. PICK k \in 0 .. K : y \in Numbers(w[k], f)
      BY <2>1, ContentIn
    <3>2. k # 0 /\ y \in Numbers(q[k], f) /\ 0 < k /\ 0 \in 0 .. K
      BY <1>1, <1>7, <1>8, <1>9, <3>1
    <3> QED BY <1>6, <2>1, <3>2 DEF InLine, Precede
  <2> QED BY <2>1 DEF Precede
<1>13. Rising(q[0], f)
  <2>1. 0 \in 0 .. K
    BY <1>1
  <2> QED BY <1>6, <2>1 DEF InLine
<1> QED BY <1>4, <1>10, <1>11, <1>12, <1>13 DEF SwitchLine, Inside, q, w, K, p

-----------------------------------------------------------------------------
(* A handler of a switch *)

\* The number of a packet of the flow that comes off link in.
Entering(C, in, f) == IF in \in Link THEN Number(Head(C[in]), f) ELSE {}

\* What a handler of switch n must do for the flows through n.
Serves(v, s, n, C, in) ==
  \A f \in Through(n) :
    SwitchLine(v, n, f) /\ Precede(Inside(v, n, f), Entering(C, in, f))
      => SwitchLine(s, n, f) /\ Inside(s, n, f) = Inside(v, n, f) \cup Entering(C, in, f)

\* Switches S and links C become T and D by a handler of n that leaves s.
Handles(S, C, n, in, s, T, D) ==
  /\ s \in State(n) /\ Serves(S[n], s, n, C, in)
  /\ DOMAIN D = Link /\ MovedFrom(C, D, n, s) /\ MovedTo(C, D, n, in)
  /\ in \in Link => \E m : in = <<m, n>>
  /\ Cleared(s, T[n], n) /\ \A k \in Switch : k # n => T[k] = S[k]

\* A flow that does not cross n.
LEMMA HandlesElsewhere ==
  ASSUME NEW n \in Switch, NEW f \in Flow, f \notin Through(n),
         NEW S, NEW C, NEW in, NEW s, NEW T, NEW D, Handles(S, C, n, in, s, T, D)
  PROVE  AlikeOn(f, S, C, T, D)
<1> DEFINE m == Len(Path[f]) - 1
<1>1. /\ m \in Nat /\ m > 1
      /\ \A i \in 1 .. m : RootAt(f, i) = <<Path[f][i], Path[f][i + 1]>> /\ RootAt(f, i) \in Link
      /\ \A i \in 2 .. m : Path[f][i] \in Switch
      /\ \A i \in 1 .. m + 1 : Path[f][i] \in Host <=> i = 1 \/ i = m + 1
  BY PathLinks
<1>2. \A i \in 2 .. m : Path[f][i] # n
  <2>1. ASSUME NEW i \in 2 .. m, Path[f][i] = n PROVE FALSE
    <3>1. i \in DOMAIN Path[f]
      BY CiParameters
    <3> QED BY <2>1, <3>1, OnPath DEF Through
  <2> QED BY <2>1
<1>3. n \notin Host
  BY CiParameters
<1>4. \A i \in 1 .. m + 1 : Path[f][i] # n
  <2> HIDE DEF m
  <2>1. \A i \in 1 .. m + 1 : i \in 2 .. m \/ i = 1 \/ i = m + 1
    BY <1>1
  <2> QED BY <1>1, <1>2, <1>3, <2>1
<1>5. \A a, b : <<a, b>> \in Link /\ a # n /\ b # n => D[<<a, b>>] = C[<<a, b>>]
  <2>1. ASSUME NEW a, NEW b, <<a, b>> \in Link, a # n, b # n PROVE D[<<a, b>>] = C[<<a, b>>]
    <3>1. <<a, b>> # in
      BY <2>1 DEF Handles
    <3> QED BY <2>1, <3>1 DEF Handles, MovedTo
  <2> QED BY <2>1
<1>6. ASSUME NEW i \in 1 .. m PROVE Alike(C[RootAt(f, i)], D[RootAt(f, i)], f)
  <2>1. Path[f][i] # n /\ Path[f][i + 1] # n
    <3>1. i \in 1 .. m + 1 /\ i + 1 \in 1 .. m + 1
      BY <1>1
    <3> QED BY <3>1, <1>4
  <2>2. D[RootAt(f, i)] = C[RootAt(f, i)]
    BY <1>1, <1>5, <2>1
  <2> QED BY <2>2 DEF Alike
<1>7. \A i \in 2 .. m : T[Path[f][i]] = S[Path[f][i]]
  BY <1>1, <1>2 DEF Handles
<1> QED BY <1>6, <1>7 DEF AlikeOn

\* The link by which a flow comes in.
LEMMA HandlesIn ==
  ASSUME NEW n \in Switch, NEW f \in Through(n), NEW C, LinksOK(C), NEW D, NEW in,
         in \in Link => \E m : in = <<m, n>>, MovedTo(C, D, n, in),
         NEW l, l = <<PrevHop(n, f), n>>, l \in Link, Rising(C[l], f)
  PROVE  /\ Rising(D[l], f) /\ Numbers(C[l], f) = Entering(C, in, f) \cup Numbers(D[l], f)
         /\ Precede(Entering(C, in, f), Numbers(D[l], f))
<1> DEFINE a == PrevHop(n, f)
           q == C[l]
           N == Entering(C, in, f)
<1>1. f \in Flow /\ \A k \in Link : C[k] \in Seq(Carries(k[1], k[2]))
  BY DEF Through, LinksOK
<1>2. a # n /\ <<a, n>> \in Link /\ l = <<a, n>>
  BY Ports
<1>3. CASE in = l
  <2>1. q # <<>> /\ D[l] = Tail(q)
    BY <1>2, <1>3 DEF MovedTo
  <2>2. N = Number(Head(q), f)
    BY <1>3 DEF Entering
  <2>3. q \in Seq(Carries(l[1], l[2]))
    BY <1>1
  <2> HIDE DEF q, N
  <2>4. /\ Rising(Tail(q), f) /\ Numbers(q, f) = Number(Head(q), f) \cup Numbers(Tail(q), f)
        /\ Precede(Number(Head(q), f), Numbers(Tail(q), f))
    BY <2>1, <2>3, TailRising DEF q
  <2> QED BY <2>1, <2>2, <2>4 DEF q, N
<1>4. CASE in # l
  <2>1. D[l] = C[l]
    BY <1>2, <1>4 DEF MovedTo
  <2>2. N = {}
    <3>1. CASE in \notin Link
      BY <3>1 DEF Entering
    <3>2. CASE in \in Link
      <4>1. PICK m : in = <<m, n>>
        BY <3>2
      <4> DEFINE item == Head(C[in])
      <4>2. C[in] # <<>>
        <5>1. <<m, n>> \in Link /\ m # n
          BY <3>2, <4>1, Ports
        <5> QED BY <4>1, <5>1 DEF MovedTo
      <4>3. item \in Carries(m, n)
        <5>1. C[in] \in Seq(Carries(in[1], in[2])) /\ in[1] = m /\ in[2] = n
          BY <1>1, <3>2, <4>1
        <5> QED BY <4>2, <5>1
      <4> HIDE DEF item
      <4>4. ~ IsOf(item, f)
        <5>1. ASSUME IsOf(item, f) PROVE FALSE
          <6>1. item \in Leaving(m, n)
            BY <4>3, <5>1 DEF Carries, SignalOn, Signal, IsOf
          <6>2. <<m, n>> \in Hops(f)
            BY <5>1, <6>1 DEF Leaving, IsOf
          <6>3. a = m
            BY <1>1, <6>2, HopIn
          <6> QED BY <1>2, <1>4, <4>1, <6>3
        <5> QED BY <5>1
      <4> QED BY <3>2, <4>4 DEF Entering, Number, item
    <3> QED BY <3>1, <3>2
  <2> HIDE DEF N
  <2> QED BY <2>1, <2>2 DEF Precede, N
<1> QED BY <1>3, <1>4

\* The link by which it leaves: the packets on the wire go ahead of the signals.
LEMMA HandlesOut ==
  ASSUME NEW f, NEW q, NEW T, q \in Seq(T), NEW w \in Seq(Packet), NEW c \in Seq(Signal),
         Rising(q, f), Rising(w, f), Precede(Numbers(q, f), Numbers(w, f))
  PROVE  /\ Rising(q \o (w \o c), f)
         /\ Numbers(q \o (w \o c), f) = Numbers(q, f) \cup Numbers(w, f)
<1>1. \A i \in DOMAIN c : ~ IsOf(c[i], f)
  <2>1. \A i \in DOMAIN c : c[i] \in Signal
    OBVIOUS
  <2> QED BY <2>1 DEF Signal, IsOf
<1>2. Numbers(c, f) = {} /\ Rising(c, f)
  BY <1>1, NoNumbers
<1>3. Precede(Numbers(w, f), Numbers(c, f))
  BY <1>2 DEF Precede
<1>4. Rising(w \o c, f) /\ Numbers(w \o c, f) = Numbers(w, f)
  <2>1. Rising(c, f)
    BY <1>2
  <2>2. Rising(w \o c, f) /\ Numbers(w \o c, f) = Numbers(w, f) \cup Numbers(c, f)
    BY <1>3, <2>1, ConcatRising
  <2> QED BY <1>2, <2>2
<1> DEFINE x == w \o c
           U == Packet \cup Signal
<1>5. x \in Seq(U)
  <2>1. w \in Seq(U) /\ c \in Seq(U)
    OBVIOUS
  <2> HIDE DEF U
  <2> QED BY <2>1
<1>6. Precede(Numbers(q, f), Numbers(x, f)) /\ Rising(x, f)
  BY <1>4
<1>7. Numbers(x, f) = Numbers(w, f)
  BY <1>4
<1> HIDE DEF x, U
<1>8. Rising(q \o x, f) /\ Numbers(q \o x, f) = Numbers(q, f) \cup Numbers(x, f)
  BY <1>5, <1>6, ConcatRising
<1> QED BY <1>7, <1>8 DEF x

\* What the handler does to the end-to-end line of a flow through n.
LEMMA HandlesThrough ==
  ASSUME NEW n \in Switch, NEW f \in Through(n),
         NEW S, NEW C, NEW in, NEW s, NEW T, NEW D, LinksOK(C), Handles(S, C, n, in, s, T, D),
         NEW lo, NEW hi, FlowLined(f, S, C, lo, hi)
  PROVE  FlowLined(f, T, D, lo, hi)
<1> DEFINE m == Len(Path[f]) - 1
           i == Pos(n, f)
           p == NextHop(n, f)
           a == PrevHop(n, f)
           L == Carry(f, C)
           K == Carry(f, D)
           B == Store(f, S)
           E == Store(f, T)
           N == Entering(C, in, f)
           W == Numbers(s.wire[p], f)
<1>1. f \in Flow
  BY DEF Through
<1>2. /\ m \in Nat /\ m > 1
      /\ \A j \in 1 .. m : /\ RootAt(f, j) = <<Path[f][j], Path[f][j + 1]>> /\ RootAt(f, j) \in Link
                           /\ \A k \in 1 .. m : RootAt(f, j) = RootAt(f, k) => j = k
      /\ \A j \in 2 .. m : Path[f][j] \in Switch
      /\ \A j \in 1 .. m + 1 : Path[f][j] \in Host <=> j = 1 \/ j = m + 1
      /\ \A j \in 1 .. m + 1, k \in 1 .. m + 1 : Path[f][j] = Path[f][k] => j = k
  BY <1>1, PathLinks
<1>3. /\ i \in 2 .. m /\ Path[f][i] = n /\ p \in PortOf[n] /\ p = Path[f][i + 1] /\ a = Path[f][i - 1]
  <2>1. i \in 2 .. m /\ Path[f][i] = n /\ p \in PortOf[n] /\ a = Path[f][i - 1]
    BY <1>1, HopOut DEF Through
  <2> QED BY <2>1 DEF NextHop
<1>4. /\ Lined(L, B, m, lo, hi)
      /\ \A j \in 1 .. m : Rising(C[RootAt(f, j)], f)
      /\ \A j \in 2 .. m : SwitchLine(S[Path[f][j]], Path[f][j], f)
  BY DEF FlowLined
<1>5. /\ \A j \in 1 .. m : L[j] = Numbers(C[RootAt(f, j)], f) /\ K[j] = Numbers(D[RootAt(f, j)], f)
      /\ \A j \in 2 .. m : B[j] = Inside(S[Path[f][j]], Path[f][j], f) /\ E[j] = Inside(T[Path[f][j]], Path[f][j], f)
      /\ B[1] = {} /\ E[1] = {}
  <2> HIDE DEF m
  <2>1. \A j \in 2 .. m : j \in 1 .. m /\ j # 1
    BY <1>2
  <2>2. 1 \in 1 .. m
    BY <1>2
  <2> QED BY <2>1, <2>2 DEF Carry, Store, m
<1>6. /\ s \in State(n) /\ Serves(S[n], s, n, C, in)
      /\ DOMAIN D = Link /\ MovedFrom(C, D, n, s) /\ MovedTo(C, D, n, in)
      /\ in \in Link => \E x : in = <<x, n>>
      /\ Cleared(s, T[n], n) /\ \A k \in Switch : k # n => T[k] = S[k]
  BY DEF Handles
<1> DEFINE before == RootAt(f, i - 1)
           after == RootAt(f, i)
<1>7. i - 1 \in 1 .. m /\ i \in 1 .. m /\ i - 1 < i /\ (i - 1) + 1 = i
  <2> HIDE DEF m, i
  <2> QED BY <1>2, <1>3
<1>8. /\ before = <<a, n>> /\ before \in Link /\ after = <<n, p>> /\ after \in Link
      /\ L[i - 1] = Numbers(C[before], f) /\ K[i - 1] = Numbers(D[before], f) /\ Rising(C[before], f)
      /\ L[i] = Numbers(C[after], f) /\ K[i] = Numbers(D[after], f) /\ Rising(C[after], f)
      /\ B[i] = Inside(S[n], n, f) /\ E[i] = Inside(T[n], n, f) /\ SwitchLine(S[n], n, f)
  <2> HIDE DEF m, i, a, p, L, K, B, E
  <2> QED BY <1>2, <1>3, <1>4, <1>5, <1>7
<1> HIDE DEF m, i, a, p, L, K, B, E, N, W, before, after
<1>9. /\ Rising(D[before], f) /\ L[i - 1] = N \cup K[i - 1] /\ Precede(N, K[i - 1])
  BY <1>1, <1>6, <1>8, HandlesIn DEF a, N
<1>10. /\ Precede(B[i], L[i - 1]) /\ Precede(L[i], L[i - 1]) /\ Precede(L[i], B[i])
  BY <1>4, <1>7 DEF Lined
<1>11. SwitchLine(s, n, f) /\ Inside(s, n, f) = B[i] \cup N
  <2>1. Precede(B[i], N)
    BY <1>9, <1>10 DEF Precede
  <2> QED BY <1>6, <1>8, <2>1 DEF Serves, N
<1>12. /\ SwitchLine(T[n], n, f) /\ Rising(s.wire[p], f)
       /\ B[i] \cup N = E[i] \cup W /\ Precede(W, E[i])
  BY <1>6, <1>8, <1>11, ClearedLine DEF p, W
<1>13. Precede(L[i], W)
  <2>1. \A x \in W : x \in B[i] \/ x \in L[i - 1]
    BY <1>9, <1>12
  <2> QED BY <1>10, <2>1 DEF Precede
<1>14. Rising(D[after], f) /\ K[i] = L[i] \cup W
  <2> DEFINE q == C[after]
             w == s.wire[p]
             c == s.ctrl[p]
             U == Carries(after[1], after[2])
  <2>1. D[after] = q \o (w \o c)
    BY <1>3, <1>6, <1>8 DEF MovedFrom
  <2>2. q \in Seq(U)
    BY <1>8 DEF LinksOK
  <2>3. w \in Seq(Packet) /\ c \in Seq(Signal)
    BY <1>3, <1>6, StateOf
  <2>4. Rising(q, f) /\ Rising(w, f) /\ Precede(Numbers(q, f), Numbers(w, f))
    BY <1>8, <1>12, <1>13 DEF W
  <2>5. L[i] = Numbers(q, f) /\ W = Numbers(w, f)
    BY <1>8 DEF W
  <2> HIDE DEF q, w, c, U
  <2>6. Rising(q \o (w \o c), f) /\ Numbers(q \o (w \o c), f) = Numbers(q, f) \cup Numbers(w, f)
    BY <2>2, <2>3, <2>4, HandlesOut
  <2> QED BY <1>8, <2>1, <2>5, <2>6
\* The rest of the path.
<1>15. ASSUME NEW j \in 1 .. m, j # i
       PROVE  E[j] = B[j] /\ (j # 1 => T[Path[f][j]] = S[Path[f][j]])
  <2>1. CASE j = 1
    BY <1>5, <2>1
  <2>2. CASE j # 1
    <3>1. j \in 2 .. m
      BY <1>2, <1>15, <2>2
    <3>2. Path[f][j] # n /\ Path[f][j] \in Switch
      <4>1. j \in 1 .. m + 1 /\ i \in 1 .. m + 1
        BY <1>2, <1>3, <3>1
      <4> QED BY <1>2, <1>3, <1>15, <3>1, <4>1
    <3> QED BY <1>5, <1>6, <3>1, <3>2
  <2> QED BY <2>1, <2>2
<1>16. ASSUME NEW j \in 1 .. m, j # i, j # i - 1
       PROVE  D[RootAt(f, j)] = C[RootAt(f, j)]
  <2>1. RootAt(f, j) = <<Path[f][j], Path[f][j + 1]>> /\ RootAt(f, j) \in Link
    BY <1>2
  <2>2. j \in 1 .. m + 1 /\ j + 1 \in 1 .. m + 1 /\ i \in 1 .. m + 1 /\ j + 1 # i
    BY <1>2, <1>3, <1>16
  <2>3. Path[f][j] # n /\ Path[f][j + 1] # n
    BY <1>2, <1>3, <1>16, <2>2
  <2>4. <<Path[f][j], Path[f][j + 1]>> # in
    BY <1>6, <2>1, <2>3
  <2> QED BY <1>6, <2>1, <2>3, <2>4 DEF MovedTo
<1>17. \A j \in 1 .. m : j # i /\ j # i - 1 => K[j] = L[j]
  BY <1>5, <1>16
<1>18. Passes(L, B, K, E, m, i, N, W)
  BY <1>3, <1>9, <1>12, <1>14, <1>15, <1>17 DEF Passes
<1>19. Lined(K, E, m, lo, hi)
  BY <1>2, <1>4, <1>18, LinedPasses
<1>20. ASSUME NEW j \in 1 .. m PROVE Rising(D[RootAt(f, j)], f)
  <2>1. CASE j = i
    BY <1>14, <2>1 DEF after
  <2>2. CASE j = i - 1
    BY <1>9, <2>2 DEF before
  <2>3. CASE j # i /\ j # i - 1
    BY <1>4, <1>16, <2>3
  <2> QED BY <2>1, <2>2, <2>3
<1>21. ASSUME NEW j \in 2 .. m PROVE SwitchLine(T[Path[f][j]], Path[f][j], f)
  <2>1. CASE j = i
    BY <1>3, <1>12, <2>1
  <2>2. CASE j # i
    <3>1. j \in 1 .. m /\ j # 1
      BY <1>2
    <3>2. T[Path[f][j]] = S[Path[f][j]]
      BY <1>15, <2>2, <3>1
    <3> QED BY <1>4, <3>2
  <2> QED BY <2>1, <2>2
<1> QED BY <1>19, <1>20, <1>21 DEF FlowLined, m, K, E

LEMMA HandlesLined ==
  ASSUME NEW n \in Switch, NEW f \in Flow,
         NEW S, NEW C, NEW in, NEW s, NEW T, NEW D, LinksOK(C), Handles(S, C, n, in, s, T, D),
         NEW lo, NEW hi, FlowLined(f, S, C, lo, hi)
  PROVE  FlowLined(f, T, D, lo, hi)
<1>1. CASE f \in Through(n)
  BY <1>1, HandlesThrough
<1>2. CASE f \notin Through(n)
  BY <1>2, HandlesElsewhere, AlikeLined
<1> QED BY <1>1, <1>2

-----------------------------------------------------------------------------
(* The hosts *)

\* The host of a flow sends its next packet.
LEMMA SendLined ==
  ASSUME NEW f \in Flow, NEW S, NEW C, LinksOK(C), NEW lo, NEW hi, FlowLined(f, S, C, lo, hi),
         NEW d, d = Data(f, hi), d \in Leaving(Path[f][1], Path[f][2]),
         NEW D, D = [C EXCEPT ![RootAt(f, 1)] = Append(@, d)]
  PROVE  FlowLined(f, S, D, lo, hi + 1)
<1> DEFINE m == Len(Path[f]) - 1
           L == Carry(f, C)
           K == Carry(f, D)
           B == Store(f, S)
           l == RootAt(f, 1)
<1>1. /\ m \in Nat /\ m > 1
      /\ \A j \in 1 .. m : RootAt(f, j) \in Link /\ \A k \in 1 .. m : RootAt(f, j) = RootAt(f, k) => j = k
  BY PathLinks
<1>2. /\ Lined(L, B, m, lo, hi) /\ \A j \in 1 .. m : Rising(C[RootAt(f, j)], f)
      /\ \A j \in 2 .. m : SwitchLine(S[Path[f][j]], Path[f][j], f)
  BY DEF FlowLined
<1>3. /\ \A j \in 1 .. m : L[j] = Numbers(C[RootAt(f, j)], f) /\ K[j] = Numbers(D[RootAt(f, j)], f)
      /\ B[1] = {}
  <2>1. 1 \in 1 .. m
    BY <1>1
  <2> QED BY <2>1 DEF Carry, Store
<1>4. l = <<Path[f][1], Path[f][2]>> /\ 1 \in 1 .. m /\ l \in Link
  BY <1>1 DEF RootAt
<1>5. DOMAIN C = Link /\ C[l] \in Seq(Carries(l[1], l[2])) /\ d \in Carries(l[1], l[2])
  BY <1>4 DEF LinksOK, Carries
<1>6. Number(d, f) = {hi}
  BY DEF Data, Number, IsOf
<1> HIDE DEF L, K, B, m
<1>7. \A j \in 1 .. m : j # 1 => D[RootAt(f, j)] = C[RootAt(f, j)]
  BY <1>1, <1>4, <1>5
<1>8. D[l] = Append(C[l], d)
  BY <1>4, <1>5
<1> DEFINE q == C[l]
           U == Carries(l[1], l[2])
<1>9. Rising(q, f) /\ L[1] = Numbers(q, f) /\ K[1] = Numbers(D[l], f)
  BY <1>2, <1>3, <1>4
<1>10. Precede(Numbers(q, f), Number(d, f))
  <2>1. hi \in Nat /\ lo \in Nat /\ \A x : x \in L[1] => x \in lo .. hi - 1
    BY <1>2, <1>4 DEF Lined
  <2>2. \A x \in L[1] : x < hi
    BY <2>1
  <2> QED BY <1>6, <1>9, <2>2 DEF Precede
<1>11. Rising(D[l], f) /\ K[1] = L[1] \cup {hi}
  <2>1. q \in Seq(U) /\ d \in U
    BY <1>5
  <2> HIDE DEF q, U, l
  <2>2. Rising(Append(q, d), f) /\ Numbers(Append(q, d), f) = Numbers(q, f) \cup Number(d, f)
    BY <1>9, <1>10, <2>1, AppendRising
  <2>3. D[l] = Append(q, d)
    BY <1>8 DEF q
  <2> QED BY <1>6, <1>9, <2>2, <2>3
<1> HIDE DEF q, U
<1>12. \A j \in 2 .. m : K[j] = L[j]
  <2>1. \A j \in 2 .. m : j \in 1 .. m /\ j # 1
    BY <1>1
  <2> QED BY <1>3, <1>7, <2>1
<1>13. Lined(K, B, m, lo, hi + 1)
  <2>1. m > 0
    BY <1>1
  <2> QED BY <1>1, <1>2, <1>3, <1>11, <1>12, <2>1, LinedSends
<1>14. \A j \in 1 .. m : Rising(D[RootAt(f, j)], f)
  BY <1>2, <1>7, <1>11
<1> QED BY <1>2, <1>13, <1>14 DEF FlowLined, K, B, m

\* The receiver of a flow takes a packet: it is the next one.
TakesPacket(f, C, D, a, h, d) ==
  /\ <<a, h>> \in Hops(f) /\ C[<<a, h>>] # <<>>
  /\ d = Head(C[<<a, h>>]) /\ IsOf(d, f) /\ D = [C EXCEPT ![<<a, h>>] = Tail(@)]

LEMMA ReceiveLined ==
  ASSUME NEW f \in Flow, NEW S, NEW C, LinksOK(C), NEW lo, NEW hi, FlowLined(f, S, C, lo, hi),
         NEW D, NEW a, NEW h \in Host, NEW d, TakesPacket(f, C, D, a, h, d)
  PROVE  d.seq = lo /\ FlowLined(f, S, D, lo + 1, hi)
<1> DEFINE m == Len(Path[f]) - 1
           L == Carry(f, C)
           K == Carry(f, D)
           B == Store(f, S)
           l == <<a, h>>
<1>0. /\ l \in Hops(f) /\ C[l] # <<>> /\ d = Head(C[l]) /\ IsOf(d, f)
      /\ D = [C EXCEPT ![l] = Tail(@)]
  BY DEF TakesPacket
<1>1. /\ m \in Nat /\ m > 1
      /\ \A j \in 1 .. m : RootAt(f, j) \in Link /\ \A k \in 1 .. m : RootAt(f, j) = RootAt(f, k) => j = k
      /\ \A j \in 1 .. m + 1 : Path[f][j] \in Host <=> j = 1 \/ j = m + 1
  BY PathLinks
<1>2. /\ Lined(L, B, m, lo, hi) /\ \A j \in 1 .. m : Rising(C[RootAt(f, j)], f)
      /\ \A j \in 2 .. m : SwitchLine(S[Path[f][j]], Path[f][j], f)
  BY DEF FlowLined
<1>3. \A j \in 1 .. m : L[j] = Numbers(C[RootAt(f, j)], f) /\ K[j] = Numbers(D[RootAt(f, j)], f)
  BY DEF Carry
<1>4. l = RootAt(f, m) /\ l \in Link /\ m \in 1 .. m
  <2>1. PICK i \in 1 .. m : <<a, h>> = <<Path[f][i], Path[f][i + 1]>>
    BY <1>0, HopOf
  <2>2. h = Path[f][i + 1]
    BY <2>1
  <2> HIDE DEF m
  <2>3. i + 1 \in 1 .. m + 1 /\ i + 1 # 1
    BY <1>1
  <2>4. i + 1 = m + 1
    BY <1>1, <2>2, <2>3
  <2>5. i = m
    BY <1>1, <2>4
  <2> QED BY <1>1, <2>1, <2>5 DEF RootAt
<1>5. DOMAIN C = Link /\ C[l] \in Seq(Carries(l[1], l[2]))
  BY <1>4 DEF LinksOK
<1>6. Number(d, f) = {d.seq}
  BY <1>0 DEF Number
<1>7. C[l] # <<>> /\ d = Head(C[l]) /\ D[l] = Tail(C[l])
  BY <1>0, <1>4, <1>5
<1>8. \A j \in 1 .. m : j # m => D[RootAt(f, j)] = C[RootAt(f, j)]
  <2>1. \A j \in 1 .. m : j # m => RootAt(f, j) # l
    BY <1>1, <1>4
  <2> QED BY <1>0, <1>1, <1>5, <2>1
<1> HIDE DEF L, K, B, m
<1> DEFINE q == C[l]
           U == Carries(l[1], l[2])
<1>9. Rising(q, f) /\ L[m] = Numbers(q, f) /\ K[m] = Numbers(D[l], f) /\ q \in Seq(U)
  BY <1>2, <1>3, <1>4, <1>5
<1>10. Rising(D[l], f) /\ L[m] = {d.seq} \cup K[m] /\ Precede({d.seq}, K[m])
  <2>1. q # <<>> /\ d = Head(q) /\ D[l] = Tail(q)
    BY <1>7
  <2> HIDE DEF q, U, l
  <2>2. /\ Rising(Tail(q), f) /\ Numbers(q, f) = Number(Head(q), f) \cup Numbers(Tail(q), f)
        /\ Precede(Number(Head(q), f), Numbers(Tail(q), f))
    BY <1>9, <2>1, TailRising
  <2> QED BY <1>6, <1>9, <2>1, <2>2
<1> HIDE DEF q, U, l
<1>11. \A j \in 1 .. m - 1 : K[j] = L[j]
  <2>1. \A j \in 1 .. m - 1 : j \in 1 .. m /\ j # m
    BY <1>1
  <2> QED BY <1>3, <1>8, <2>1
<1>12. d.seq = lo /\ Lined(K, B, m, lo + 1, hi)
  <2> DEFINE x == d.seq
  <2>1. m > 0
    BY <1>1
  <2>2. L[m] = {x} \cup K[m] /\ Precede({x}, K[m])
    BY <1>10
  <2> HIDE DEF x
  <2>3. x = lo /\ Lined(K, B, m, lo + 1, hi)
    BY <1>1, <1>2, <1>11, <2>1, <2>2, LinedReceives
  <2> QED BY <2>3 DEF x
<1>13. \A j \in 1 .. m : Rising(D[RootAt(f, j)], f)
  BY <1>2, <1>4, <1>8, <1>10
<1> QED BY <1>2, <1>12, <1>13 DEF FlowLined, K, B, m

\* What a host sends and receives of another flow, or a signal.
LEMMA OtherSendLined ==
  ASSUME NEW f \in Flow, NEW S, NEW C, LinksOK(C), NEW lo, NEW hi, FlowLined(f, S, C, lo, hi),
         NEW k \in Link, NEW d \in Carries(k[1], k[2]), ~ IsOf(d, f),
         NEW D, D = [C EXCEPT ![k] = Append(@, d)]
  PROVE  FlowLined(f, S, D, lo, hi)
<1>1. DOMAIN C = Link /\ \A l \in Link : C[l] \in Seq(Carries(l[1], l[2]))
  BY DEF LinksOK
<1>2. ASSUME NEW l \in Link PROVE Alike(C[l], D[l], f)
  <2>1. CASE l = k
    <3>1. D[l] = Append(C[l], d)
      BY <1>1, <2>1
    <3> DEFINE q == C[l]
               U == Carries(l[1], l[2])
    <3>2. q \in Seq(U) /\ d \in U
      BY <1>1, <2>1
    <3> HIDE DEF q, U
    <3>3. Alike(q, Append(q, d), f)
      BY <3>2, OtherFlow
    <3> QED BY <3>1, <3>3 DEF q
  <2>2. CASE l # k
    BY <1>1, <2>2 DEF Alike
  <2> QED BY <2>1, <2>2
<1>3. \A i \in 1 .. Len(Path[f]) - 1 : RootAt(f, i) \in Link
  BY PathLinks
<1>4. AlikeOn(f, S, C, S, D)
  BY <1>2, <1>3 DEF AlikeOn
<1> QED BY <1>4, AlikeLined

LEMMA OtherReceiveLined ==
  ASSUME NEW f \in Flow, NEW S, NEW C, LinksOK(C), NEW lo, NEW hi, FlowLined(f, S, C, lo, hi),
         NEW k \in Link, C[k] # <<>>, ~ IsOf(Head(C[k]), f),
         NEW D, D = [C EXCEPT ![k] = Tail(@)]
  PROVE  FlowLined(f, S, D, lo, hi)
<1>1. DOMAIN C = Link /\ \A l \in Link : C[l] \in Seq(Carries(l[1], l[2]))
  BY DEF LinksOK
<1>2. ASSUME NEW l \in Link PROVE Alike(C[l], D[l], f)
  <2>1. CASE l = k
    <3>1. D[l] = Tail(C[l])
      BY <1>1, <2>1
    <3> DEFINE q == C[l]
               U == Carries(l[1], l[2])
               d == Head(q)
    <3>2. q \in Seq(U) /\ q # <<>> /\ ~ IsOf(d, f) /\ d = Head(q)
      BY <1>1, <2>1
    <3> HIDE DEF q, U, d
    <3>3. Alike(q, Tail(q), f)
      BY <3>2, OtherFlow
    <3> QED BY <3>1, <3>3 DEF q
  <2>2. CASE l # k
    BY <1>1, <2>2 DEF Alike
  <2> QED BY <2>1, <2>2
<1>3. \A i \in 1 .. Len(Path[f]) - 1 : RootAt(f, i) \in Link
  BY PathLinks
<1>4. AlikeOn(f, S, C, S, D)
  BY <1>2, <1>3 DEF AlikeOn
<1> QED BY <1>4, AlikeLined

-----------------------------------------------------------------------------
(* The invariant, from event to event *)

\* For every flow: what it has on its way is one line of packets, from the
\* next its receiver will take to the last its sender has sent.
OrderInv ==
  \A f \in Flow :
    /\ FlowLined(f, sw, chan, Len(received[f]), sent[f])
    /\ \A i \in DOMAIN received[f] : received[f][i] = i - 1

LEMMA LinedInitially == Init => OrderInv
<1> SUFFICES ASSUME Init, NEW f \in Flow
             PROVE  /\ FlowLined(f, sw, chan, Len(received[f]), sent[f])
                    /\ \A i \in DOMAIN received[f] : received[f][i] = i - 1
  BY DEF OrderInv
<1> DEFINE m == Len(Path[f]) - 1
           L == Carry(f, chan)
           B == Store(f, sw)
<1>1. /\ m \in Nat /\ \A j \in 1 .. m : RootAt(f, j) \in Link
      /\ \A j \in 2 .. m : Path[f][j] \in Switch /\ Path[f][j + 1] = NextHop(Path[f][j], f)
                           /\ f \in Through(Path[f][j])
  <2>1. ASSUME NEW j \in 2 .. m
        PROVE  Path[f][j] \in Switch /\ Path[f][j + 1] = NextHop(Path[f][j], f) /\ f \in Through(Path[f][j])
    <3>1. j \in DOMAIN Path[f] /\ Path[f][j] \in Switch
      BY RootOnPath, CiParameters
    <3> QED BY <3>1, OnPath DEF Through
  <2> QED BY <2>1, PathLinks
<1>2. /\ sent[f] = 0 /\ received[f] = <<>> /\ \A l \in Link : chan[l] = <<>>
  BY DEF Init
<1>3. PICK hol : sw = [n \in Switch |-> InitSwitch(n, hol[n])]
  BY DEF Init
<1>4. ASSUME NEW n \in Switch, f \in Through(n)
      PROVE  SwitchLine(sw[n], n, f) /\ Inside(sw[n], n, f) = {}
  <2> DEFINE s == sw[n]
             q == Lane(s, n, f)
             p == NextHop(n, f)
             K == Depth(n, f)
  <2>1. /\ p \in PortOf[n] /\ K \in Nat
        /\ \A k \in 2 .. K : RootAt(f, Pos(n, f) + k - 1) \in Root
    BY <1>4, LanePlaces
  <2>2. q[0] = s.wire[p] /\ q[1] = s.oq[p] /\ \A k \in 2 .. K : q[k] = s.ciq[p][RootAt(f, Pos(n, f) + k - 1)]
    BY <1>4, LaneAt
  <2>3. s.wire[p] = <<>> /\ s.oq[p] = <<>> /\ \A r \in Root : s.ciq[p][r] = <<>>
    BY <1>3, <2>1 DEF InitSwitch
  <2> HIDE DEF s, q, p, K
  <2>4. \A k \in 0 .. K : q[k] = <<>>
    <3>1. \A k \in 0 .. K : k = 0 \/ k = 1 \/ k \in 2 .. K
      BY <2>1
    <3> QED BY <2>1, <2>2, <2>3, <3>1
  <2>5. \A k \in 0 .. K : Numbers(q[k], f) = {} /\ Rising(q[k], f)
    BY <2>4, NoNumbers
  <2>6. InLine(q, K, f)
    BY <2>5 DEF InLine, Precede
  <2>7. Content(q, K, f) = {}
    BY <2>5, ContentIn
  <2> QED BY <2>6, <2>7 DEF SwitchLine, Inside, q, K, s
<1>5. \A j \in 1 .. m : Rising(chan[RootAt(f, j)], f) /\ L[j] = {}
  <2>1. \A j \in 1 .. m : Rising(chan[RootAt(f, j)], f) /\ Numbers(chan[RootAt(f, j)], f) = {}
    BY <1>1, <1>2, NoNumbers
  <2> QED BY <2>1 DEF Carry
<1>6. \A j \in 2 .. m : SwitchLine(sw[Path[f][j]], Path[f][j], f)
  BY <1>1, <1>4
<1>7. \A j \in 1 .. m : B[j] = {}
  <2>1. \A j \in 2 .. m : Inside(sw[Path[f][j]], Path[f][j], f) = {}
    BY <1>1, <1>4
  <2>2. \A j \in 1 .. m : j # 1 => j \in 2 .. m
    BY <1>1
  <2> QED BY <2>1, <2>2 DEF Store
<1> HIDE DEF L, B, m
<1>8. Lined(L, B, m, 0, 0)
  BY <1>5, <1>7 DEF Lined, Precede
<1>9. Len(received[f]) = 0 /\ DOMAIN received[f] = {}
  BY <1>2
<1> QED BY <1>2, <1>5, <1>6, <1>8, <1>9 DEF FlowLined, L, B, m

\* A handler of a switch, from the state it leaves to what the system becomes.
LEMMA HandlerOrder ==
  ASSUME CiInv, OrderInv, NEW n \in Switch, NEW in, NEW s \in State(n), Takes(chan, n, in),
         Serves(sw[n], s, n, chan, in), Output(n, s), chan' = Carried(n, in, s)
  PROVE  OrderInv'
<1> DEFINE t == [s EXCEPT !.wire = [p \in PortOf[n] |-> <<>>], !.ctrl = [p \in PortOf[n] |-> <<>>]]
<1>1. LinksOK(chan) /\ DOMAIN sw = Switch
  BY DEF CiInv, SystemOK
<1>2. Moved(chan, chan', n, in, s)
  BY DEF Carried, Moved
<1>3. Cleared(s, t, n)
  BY DEF Cleared
<1>4. sent' = sent /\ received' = received /\ sw' = [sw EXCEPT ![n] = t]
  BY DEF Output
<1> HIDE DEF t
<1>5. Cleared(s, sw'[n], n) /\ \A k \in Switch : k # n => sw'[k] = sw[k]
  BY <1>1, <1>3, <1>4
<1> DEFINE D == chan'
           T == sw'
<1>6. DOMAIN D = Link /\ MovedFrom(chan, D, n, s) /\ MovedTo(chan, D, n, in)
  <2> HIDE DEF D
  <2> QED BY <1>1, <1>2, MovedAt DEF D
<1>7. Handles(sw, chan, n, in, s, T, D)
  BY <1>5, <1>6 DEF Handles, Takes
<1> HIDE DEF D, T
<1>8. ASSUME NEW f \in Flow PROVE FlowLined(f, T, D, Len(received[f]), sent[f])
  <2>1. FlowLined(f, sw, chan, Len(received[f]), sent[f])
    BY DEF OrderInv
  <2> QED BY <1>1, <1>7, <2>1, HandlesLined
<1>9. \A f \in Flow : \A i \in DOMAIN received[f] : received[f][i] = i - 1
  BY DEF OrderInv
<1> QED BY <1>4, <1>8, <1>9 DEF OrderInv, D, T

\* A handler that takes nothing off a link.
LEMMA OwnServes ==
  ASSUME NEW n, NEW v, NEW s, KeepsLines(v, s, n), NEW C
  PROVE  Serves(v, s, n, C, <<>>) /\ Takes(C, n, <<>>)
<1>1. \A f : Entering(C, <<>>, f) = {}
  BY NoLink DEF Entering
<1>2. Serves(v, s, n, C, <<>>)
  BY <1>1 DEF Serves, KeepsLines, KeepsFlow
<1>3. Takes(C, n, <<>>)
  BY NoLink DEF Takes
<1> QED BY <1>2, <1>3

LEMMA RoundOrder ==
  ASSUME CiInv, OrderInv, NEW n \in Switch, DoHierQRR(n)
  PROVE  OrderInv'
<1> DEFINE B == Reaching(n, sw, chan, hostPaused)
           v == sw[n]
           s == [v EXCEPT !.hier = Queued(v, n)]
<1>1. Sane(v, n, B) /\ B \in [PortOf[n] -> [Root -> BOOLEAN]]
  BY Wellness
<1>2. PICK idle : /\ Output(n, Round(s, n, idle))
                  /\ chan' = Carried(n, <<>>, Round(s, n, idle))
  BY DEF DoHierQRR
<1> HIDE DEF v
<1>3. v \in State(n) /\ InPlace(v, n)
  BY <1>1 DEF Sane
<1>4. Queued(v, n) \in BOOLEAN /\ (Queued(v, n) \/ \A p \in PortOf[n], r \in Root : v.ciq[p][r] = <<>>)
  BY DEF Queued
<1> DEFINE q == Queued(v, n)
<1> HIDE DEF q
<1>5. s = [v EXCEPT !.hier = q]
  BY DEF q
<1> HIDE DEF s
<1>6. /\ s \in State(n) /\ s.entries = v.entries /\ s.rootChild = v.rootChild /\ s.oq = v.oq
      /\ s.ciq = v.ciq /\ s.paused = v.paused /\ s.hier = q /\ s.wire = v.wire /\ s.ctrl = v.ctrl
  <2>1. q \in BOOLEAN
    BY <1>4 DEF q
  <2> QED BY <1>3, <1>5, <2>1, StateOf
<1>7. InPlace(s, n)
  BY <1>3, <1>6 DEF InPlace
<1>8. s.hier \/ \A p \in PortOf[n], r \in Root : v.ciq[p][r] = <<>>
  BY <1>4, <1>6 DEF q
<1>9. Sane(s, n, B)
  BY <1>1, <1>6, <1>7, <1>8, QueuesSane
<1>10. KeepsLines(v, s, n)
  BY <1>6, SameKeeps DEF SameQueues
<1> HIDE DEF B
<1> DEFINE u == Round(s, n, idle)
<1>11. Sane(u, n, B) /\ KeepsLines(s, u, n)
  BY <1>1, <1>9, RoundSane, RoundKeeps
<1> HIDE DEF u
<1>12. u \in State(n)
  BY <1>11 DEF Sane
<1>13. KeepsLines(v, u, n)
  BY <1>10, <1>11, KeepsTwice
<1>14. Serves(v, u, n, chan, <<>>) /\ Takes(chan, n, <<>>)
  BY <1>13, OwnServes
<1>15. Output(n, u) /\ chan' = Carried(n, <<>>, u)
  BY <1>2 DEF u
<1> QED BY <1>12, <1>14, <1>15, HandlerOrder DEF v

LEMMA TransmitOrder ==
  ASSUME CiInv, OrderInv, NEW n \in Switch, NEW port \in PortOf[n], Transmit(n, port)
  PROVE  OrderInv'
<1> DEFINE B == Reaching(n, sw, chan, hostPaused)
           v == sw[n]
           t == TransmitFrom(v, n, port)
<1>1. Sane(v, n, B) /\ B \in [PortOf[n] -> [Root -> BOOLEAN]]
  BY Wellness
<1>2. v.oq[port] # <<>> /\ Output(n, t) /\ chan' = Carried(n, <<>>, t)
  BY DEF Transmit
<1> HIDE DEF v, B
<1>3. Sane(t, n, B)
  BY <1>1, <1>2, TransmitSane
<1>4. v \in State(n)
  BY <1>1 DEF Sane
<1>5. OnWire(v, t, port, Head(v.oq[port]))
  BY <1>2, <1>4, TransmitMoves
<1> HIDE DEF t
<1>6. KeepsLines(v, t, n)
  BY <1>1, <1>5, TransmitKeeps
<1>7. t \in State(n)
  BY <1>3 DEF Sane
<1>8. Serves(v, t, n, chan, <<>>) /\ Takes(chan, n, <<>>)
  BY <1>6, OwnServes
<1> QED BY <1>2, <1>7, <1>8, HandlerOrder DEF v

LEMMA ReceiveOrder ==
  ASSUME CiInv, OrderInv, NEW m, NEW n \in Switch, <<m, n>> \in Link, Receive(m, n)
  PROVE  OrderInv'
<1> DEFINE B == Reaching(n, sw, chan, hostPaused)
           v == sw[n]
           in == <<m, n>>
           item == Head(chan[in])
           s == IF item.kind = "DATA" THEN ReceiveData(v, n, item) ELSE ReceiveCI(v, n, m, item)
<1>1. Sane(v, n, B) /\ B \in [PortOf[n] -> [Root -> BOOLEAN]]
  BY Wellness
<1>2. chan[in] # <<>> /\ Output(n, s) /\ chan' = Carried(n, in, s)
  BY DEF Receive
<1>3. IF item.kind = "DATA" THEN item \in Leaving(m, n) ELSE item \in SignalOn(m, n)
  BY <1>2, FirstOnLink
<1>4. \A f : Entering(chan, in, f) = Number(item, f)
  BY DEF Entering
<1>5. s \in State(n) /\ Serves(v, s, n, chan, in)
  <2>1. CASE item.kind = "DATA"
    <3> DEFINE t == ReceiveData(v, n, item)
    <3>1. s = t
      BY <2>1
    <3> HIDE DEF s, item, v, B, in
    <3>2. Sane(t, n, B)
      BY <1>1, <1>3, <2>1, ReceiveDataSane
    <3>3. Enters(v, t, n, item) /\ item \in Packet /\ item.flow \in Through(n)
      BY <1>1, <1>3, <2>1, ReceiveDataEnters
    <3> HIDE DEF t
    <3>4. TakesIn(v, t, n, item)
      BY <1>1, <3>3, EntersLine
    <3>5. Serves(v, t, n, chan, in)
      BY <1>4, <3>4 DEF TakesIn, Serves
    <3> QED BY <3>1, <3>2, <3>5 DEF Sane
  <2>2. CASE item.kind # "DATA"
    <3> DEFINE t == ReceiveCI(v, n, m, item)
    <3>1. s = t
      BY <2>2
    <3> HIDE DEF s, item, v, B, in
    <3>2. Sane(t, n, B)
      BY <1>1, <1>3, <2>2, ReceiveCISane
    <3>3. item.kind \in {"PAUSE", "RESUME", "DEALLOC", "MERGE"}
      BY <1>3, <2>2 DEF SignalOn, Signal
    <3>4. HasQueues(v)
      BY <1>1, StateHasQueues DEF Sane
    <3>5. SameQueues(v, t)
      BY <3>3, <3>4, ReceiveCIStill
    <3> HIDE DEF t
    <3>6. KeepsLines(v, t, n)
      BY <3>5, SameKeeps
    <3>7. \A f : Entering(chan, in, f) = {}
      BY <1>4, <2>2 DEF Number, IsOf
    <3>8. Serves(v, t, n, chan, in)
      BY <3>6, <3>7 DEF Serves, KeepsLines, KeepsFlow
    <3> QED BY <3>1, <3>2, <3>8 DEF Sane
  <2> QED BY <2>1, <2>2
<1>6. Takes(chan, n, in)
  BY <1>2 DEF Takes
<1> HIDE DEF s, in
<1> QED BY <1>2, <1>5, <1>6, HandlerOrder

LEMMA HostSendOrder ==
  ASSUME CiInv, OrderInv, NEW f \in Flow, HostSend(f)
  PROVE  OrderInv'
<1> DEFINE h == Path[f][1]
           p == Path[f][2]
           k == RootAt(f, 1)
           d == Data(f, sent[f])
<1>1. LinksOK(chan) /\ sent \in [Flow -> Nat]
  BY DEF CiInv, SystemOK
<1>2. /\ sent[f] < Packets[f] /\ sent' = [sent EXCEPT ![f] = @ + 1]
      /\ chan' = [chan EXCEPT ![k] = Append(@, d)] /\ sw' = sw /\ received' = received
  BY DEF HostSend
<1>3. /\ k = <<h, p>> /\ k \in Link /\ <<h, p>> \in Hops(f)
  <2>1. Path[f] \in Seq(Switch \cup Host) /\ Len(Path[f]) > 2
    BY CiParameters
  <2>2. 1 \in 1 .. Len(Path[f]) - 1
    BY <2>1
  <2>3. <<h, p>> \in Hops(f)
    BY <2>2, HopOf
  <2>4. <<h, p>> \in Link
    BY <2>3, LinkOf
  <2>5. k = <<h, p>>
    BY DEF RootAt
  <2> QED BY <2>3, <2>4, <2>5
<1>4. d \in Leaving(h, p)
  BY <1>1, <1>2, <1>3 DEF Leaving, Packet, Data
<1>5. ASSUME NEW g \in Flow PROVE FlowLined(g, sw, chan', Len(received[g]), sent'[g])
  <2>1. FlowLined(g, sw, chan, Len(received[g]), sent[g])
    BY DEF OrderInv
  <2>2. CASE g = f
    <3> DEFINE D == chan'
               lo == Len(received[f])
               hi == sent[f]
    <3>1. sent'[g] = hi + 1 /\ FlowLined(f, sw, chan, lo, hi) /\ d = Data(f, hi)
      BY <1>1, <1>2, <2>1, <2>2
    <3>2. D = [chan EXCEPT ![RootAt(f, 1)] = Append(@, d)]
      BY <1>2
    <3>3. d \in Leaving(Path[f][1], Path[f][2])
      BY <1>4
    <3> HIDE DEF D, lo, hi, d
    <3>4. FlowLined(f, sw, D, lo, hi + 1)
      BY <1>1, <3>1, <3>2, <3>3, SendLined
    <3> QED BY <2>2, <3>1, <3>4 DEF D, lo
  <2>3. CASE g # f
    <3> DEFINE D == chan'
               lo == Len(received[g])
               hi == sent[g]
    <3>1. sent'[g] = hi /\ FlowLined(g, sw, chan, lo, hi)
      BY <1>1, <1>2, <2>1, <2>3
    <3>2. D = [chan EXCEPT ![k] = Append(@, d)]
      BY <1>2
    <3>3. d \in Carries(k[1], k[2]) /\ ~ IsOf(d, g)
      BY <1>3, <1>4, <2>3 DEF Carries, Data, IsOf
    <3> HIDE DEF D, lo, hi, d, k
    <3>4. FlowLined(g, sw, D, lo, hi)
      BY <1>1, <1>3, <3>1, <3>2, <3>3, OtherSendLined
    <3> QED BY <3>1, <3>4 DEF D, lo
  <2> QED BY <2>2, <2>3
<1>6. \A g \in Flow : \A i \in DOMAIN received[g] : received[g][i] = i - 1
  BY DEF OrderInv
<1> QED BY <1>2, <1>5, <1>6 DEF OrderInv

LEMMA HostReceiveOrder ==
  ASSUME CiInv, OrderInv, NEW m, NEW h \in Host, <<m, h>> \in Link, HostReceive(m, h)
  PROVE  OrderInv'
<1> DEFINE l == <<m, h>>
           item == Head(chan[l])
           D == chan'
<1>1. /\ LinksOK(chan) /\ DOMAIN received = Flow
      /\ \A g \in Flow : received[g] \in Seq(Nat)
  BY DEF CiInv, SystemOK
<1>2. /\ chan[l] # <<>> /\ D = [chan EXCEPT ![l] = Tail(@)] /\ sw' = sw /\ sent' = sent
      /\ IF item.kind = "DATA" THEN received' = [received EXCEPT ![item.flow] = Append(@, item.seq)]
                               ELSE received' = received
  BY DEF HostReceive
<1>3. item.kind = "DATA" => item \in Leaving(m, h)
  BY <1>2, FirstOnLink
<1> HIDE DEF D
<1>4. ASSUME NEW g \in Flow
      PROVE  /\ FlowLined(g, sw, D, Len(received'[g]), sent[g])
             /\ \A i \in DOMAIN received'[g] : received'[g][i] = i - 1
  <2>1. /\ FlowLined(g, sw, chan, Len(received[g]), sent[g])
        /\ \A i \in DOMAIN received[g] : received[g][i] = i - 1
    BY DEF OrderInv
  <2>2. CASE IsOf(item, g)
    <3> DEFINE w == received[g]
               x == item.seq
               lo == Len(w)
               hi == sent[g]
    <3>1. item \in Leaving(m, h) /\ item.flow = g /\ x \in Nat
      BY <1>3, <2>2 DEF IsOf, Leaving, Packet
    <3>2. received'[g] = Append(w, x)
      BY <1>1, <1>2, <2>2, <3>1 DEF IsOf
    <3>3. w \in Seq(Nat) /\ FlowLined(g, sw, chan, lo, hi) /\ \A i \in DOMAIN w : w[i] = i - 1
      BY <1>1, <2>1
    <3>4. <<m, h>> \in Hops(g)
      BY <3>1 DEF Leaving
    <3>5. chan[<<m, h>>] # <<>> /\ item = Head(chan[<<m, h>>]) /\ D = [chan EXCEPT ![<<m, h>>] = Tail(@)]
      BY <1>2
    <3> HIDE DEF item, w, lo, hi, l
    <3>6. item.seq = lo /\ FlowLined(g, sw, D, lo + 1, hi)
      <4>1. LinksOK(chan) /\ FlowLined(g, sw, chan, lo, hi)
        BY <1>1, <3>3
      <4>2. TakesPacket(g, chan, D, m, h, item)
        BY <2>2, <3>4, <3>5 DEF TakesPacket
      <4> QED BY <4>1, <4>2, ReceiveLined
    <3>7. x = lo
      BY <3>6
    <3> HIDE DEF x
    <3>8. Len(Append(w, x)) = lo + 1 /\ \A i \in DOMAIN Append(w, x) : Append(w, x)[i] = i - 1
      BY <3>1, <3>3, <3>7 DEF lo
    <3> QED BY <3>2, <3>6, <3>8 DEF hi
  <2>3. CASE ~ IsOf(item, g)
    <3> DEFINE lo == Len(received[g])
               hi == sent[g]
    <3>1. received'[g] = received[g]
      BY <1>1, <1>2, <2>3 DEF IsOf
    <3>2. l \in Link /\ FlowLined(g, sw, chan, lo, hi)
      BY <2>1
    <3>3. ~ IsOf(Head(chan[l]), g)
      BY <2>3
    <3> HIDE DEF item, lo, hi, l
    <3>4. FlowLined(g, sw, D, lo, hi)
      BY <1>1, <1>2, <3>2, <3>3, OtherReceiveLined
    <3> QED BY <2>1, <3>1, <3>4 DEF lo, hi
  <2> QED BY <2>2, <2>3
<1> QED BY <1>2, <1>4 DEF OrderInv, D

\* An event preserves the order.
LEMMA EventOrder == CiInv /\ OrderInv /\ [Next]_vars => OrderInv'
<1> SUFFICES ASSUME CiInv, OrderInv, [Next]_vars PROVE OrderInv'
  OBVIOUS
<1>1. CASE UNCHANGED vars
  BY <1>1 DEF OrderInv, vars
<1>2. CASE Next
  <2>1. ASSUME NEW f \in Flow, HostSend(f) PROVE OrderInv'
    BY <2>1, HostSendOrder
  <2>2. ASSUME NEW l \in Link, l[2] \in Host, HostReceive(l[1], l[2]) PROVE OrderInv'
    <3>1. <<l[1], l[2]>> \in Link
      BY LinkPair
    <3> QED BY <2>2, <3>1, HostReceiveOrder
  <2>3. ASSUME NEW l \in Link, l[2] \in Switch, Receive(l[1], l[2]) PROVE OrderInv'
    <3>1. <<l[1], l[2]>> \in Link
      BY LinkPair
    <3> QED BY <2>3, <3>1, ReceiveOrder
  <2>4. ASSUME NEW l \in Link, l[1] \in Switch, Transmit(l[1], l[2]) PROVE OrderInv'
    <3>1. l[2] \in PortOf[l[1]]
      BY <2>4, LinkPair, Ports
    <3> QED BY <2>4, <3>1, TransmitOrder
  <2>5. ASSUME NEW n \in Switch, DoHierQRR(n) PROVE OrderInv'
    BY <2>5, RoundOrder
  <2> QED BY <1>2, <2>1, <2>2, <2>3, <2>4, <2>5 DEF Next, NextBesides
<1> QED BY <1>1, <1>2

-----------------------------------------------------------------------------
(* The theorem *)

\* The packets of a flow reach their receiver in the order they were sent,
\* however often they change queues: SendToDev leaves a packet behind the
\* earlier ones of its flow, DoHierQRR moves one only to the CIQ of the next
\* nearer root or the OQ, over no queue that holds packets of its flow, and
\* the merges, releases and deallocs that ReceiveCI handles move none.
THEOREM PacketsInOrder == Spec => []InOrder
<1>1. Init => CiInv /\ OrderInv
  BY Initially, LinedInitially
<1>2. CiInv /\ OrderInv /\ [Next]_vars => (CiInv /\ OrderInv)'
  BY EventKeeps, EventOrder
<1>3. OrderInv => InOrder
  BY DEF OrderInv, InOrder
<1> QED BY <1>1, <1>2, <1>3, PTL DEF Spec
=============================================================================
