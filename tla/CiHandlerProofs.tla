--------------------------- MODULE CiHandlerProofs ---------------------------
(***************************************************************************)
(* What the handlers of CongestionIsolation do to the state of a switch.   *)
(* A handler is a composition of operators on that state; the lemmas below *)
(* say of each which fields it changes and how, so that the proofs of the  *)
(* invariants need not open its definition.                                *)
(***************************************************************************)
EXTENDS CiRoutes, QueueProofs

-----------------------------------------------------------------------------
(* Numbers: the least element and the maximum of a set *)

\* Max of a bounded set is one of its elements (the farthest root of a match).
LEMMA MaxIn ==
  ASSUME NEW k \in Nat, NEW S, S \subseteq 0 .. k, S # {}
  PROVE  Max(S) \in S
<1> DEFINE T == {k - i : i \in S}
<1>1. T \subseteq Nat /\ T # {}
  <2>1. \A i \in S : i \in 0 .. k /\ k - i \in Nat
    OBVIOUS
  <2> QED BY <2>1
<1>2. PICK x \in T : \A y \in T : x <= y
  <2> HIDE DEF T
  <2> QED BY <1>1, Smallest
<1>3. PICK i \in S : x = k - i
  BY <1>2
<1>4. \A j \in S : i >= j
  <2>1. ASSUME NEW j \in S PROVE i >= j
    <3>1. k - j \in T /\ i \in 0 .. k /\ j \in 0 .. k
      OBVIOUS
    <3>2. k - i <= k - j
      <4> HIDE DEF T
      <4> QED BY <3>1, <1>2, <1>3
    <3> QED BY <3>1, <3>2
  <2> QED BY <2>1
<1>5. \E x1 \in S : \A y \in S : x1 >= y
  BY <1>4
<1> QED BY <1>5 DEF Max

-----------------------------------------------------------------------------
(* Topology *)

\* The hops of a flow and the links, pair by pair.
LEMMA HopOf ==
  ASSUME NEW f \in Flow, NEW h
  PROVE  h \in Hops(f) <=> \E i \in 1 .. Len(Path[f]) - 1 : h = <<Path[f][i], Path[f][i + 1]>>
  BY DEF Hops

LEMMA LinkOf ==
  ASSUME NEW a, NEW b
  PROVE  <<a, b>> \in Link <=> \E f \in Flow : <<a, b>> \in Hops(f) \/ <<b, a>> \in Hops(f)
<1>1. ASSUME NEW f \in Flow
      PROVE  <<a, b>> \in {<<l[2], l[1]>> : l \in Hops(f)} <=> <<b, a>> \in Hops(f)
  <2>1. ASSUME NEW l \in Hops(f), <<a, b>> = <<l[2], l[1]>> PROVE <<b, a>> \in Hops(f)
    <3>1. PICK i \in 1 .. Len(Path[f]) - 1 : l = <<Path[f][i], Path[f][i + 1]>>
      BY HopOf
    <3>2. l = <<b, a>>
      BY <3>1, <2>1
    <3> QED BY <3>2
  <2>2. ASSUME <<b, a>> \in Hops(f) PROVE \E l \in Hops(f) : <<a, b>> = <<l[2], l[1]>>
    <3>1. <<a, b>> = << <<b, a>>[2], <<b, a>>[1]>>
      OBVIOUS
    <3> QED BY <3>1, <2>2
  <2> QED BY <2>1, <2>2
<1> QED BY <1>1 DEF Link

\* Every link is a pair of nodes.
LEMMA LinkPair ==
  ASSUME NEW l \in Link
  PROVE  l = <<l[1], l[2]>>
<1>1. PICK f \in Flow : l \in Hops(f) \/ l \in {<<h[2], h[1]>> : h \in Hops(f)}
  BY DEF Link
<1>2. CASE l \in Hops(f)
  BY <1>2, HopOf
<1>3. CASE l \in {<<h[2], h[1]>> : h \in Hops(f)}
  BY <1>3
<1> QED BY <1>1, <1>2, <1>3

LEMMA HopEnds ==
  ASSUME NEW f \in Flow, NEW a, NEW b, <<a, b>> \in Hops(f)
  PROVE  a \in Switch \cup Host /\ b \in Switch \cup Host /\ a # b
<1>1. PICK i \in 1 .. Len(Path[f]) - 1 : a = Path[f][i] /\ b = Path[f][i + 1]
  BY HopOf
<1>2. Path[f] \in Seq(Switch \cup Host) /\ IsInjective(Path[f])
  BY CiParameters
<1>3. i \in DOMAIN Path[f] /\ i + 1 \in DOMAIN Path[f] /\ i # i + 1
  BY <1>2
<1> QED BY <1>1, <1>2, <1>3 DEF IsInjective

\* Ports and links: a link runs both ways, and its ends differ.
LEMMA Ports ==
  ASSUME NEW n \in Switch \cup Host, NEW p
  PROVE  /\ p \in PortOf[n] <=> <<n, p>> \in Link
         /\ <<n, p>> \in Link <=> <<p, n>> \in Link
         /\ <<n, p>> \in Link => p \in Switch \cup Host /\ p # n
<1>1. p \in PortOf[n] <=> <<n, p>> \in Link
  <2>1. ASSUME NEW l \in Link, l[1] = n, p = l[2] PROVE <<n, p>> \in Link
    BY <2>1, LinkPair
  <2>2. PortOf[n] = {l[2] : l \in {k \in Link : k[1] = n}}
    BY DEF PortOf
  <2>3. ASSUME <<n, p>> \in Link PROVE p \in PortOf[n]
    <3>1. <<n, p>>[1] = n /\ <<n, p>>[2] = p
      OBVIOUS
    <3> QED BY <3>1, <2>2, <2>3
  <2> QED BY <2>1, <2>2, <2>3
<1> QED BY <1>1, LinkOf, HopEnds

\* A switch on the path of a flow: its place there and its neighbours.
LEMMA OnPath ==
  ASSUME NEW f \in Flow, NEW n \in Switch, NEW i \in DOMAIN Path[f], Path[f][i] = n
  PROVE  /\ Pos(n, f) = i /\ i \in 2 .. Len(Path[f]) - 1
         /\ NextHop(n, f) = Path[f][i + 1] /\ PrevHop(n, f) = Path[f][i - 1]
         /\ NextHop(n, f) \in PortOf[n] /\ PrevHop(n, f) \in PortOf[n]
         /\ <<n, NextHop(n, f)>> \in Hops(f) /\ <<PrevHop(n, f), n>> \in Hops(f)
<1>1. Path[f] \in Seq(Switch \cup Host) /\ IsInjective(Path[f])
  BY CiParameters
<1>2. i \in 2 .. Len(Path[f]) - 1
  <2>1. n \notin Host /\ (Path[f][i] \in Host <=> i \in {1, Len(Path[f])})
    BY CiParameters
  <2> QED BY <1>1, <2>1
<1>3. Pos(n, f) = i
  BY <1>1 DEF Pos, IsInjective
<1>4. NextHop(n, f) = Path[f][i + 1] /\ PrevHop(n, f) = Path[f][i - 1]
  BY <1>3 DEF NextHop, PrevHop
<1>5. <<n, NextHop(n, f)>> \in Hops(f) /\ <<PrevHop(n, f), n>> \in Hops(f)
  <2>1. i \in 1 .. Len(Path[f]) - 1 /\ i - 1 \in 1 .. Len(Path[f]) - 1 /\ (i - 1) + 1 = i
    BY <1>1, <1>2
  <2> QED BY <2>1, <1>4 DEF Hops
<1>6. NextHop(n, f) \in PortOf[n] /\ PrevHop(n, f) \in PortOf[n]
  <2>1. <<n, NextHop(n, f)>> \in Link /\ <<PrevHop(n, f), n>> \in Link
    BY <1>5 DEF Link
  <2>2. PrevHop(n, f) \in Switch \cup Host
    BY <1>1, <1>2, <1>4
  <2> QED BY <2>1, <2>2, Ports
<1> QED BY <1>2, <1>3, <1>4, <1>5, <1>6

\* A hop of a flow out of a switch is the one the routing tag names there.
LEMMA HopOut ==
  ASSUME NEW f \in Flow, NEW n \in Switch, NEW p, <<n, p>> \in Hops(f)
  PROVE  /\ Pos(n, f) \in 2 .. Len(Path[f]) - 1 /\ Path[f][Pos(n, f)] = n
         /\ NextHop(n, f) = p /\ p \in PortOf[n] /\ PrevHop(n, f) \in PortOf[n]
         /\ <<n, p>> \in Root /\ <<n, p>> = RootAt(f, Pos(n, f))
         /\ PrevHop(n, f) = Path[f][Pos(n, f) - 1]
<1>1. PICK i \in 1 .. Len(Path[f]) - 1 : n = Path[f][i] /\ p = Path[f][i + 1]
  BY HopOf
<1>2. i \in DOMAIN Path[f]
  BY <1>1, CiParameters
<1>3. /\ Pos(n, f) = i /\ i \in 2 .. Len(Path[f]) - 1
      /\ NextHop(n, f) = p /\ PrevHop(n, f) = Path[f][i - 1]
      /\ p \in PortOf[n] /\ PrevHop(n, f) \in PortOf[n]
  BY <1>1, <1>2, OnPath
<1>4. <<n, p>> \in Root
  BY DEF Root
<1> QED BY <1>1, <1>3, <1>4 DEF RootAt

\* And the hop into a switch.
LEMMA HopIn ==
  ASSUME NEW f \in Flow, NEW n \in Switch, NEW m, <<m, n>> \in Hops(f)
  PROVE  PrevHop(n, f) = m /\ <<n, NextHop(n, f)>> \in Hops(f)
<1>1. PICK i \in 1 .. Len(Path[f]) - 1 : m = Path[f][i] /\ n = Path[f][i + 1]
  BY HopOf
<1>2. i + 1 \in DOMAIN Path[f] /\ (i + 1) - 1 = i
  BY <1>1, CiParameters
<1> QED BY <1>1, <1>2, OnPath

\* What is further down a path is a root.
LEMMA RootOnPath ==
  ASSUME NEW f \in Flow, NEW i \in 2 .. Len(Path[f]) - 1
  PROVE  RootAt(f, i) \in Root /\ Path[f][i] \in Switch
<1>1. Path[f] \in Seq(Switch \cup Host)
  BY CiParameters
<1>2. i \in DOMAIN Path[f] /\ i \notin {1, Len(Path[f])}
  BY <1>1
<1>3. Path[f][i] \in Switch
  BY <1>1, <1>2, CiParameters
<1>4. RootAt(f, i) \in Hops(f)
  BY DEF RootAt, Hops
<1> QED BY <1>3, <1>4 DEF Root, RootAt

\* All routes from a switch to a root are equally long.
LEMMA FlowDist ==
  ASSUME NEW f \in Flow, NEW i \in 2 .. Len(Path[f]) - 1, NEW j \in 2 .. Len(Path[f]) - 1, i <= j
  PROVE  /\ Dist[Path[f][i]][RootAt(f, j)] = j - i
         /\ <<Path[f][i - 1], Path[f][i], RootAt(f, j)>> \in Tree
  BY EqualCost

\* A root is a port of a switch, at no distance from itself.
LEMMA RootEnds ==
  ASSUME NEW r \in Root
  PROVE  /\ r = <<r[1], r[2]>> /\ r[1] \in Switch /\ r[2] \in PortOf[r[1]]
         /\ Dist[r[1]][r] = 0
<1>1. PICK f \in Flow : r \in Hops(f)
  BY DEF Root
<1>2. r[1] \in Switch
  BY DEF Root
<1>3. r = <<r[1], r[2]>>
  BY <1>1, HopOf
<1>4. /\ Pos(r[1], f) \in 2 .. Len(Path[f]) - 1 /\ Path[f][Pos(r[1], f)] = r[1]
      /\ r = RootAt(f, Pos(r[1], f)) /\ r[2] \in PortOf[r[1]]
  BY <1>1, <1>2, <1>3, HopOut
<1>5. Dist[r[1]][r] = 0
  <2>1. PICK i \in 2 .. Len(Path[f]) - 1 : Path[f][i] = r[1] /\ RootAt(f, i) = r
    BY <1>4
  <2>2. i \in Int /\ i <= i
    BY CiParameters
  <2>3. Dist[Path[f][i]][RootAt(f, i)] = i - i
    BY <2>2, FlowDist
  <2> QED BY <2>1, <2>2, <2>3
<1> QED BY <1>2, <1>3, <1>4, <1>5

\* A member of the tree of a root: a device before a switch.
LEMMA InTree ==
  ASSUME NEW p, NEW n, NEW r, <<p, n, r>> \in Tree
  PROVE  /\ n \in Switch /\ r \in Root /\ p \in Switch \cup Host
         /\ p \in PortOf[n] /\ n \in PortOf[p]
         /\ p \in Switch => Dist[p][r] = Dist[n][r] + 1 /\ Dist[n][r] \in Nat
<1>1. <<p, n, r>>[1] = p /\ <<p, n, r>>[2] = n /\ <<p, n, r>>[3] = r
  OBVIOUS
<1>2. n \in Switch /\ (p \in Switch => Dist[p][r] = Dist[n][r] + 1)
  BY <1>1, EqualCost
<1>3. PICK l \in Link, x \in Root : <<p, n, r>> = <<l[1], l[2], x>>
  BY EqualCost
<1>4. <<p, n>> \in Link /\ r \in Root
  BY <1>3, LinkPair
<1>5. p \in Switch \cup Host
  BY <1>2, <1>4, Ports
<1>6. p \in PortOf[n] /\ n \in PortOf[p]
  BY <1>2, <1>4, <1>5, Ports
<1>7. Dist[n][r] \in Nat
  BY <1>2, <1>4, EqualCost
<1> QED BY <1>2, <1>4, <1>5, <1>6, <1>7

\* A flow that crosses a switch before a root, or at the root, puts both the
\* switch and the device before it into the tree.
LEMMA FlowInTree ==
  ASSUME NEW f \in Flow, NEW n \in Switch, NEW i \in 2 .. Len(Path[f]) - 1, Path[f][i] = n,
         NEW j \in i .. Len(Path[f]) - 1
  PROVE  /\ <<Path[f][i - 1], n, RootAt(f, j)>> \in Tree
         /\ j # i => <<n, Path[f][i + 1], RootAt(f, j)>> \in Tree
         /\ Dist[n][RootAt(f, j)] = j - i
<1>0. Len(Path[f]) \in Nat
  BY CiParameters
<1>1. j \in 2 .. Len(Path[f]) - 1 /\ i <= j
  BY <1>0
<1>2. /\ Dist[Path[f][i]][RootAt(f, j)] = j - i
      /\ <<Path[f][i - 1], Path[f][i], RootAt(f, j)>> \in Tree
  BY <1>1, FlowDist
<1>3. ASSUME j # i PROVE <<n, Path[f][i + 1], RootAt(f, j)>> \in Tree
  <2>1. i + 1 \in 2 .. Len(Path[f]) - 1 /\ i + 1 <= j /\ (i + 1) - 1 = i
    BY <1>0, <1>3
  <2>2. <<Path[f][(i + 1) - 1], Path[f][i + 1], RootAt(f, j)>> \in Tree
    BY <1>1, <2>1, FlowDist
  <2> QED BY <2>1, <2>2
<1> QED BY <1>2, <1>3

-----------------------------------------------------------------------------
(* The inductive invariant of one switch *)

\* Data: a packet of a flow; one that leaves by a port of n; one that waits
\* at a port of n for a root further down its path.
Packet == {d \in [kind : {"DATA"}, flow : Flow, seq : Nat] : d.seq < Packets[d.flow]}
Leaving(n, p) == {d \in Packet : <<n, p>> \in Hops(d.flow)}
Waiting(n, p, r) ==
  {d \in Leaving(n, p) :
     \E j \in Pos(n, d.flow) + 1 .. Len(Path[d.flow]) - 1 : RootAt(d.flow, j) = r}

\* The signals node n sends to p: up the tree of the root, or down (a dealloc).
SignalOn(n, p) ==
  {i \in Signal :
     /\ i.kind = "DEALLOC" => <<n, p, i.root>> \in Tree
     /\ i.kind # "DEALLOC" => <<p, n, i.root>> \in Tree
     /\ i.kind = "PAUSE" => i.hop = Dist[n][i.root] + 1
     /\ i.kind = "MERGE" =>
          /\ i.hop = Dist[n][i.root] + 1 /\ i.old # i.root
          /\ i.old \notin UpPort /\ <<p, n, i.old>> \in Tree}

Entry(n) ==
  [hop : Nat, ciq : SUBSET PortOf[n], status : [PortOf[n] -> Status],
   child : Children(n), counter : [PortOf[n] -> Int]]

State(n) ==
  [entries : UNION {[D -> Entry(n)] : D \in SUBSET Root},
   rootChild : [PortOf[n] -> Children(n)],
   oq : [PortOf[n] -> Seq(Packet)],
   ciq : [PortOf[n] -> [Root -> Seq(Packet)]],
   paused : [PortOf[n] -> SUBSET Root],
   hier : BOOLEAN, hol : Nat,
   wire : [PortOf[n] -> Seq(Packet)],
   ctrl : [PortOf[n] -> Seq(Signal)]]

\* Entries, children and signals of a root belong to its tree.
OnTree(s, n) ==
  /\ \A r \in DOMAIN s.entries :
       /\ s.entries[r].hop = Dist[n][r] /\ Dist[n][r] > 0
       /\ \A p \in s.entries[r].ciq : <<n, p, r>> \in Tree
       /\ \A p \in DOMAIN s.entries[r].child : <<p, n, r>> \in Tree
  /\ \A p \in PortOf[n] :
       /\ \A q \in DOMAIN s.rootChild[p] : <<q, n, <<n, p>>>> \in Tree
       /\ s.ctrl[p] \in Seq(SignalOn(n, p))

\* A queue holds packets that leave by its port, a CIQ those that cross its root.
InPlace(s, n) ==
  \A p \in PortOf[n] :
    /\ s.oq[p] \in Seq(Leaving(n, p)) /\ s.wire[p] \in Seq(Leaving(n, p))
    /\ \A r \in Root : s.ciq[p][r] \in Seq(Waiting(n, p, r))

\* m_paused of a port and oport_status of the entries agree.
Agree(s, n) ==
  \A p \in PortOf[n], r \in Root :
    r \in s.paused[p] <=> HasCIQ(s, r, p) /\ s.entries[r].status[p] = "PAUSE"

\* A CIQ that holds a packet is registered and a round is scheduled.
Served(s, n) ==
  \A p \in PortOf[n], r \in Root : s.ciq[p][r] # <<>> => HasCIQ(s, r, p) /\ s.hier

\* iport_counter is exact.
Counted(s, n) ==
  /\ \A r \in Root, in \in PortOf[n] : IsFiniteSet(Held(s, n, r, in))
  /\ \A r \in DOMAIN s.entries, in \in PortOf[n] :
       s.entries[r].counter[in] = Cardinality(Held(s, n, r, in))

RecordedIn(s, n, up, r) ==
  IF r[1] = n THEN IsTrue(s.rootChild[r[2]], up)
  ELSE r \in DOMAIN s.entries /\ IsTrue(s.entries[r].child, up)

\* What a signal makes of whether a device is paused for root r.
Obeyed(i, r, before) == Pauses(i, r) \/ (before /\ ~Resumes(i, r))

\* What is on record of an upstream device is what it will be once the signals
\* scheduled have arrived, when pausedBefore says what it will be without them.
Told(s, n, pausedBefore) ==
  \A up \in PortOf[n], r \in Root :
    RecordedIn(s, n, up, r) <=> PausedAfter(s.ctrl[up], r, pausedBefore[up][r])

Sane(s, n, pausedBefore) ==
  /\ s \in State(n) /\ OnTree(s, n) /\ InPlace(s, n)
  /\ Agree(s, n) /\ Served(s, n) /\ Counted(s, n)
  /\ Told(s, n, pausedBefore)

-----------------------------------------------------------------------------
(* Maps *)

LEMMA EraseAt ==
  ASSUME NEW g, NEW x
  PROVE  Erase(g, x) = [y \in DOMAIN g \ {x} |-> g[y]]
  BY DEF Erase, Restrict

\* The maps from devices to whether they are paused.
LEMMA ChildMap ==
  ASSUME NEW n, NEW g
  PROVE  g \in Children(n) <=> /\ DOMAIN g \subseteq PortOf[n]
                               /\ g = [p \in DOMAIN g |-> g[p]]
                               /\ \A p \in DOMAIN g : g[p] \in BOOLEAN
<1>1. ASSUME g \in Children(n)
      PROVE  /\ DOMAIN g \subseteq PortOf[n] /\ g = [p \in DOMAIN g |-> g[p]]
             /\ \A p \in DOMAIN g : g[p] \in BOOLEAN
  <2>1. PICK D \in SUBSET PortOf[n] : g \in [D -> BOOLEAN]
    BY <1>1 DEF Children
  <2> QED BY <2>1
<1>2. ASSUME DOMAIN g \subseteq PortOf[n], g = [p \in DOMAIN g |-> g[p]],
             \A p \in DOMAIN g : g[p] \in BOOLEAN
      PROVE  g \in Children(n)
  <2>1. g \in [DOMAIN g -> BOOLEAN]
    BY <1>2
  <2> QED BY <1>2, <2>1 DEF Children
<1> QED BY <1>1, <1>2

LEMMA AssignChild ==
  ASSUME NEW n, NEW g \in Children(n), NEW in \in PortOf[n], NEW v \in BOOLEAN
  PROVE  /\ Assign(g, in, v) \in Children(n)
         /\ DOMAIN Assign(g, in, v) = DOMAIN g \cup {in}
         /\ \A q : IsTrue(Assign(g, in, v), q) <=> IF q = in THEN v ELSE IsTrue(g, q)
<1> DEFINE h == Assign(g, in, v)
<1>1. h = [y \in DOMAIN g \cup {in} |-> IF y = in THEN v ELSE g[y]]
  BY DEF Assign
<1> HIDE DEF h
<1>2. DOMAIN g \subseteq PortOf[n] /\ \A p \in DOMAIN g : g[p] \in BOOLEAN
  BY ChildMap
<1>3. h \in Children(n)
  BY <1>1, <1>2, ChildMap
<1>4. \A q : IsTrue(h, q) <=> IF q = in THEN v ELSE IsTrue(g, q)
  BY <1>1 DEF IsTrue
<1> QED BY <1>1, <1>3, <1>4 DEF h

LEMMA EraseChild ==
  ASSUME NEW n, NEW g \in Children(n), NEW in
  PROVE  /\ Erase(g, in) \in Children(n)
         /\ DOMAIN Erase(g, in) = DOMAIN g \ {in}
         /\ \A q : IsTrue(Erase(g, in), q) <=> q # in /\ IsTrue(g, q)
<1> DEFINE h == Erase(g, in)
<1>1. h = [y \in DOMAIN g \ {in} |-> g[y]]
  BY EraseAt
<1> HIDE DEF h
<1>2. DOMAIN g \subseteq PortOf[n] /\ \A p \in DOMAIN g : g[p] \in BOOLEAN
  BY ChildMap
<1>3. h \in Children(n)
  BY <1>1, <1>2, ChildMap
<1>4. \A q : IsTrue(h, q) <=> q # in /\ IsTrue(g, q)
  BY <1>1 DEF IsTrue
<1> QED BY <1>1, <1>3, <1>4 DEF h

LEMMA EmptyChild ==
  ASSUME NEW n
  PROVE  Empty \in Children(n) /\ DOMAIN Empty = {} /\ \A q : ~ IsTrue(Empty, q)
<1>1. Empty \in Children(n)
  BY ChildMap DEF Empty
<1> QED BY <1>1 DEF Empty, IsTrue

-----------------------------------------------------------------------------
(* Signals *)

\* Receiving the first signal of a link, or sending one more, moves the
\* point from which the rest are counted.
LEMMA PausedAppend ==
  ASSUME NEW T, NEW q \in Seq(T), NEW i \in T, NEW r, NEW before \in BOOLEAN
  PROVE  PausedAfter(Append(q, i), r, before) <=> Obeyed(i, r, PausedAfter(q, r, before))
<1> DEFINE a == Append(q, i)
           P(x) == Pauses(x, r)
           E(x) == Resumes(x, r)
<1>1. /\ Len(q) \in Nat /\ Len(a) = Len(q) + 1 /\ DOMAIN q = 1 .. Len(q)
      /\ DOMAIN a = 1 .. Len(q) + 1
      /\ a[Len(q) + 1] = i /\ \A j \in 1 .. Len(q) : a[j] = q[j]
  OBVIOUS
<1>2. ~ (P(i) /\ E(i))
  BY DEF Pauses, Resumes
<1> HIDE DEF a, P, E
<1>3. (\E j \in DOMAIN a : P(a[j]) /\ \A k \in j + 1 .. Len(a) : ~ E(a[k]))
        <=> P(i) \/ (~ E(i) /\ \E j \in DOMAIN q : P(q[j]) /\ \A k \in j + 1 .. Len(q) : ~ E(q[k]))
  <2>1. ASSUME NEW j \in DOMAIN a, P(a[j]), \A k \in j + 1 .. Len(a) : ~ E(a[k])
        PROVE  P(i) \/ (~ E(i) /\ \E l \in DOMAIN q : P(q[l]) /\ \A k \in l + 1 .. Len(q) : ~ E(q[k]))
    <3>1. CASE j = Len(q) + 1
      BY <2>1, <3>1, <1>1
    <3>2. CASE j # Len(q) + 1
      <4>1. j \in 1 .. Len(q) /\ P(q[j])
        BY <2>1, <3>2, <1>1
      <4>2. ~ E(i)
        BY <4>1, <2>1, <1>1
      <4>3. \A k \in j + 1 .. Len(q) : ~ E(q[k])
        BY <4>1, <2>1, <1>1
      <4> QED BY <4>1, <4>2, <4>3, <1>1
    <3> QED BY <3>1, <3>2
  <2>2. ASSUME P(i) PROVE \E j \in DOMAIN a : P(a[j]) /\ \A k \in j + 1 .. Len(a) : ~ E(a[k])
    <3>1. Len(q) + 1 \in DOMAIN a /\ P(a[Len(q) + 1]) /\ (Len(q) + 1) + 1 .. Len(a) = {}
      BY <2>2, <1>1
    <3> QED BY <3>1
  <2>3. ASSUME ~ E(i), NEW j \in DOMAIN q, P(q[j]), \A k \in j + 1 .. Len(q) : ~ E(q[k])
        PROVE  \E l \in DOMAIN a : P(a[l]) /\ \A k \in l + 1 .. Len(a) : ~ E(a[k])
    <3>1. j \in DOMAIN a /\ P(a[j]) /\ \A k \in j + 1 .. Len(a) : ~ E(a[k])
      BY <2>3, <1>1
    <3> QED BY <3>1
  <2> QED BY <2>1, <2>2, <2>3
<1>4. (\A j \in DOMAIN a : ~ E(a[j])) <=> ~ E(i) /\ \A j \in DOMAIN q : ~ E(q[j])
  BY <1>1
<1> QED
  BY <1>2, <1>3, <1>4 DEF a, P, E, PausedAfter, Obeyed

LEMMA PausedTail ==
  ASSUME NEW T, NEW q \in Seq(T), q # <<>>, NEW r, NEW before \in BOOLEAN
  PROVE  PausedAfter(q, r, before) <=> PausedAfter(Tail(q), r, Obeyed(Head(q), r, before))
<1> DEFINE a == Tail(q)
           P(x) == Pauses(x, r)
           E(x) == Resumes(x, r)
           i == Head(q)
<1>1. /\ Len(q) \in Nat /\ Len(q) > 0 /\ Len(a) = Len(q) - 1 /\ DOMAIN q = 1 .. Len(q)
      /\ DOMAIN a = 1 .. Len(q) - 1
      /\ q[1] = i /\ \A j \in 1 .. Len(q) - 1 : a[j] = q[j + 1]
  OBVIOUS
<1>2. ~ (P(i) /\ E(i))
  BY DEF Pauses, Resumes
<1> HIDE DEF a, P, E, i
<1>3. \A j \in 2 .. Len(q) : j - 1 \in DOMAIN a /\ a[j - 1] = q[j]
  BY <1>1
<1>4. (\E j \in DOMAIN q : P(q[j]) /\ \A k \in j + 1 .. Len(q) : ~ E(q[k]))
        <=> \/ \E j \in DOMAIN a : P(a[j]) /\ \A k \in j + 1 .. Len(a) : ~ E(a[k])
            \/ P(i) /\ \A j \in DOMAIN a : ~ E(a[j])
  <2>1. ASSUME NEW j \in DOMAIN q, P(q[j]), \A k \in j + 1 .. Len(q) : ~ E(q[k])
        PROVE  \/ \E l \in DOMAIN a : P(a[l]) /\ \A k \in l + 1 .. Len(a) : ~ E(a[k])
               \/ P(i) /\ \A l \in DOMAIN a : ~ E(a[l])
    <3>1. CASE j = 1
      BY <2>1, <3>1, <1>1
    <3>2. CASE j # 1
      <4>1. j - 1 \in DOMAIN a /\ P(a[j - 1])
        BY <2>1, <3>2, <1>1, <1>3
      <4>2. \A k \in (j - 1) + 1 .. Len(a) : ~ E(a[k])
        <5>1. ASSUME NEW k \in (j - 1) + 1 .. Len(a) PROVE ~ E(a[k])
          <6>1. k \in 1 .. Len(q) - 1 /\ k + 1 \in j + 1 .. Len(q)
            BY <1>1, <2>1
          <6> QED BY <6>1, <1>1, <2>1
        <5> QED BY <5>1
      <4> QED BY <4>1, <4>2
    <3> QED BY <3>1, <3>2
  <2>2. ASSUME P(i), \A j \in DOMAIN a : ~ E(a[j])
        PROVE  \E j \in DOMAIN q : P(q[j]) /\ \A k \in j + 1 .. Len(q) : ~ E(q[k])
    <3>1. 1 \in DOMAIN q /\ P(q[1]) /\ \A k \in 1 + 1 .. Len(q) : ~ E(q[k])
      BY <2>2, <1>1, <1>3
    <3> QED BY <3>1
  <2>3. ASSUME NEW j \in DOMAIN a, P(a[j]), \A k \in j + 1 .. Len(a) : ~ E(a[k])
        PROVE  \E l \in DOMAIN q : P(q[l]) /\ \A k \in l + 1 .. Len(q) : ~ E(q[k])
    <3>1. j + 1 \in DOMAIN q /\ P(q[j + 1])
      BY <2>3, <1>1
    <3>2. ASSUME NEW k \in (j + 1) + 1 .. Len(q) PROVE ~ E(q[k])
      <4>1. k \in 2 .. Len(q) /\ k - 1 \in j + 1 .. Len(a)
        BY <1>1, <2>3
      <4> QED BY <4>1, <1>3, <2>3
    <3> QED BY <3>1, <3>2
  <2> QED BY <2>1, <2>2, <2>3
<1>5. (\A j \in DOMAIN q : ~ E(q[j])) <=> ~ E(i) /\ \A j \in DOMAIN a : ~ E(a[j])
  <2>1. \A j \in DOMAIN q : j = 1 \/ j \in 2 .. Len(q)
    BY <1>1
  <2>2. \A j \in DOMAIN a : j + 1 \in DOMAIN q /\ a[j] = q[j + 1]
    BY <1>1
  <2>3. 1 \in DOMAIN q
    BY <1>1
  <2> QED BY <2>1, <2>2, <2>3, <1>1, <1>3
<1> QED
  BY <1>2, <1>4, <1>5 DEF a, P, E, i, PausedAfter, Obeyed

\* Without a signal nothing changes.
LEMMA PausedData ==
  ASSUME NEW q, NEW r, NEW before \in BOOLEAN, \A i \in DOMAIN q : q[i].kind = "DATA"
  PROVE  PausedAfter(q, r, before) <=> before
  BY DEF PausedAfter, Pauses, Resumes

-----------------------------------------------------------------------------
(* Counting *)

LEMMA HeldAt ==
  ASSUME NEW s, NEW n, NEW r, NEW in, NEW z
  PROVE  z \in Held(s, n, r, in)
           <=> \E p \in PortOf[n] : \E i \in DOMAIN s.ciq[p][r] :
                 z = <<p, i>> /\ PrevHop(n, s.ciq[p][r][i].flow) = in
  BY DEF Held

CiqMore(s, t, port, r, d) == t.ciq = [s.ciq EXCEPT ![port][r] = Append(@, d)]
CiqLess(s, t, port, r) == t.ciq = [s.ciq EXCEPT ![port][r] = Tail(@)]

\* A packet more in a CIQ is a packet more from its upstream device.
LEMMA HeldMore ==
  ASSUME NEW n \in Switch, NEW s, NEW t, NEW port \in PortOf[n], NEW r \in Root,
         NEW d \in Packet,
         s.ciq \in [PortOf[n] -> [Root -> Seq(Packet)]],
         CiqMore(s, t, port, r, d),
         NEW x \in Root, NEW in \in PortOf[n], IsFiniteSet(Held(s, n, x, in))
  PROVE  /\ IsFiniteSet(Held(t, n, x, in))
         /\ Cardinality(Held(t, n, x, in))
              = Cardinality(Held(s, n, x, in)) + (IF x = r /\ in = PrevHop(n, d.flow) THEN 1 ELSE 0)
<1> DEFINE q == s.ciq[port][r]
           z == <<port, Len(q) + 1>>
<1>1. q \in Seq(Packet) /\ Len(q) \in Nat
  OBVIOUS
<1>2. t.ciq[port][r] = Append(q, d)
  BY DEF CiqMore
<1>3. \A p \in PortOf[n], y \in Root : ~ (p = port /\ y = r) => t.ciq[p][y] = s.ciq[p][y]
  BY DEF CiqMore
<1>4. /\ DOMAIN q = 1 .. Len(q) /\ DOMAIN Append(q, d) = 1 .. Len(q) + 1
      /\ Append(q, d)[Len(q) + 1] = d /\ \A i \in 1 .. Len(q) : Append(q, d)[i] = q[i]
  BY <1>1
<1>5. CASE x = r /\ in = PrevHop(n, d.flow)
  <2>1. Held(t, n, x, in) = Held(s, n, x, in) \cup {z}
    <3>1. ASSUME NEW y \in Held(t, n, x, in) PROVE y \in Held(s, n, x, in) \cup {z}
      <4>1. PICK p, i : p \in PortOf[n] /\ i \in DOMAIN t.ciq[p][x] /\
                y = <<p, i>> /\ PrevHop(n, t.ciq[p][x][i].flow) = in
        BY <3>1, HeldAt
      <4>2. CASE p = port
        BY <4>1, <4>2, <1>5, <1>2, <1>4, HeldAt
      <4>3. CASE p # port
        BY <4>1, <4>3, <1>3, HeldAt
      <4> QED BY <4>2, <4>3
    <3>2. ASSUME NEW y \in Held(s, n, x, in) PROVE y \in Held(t, n, x, in)
      <4>1. PICK p, i : p \in PortOf[n] /\ i \in DOMAIN s.ciq[p][x] /\
                y = <<p, i>> /\ PrevHop(n, s.ciq[p][x][i].flow) = in
        BY <3>2, HeldAt
      <4>2. CASE p = port
        <5>1. i \in DOMAIN t.ciq[p][x] /\ t.ciq[p][x][i] = s.ciq[p][x][i]
          BY <4>1, <4>2, <1>5, <1>2, <1>4
        <5> QED BY <4>1, <5>1, HeldAt
      <4>3. CASE p # port
        BY <4>1, <4>3, <1>3, HeldAt
      <4> QED BY <4>2, <4>3
    <3>3. z \in Held(t, n, x, in)
      <4>1. Len(q) + 1 \in DOMAIN t.ciq[port][x] /\ t.ciq[port][x][Len(q) + 1] = d
        BY <1>2, <1>4, <1>1, <1>5
      <4> QED BY <4>1, <1>5, HeldAt
    <3> QED BY <3>1, <3>2, <3>3
  <2>2. z \notin Held(s, n, x, in)
    <3> SUFFICES ASSUME z \in Held(s, n, x, in) PROVE FALSE
      OBVIOUS
    <3>1. PICK p, i : p \in PortOf[n] /\ i \in DOMAIN s.ciq[p][x] /\ z = <<p, i>>
      BY HeldAt
    <3>2. p = port /\ i = Len(q) + 1 /\ i \in DOMAIN q
      BY <3>1, <1>5
    <3> QED BY <3>2, <1>4, <1>1
  <2> HIDE DEF z
  <2> DEFINE H == Held(s, n, x, in)
  <2>3. IsFiniteSet(H \cup {z}) /\ Cardinality(H \cup {z}) = Cardinality(H) + 1
    <3> HIDE DEF H
    <3>1. IsFiniteSet(H) /\ z \notin H
      BY <2>2 DEF H
    <3> QED BY <3>1, FS_AddElement
  <2> QED BY <2>1, <2>3, <1>5
<1>6. CASE ~ (x = r /\ in = PrevHop(n, d.flow))
  <2>1. Held(t, n, x, in) = Held(s, n, x, in)
    <3>1. ASSUME NEW y \in Held(t, n, x, in) PROVE y \in Held(s, n, x, in)
      <4>1. PICK p, i : p \in PortOf[n] /\ i \in DOMAIN t.ciq[p][x] /\
                y = <<p, i>> /\ PrevHop(n, t.ciq[p][x][i].flow) = in
        BY <3>1, HeldAt
      <4>2. CASE p = port /\ x = r
        <5>1. i \in 1 .. Len(q) + 1 /\ PrevHop(n, Append(q, d)[i].flow) = in
          BY <4>1, <4>2, <1>2, <1>4
        <5>2. i # Len(q) + 1
          BY <5>1, <4>2, <1>4, <1>6
        <5>3. i \in 1 .. Len(q) /\ PrevHop(n, q[i].flow) = in
          BY <5>1, <5>2, <1>1, <1>4
        <5> QED BY <4>1, <4>2, <5>3, <1>4, HeldAt
      <4>3. CASE ~ (p = port /\ x = r)
        BY <4>1, <4>3, <1>3, HeldAt
      <4> QED BY <4>2, <4>3
    <3>2. ASSUME NEW y \in Held(s, n, x, in) PROVE y \in Held(t, n, x, in)
      <4>1. PICK p, i : p \in PortOf[n] /\ i \in DOMAIN s.ciq[p][x] /\
                y = <<p, i>> /\ PrevHop(n, s.ciq[p][x][i].flow) = in
        BY <3>2, HeldAt
      <4>2. CASE p = port /\ x = r
        <5>1. i \in DOMAIN t.ciq[p][x] /\ t.ciq[p][x][i] = s.ciq[p][x][i]
          BY <4>1, <4>2, <1>2, <1>4
        <5> QED BY <4>1, <5>1, HeldAt
      <4>3. CASE ~ (p = port /\ x = r)
        BY <4>1, <4>3, <1>3, HeldAt
      <4> QED BY <4>2, <4>3
    <3> QED BY <3>1, <3>2
  <2>2. Cardinality(Held(s, n, x, in)) \in Nat
    BY FS_CardinalityType
  <2> QED BY <2>1, <2>2, <1>6
<1> QED BY <1>5, <1>6

\* The first packet taken from a CIQ is a packet less from its upstream device.
LEMMA HeldLess ==
  ASSUME NEW n \in Switch, NEW s, NEW t, NEW port \in PortOf[n], NEW r \in Root,
         s.ciq \in [PortOf[n] -> [Root -> Seq(Packet)]], s.ciq[port][r] # <<>>,
         CiqLess(s, t, port, r),
         NEW x \in Root, NEW in \in PortOf[n], IsFiniteSet(Held(s, n, x, in))
  PROVE  /\ IsFiniteSet(Held(t, n, x, in))
         /\ Cardinality(Held(t, n, x, in))
              = Cardinality(Held(s, n, x, in))
                  - (IF x = r /\ in = PrevHop(n, Head(s.ciq[port][r]).flow) THEN 1 ELSE 0)
<1> DEFINE q == s.ciq[port][r]
           H == Held(s, n, x, in)
           K == Held(t, n, x, in)
<1>1. q \in Seq(Packet) /\ Len(q) \in Nat /\ Len(q) > 0 /\ q[1] = Head(q)
  OBVIOUS
<1>2. t.ciq[port][r] = Tail(q)
  BY DEF CiqLess
<1>3. \A p \in PortOf[n], y \in Root : ~ (p = port /\ y = r) => t.ciq[p][y] = s.ciq[p][y]
  BY DEF CiqLess
<1>4. /\ DOMAIN q = 1 .. Len(q) /\ DOMAIN Tail(q) = 1 .. Len(q) - 1
      /\ \A i \in 1 .. Len(q) - 1 : Tail(q)[i] = q[i + 1]
  BY <1>1
<1>5. CASE x # r
  <2>1. K = H
    <3>1. \A p \in PortOf[n] : t.ciq[p][x] = s.ciq[p][x]
      BY <1>3, <1>5
    <3>2. ASSUME NEW y \in K PROVE y \in H
      <4>1. PICK p, i : p \in PortOf[n] /\ i \in DOMAIN t.ciq[p][x] /\
                y = <<p, i>> /\ PrevHop(n, t.ciq[p][x][i].flow) = in
        BY <3>2, HeldAt
      <4> QED BY <4>1, <3>1, HeldAt
    <3>3. ASSUME NEW y \in H PROVE y \in K
      <4>1. PICK p, i : p \in PortOf[n] /\ i \in DOMAIN s.ciq[p][x] /\
                y = <<p, i>> /\ PrevHop(n, s.ciq[p][x][i].flow) = in
        BY <3>3, HeldAt
      <4> QED BY <4>1, <3>1, HeldAt
    <3> QED BY <3>2, <3>3
  <2>2. Cardinality(H) \in Nat
    BY FS_CardinalityType
  <2> QED BY <2>1, <2>2, <1>5
<1>6. CASE x = r
  <2> DEFINE z == <<port, 1>>
             J == H \ {z}
             F == [y \in J |-> IF y[1] = port THEN <<port, y[2] - 1>> ELSE y]
  <2>1. \A y : y \in J <=> \/ \E p \in PortOf[n] \ {port} : \E i \in DOMAIN s.ciq[p][x] :
                                y = <<p, i>> /\ PrevHop(n, s.ciq[p][x][i].flow) = in
                           \/ \E i \in 2 .. Len(q) : y = <<port, i>> /\ PrevHop(n, q[i].flow) = in
    <3>1. ASSUME NEW y, y \in J
          PROVE \/ \E p \in PortOf[n] \ {port} : \E i \in DOMAIN s.ciq[p][x] :
                      y = <<p, i>> /\ PrevHop(n, s.ciq[p][x][i].flow) = in
                \/ \E i \in 2 .. Len(q) : y = <<port, i>> /\ PrevHop(n, q[i].flow) = in
      <4>1. PICK p, i : p \in PortOf[n] /\ i \in DOMAIN s.ciq[p][x] /\
                y = <<p, i>> /\ PrevHop(n, s.ciq[p][x][i].flow) = in
        BY <3>1, HeldAt
      <4>2. CASE p = port
        <5>1. i # 1 /\ i \in 1 .. Len(q)
          BY <4>1, <4>2, <3>1, <1>6, <1>4
        <5>2. i \in 2 .. Len(q)
          BY <5>1, <1>1
        <5> QED BY <5>2, <4>1, <4>2, <1>6
      <4> QED BY <4>1, <4>2
    <3>2. ASSUME NEW y, NEW p \in PortOf[n] \ {port}, NEW i \in DOMAIN s.ciq[p][x],
                 y = <<p, i>> /\ PrevHop(n, s.ciq[p][x][i].flow) = in
          PROVE  y \in J
      <4>1. y \in H
        BY <3>2, HeldAt
      <4> QED BY <4>1, <3>2
    <3>3. ASSUME NEW y, NEW i \in 2 .. Len(q), y = <<port, i>> /\ PrevHop(n, q[i].flow) = in
          PROVE  y \in J
      <4>1. i \in DOMAIN s.ciq[port][x] /\ s.ciq[port][x][i] = q[i] /\ i # 1
        BY <3>3, <1>1, <1>4, <1>6
      <4>2. y \in H
        BY <3>3, <4>1, HeldAt
      <4> QED BY <4>1, <4>2, <3>3
    <3> QED BY <3>1, <3>2, <3>3
  <2>2. \A y : y \in K <=> \/ \E p \in PortOf[n] \ {port} : \E i \in DOMAIN s.ciq[p][x] :
                                y = <<p, i>> /\ PrevHop(n, s.ciq[p][x][i].flow) = in
                           \/ \E i \in 1 .. Len(q) - 1 : y = <<port, i>> /\ PrevHop(n, q[i + 1].flow) = in
    <3>1. ASSUME NEW y, y \in K
          PROVE \/ \E p \in PortOf[n] \ {port} : \E i \in DOMAIN s.ciq[p][x] :
                      y = <<p, i>> /\ PrevHop(n, s.ciq[p][x][i].flow) = in
                \/ \E i \in 1 .. Len(q) - 1 : y = <<port, i>> /\ PrevHop(n, q[i + 1].flow) = in
      <4>1. PICK p, i : p \in PortOf[n] /\ i \in DOMAIN t.ciq[p][x] /\
                y = <<p, i>> /\ PrevHop(n, t.ciq[p][x][i].flow) = in
        BY <3>1, HeldAt
      <4>2. CASE p = port
        <5>1. i \in 1 .. Len(q) - 1 /\ t.ciq[p][x][i] = q[i + 1]
          BY <4>1, <4>2, <1>6, <1>2, <1>4
        <5> QED BY <5>1, <4>1, <4>2
      <4>3. CASE p # port
        BY <4>1, <4>3, <1>3
      <4> QED BY <4>2, <4>3
    <3>2. ASSUME NEW y, NEW p \in PortOf[n] \ {port}, NEW i \in DOMAIN s.ciq[p][x],
                 y = <<p, i>> /\ PrevHop(n, s.ciq[p][x][i].flow) = in
          PROVE  y \in K
      <4>1. t.ciq[p][x] = s.ciq[p][x]
        BY <1>3
      <4> QED BY <3>2, <4>1, HeldAt
    <3>3. ASSUME NEW y, NEW i \in 1 .. Len(q) - 1, y = <<port, i>> /\ PrevHop(n, q[i + 1].flow) = in
          PROVE  y \in K
      <4>1. i \in DOMAIN t.ciq[port][x] /\ t.ciq[port][x][i] = q[i + 1]
        BY <3>3, <1>2, <1>4, <1>6
      <4>2. PrevHop(n, t.ciq[port][x][i].flow) = in
        BY <3>3, <4>1
      <4> HIDE DEF K
      <4>3. y \in Held(t, n, x, in)
        BY <3>3, <4>1, <4>2, HeldAt
      <4> QED BY <4>3 DEF K
    <3> QED BY <3>1, <3>2, <3>3
  <2>3. F \in Bijection(J, K)
    <3>1. \A y \in J : F[y] \in K /\ (y[1] = port => y[2] \in Int /\ y = <<port, y[2]>>)
      <4>1. ASSUME NEW y \in J PROVE F[y] \in K /\ (y[1] = port => y[2] \in Int /\ y = <<port, y[2]>>)
        <5>1. CASE \E p \in PortOf[n] \ {port} : \E i \in DOMAIN s.ciq[p][x] :
                      y = <<p, i>> /\ PrevHop(n, s.ciq[p][x][i].flow) = in
          <6>1. y[1] # port
            BY <5>1
          <6>2. F[y] = y
            BY <6>1
          <6>3. y \in K
            <7> HIDE DEF K
            <7> QED BY <5>1, <2>2
          <6> QED BY <6>1, <6>2, <6>3
        <5>2. CASE \E i \in 2 .. Len(q) : y = <<port, i>> /\ PrevHop(n, q[i].flow) = in
          <6>1. PICK i \in 2 .. Len(q) : y = <<port, i>> /\ PrevHop(n, q[i].flow) = in
            BY <5>2
          <6>2. F[y] = <<port, i - 1>>
            BY <6>1
          <6>3. i - 1 \in 1 .. Len(q) - 1 /\ (i - 1) + 1 = i
            BY <1>1
          <6>4. F[y] \in K
            <7> HIDE DEF F, K
            <7> QED BY <6>1, <6>2, <6>3, <2>2
          <6> QED BY <6>1, <6>4
        <5> HIDE DEF J
        <5> QED BY <5>1, <5>2, <2>1, <4>1
      <4> QED BY <4>1
    <3>2. \A y, w \in J : F[y] = F[w] => y = w
      <4>1. ASSUME NEW y \in J, NEW w \in J, F[y] = F[w] PROVE y = w
        <5>1. (y[1] = port => y[2] \in Int /\ y = <<port, y[2]>>)
              /\ (w[1] = port => w[2] \in Int /\ w = <<port, w[2]>>)
          BY <3>1
        <5>2. F[y] = (IF y[1] = port THEN <<port, y[2] - 1>> ELSE y)
              /\ F[w] = (IF w[1] = port THEN <<port, w[2] - 1>> ELSE w)
          OBVIOUS
        <5> HIDE DEF F, J
        <5>3. CASE y[1] = port /\ w[1] = port
          <6>1. y[2] - 1 = w[2] - 1
            BY <5>2, <5>3, <4>1
          <6>2. y[2] \in Int /\ w[2] \in Int /\ y = <<port, y[2]>> /\ w = <<port, w[2]>>
            BY <5>1, <5>3
          <6>3. y[2] = w[2]
            BY <6>1, <6>2
          <6> QED BY <6>2, <6>3
        <5>4. CASE y[1] = port /\ w[1] # port
          <6>1. w = <<port, y[2] - 1>>
            BY <5>2, <5>4, <4>1
          <6> QED BY <6>1, <5>4
        <5>5. CASE y[1] # port /\ w[1] = port
          <6>1. y = <<port, w[2] - 1>>
            BY <5>2, <5>5, <4>1
          <6> QED BY <6>1, <5>5
        <5>6. CASE y[1] # port /\ w[1] # port
          BY <5>2, <5>6, <4>1
        <5> QED BY <5>3, <5>4, <5>5, <5>6
      <4> QED BY <4>1
    <3>3. \A w \in K : \E y \in J : F[y] = w
      <4>1. ASSUME NEW w \in K PROVE \E y \in J : F[y] = w
        <5>1. CASE \E p \in PortOf[n] \ {port} : \E i \in DOMAIN s.ciq[p][x] :
                      w = <<p, i>> /\ PrevHop(n, s.ciq[p][x][i].flow) = in
          <6>1. w \in J
            <7> HIDE DEF J
            <7> QED BY <5>1, <2>1
          <6>2. w[1] # port
            BY <5>1
          <6> QED BY <6>1, <6>2
        <5>2. CASE \E i \in 1 .. Len(q) - 1 : w = <<port, i>> /\ PrevHop(n, q[i + 1].flow) = in
          <6>1. PICK i \in 1 .. Len(q) - 1 : w = <<port, i>> /\ PrevHop(n, q[i + 1].flow) = in
            BY <5>2
          <6>2. i + 1 \in 2 .. Len(q) /\ (i + 1) - 1 = i
            BY <1>1
          <6>3. <<port, i + 1>> \in J
            <7> HIDE DEF J
            <7> QED BY <6>1, <6>2, <2>1
          <6>4. F[<<port, i + 1>>] = <<port, (i + 1) - 1>>
            BY <6>3
          <6> QED BY <6>1, <6>2, <6>3, <6>4
        <5> HIDE DEF K, J, F
        <5> QED BY <5>1, <5>2, <2>2, <4>1
      <4> QED BY <4>1
    <3>4. F \in [J -> K]
      BY <3>1
    <3> HIDE DEF F, J, K
    <3> QED BY <3>2, <3>3, <3>4, Fun_IsBij
  <2>4. IsFiniteSet(J) /\ Cardinality(J) = IF z \in H THEN Cardinality(H) - 1 ELSE Cardinality(H)
    <3> HIDE DEF H, z
    <3> QED BY FS_RemoveElement DEF H
  <2>5. IsFiniteSet(K) /\ Cardinality(K) = Cardinality(J)
    <3> HIDE DEF F, J, K
    <3>1. ExistsBijection(J, K)
      BY <2>3 DEF ExistsBijection
    <3> QED BY <2>4, <3>1, FS_Bijection
  <2>6. z \in H <=> in = PrevHop(n, Head(q).flow)
    <3>1. ASSUME z \in H PROVE in = PrevHop(n, Head(q).flow)
      <4>1. PICK p, i : p \in PortOf[n] /\ i \in DOMAIN s.ciq[p][x] /\
                z = <<p, i>> /\ PrevHop(n, s.ciq[p][x][i].flow) = in
        BY <3>1, HeldAt
      <4>2. p = port /\ i = 1
        BY <4>1
      <4> QED BY <4>1, <4>2, <1>1, <1>6
    <3>2. ASSUME in = PrevHop(n, Head(q).flow) PROVE z \in H
      <4>1. 1 \in DOMAIN s.ciq[port][x] /\ s.ciq[port][x][1] = Head(q)
        BY <1>1, <1>4, <1>6
      <4> QED BY <3>2, <4>1, HeldAt
    <3> QED BY <3>1, <3>2
  <2>7. Cardinality(H) \in Nat
    BY FS_CardinalityType
  <2> HIDE DEF H, K, J, z
  <2>8. Cardinality(K) = Cardinality(H) - (IF in = PrevHop(n, Head(q).flow) THEN 1 ELSE 0)
    BY <2>4, <2>5, <2>6, <2>7
  <2> QED BY <2>5, <2>8, <1>6 DEF H, K
<1> QED BY <1>5, <1>6

-----------------------------------------------------------------------------
(* The state of a switch *)

Entries(n) == UNION {[D -> Entry(n)] : D \in SUBSET Root}

LEMMA EntryMap ==
  ASSUME NEW n, NEW g
  PROVE  g \in Entries(n) <=> /\ DOMAIN g \subseteq Root
                              /\ g = [r \in DOMAIN g |-> g[r]]
                              /\ \A r \in DOMAIN g : g[r] \in Entry(n)
<1>1. ASSUME g \in Entries(n)
      PROVE  /\ DOMAIN g \subseteq Root /\ g = [r \in DOMAIN g |-> g[r]]
             /\ \A r \in DOMAIN g : g[r] \in Entry(n)
  <2>1. PICK D \in SUBSET Root : g \in [D -> Entry(n)]
    BY <1>1 DEF Entries
  <2> QED BY <2>1
<1>2. ASSUME DOMAIN g \subseteq Root, g = [r \in DOMAIN g |-> g[r]],
             \A r \in DOMAIN g : g[r] \in Entry(n)
      PROVE  g \in Entries(n)
  <2>1. g \in [DOMAIN g -> Entry(n)]
    BY <1>2
  <2> QED BY <1>2, <2>1 DEF Entries
<1> QED BY <1>1, <1>2

LEMMA StateOf ==
  ASSUME NEW n
  PROVE  State(n) = [entries : Entries(n),
                     rootChild : [PortOf[n] -> Children(n)],
                     oq : [PortOf[n] -> Seq(Packet)],
                     ciq : [PortOf[n] -> [Root -> Seq(Packet)]],
                     paused : [PortOf[n] -> SUBSET Root],
                     hier : BOOLEAN, hol : Nat,
                     wire : [PortOf[n] -> Seq(Packet)],
                     ctrl : [PortOf[n] -> Seq(Signal)]]
  BY DEF State, Entries

LEMMA EntryAt ==
  ASSUME NEW n, NEW s \in State(n), NEW r \in DOMAIN s.entries
  PROVE  r \in Root /\ s.entries[r] \in Entry(n)
<1>1. s.entries \in Entries(n)
  BY StateOf
<1> QED BY <1>1, EntryMap

\* An entry replaced by another, added or erased.
LEMMA EntryPut ==
  ASSUME NEW n, NEW g \in Entries(n), NEW r \in Root, NEW e \in Entry(n)
  PROVE  /\ [g EXCEPT ![r] = e] \in Entries(n)
         /\ Assign(g, r, e) \in Entries(n)
         /\ Erase(g, r) \in Entries(n)
<1>1. /\ DOMAIN g \subseteq Root /\ g = [x \in DOMAIN g |-> g[x]]
      /\ \A x \in DOMAIN g : g[x] \in Entry(n)
  BY EntryMap
<1>2. [g EXCEPT ![r] = e] \in Entries(n)
  <2> DEFINE h == [g EXCEPT ![r] = e]
  <2>1. h = [x \in DOMAIN g |-> IF x = r THEN e ELSE g[x]]
    BY <1>1
  <2> HIDE DEF h
  <2>2. h \in Entries(n)
    BY <1>1, <2>1, EntryMap
  <2> QED BY <2>2 DEF h
<1>3. Assign(g, r, e) \in Entries(n)
  <2> DEFINE h == Assign(g, r, e)
  <2>1. h = [x \in DOMAIN g \cup {r} |-> IF x = r THEN e ELSE g[x]]
    BY DEF Assign
  <2> HIDE DEF h
  <2>2. h \in Entries(n)
    BY <1>1, <2>1, EntryMap
  <2> QED BY <2>2 DEF h
<1>4. Erase(g, r) \in Entries(n)
  <2> DEFINE h == Erase(g, r)
  <2>1. h = [x \in DOMAIN g \ {r} |-> g[x]]
    BY EraseAt
  <2> HIDE DEF h
  <2>2. h \in Entries(n)
    BY <1>1, <2>1, EntryMap
  <2> QED BY <2>2 DEF h
<1> QED BY <1>2, <1>3, <1>4

\* Signals sent and what is on record change together.
LEMMA ToldStep ==
  ASSUME NEW n, NEW s \in State(n), NEW t,
         NEW before \in [PortOf[n] -> [Root -> BOOLEAN]], Told(s, n, before),
         \A up \in PortOf[n] :
           \/ /\ t.ctrl[up] = s.ctrl[up]
              /\ \A r \in Root : RecordedIn(t, n, up, r) <=> RecordedIn(s, n, up, r)
           \/ \E i \in Signal :
                /\ t.ctrl[up] = Append(s.ctrl[up], i)
                /\ \A r \in Root : RecordedIn(t, n, up, r) <=> Obeyed(i, r, RecordedIn(s, n, up, r))
  PROVE  Told(t, n, before)
<1> SUFFICES ASSUME NEW up \in PortOf[n], NEW r \in Root
             PROVE  RecordedIn(t, n, up, r) <=> PausedAfter(t.ctrl[up], r, before[up][r])
  BY DEF Told
<1>1. RecordedIn(s, n, up, r) <=> PausedAfter(s.ctrl[up], r, before[up][r])
  BY DEF Told
<1>2. CASE /\ t.ctrl[up] = s.ctrl[up]
           /\ \A x \in Root : RecordedIn(t, n, up, x) <=> RecordedIn(s, n, up, x)
  BY <1>1, <1>2
<1>3. ASSUME NEW i \in Signal, t.ctrl[up] = Append(s.ctrl[up], i),
             \A x \in Root : RecordedIn(t, n, up, x) <=> Obeyed(i, x, RecordedIn(s, n, up, x))
      PROVE  RecordedIn(t, n, up, r) <=> PausedAfter(t.ctrl[up], r, before[up][r])
  <2>1. s.ctrl[up] \in Seq(Signal) /\ before[up][r] \in BOOLEAN
    BY StateOf
  <2>2. PausedAfter(t.ctrl[up], r, before[up][r]) <=> Obeyed(i, r, PausedAfter(s.ctrl[up], r, before[up][r]))
    BY <2>1, <1>3, PausedAppend
  <2>3. Obeyed(i, r, PausedAfter(s.ctrl[up], r, before[up][r])) <=> Obeyed(i, r, RecordedIn(s, n, up, r))
    BY <1>1 DEF Obeyed
  <2> QED BY <2>2, <2>3, <1>3
<1> QED BY <1>2, <1>3

-----------------------------------------------------------------------------
(* Notifications: a packet counted into or out of a CIQ *)

\* The counter of device in changes by k, and perhaps the device is told.
Notified(s, t, n, r, in, k) ==
  /\ t \in State(n)
  /\ DOMAIN t.entries = DOMAIN s.entries
  /\ \A x \in DOMAIN s.entries \ {r} : t.entries[x] = s.entries[x]
  /\ t.entries[r].hop = s.entries[r].hop
  /\ t.entries[r].ciq = s.entries[r].ciq
  /\ t.entries[r].status = s.entries[r].status
  /\ t.entries[r].counter = [s.entries[r].counter EXCEPT ![in] = @ + k]
  /\ \/ t.entries[r].child = s.entries[r].child /\ t.ctrl = s.ctrl
     \/ /\ t.entries[r].child = Assign(s.entries[r].child, in, TRUE)
        /\ t.ctrl = [s.ctrl EXCEPT ![in] = Append(@, Pause(r, s.entries[r].hop + 1))]
     \/ /\ t.entries[r].child = Assign(s.entries[r].child, in, FALSE)
        /\ t.ctrl = [s.ctrl EXCEPT ![in] = Append(@, Resume(r))]
  /\ t.rootChild = s.rootChild /\ t.oq = s.oq /\ t.paused = s.paused
  /\ t.hol = s.hol /\ t.wire = s.wire

\* A counter changed.
LEMMA CounterPut ==
  ASSUME NEW n, NEW s \in State(n), NEW r \in DOMAIN s.entries, NEW in \in PortOf[n], NEW k \in Int
  PROVE  LET t == [s EXCEPT !.entries[r].counter[in] = @ + k]
         IN  /\ Notified(s, t, n, r, in, k)
             /\ t.ctrl = s.ctrl /\ t.entries[r].child = s.entries[r].child
             /\ t.ciq = s.ciq /\ t.hier = s.hier
<1> DEFINE e == s.entries[r]
           f == [e EXCEPT !.counter = [e.counter EXCEPT ![in] = @ + k]]
           E == [s.entries EXCEPT ![r] = f]
           t == [s EXCEPT !.entries[r].counter[in] = @ + k]
<1>1. e \in Entry(n) /\ r \in Root /\ s.entries \in Entries(n)
  BY EntryAt, StateOf
<1>2. f \in Entry(n) /\ f.hop = e.hop /\ f.ciq = e.ciq /\ f.status = e.status /\ f.child = e.child
      /\ f.counter = [e.counter EXCEPT ![in] = @ + k]
  BY <1>1 DEF Entry
<1>3. E \in Entries(n) /\ DOMAIN E = DOMAIN s.entries /\ E[r] = f
      /\ \A x \in DOMAIN s.entries \ {r} : E[x] = s.entries[x]
  BY <1>1, <1>2, EntryPut
<1>4. t = [s EXCEPT !.entries = E]
  OBVIOUS
<1> HIDE DEF E, f, t
<1>5. t \in State(n) /\ t.entries = E /\ t.rootChild = s.rootChild /\ t.oq = s.oq /\ t.ciq = s.ciq
      /\ t.paused = s.paused /\ t.hier = s.hier /\ t.hol = s.hol /\ t.wire = s.wire /\ t.ctrl = s.ctrl
  BY <1>3, <1>4, StateOf
<1> QED BY <1>2, <1>3, <1>5 DEF Notified, t

\* A child put on record and told.
Controlled(s, t, n, r, in, v, i) ==
  /\ t \in State(n)
  /\ DOMAIN t.entries = DOMAIN s.entries
  /\ \A x \in DOMAIN s.entries \ {r} : t.entries[x] = s.entries[x]
  /\ t.entries[r].hop = s.entries[r].hop /\ t.entries[r].ciq = s.entries[r].ciq
  /\ t.entries[r].status = s.entries[r].status
  /\ t.entries[r].counter = s.entries[r].counter
  /\ t.entries[r].child = Assign(s.entries[r].child, in, v)
  /\ t.ctrl = [s.ctrl EXCEPT ![in] = Append(@, i)]
  /\ t.rootChild = s.rootChild /\ t.oq = s.oq /\ t.ciq = s.ciq /\ t.paused = s.paused
  /\ t.hier = s.hier /\ t.hol = s.hol /\ t.wire = s.wire

LEMMA ChildPut ==
  ASSUME NEW n, NEW s \in State(n), NEW r \in DOMAIN s.entries, NEW in \in PortOf[n],
         NEW v \in BOOLEAN, NEW i \in Signal
  PROVE  Controlled(s, SetChild(Schedule(s, in, i), r, in, v), n, r, in, v, i)
<1> DEFINE e == s.entries[r]
           g == Assign(e.child, in, v)
           f == [e EXCEPT !.child = g]
           E == [s.entries EXCEPT ![r] = f]
           C == [s.ctrl EXCEPT ![in] = Append(@, i)]
           t == SetChild(Schedule(s, in, i), r, in, v)
<1>1. e \in Entry(n) /\ r \in Root /\ s.entries \in Entries(n)
  BY EntryAt, StateOf
<1>2. g \in Children(n)
  <2>1. e.child \in Children(n)
    BY <1>1 DEF Entry
  <2> QED BY <2>1, AssignChild
<1>3. t = [s EXCEPT !.entries = E, !.ctrl = C]
  BY DEF SetChild, Schedule
<1> HIDE DEF g
<1>4. f \in Entry(n) /\ f.hop = e.hop /\ f.ciq = e.ciq /\ f.status = e.status /\ f.child = g
      /\ f.counter = e.counter
  BY <1>1, <1>2 DEF Entry
<1>5. E \in Entries(n) /\ DOMAIN E = DOMAIN s.entries /\ E[r] = f
      /\ \A x \in DOMAIN s.entries \ {r} : E[x] = s.entries[x]
  BY <1>1, <1>4, EntryPut
<1>6. C \in [PortOf[n] -> Seq(Signal)]
  <2>1. s.ctrl \in [PortOf[n] -> Seq(Signal)]
    BY StateOf
  <2>2. Append(s.ctrl[in], i) \in Seq(Signal)
    BY <2>1
  <2> QED BY <2>1, <2>2
<1> HIDE DEF E, f, C, t
<1>7. t \in State(n) /\ t.entries = E /\ t.rootChild = s.rootChild /\ t.oq = s.oq /\ t.ciq = s.ciq
      /\ t.paused = s.paused /\ t.hier = s.hier /\ t.hol = s.hol /\ t.wire = s.wire /\ t.ctrl = C
  BY <1>3, <1>5, <1>6, StateOf
<1> QED BY <1>4, <1>5, <1>7 DEF C, g, t, Controlled

LEMMA SignalTypes ==
  ASSUME NEW r \in Root, NEW hop \in Nat, NEW old \in Root
  PROVE  /\ Pause(r, hop) \in Signal /\ Resume(r) \in Signal /\ Dealloc(r) \in Signal
         /\ Merge(r, hop, old) \in Signal
         /\ \A x, b : b \in BOOLEAN =>
              /\ Obeyed(Pause(r, hop), x, b) <=> (IF x = r THEN TRUE ELSE b)
              /\ Obeyed(Resume(r), x, b) <=> (IF x = r THEN FALSE ELSE b)
              /\ Obeyed(Dealloc(r), x, b) <=> b
              /\ Obeyed(Merge(r, hop, old), x, b) <=> (IF x \in {r, old} THEN FALSE ELSE b)
  BY DEF Pause, Resume, Dealloc, Merge, Signal, Obeyed, Pauses, Resumes

LEMMA EnqueueNotifies ==
  ASSUME NEW n, NEW s \in State(n), NEW r \in DOMAIN s.entries, NEW in \in PortOf[n], NEW port
  PROVE  LET t == NotifyEnqueueIntoCIQ(s, in, port, r)
         IN  Notified(s, t, n, r, in, 1) /\ t.ciq = s.ciq /\ t.hier = s.hier
<1> DEFINE t == [s EXCEPT !.entries[r].counter[in] = @ + 1]
           u == NotifyEnqueueIntoCIQ(s, in, port, r)
           i == Pause(r, t.entries[r].hop + 1)
<1>1. /\ Notified(s, t, n, r, in, 1) /\ t.ctrl = s.ctrl /\ t.entries[r].child = s.entries[r].child
      /\ t.ciq = s.ciq /\ t.hier = s.hier
  BY CounterPut
<1>2. u = IF CheckCIQPause(t.entries[r], in, port)
            THEN SetChild(Schedule(t, in, i), r, in, TRUE) ELSE t
  BY DEF NotifyEnqueueIntoCIQ
<1> HIDE DEF t, u
<1>3. CASE CheckCIQPause(t.entries[r], in, port)
  <2>1. t \in State(n) /\ r \in DOMAIN t.entries
    BY <1>1 DEF Notified
  <2>2. r \in Root /\ t.entries[r].hop \in Nat
    BY <2>1, EntryAt DEF Entry
  <2>3. i \in Signal
    BY <2>2, SignalTypes
  <2>4. u = SetChild(Schedule(t, in, i), r, in, TRUE)
    BY <1>2, <1>3
  <2>5. i = Pause(r, s.entries[r].hop + 1)
    BY <1>1 DEF Notified
  <2> HIDE DEF i
  <2>6. Controlled(t, u, n, r, in, TRUE, i)
    BY <2>1, <2>3, <2>4, ChildPut
  <2>7. Notified(s, u, n, r, in, 1)
    BY <1>1, <2>5, <2>6 DEF Notified, Controlled
  <2> QED BY <1>1, <2>6, <2>7 DEF u, Controlled
<1>4. CASE ~ CheckCIQPause(t.entries[r], in, port)
  BY <1>1, <1>2, <1>4 DEF u
<1> QED BY <1>3, <1>4

\* The same for a dequeue, up to the release that follows.
LEMMA DequeueNotifies ==
  ASSUME NEW n, NEW s \in State(n), NEW r \in DOMAIN s.entries, NEW in \in PortOf[n], NEW port
  PROVE  \E u : /\ Notified(s, u, n, r, in, -1) /\ u.ciq = s.ciq /\ u.hier = s.hier
                /\ NotifyDequeueFromCIQ(s, n, in, port, r)
                     = IF u.entries[r].status[port] # "MERGE"
                         THEN CheckAndSendDealloc(u, n, r)
                         ELSE ReleaseMergeCIQEntry(u, r, port)
<1> DEFINE t == [s EXCEPT !.entries[r].counter[in] = @ - 1]
           v == [s EXCEPT !.entries[r].counter[in] = @ + (-1)]
           u == IF CheckCIQResume(t.entries[r], in, port)
                  THEN SetChild(Schedule(t, in, Resume(r)), r, in, FALSE)
                  ELSE t
<1>1. /\ Notified(s, v, n, r, in, -1) /\ v.ctrl = s.ctrl /\ v.entries[r].child = s.entries[r].child
      /\ v.ciq = s.ciq /\ v.hier = s.hier
  <2>1. -1 \in Int
    OBVIOUS
  <2> QED BY <2>1, CounterPut
<1>2. t = v
  <2>1. s.entries[r] \in Entry(n)
    BY EntryAt
  <2>2. s.entries[r].counter[in] \in Int
    BY <2>1 DEF Entry
  <2>3. s.entries[r].counter[in] - 1 = s.entries[r].counter[in] + (-1)
    BY <2>2
  <2> QED BY <2>3
<1>3. NotifyDequeueFromCIQ(s, n, in, port, r)
        = IF u.entries[r].status[port] # "MERGE"
            THEN CheckAndSendDealloc(u, n, r)
            ELSE ReleaseMergeCIQEntry(u, r, port)
  BY DEF NotifyDequeueFromCIQ
<1> HIDE DEF t, v
<1>4. Notified(s, u, n, r, in, -1) /\ u.ciq = s.ciq /\ u.hier = s.hier
  <2>1. CASE CheckCIQResume(t.entries[r], in, port)
    <3>1. t \in State(n) /\ r \in DOMAIN t.entries
      BY <1>1, <1>2 DEF Notified
    <3>2. r \in Root
      BY <3>1, EntryAt
    <3>3. Resume(r) \in Signal
      BY <3>2 DEF Resume, Signal
    <3>4. u = SetChild(Schedule(t, in, Resume(r)), r, in, FALSE)
      BY <2>1
    <3> HIDE DEF u
    <3>5. Controlled(t, u, n, r, in, FALSE, Resume(r))
      BY <3>1, <3>3, <3>4, ChildPut
    <3>6. Notified(s, u, n, r, in, -1)
      BY <1>1, <1>2, <3>5 DEF Notified, Controlled
    <3> QED BY <1>1, <1>2, <3>5, <3>6 DEF Controlled
  <2>2. CASE ~ CheckCIQResume(t.entries[r], in, port)
    BY <1>1, <1>2, <2>2
  <2> QED BY <2>1, <2>2
<1> HIDE DEF u
<1> QED BY <1>3, <1>4

\* What a packet that waits for a root says of the trees.
LEMMA WaitingFacts ==
  ASSUME NEW n \in Switch, NEW p, NEW r, NEW d \in Waiting(n, p, r)
  PROVE  /\ d \in Packet /\ d \in Leaving(n, p) /\ d.flow \in Flow /\ <<n, p>> \in Hops(d.flow)
         /\ p \in PortOf[n] /\ PrevHop(n, d.flow) \in PortOf[n]
         /\ <<PrevHop(n, d.flow), n, r>> \in Tree /\ <<n, p, r>> \in Tree
         /\ r \in Root /\ Dist[n][r] > 0
<1> DEFINE f == d.flow
           i == Pos(n, f)
<1>1. d \in Packet /\ d \in Leaving(n, p) /\ f \in Flow /\ <<n, p>> \in Hops(f)
  BY DEF Waiting, Leaving, Packet
<1>2. PICK j \in i + 1 .. Len(Path[f]) - 1 : RootAt(f, j) = r
  BY DEF Waiting
<1>3. /\ i \in 2 .. Len(Path[f]) - 1 /\ Path[f][i] = n
      /\ NextHop(n, f) = p /\ p \in PortOf[n] /\ PrevHop(n, f) \in PortOf[n]
      /\ PrevHop(n, f) = Path[f][i - 1]
  BY <1>1, HopOut
<1>4. Len(Path[f]) \in Nat
  BY <1>1, CiParameters
<1>5. p = Path[f][i + 1]
  BY <1>3 DEF NextHop
<1> HIDE DEF f, i
<1>6. i \in Int /\ j \in i .. Len(Path[f]) - 1 /\ j # i /\ j - i > 0
  BY <1>2, <1>3, <1>4
<1>7. /\ <<PrevHop(n, f), n, r>> \in Tree /\ <<n, p, r>> \in Tree /\ Dist[n][r] = j - i
  BY <1>1, <1>2, <1>3, <1>5, <1>6, FlowInTree
<1>8. r \in Root
  BY <1>7, InTree
<1> QED BY <1>1, <1>3, <1>6, <1>7, <1>8 DEF f

-----------------------------------------------------------------------------
(* A notification keeps the switch sane *)

\* The control side: statuses and what the devices have been told.
LEMMA NotifiedControl ==
  ASSUME NEW n \in Switch, NEW before \in [PortOf[n] -> [Root -> BOOLEAN]],
         NEW s, Sane(s, n, before), NEW u, NEW r \in DOMAIN s.entries, NEW in, NEW k,
         <<in, n, r>> \in Tree, Notified(s, u, n, r, in, k)
  PROVE  OnTree(u, n) /\ Agree(u, n) /\ Told(u, n, before)
<1>1. s \in State(n) /\ u \in State(n) /\ in \in PortOf[n] /\ r \in Root
  BY InTree DEF Sane, Notified
<1>2. s.entries[r] \in Entry(n) /\ u.entries[r] \in Entry(n)
  BY <1>1, EntryAt DEF Notified
<1>3. s.entries[r].child \in Children(n) /\ s.entries[r].hop = Dist[n][r] /\ s.entries[r].hop \in Nat
  BY <1>2 DEF Entry, Sane, OnTree
<1>4. r[1] # n
  <2>1. Dist[n][r] > 0 /\ Dist[r[1]][r] = 0
    BY <1>1, RootEnds DEF Sane, OnTree
  <2> QED BY <2>1
<1> DEFINE Same == u.entries[r].child = s.entries[r].child /\ u.ctrl = s.ctrl
           i(v) == IF v THEN Pause(r, s.entries[r].hop + 1) ELSE Resume(r)
           Put(v) == /\ u.entries[r].child = Assign(s.entries[r].child, in, v)
                     /\ u.ctrl = [s.ctrl EXCEPT ![in] = Append(@, i(v))]
<1>5. Same \/ Put(TRUE) \/ Put(FALSE)
  BY DEF Notified
<1>6. ASSUME NEW v \in BOOLEAN
      PROVE  /\ i(v) \in Signal /\ i(v) \in SignalOn(n, in)
             /\ \A x, b : b \in BOOLEAN => (Obeyed(i(v), x, b) <=> IF x = r THEN v ELSE b)
  <2>1. Pause(r, s.entries[r].hop + 1) \in Signal /\ Resume(r) \in Signal
    BY <1>1, <1>3, SignalTypes
  <2>2. Pause(r, s.entries[r].hop + 1) \in SignalOn(n, in) /\ Resume(r) \in SignalOn(n, in)
    BY <2>1, <1>3 DEF SignalOn, Pause, Resume
  <2>3. \A x, b : b \in BOOLEAN =>
           /\ Obeyed(Pause(r, s.entries[r].hop + 1), x, b) <=> (IF x = r THEN TRUE ELSE b)
           /\ Obeyed(Resume(r), x, b) <=> (IF x = r THEN FALSE ELSE b)
    BY <1>1, <1>3, SignalTypes
  <2> QED BY <2>1, <2>2, <2>3
<1>7. ASSUME NEW v \in BOOLEAN
      PROVE  /\ DOMAIN Assign(s.entries[r].child, in, v) = DOMAIN s.entries[r].child \cup {in}
             /\ \A q : IsTrue(Assign(s.entries[r].child, in, v), q)
                         <=> IF q = in THEN v ELSE IsTrue(s.entries[r].child, q)
  <2> DEFINE g == s.entries[r].child
  <2>1. g \in Children(n)
    BY <1>3
  <2> HIDE DEF g
  <2>2. DOMAIN Assign(g, in, v) = DOMAIN g \cup {in}
    BY <2>1, <1>1, AssignChild
  <2>3. ASSUME NEW q PROVE IsTrue(Assign(g, in, v), q) <=> IF q = in THEN v ELSE IsTrue(g, q)
    BY <2>1, <1>1, AssignChild
  <2> QED BY <2>2, <2>3 DEF g
<1> HIDE DEF i
<1>8. OnTree(u, n)
  <2>1. \A x \in DOMAIN u.entries :
           /\ u.entries[x].hop = Dist[n][x] /\ Dist[n][x] > 0
           /\ \A p \in u.entries[x].ciq : <<n, p, x>> \in Tree
           /\ \A p \in DOMAIN u.entries[x].child : <<p, n, x>> \in Tree
    <3> SUFFICES ASSUME NEW x \in DOMAIN u.entries
                 PROVE  /\ u.entries[x].hop = Dist[n][x] /\ Dist[n][x] > 0
                        /\ \A p \in u.entries[x].ciq : <<n, p, x>> \in Tree
                        /\ \A p \in DOMAIN u.entries[x].child : <<p, n, x>> \in Tree
      OBVIOUS
    <3>1. x \in DOMAIN s.entries
      BY DEF Notified
    <3>2. /\ s.entries[x].hop = Dist[n][x] /\ Dist[n][x] > 0
          /\ \A p \in s.entries[x].ciq : <<n, p, x>> \in Tree
          /\ \A p \in DOMAIN s.entries[x].child : <<p, n, x>> \in Tree
      BY <3>1 DEF Sane, OnTree
    <3>3. CASE x # r
      <4>1. u.entries[x] = s.entries[x]
        BY <3>1, <3>3 DEF Notified
      <4> QED BY <4>1, <3>2
    <3>4. CASE x = r
      <4>1. u.entries[r].hop = s.entries[r].hop /\ u.entries[r].ciq = s.entries[r].ciq
        BY DEF Notified
      <4>2. DOMAIN u.entries[r].child \subseteq DOMAIN s.entries[r].child \cup {in}
        BY <1>5, <1>7
      <4> QED BY <4>1, <4>2, <3>2, <3>4
    <3> QED BY <3>3, <3>4
  <2>2. ASSUME NEW p \in PortOf[n]
        PROVE  /\ \A q \in DOMAIN u.rootChild[p] : <<q, n, <<n, p>>>> \in Tree
               /\ u.ctrl[p] \in Seq(SignalOn(n, p))
    <3>1. u.rootChild = s.rootChild
      BY DEF Notified
    <3>2. /\ \A q \in DOMAIN s.rootChild[p] : <<q, n, <<n, p>>>> \in Tree
          /\ s.ctrl[p] \in Seq(SignalOn(n, p))
      BY DEF Sane, OnTree
    <3>3. s.ctrl \in [PortOf[n] -> Seq(Signal)]
      BY <1>1, StateOf
    <3>4. ASSUME NEW v \in BOOLEAN, Put(v) PROVE u.ctrl[p] \in Seq(SignalOn(n, p))
      <4>1. CASE p = in
        <5>1. u.ctrl[p] = Append(s.ctrl[p], i(v))
          BY <3>4, <3>3, <4>1
        <5> QED BY <5>1, <3>2, <1>6, <4>1
      <4>2. CASE p # in
        <5>1. u.ctrl[p] = s.ctrl[p]
          BY <3>4, <3>3, <4>2
        <5> QED BY <5>1, <3>2
      <4> QED BY <4>1, <4>2
    <3> QED BY <3>1, <3>2, <3>4, <1>5
  <2> QED BY <2>1, <2>2 DEF OnTree
<1>9. Agree(u, n)
  <2>1. ASSUME NEW p \in PortOf[n], NEW x \in Root
        PROVE  x \in u.paused[p] <=> HasCIQ(u, x, p) /\ u.entries[x].status[p] = "PAUSE"
    <3>1. x \in s.paused[p] <=> HasCIQ(s, x, p) /\ s.entries[x].status[p] = "PAUSE"
      BY DEF Sane, Agree
    <3>2. u.paused = s.paused /\ DOMAIN u.entries = DOMAIN s.entries
          /\ (x \in DOMAIN s.entries =>
                u.entries[x].ciq = s.entries[x].ciq /\ u.entries[x].status = s.entries[x].status)
      BY DEF Notified
    <3> QED BY <3>1, <3>2 DEF HasCIQ
  <2> QED BY <2>1 DEF Agree
<1>10. Told(u, n, before)
  <2>1. ASSUME NEW up \in PortOf[n]
        PROVE \/ /\ u.ctrl[up] = s.ctrl[up]
                 /\ \A x \in Root : RecordedIn(u, n, up, x) <=> RecordedIn(s, n, up, x)
              \/ \E j \in Signal :
                   /\ u.ctrl[up] = Append(s.ctrl[up], j)
                   /\ \A x \in Root : RecordedIn(u, n, up, x) <=> Obeyed(j, x, RecordedIn(s, n, up, x))
    <3>1. s.ctrl \in [PortOf[n] -> Seq(Signal)]
      BY <1>1, StateOf
    <3>2. u.rootChild = s.rootChild /\ DOMAIN u.entries = DOMAIN s.entries
          /\ \A x \in DOMAIN s.entries \ {r} : u.entries[x] = s.entries[x]
      BY DEF Notified
    <3>3. \A x \in Root : x # r => (RecordedIn(u, n, up, x) <=> RecordedIn(s, n, up, x))
      BY <3>2 DEF RecordedIn
    <3>4. RecordedIn(u, n, up, r) <=> IsTrue(u.entries[r].child, up)
      BY <3>2, <1>4 DEF RecordedIn
    <3>5. RecordedIn(s, n, up, r) <=> IsTrue(s.entries[r].child, up)
      BY <1>4 DEF RecordedIn
    <3>6. CASE Same
      BY <3>3, <3>4, <3>5, <3>6
    <3>7. ASSUME NEW v \in BOOLEAN, Put(v), up # in
          PROVE /\ u.ctrl[up] = s.ctrl[up]
                /\ \A x \in Root : RecordedIn(u, n, up, x) <=> RecordedIn(s, n, up, x)
      <4>1. u.ctrl[up] = s.ctrl[up]
        BY <3>1, <3>7
      <4>2. IsTrue(u.entries[r].child, up) <=> IsTrue(s.entries[r].child, up)
        BY <1>7, <3>7
      <4> QED BY <4>1, <4>2, <3>3, <3>4, <3>5
    <3>8. ASSUME NEW v \in BOOLEAN, Put(v), up = in
          PROVE /\ u.ctrl[up] = Append(s.ctrl[up], i(v))
                /\ \A x \in Root : RecordedIn(u, n, up, x) <=> Obeyed(i(v), x, RecordedIn(s, n, up, x))
      <4>1. u.ctrl[up] = Append(s.ctrl[up], i(v))
        BY <3>1, <3>8
      <4>2. IsTrue(u.entries[r].child, up) <=> v
        BY <1>7, <3>8
      <4>3. \A x \in Root : RecordedIn(s, n, up, x) \in BOOLEAN
        BY DEF RecordedIn, IsTrue
      <4> QED BY <4>1, <4>2, <4>3, <1>6, <3>3, <3>4
    <3> HIDE DEF Put, Same
    <3> QED BY <3>6, <3>7, <3>8, <1>5, <1>6
  <2> QED BY <2>1, <1>1, ToldStep DEF Sane
<1> QED BY <1>8, <1>9, <1>10

\* A packet enters a CIQ, and the notification counts it.
LEMMA CountUp ==
  ASSUME NEW n \in Switch, NEW before \in [PortOf[n] -> [Root -> BOOLEAN]],
         NEW s, Sane(s, n, before), NEW u, NEW r \in DOMAIN s.entries,
         NEW port \in s.entries[r].ciq, NEW d \in Waiting(n, port, r),
         Notified(s, u, n, r, PrevHop(n, d.flow), 1),
         CiqMore(s, u, port, r, d), u.hier = TRUE
  PROVE  Sane(u, n, before)
<1> DEFINE in == PrevHop(n, d.flow)
           q == s.ciq[port][r]
<1>1. s \in State(n) /\ u \in State(n) /\ r \in Root /\ port \in PortOf[n]
  <2>1. s \in State(n) /\ u \in State(n)
    BY DEF Sane, Notified
  <2>2. r \in Root /\ s.entries[r] \in Entry(n)
    BY <2>1, EntryAt
  <2> QED BY <2>1, <2>2 DEF Entry
<1>2. s.ciq \in [PortOf[n] -> [Root -> Seq(Packet)]] /\ q \in Seq(Waiting(n, port, r))
  BY <1>1, StateOf DEF Sane, InPlace
<1>3. d \in Packet /\ in \in PortOf[n] /\ <<in, n, r>> \in Tree
  BY WaitingFacts
<1> HIDE DEF in
<1>4. OnTree(u, n) /\ Agree(u, n) /\ Told(u, n, before)
  BY <1>3, NotifiedControl DEF in
<1>5. /\ u.ciq[port][r] = Append(q, d)
      /\ \A p \in PortOf[n], x \in Root : ~ (p = port /\ x = r) => u.ciq[p][x] = s.ciq[p][x]
  BY <1>1, <1>2 DEF CiqMore
<1>6. InPlace(u, n)
  <2>1. ASSUME NEW p \in PortOf[n]
        PROVE  /\ u.oq[p] \in Seq(Leaving(n, p)) /\ u.wire[p] \in Seq(Leaving(n, p))
               /\ \A x \in Root : u.ciq[p][x] \in Seq(Waiting(n, p, x))
    <3>1. u.oq = s.oq /\ u.wire = s.wire
      BY DEF Notified
    <3>2. /\ s.oq[p] \in Seq(Leaving(n, p)) /\ s.wire[p] \in Seq(Leaving(n, p))
          /\ \A x \in Root : s.ciq[p][x] \in Seq(Waiting(n, p, x))
      BY DEF Sane, InPlace
    <3>3. Append(q, d) \in Seq(Waiting(n, port, r))
      BY <1>2, <1>3
    <3> HIDE DEF q
    <3>4. ASSUME NEW x \in Root PROVE u.ciq[p][x] \in Seq(Waiting(n, p, x))
      <4>1. CASE p = port /\ x = r
        BY <4>1, <1>5, <3>3
      <4>2. CASE ~ (p = port /\ x = r)
        BY <4>2, <1>5, <3>2
      <4> QED BY <4>1, <4>2
    <3> QED BY <3>1, <3>2, <3>4
  <2> QED BY <2>1 DEF InPlace
<1>7. Served(u, n)
  <2>1. ASSUME NEW p \in PortOf[n], NEW x \in Root, u.ciq[p][x] # <<>>
        PROVE  HasCIQ(u, x, p) /\ u.hier
    <3>0. DOMAIN u.entries = DOMAIN s.entries
          /\ \A y \in DOMAIN s.entries : u.entries[y].ciq = s.entries[y].ciq
      BY DEF Notified
    <3> DEFINE S(y) == HasCIQ(s, y, p)
    <3>1. \A y : HasCIQ(u, y, p) <=> S(y)
      BY <3>0 DEF HasCIQ
    <3>2. CASE p = port /\ x = r
      BY <3>1, <3>2, <1>1 DEF HasCIQ, Sane, Served
    <3>3. CASE ~ (p = port /\ x = r)
      <4>1. s.ciq[p][x] # <<>>
        BY <3>3, <2>1, <1>5
      <4> QED BY <4>1, <3>1 DEF Sane, Served
    <3> QED BY <3>2, <3>3
  <2> QED BY <2>1 DEF Served
<1>8. Counted(u, n)
  <2>1. ASSUME NEW x \in Root, NEW m \in PortOf[n]
        PROVE  /\ IsFiniteSet(Held(u, n, x, m))
               /\ Cardinality(Held(u, n, x, m))
                    = Cardinality(Held(s, n, x, m)) + (IF x = r /\ m = in THEN 1 ELSE 0)
    <3>1. IsFiniteSet(Held(s, n, x, m))
      BY DEF Sane, Counted
    <3>2. s.ciq \in [PortOf[n] -> [Root -> Seq(Packet)]] /\ r \in Root /\ port \in PortOf[n]
      BY <1>1, <1>2
    <3>3. /\ IsFiniteSet(Held(u, n, x, m))
          /\ Cardinality(Held(u, n, x, m)) = Cardinality(Held(s, n, x, m))
                + (IF x = r /\ m = PrevHop(n, d.flow) THEN 1 ELSE 0)
      BY <3>1, <3>2, <1>3, HeldMore
    <3> QED BY <3>3 DEF in
  <2>2. ASSUME NEW x \in DOMAIN u.entries, NEW m \in PortOf[n]
        PROVE  u.entries[x].counter[m] = Cardinality(Held(u, n, x, m))
    <3>1. x \in DOMAIN s.entries /\ x \in Root
      BY <1>1, EntryAt DEF Notified
    <3>2. s.entries[x].counter[m] = Cardinality(Held(s, n, x, m)) /\ IsFiniteSet(Held(s, n, x, m))
      BY <3>1 DEF Sane, Counted
    <3>3. Cardinality(Held(s, n, x, m)) \in Nat
      BY <3>2, FS_CardinalityType
    <3>4. CASE x # r
      <4>1. u.entries[x] = s.entries[x]
        BY <3>1, <3>4 DEF Notified
      <4> QED BY <4>1, <3>1, <3>2, <3>3, <3>4, <2>1
    <3>5. CASE x = r
      <4>1. s.entries[r].counter \in [PortOf[n] -> Int]
        <5>1. s.entries[r] \in Entry(n)
          BY <1>1, EntryAt
        <5> QED BY <5>1 DEF Entry
      <4>2. u.entries[r].counter = [s.entries[r].counter EXCEPT ![in] = @ + 1]
        BY DEF Notified, in
      <4>3. u.entries[r].counter[m] = s.entries[r].counter[m] + (IF m = in THEN 1 ELSE 0)
        BY <4>1, <4>2, <1>3
      <4>4. Cardinality(Held(u, n, r, m)) = Cardinality(Held(s, n, r, m)) + (IF m = in THEN 1 ELSE 0)
        BY <2>1, <1>1
      <4> QED BY <4>3, <4>4, <3>2, <3>5
    <3> QED BY <3>4, <3>5
  <2> QED BY <2>1, <2>2 DEF Counted
<1> QED BY <1>1, <1>4, <1>6, <1>7, <1>8 DEF Sane

\* A packet leaves a CIQ.
LEMMA CountDown ==
  ASSUME NEW n \in Switch, NEW before \in [PortOf[n] -> [Root -> BOOLEAN]],
         NEW s, Sane(s, n, before), NEW u, NEW r \in DOMAIN s.entries,
         NEW port \in PortOf[n], NEW d, s.ciq[port][r] # <<>>, d = Head(s.ciq[port][r]),
         Notified(s, u, n, r, PrevHop(n, d.flow), -1),
         CiqLess(s, u, port, r), u.hier = s.hier
  PROVE  Sane(u, n, before)
<1> DEFINE in == PrevHop(n, d.flow)
           q == s.ciq[port][r]
<1>1. s \in State(n) /\ u \in State(n) /\ r \in Root /\ port \in PortOf[n]
  <2>1. s \in State(n) /\ u \in State(n)
    BY DEF Sane, Notified
  <2>2. r \in Root /\ s.entries[r] \in Entry(n)
    BY <2>1, EntryAt
  <2> QED BY <2>1, <2>2 DEF Entry
<1>2. s.ciq \in [PortOf[n] -> [Root -> Seq(Packet)]] /\ q \in Seq(Waiting(n, port, r))
  BY <1>1, StateOf DEF Sane, InPlace
<1>3. d \in Waiting(n, port, r) /\ d \in Packet /\ in \in PortOf[n] /\ <<in, n, r>> \in Tree
  <2>1. d \in Waiting(n, port, r)
    <3>1. d = q[1] /\ 1 \in DOMAIN q
      BY <1>2
    <3> QED BY <3>1, <1>2
  <2> QED BY <2>1, WaitingFacts
<1> HIDE DEF in
<1>4. OnTree(u, n) /\ Agree(u, n) /\ Told(u, n, before)
  BY <1>3, NotifiedControl DEF in
<1>5. /\ u.ciq[port][r] = Tail(q)
      /\ \A p \in PortOf[n], x \in Root : ~ (p = port /\ x = r) => u.ciq[p][x] = s.ciq[p][x]
  BY <1>1, <1>2 DEF CiqLess
<1>6. InPlace(u, n)
  <2>1. ASSUME NEW p \in PortOf[n]
        PROVE  /\ u.oq[p] \in Seq(Leaving(n, p)) /\ u.wire[p] \in Seq(Leaving(n, p))
               /\ \A x \in Root : u.ciq[p][x] \in Seq(Waiting(n, p, x))
    <3>1. u.oq = s.oq /\ u.wire = s.wire
      BY DEF Notified
    <3>2. /\ s.oq[p] \in Seq(Leaving(n, p)) /\ s.wire[p] \in Seq(Leaving(n, p))
          /\ \A x \in Root : s.ciq[p][x] \in Seq(Waiting(n, p, x))
      BY DEF Sane, InPlace
    <3>3. Tail(q) \in Seq(Waiting(n, port, r))
      BY <1>2, <1>3
    <3> HIDE DEF q
    <3>4. ASSUME NEW x \in Root PROVE u.ciq[p][x] \in Seq(Waiting(n, p, x))
      <4>1. CASE p = port /\ x = r
        BY <4>1, <1>5, <3>3
      <4>2. CASE ~ (p = port /\ x = r)
        BY <4>2, <1>5, <3>2
      <4> QED BY <4>1, <4>2
    <3> QED BY <3>1, <3>2, <3>4
  <2> QED BY <2>1 DEF InPlace
<1>7. Served(u, n)
  <2>1. ASSUME NEW p \in PortOf[n], NEW x \in Root, u.ciq[p][x] # <<>>
        PROVE  HasCIQ(u, x, p) /\ u.hier
    <3>0. DOMAIN u.entries = DOMAIN s.entries
          /\ \A y \in DOMAIN s.entries : u.entries[y].ciq = s.entries[y].ciq
      BY DEF Notified
    <3> DEFINE S(y) == HasCIQ(s, y, p)
    <3>1. \A y : HasCIQ(u, y, p) <=> S(y)
      BY <3>0 DEF HasCIQ
    <3>2. CASE p = port /\ x = r
      BY <3>1, <3>2, <1>1 DEF HasCIQ, Sane, Served
    <3>3. CASE ~ (p = port /\ x = r)
      <4>1. s.ciq[p][x] # <<>>
        BY <3>3, <2>1, <1>5
      <4> QED BY <4>1, <3>1 DEF Sane, Served
    <3> QED BY <3>2, <3>3
  <2> QED BY <2>1 DEF Served
<1>8. Counted(u, n)
  <2>1. ASSUME NEW x \in Root, NEW m \in PortOf[n]
        PROVE  /\ IsFiniteSet(Held(u, n, x, m))
               /\ Cardinality(Held(u, n, x, m))
                    = Cardinality(Held(s, n, x, m)) - (IF x = r /\ m = in THEN 1 ELSE 0)
    <3>1. IsFiniteSet(Held(s, n, x, m))
      BY DEF Sane, Counted
    <3>2. s.ciq \in [PortOf[n] -> [Root -> Seq(Packet)]] /\ r \in Root /\ port \in PortOf[n]
      BY <1>1, <1>2
    <3>3. /\ IsFiniteSet(Held(u, n, x, m))
          /\ Cardinality(Held(u, n, x, m)) = Cardinality(Held(s, n, x, m))
                - (IF x = r /\ m = PrevHop(n, Head(s.ciq[port][r]).flow) THEN 1 ELSE 0)
      BY <3>1, <3>2, <1>3, HeldLess
    <3> QED BY <3>3 DEF in
  <2>2. ASSUME NEW x \in DOMAIN u.entries, NEW m \in PortOf[n]
        PROVE  u.entries[x].counter[m] = Cardinality(Held(u, n, x, m))
    <3>1. x \in DOMAIN s.entries /\ x \in Root
      BY <1>1, EntryAt DEF Notified
    <3>2. s.entries[x].counter[m] = Cardinality(Held(s, n, x, m)) /\ IsFiniteSet(Held(s, n, x, m))
      BY <3>1 DEF Sane, Counted
    <3>3. Cardinality(Held(s, n, x, m)) \in Nat
      BY <3>2, FS_CardinalityType
    <3>4. CASE x # r
      <4>1. u.entries[x] = s.entries[x]
        BY <3>1, <3>4 DEF Notified
      <4> QED BY <4>1, <3>1, <3>2, <3>3, <3>4, <2>1
    <3>5. CASE x = r
      <4>1. s.entries[r].counter \in [PortOf[n] -> Int]
        <5>1. s.entries[r] \in Entry(n)
          BY <1>1, EntryAt
        <5> QED BY <5>1 DEF Entry
      <4>2. u.entries[r].counter = [s.entries[r].counter EXCEPT ![in] = @ + (-1)]
        BY DEF Notified, in
      <4>3. u.entries[r].counter[m] = s.entries[r].counter[m] - (IF m = in THEN 1 ELSE 0)
        BY <4>1, <4>2, <1>3
      <4>4. Cardinality(Held(u, n, r, m)) = Cardinality(Held(s, n, r, m)) - (IF m = in THEN 1 ELSE 0)
        BY <2>1, <1>1
      <4> QED BY <4>3, <4>4, <3>2, <3>5
    <3> QED BY <3>4, <3>5
  <2> QED BY <2>1, <2>2 DEF Counted
<1> QED BY <1>1, <1>4, <1>6, <1>7, <1>8 DEF Sane

-----------------------------------------------------------------------------
(* Releases: CheckAndSendDealloc and ReleaseMergeCIQEntry *)

\* The CIQs of root r at the ports of free are released, perhaps the entry.
Released(s, t, n, r, free) ==
  /\ t \in State(n)
  /\ free \subseteq s.entries[r].ciq
  /\ \A p \in free : s.ciq[p][r] = <<>> /\ s.entries[r].status[p] # "PAUSE"
  /\ \A x \in DOMAIN s.entries \ {r} : x \in DOMAIN t.entries /\ t.entries[x] = s.entries[x]
  /\ DOMAIN t.entries \subseteq DOMAIN s.entries
  /\ r \in DOMAIN t.entries =>
       /\ t.entries[r].hop = s.entries[r].hop
       /\ t.entries[r].child = s.entries[r].child
       /\ t.entries[r].counter = s.entries[r].counter
       /\ t.entries[r].ciq = s.entries[r].ciq \ free
       /\ \A p \in PortOf[n] \ free : t.entries[r].status[p] = s.entries[r].status[p]
  /\ r \notin DOMAIN t.entries =>
       s.entries[r].ciq = free /\ \A p : ~ IsTrue(s.entries[r].child, p)
  /\ \A p \in PortOf[n] :
       /\ \/ t.ctrl[p] = s.ctrl[p]
          \/ p \in free /\ t.ctrl[p] = Append(s.ctrl[p], Dealloc(r))
       /\ t.paused[p] = IF p \in free THEN s.paused[p] \ {r} ELSE s.paused[p]
  /\ t.rootChild = s.rootChild /\ t.oq = s.oq /\ t.ciq = s.ciq
  /\ t.hier = s.hier /\ t.hol = s.hol /\ t.wire = s.wire

LEMMA NothingReleased ==
  ASSUME NEW n, NEW s \in State(n), NEW r \in DOMAIN s.entries
  PROVE  Released(s, s, n, r, {})
  BY StateOf DEF Released

\* An entry and all its CIQs.
LEMMA ErasedEntry ==
  ASSUME NEW n, NEW s, NEW t, NEW r \in DOMAIN s.entries, NEW free, Released(s, t, n, r, free),
         r \in DOMAIN t.entries, s.entries[r].ciq = free,
         \A p : ~ IsTrue(s.entries[r].child, p), s \in State(n)
  PROVE  Released(s, [t EXCEPT !.entries = Erase(@, r)], n, r, free)
<1> DEFINE E == Erase(t.entries, r)
           u == [t EXCEPT !.entries = Erase(@, r)]
<1>1. t \in State(n) /\ t.entries \in Entries(n) /\ r \in Root /\ t.entries[r] \in Entry(n)
  <2>1. t \in State(n)
    BY DEF Released
  <2> QED BY <2>1, EntryAt, StateOf
<1>2. E \in Entries(n)
  BY <1>1, EntryPut
<1>3. E = [x \in DOMAIN t.entries \ {r} |-> t.entries[x]]
  BY EraseAt
<1>4. u = [t EXCEPT !.entries = E]
  OBVIOUS
<1> HIDE DEF E, u
<1>5. u \in State(n) /\ u.entries = E /\ u.rootChild = t.rootChild /\ u.oq = t.oq /\ u.ciq = t.ciq
      /\ u.paused = t.paused /\ u.hier = t.hier /\ u.hol = t.hol /\ u.wire = t.wire /\ u.ctrl = t.ctrl
  BY <1>1, <1>2, <1>4, StateOf
<1>6. /\ r \notin DOMAIN E /\ DOMAIN E \subseteq DOMAIN s.entries
      /\ \A x \in DOMAIN s.entries \ {r} : x \in DOMAIN E /\ E[x] = s.entries[x]
  <2>1. /\ \A x \in DOMAIN s.entries \ {r} : x \in DOMAIN t.entries /\ t.entries[x] = s.entries[x]
        /\ DOMAIN t.entries \subseteq DOMAIN s.entries
    BY DEF Released
  <2> QED BY <1>3, <2>1
<1>7. Released(s, u, n, r, free)
  BY <1>5, <1>6 DEF Released
<1> QED BY <1>7 DEF u

LEMMA DeallocReleases ==
  ASSUME NEW n \in Switch, NEW s \in State(n), NEW r \in DOMAIN s.entries
  PROVE  \E free : Released(s, CheckAndSendDealloc(s, n, r), n, r, free)
<1> DEFINE e == s.entries[r]
           held == IF n \in ToR THEN \E p \in DOMAIN e.child : e.child[p]
                                ELSE DOMAIN e.child # {}
           free == {p \in e.ciq : s.ciq[p][r] = <<>> /\ e.status[p] = "RESUME"}
           C == [p \in PortOf[n] |-> IF p \in free THEN Append(s.ctrl[p], Dealloc(r)) ELSE s.ctrl[p]]
           P == [p \in PortOf[n] |-> IF p \in free THEN s.paused[p] \ {r} ELSE s.paused[p]]
           S == [p \in PortOf[n] |-> IF p \in free THEN "INITIAL" ELSE e.status[p]]
           f == [e EXCEPT !.status = S, !.ciq = e.ciq \ free]
           E == [s.entries EXCEPT ![r] = f]
           t == [s EXCEPT
                  !.ctrl = [p \in PortOf[n] |-> IF p \in free THEN Append(@[p], Dealloc(r)) ELSE @[p]],
                  !.paused = [p \in PortOf[n] |-> IF p \in free THEN @[p] \ {r} ELSE @[p]],
                  !.entries[r].status = [p \in PortOf[n] |-> IF p \in free THEN "INITIAL" ELSE @[p]],
                  !.entries[r].ciq = @ \ free]
           u == CheckAndSendDealloc(s, n, r)
<1>1. u = IF ~DeallocOn \/ held THEN s
          ELSE IF e.ciq = free THEN [t EXCEPT !.entries = Erase(@, r)]
          ELSE t
  BY DEF CheckAndSendDealloc
<1>2. e \in Entry(n) /\ r \in Root /\ s.entries \in Entries(n)
  BY EntryAt, StateOf
<1>3. free \subseteq e.ciq /\ \A p \in free : s.ciq[p][r] = <<>> /\ e.status[p] # "PAUSE"
  OBVIOUS
<1>4. t = [s EXCEPT !.ctrl = C, !.paused = P, !.entries = E]
  OBVIOUS
<1>5. ~ held => \A p : ~ IsTrue(e.child, p)
  BY DEF IsTrue
<1> HIDE DEF free, t, u, held
<1>6. f \in Entry(n) /\ f.hop = e.hop /\ f.child = e.child /\ f.counter = e.counter
      /\ f.ciq = e.ciq \ free /\ \A p \in PortOf[n] \ free : f.status[p] = e.status[p]
  <2>1. S \in [PortOf[n] -> Status] /\ \A p \in PortOf[n] \ free : S[p] = e.status[p]
    BY <1>2 DEF Entry, Status
  <2>2. e.ciq \ free \in SUBSET PortOf[n]
    BY <1>2 DEF Entry
  <2> HIDE DEF S
  <2> QED BY <1>2, <2>1, <2>2 DEF Entry
<1>7. E \in Entries(n) /\ DOMAIN E = DOMAIN s.entries /\ E[r] = f
      /\ \A x \in DOMAIN s.entries \ {r} : E[x] = s.entries[x]
  <2> HIDE DEF f
  <2> QED BY <1>2, <1>6, EntryPut
<1>8. C \in [PortOf[n] -> Seq(Signal)] /\ P \in [PortOf[n] -> SUBSET Root]
  <2>1. s.ctrl \in [PortOf[n] -> Seq(Signal)] /\ s.paused \in [PortOf[n] -> SUBSET Root]
    BY StateOf
  <2>2. Dealloc(r) \in Signal
    BY <1>2 DEF Dealloc, Signal
  <2>3. \A p \in PortOf[n] : Append(s.ctrl[p], Dealloc(r)) \in Seq(Signal)
    BY <2>1, <2>2
  <2> QED BY <2>1, <2>3
<1>9. \A p \in PortOf[n] :
        /\ C[p] = s.ctrl[p] \/ (p \in free /\ C[p] = Append(s.ctrl[p], Dealloc(r)))
        /\ P[p] = IF p \in free THEN s.paused[p] \ {r} ELSE s.paused[p]
  OBVIOUS
<1> HIDE DEF C, P, E, f
<1>10. t \in State(n) /\ t.entries = E /\ t.rootChild = s.rootChild /\ t.oq = s.oq /\ t.ciq = s.ciq
       /\ t.paused = P /\ t.hier = s.hier /\ t.hol = s.hol /\ t.wire = s.wire /\ t.ctrl = C
  BY <1>4, <1>7, <1>8, StateOf
<1>11. Released(s, t, n, r, free) /\ r \in DOMAIN t.entries
  BY <1>3, <1>6, <1>7, <1>9, <1>10 DEF Released
<1>12. CASE u = s
  BY <1>12, NothingReleased DEF u
<1>13. CASE u = t
  BY <1>11, <1>13 DEF u
<1>14. CASE ~ held /\ e.ciq = free /\ u = [t EXCEPT !.entries = Erase(@, r)]
  BY <1>5, <1>11, <1>14, ErasedEntry DEF u
<1> QED BY <1>1, <1>12, <1>13, <1>14

LEMMA MergeReleases ==
  ASSUME NEW n \in Switch, NEW s \in State(n), NEW r \in DOMAIN s.entries, NEW port,
         s.entries[r].status[port] = "MERGE"
  PROVE  \E free : Released(s, ReleaseMergeCIQEntry(s, r, port), n, r, free)
<1> DEFINE e == s.entries[r]
           f == [e EXCEPT !.ciq = e.ciq \ {port}]
           E == [s.entries EXCEPT ![r] = f]
           P == [s.paused EXCEPT ![port] = @ \ {r}]
           v == [s EXCEPT !.paused[port] = @ \ {r}, !.entries[r].ciq = @ \ {port}]
           t == IF s.ciq[port][r] = <<>> THEN v ELSE s
           u == ReleaseMergeCIQEntry(s, r, port)
<1>1. u = IF port \notin e.ciq THEN s
          ELSE IF t.entries[r].ciq = {} /\ t.entries[r].child = Empty
            THEN [t EXCEPT !.entries = Erase(@, r)]
          ELSE t
  BY DEF ReleaseMergeCIQEntry
<1>2. e \in Entry(n) /\ r \in Root /\ s.entries \in Entries(n)
  BY EntryAt, StateOf
<1>3. v = [s EXCEPT !.paused = P, !.entries = E]
  OBVIOUS
<1>4. ASSUME port \in e.ciq, s.ciq[port][r] = <<>>
      PROVE  Released(s, v, n, r, {port}) /\ r \in DOMAIN v.entries
             /\ v.entries[r].child = e.child /\ v.entries[r].ciq = e.ciq \ {port}
  <2>0. port \in PortOf[n]
    BY <1>2, <1>4 DEF Entry
  <2>1. f \in Entry(n) /\ f.hop = e.hop /\ f.child = e.child /\ f.counter = e.counter
        /\ f.ciq = e.ciq \ {port} /\ f.status = e.status
    BY <1>2 DEF Entry
  <2>2. E \in Entries(n) /\ DOMAIN E = DOMAIN s.entries /\ E[r] = f
        /\ \A x \in DOMAIN s.entries \ {r} : E[x] = s.entries[x]
    <3> HIDE DEF f
    <3> QED BY <1>2, <2>1, EntryPut
  <2>3. P \in [PortOf[n] -> SUBSET Root]
        /\ \A p \in PortOf[n] : P[p] = IF p \in {port} THEN s.paused[p] \ {r} ELSE s.paused[p]
    <3>1. s.paused \in [PortOf[n] -> SUBSET Root]
      BY StateOf
    <3> QED BY <3>1
  <2> HIDE DEF E, P, f, v
  <2>4. v \in State(n) /\ v.entries = E /\ v.rootChild = s.rootChild /\ v.oq = s.oq /\ v.ciq = s.ciq
        /\ v.paused = P /\ v.hier = s.hier /\ v.hol = s.hol /\ v.wire = s.wire /\ v.ctrl = s.ctrl
    BY <1>3, <2>2, <2>3, StateOf
  <2>5. {port} \subseteq e.ciq /\ \A p \in {port} : s.ciq[p][r] = <<>> /\ e.status[p] # "PAUSE"
    BY <1>4
  <2> QED BY <2>1, <2>2, <2>3, <2>4, <2>5 DEF Released
<1> HIDE DEF v, u
<1>5. CASE u = s
  BY <1>5, NothingReleased DEF u
<1>6. CASE port \in e.ciq /\ s.ciq[port][r] = <<>>
  <2>1. Released(s, v, n, r, {port}) /\ r \in DOMAIN v.entries
        /\ v.entries[r].child = e.child /\ v.entries[r].ciq = e.ciq \ {port}
    BY <1>4, <1>6
  <2>2. u = IF v.entries[r].ciq = {} /\ v.entries[r].child = Empty
              THEN [v EXCEPT !.entries = Erase(@, r)] ELSE v
    BY <1>1, <1>6
  <2>3. CASE v.entries[r].ciq = {} /\ v.entries[r].child = Empty
    <3>1. e.ciq = {port} /\ \A p : ~ IsTrue(e.child, p)
      BY <2>1, <2>3, <1>6, EmptyChild
    <3> HIDE DEF e
    <3>2. Released(s, [v EXCEPT !.entries = Erase(@, r)], n, r, {port})
      BY <2>1, <3>1, ErasedEntry DEF e
    <3> QED BY <2>2, <2>3, <3>2 DEF u
  <2>4. CASE ~ (v.entries[r].ciq = {} /\ v.entries[r].child = Empty)
    BY <2>1, <2>2, <2>4 DEF u
  <2> QED BY <2>3, <2>4
<1>7. CASE port \in e.ciq /\ s.ciq[port][r] # <<>>
  <2>1. e.ciq # {}
    BY <1>7
  <2>2. u = s
    BY <1>1, <1>7, <2>1
  <2> QED BY <2>2, <1>5
<1>8. CASE port \notin e.ciq
  BY <1>1, <1>5, <1>8
<1> QED BY <1>6, <1>7, <1>8

\* A release keeps the switch sane: what it lets go was empty and not paused.
LEMMA ReleasedSane ==
  ASSUME NEW n \in Switch, NEW before \in [PortOf[n] -> [Root -> BOOLEAN]],
         NEW s, Sane(s, n, before), NEW r \in DOMAIN s.entries, NEW t, NEW free,
         Released(s, t, n, r, free)
  PROVE  Sane(t, n, before) /\ t.paused = s.paused
<1>1. s \in State(n) /\ t \in State(n) /\ r \in Root /\ s.entries[r] \in Entry(n)
  BY EntryAt DEF Sane, Released
<1>2. \A x \in DOMAIN t.entries :
         /\ x \in DOMAIN s.entries
         /\ t.entries[x].hop = s.entries[x].hop /\ t.entries[x].child = s.entries[x].child
         /\ t.entries[x].counter = s.entries[x].counter
         /\ t.entries[x].ciq \subseteq s.entries[x].ciq
  BY DEF Released
<1>3. t.paused = s.paused
  <2>1. ASSUME NEW p \in PortOf[n] PROVE t.paused[p] = s.paused[p]
    <3>1. p \in free => r \notin s.paused[p]
      BY <1>1 DEF Released, Sane, Agree
    <3>2. t.paused[p] = IF p \in free THEN s.paused[p] \ {r} ELSE s.paused[p]
      BY DEF Released
    <3> QED BY <3>1, <3>2
  <2>2. s.paused \in [PortOf[n] -> SUBSET Root] /\ t.paused \in [PortOf[n] -> SUBSET Root]
    BY <1>1, StateOf
  <2> QED BY <2>1, <2>2
<1>4. \A p, x : HasCIQ(t, x, p) <=> HasCIQ(s, x, p) /\ ~ (x = r /\ p \in free)
  <2>1. ASSUME NEW p, NEW x
        PROVE  HasCIQ(t, x, p) <=> HasCIQ(s, x, p) /\ ~ (x = r /\ p \in free)
    <3>1. CASE x # r
      BY <3>1 DEF Released, HasCIQ
    <3>2. CASE x = r
      BY <3>2 DEF Released, HasCIQ
    <3> QED BY <3>1, <3>2
  <2> QED BY <2>1
<1>5. OnTree(t, n)
  <2>1. ASSUME NEW x \in DOMAIN t.entries
        PROVE  /\ t.entries[x].hop = Dist[n][x] /\ Dist[n][x] > 0
               /\ \A p \in t.entries[x].ciq : <<n, p, x>> \in Tree
               /\ \A p \in DOMAIN t.entries[x].child : <<p, n, x>> \in Tree
    BY <1>2 DEF Sane, OnTree
  <2>2. ASSUME NEW p \in PortOf[n] PROVE t.ctrl[p] \in Seq(SignalOn(n, p))
    <3>1. s.ctrl[p] \in Seq(SignalOn(n, p))
      BY DEF Sane, OnTree
    <3>2. CASE t.ctrl[p] = s.ctrl[p]
      BY <3>1, <3>2
    <3>3. CASE p \in free /\ t.ctrl[p] = Append(s.ctrl[p], Dealloc(r))
      <4>1. <<n, p, r>> \in Tree
        BY <3>3 DEF Released, Sane, OnTree
      <4>2. Dealloc(r) \in SignalOn(n, p)
        BY <4>1, <1>1 DEF SignalOn, Signal, Dealloc
      <4> QED BY <3>1, <3>3, <4>2
    <3> QED BY <3>2, <3>3 DEF Released
  <2>3. t.rootChild = s.rootChild
    BY DEF Released
  <2> QED BY <2>1, <2>2, <2>3 DEF OnTree, Sane
<1>6. InPlace(t, n)
  BY DEF Released, Sane, InPlace
<1>7. Agree(t, n)
  <2>1. ASSUME NEW p \in PortOf[n], NEW x \in Root
        PROVE  x \in t.paused[p] <=> HasCIQ(t, x, p) /\ t.entries[x].status[p] = "PAUSE"
    <3>1. x \in s.paused[p] <=> HasCIQ(s, x, p) /\ s.entries[x].status[p] = "PAUSE"
      BY DEF Sane, Agree
    <3>2. CASE x = r /\ p \in free
      <4>1. s.entries[r].status[p] # "PAUSE"
        BY <3>2 DEF Released
      <4> QED BY <4>1, <3>1, <3>2, <1>3, <1>4
    <3>3. CASE ~ (x = r /\ p \in free)
      <4>1. HasCIQ(t, x, p) => t.entries[x].status[p] = s.entries[x].status[p]
        BY <3>3 DEF HasCIQ, Released
      <4> QED BY <4>1, <3>1, <3>3, <1>3, <1>4
    <3> QED BY <3>2, <3>3
  <2> QED BY <2>1 DEF Agree
<1>8. Served(t, n)
  <2>1. ASSUME NEW p \in PortOf[n], NEW x \in Root, t.ciq[p][x] # <<>>
        PROVE  HasCIQ(t, x, p) /\ t.hier
    <3>1. t.ciq = s.ciq /\ t.hier = s.hier
      BY DEF Released
    <3>2. HasCIQ(s, x, p) /\ s.hier
      BY <2>1, <3>1 DEF Sane, Served
    <3>3. ~ (x = r /\ p \in free)
      BY <2>1, <3>1 DEF Released
    <3> QED BY <3>1, <3>2, <3>3, <1>4
  <2> QED BY <2>1 DEF Served
<1>9. Counted(t, n)
  <2>1. \A x, in : Held(t, n, x, in) = Held(s, n, x, in)
    BY DEF Held, Released
  <2> QED BY <1>2, <2>1 DEF Counted, Sane
<1>10. Told(t, n, before)
  <2>1. ASSUME NEW up \in PortOf[n]
        PROVE \/ /\ t.ctrl[up] = s.ctrl[up]
                 /\ \A x \in Root : RecordedIn(t, n, up, x) <=> RecordedIn(s, n, up, x)
              \/ \E i \in Signal :
                   /\ t.ctrl[up] = Append(s.ctrl[up], i)
                   /\ \A x \in Root : RecordedIn(t, n, up, x) <=> Obeyed(i, x, RecordedIn(s, n, up, x))
    <3>1. ASSUME NEW x \in Root PROVE RecordedIn(t, n, up, x) <=> RecordedIn(s, n, up, x)
      <4>1. t.rootChild = s.rootChild
        BY DEF Released
      <4>2. CASE x # r
        <5>1. x \in DOMAIN t.entries <=> x \in DOMAIN s.entries
          BY <4>2 DEF Released
        <5>2. x \in DOMAIN s.entries => t.entries[x] = s.entries[x]
          BY <4>2 DEF Released
        <5> QED BY <4>1, <5>1, <5>2 DEF RecordedIn
      <4>3. CASE x = r /\ r \in DOMAIN t.entries
        <5>1. t.entries[r].child = s.entries[r].child
          BY <4>3 DEF Released
        <5> QED BY <4>1, <4>3, <5>1 DEF RecordedIn
      <4>4. CASE x = r /\ r \notin DOMAIN t.entries
        <5>1. ~ IsTrue(s.entries[r].child, up)
          BY <4>4 DEF Released
        <5> QED BY <4>1, <4>4, <5>1 DEF RecordedIn
      <4> QED BY <4>2, <4>3, <4>4
    <3>2. CASE t.ctrl[up] = s.ctrl[up]
      BY <3>1, <3>2
    <3>3. CASE t.ctrl[up] = Append(s.ctrl[up], Dealloc(r))
      <4>1. Dealloc(r) \in Signal
        BY <1>1 DEF Signal, Dealloc
      <4>2. \A x, b : Obeyed(Dealloc(r), x, b) <=> (b /\ TRUE)
        BY DEF Obeyed, Pauses, Resumes, Dealloc
      <4> QED BY <3>1, <3>3, <4>1, <4>2
    <3> QED BY <3>2, <3>3 DEF Released
  <2> QED BY <2>1, <1>1, ToldStep DEF Sane
<1> QED BY <1>1, <1>3, <1>5, <1>6, <1>7, <1>8, <1>9, <1>10 DEF Sane

-----------------------------------------------------------------------------
(* The default queue *)

\* Only the OQ, what is transmitted and the flag of a scheduled round change.
LEMMA QueuesSane ==
  ASSUME NEW n \in Switch, NEW before, NEW s, Sane(s, n, before), NEW t,
         t \in State(n), InPlace(t, n),
         t.entries = s.entries, t.rootChild = s.rootChild, t.ciq = s.ciq, t.paused = s.paused,
         t.ctrl = s.ctrl,
         t.hier \/ \A p \in PortOf[n], r \in Root : s.ciq[p][r] = <<>>
  PROVE  Sane(t, n, before)
<1>1. OnTree(t, n)
  BY DEF Sane, OnTree
<1>2. Agree(t, n)
  BY DEF Sane, Agree, HasCIQ
<1>3. Served(t, n)
  BY DEF Sane, Served, HasCIQ
<1>4. Counted(t, n)
  <2>1. \A x, in : Held(t, n, x, in) = Held(s, n, x, in)
    BY DEF Held
  <2> QED BY <2>1 DEF Counted, Sane
<1>5. Told(t, n, before)
  BY DEF Sane, Told, RecordedIn
<1> QED BY <1>1, <1>2, <1>3, <1>4, <1>5 DEF Sane

\* A packet put into the OQ of a port.
OqMore(s, t, port, d) == t = [s EXCEPT !.oq[port] = Append(@, d)]

LEMMA OqPut ==
  ASSUME NEW n \in Switch, NEW before, NEW s, Sane(s, n, before),
         NEW port \in PortOf[n], NEW d \in Leaving(n, port), NEW t, OqMore(s, t, port, d)
  PROVE  Sane(t, n, before) /\ t.paused = s.paused
<1> DEFINE O == [s.oq EXCEPT ![port] = Append(@, d)]
<1>1. t = [s EXCEPT !.oq = O]
  BY DEF OqMore
<1>2. s \in State(n) /\ s.oq \in [PortOf[n] -> Seq(Packet)] /\ d \in Packet
  BY StateOf DEF Sane, Leaving
<1>3. O \in [PortOf[n] -> Seq(Packet)] /\ \A p \in PortOf[n] : O[p] \in Seq(Leaving(n, p))
  <2>1. Append(s.oq[port], d) \in Seq(Packet)
    BY <1>2
  <2>2. \A p \in PortOf[n] : s.oq[p] \in Seq(Leaving(n, p))
    BY DEF Sane, InPlace
  <2>3. Append(s.oq[port], d) \in Seq(Leaving(n, port))
    BY <2>2
  <2> QED BY <1>2, <2>1, <2>2, <2>3
<1> HIDE DEF O
<1>4. /\ t \in State(n) /\ t.oq = O /\ t.entries = s.entries /\ t.rootChild = s.rootChild
      /\ t.ciq = s.ciq /\ t.paused = s.paused /\ t.hier = s.hier /\ t.wire = s.wire
      /\ t.ctrl = s.ctrl
  BY <1>1, <1>2, <1>3, StateOf
<1>5. InPlace(t, n)
  BY <1>3, <1>4 DEF InPlace, Sane
<1>6. t.hier \/ \A p \in PortOf[n], r \in Root : s.ciq[p][r] = <<>>
  BY <1>4 DEF Sane, Served
<1> QED BY <1>4, <1>5, <1>6, QueuesSane

\* The record of port as a root becomes g, the signals scheduled C.
RootChildPut(s, t, port, g, C) ==
  t = [s EXCEPT !.rootChild = [s.rootChild EXCEPT ![port] = g], !.ctrl = C]

\* All devices of the record are below port in its tree.
Below(n, port, g) == \A p \in DOMAIN g : <<p, n, <<n, port>>>> \in Tree

\* A device is told if the change of the record concerns it.
TellsOf(s, n, port, g, C) ==
  \A p \in PortOf[n] :
    \/ C[p] = s.ctrl[p] /\ (IsTrue(g, p) <=> IsTrue(s.rootChild[port], p))
    \/ \E i \in SignalOn(n, p) :
         /\ C[p] = Append(s.ctrl[p], i)
         /\ \A x \in Root, b \in BOOLEAN :
              Obeyed(i, x, b) <=> IF x = <<n, port>> THEN IsTrue(g, p) ELSE b

LEMMA RootChildSane ==
  ASSUME NEW n \in Switch, NEW before \in [PortOf[n] -> [Root -> BOOLEAN]],
         NEW s, Sane(s, n, before), NEW port \in PortOf[n], NEW g \in Children(n), NEW C, NEW t,
         Below(n, port, g), C \in [PortOf[n] -> Seq(Signal)],
         TellsOf(s, n, port, g, C), RootChildPut(s, t, port, g, C)
  PROVE  Sane(t, n, before) /\ t.paused = s.paused
<1> DEFINE R == [s.rootChild EXCEPT ![port] = g]
<1>1. s \in State(n) /\ s.rootChild \in [PortOf[n] -> Children(n)]
  BY StateOf DEF Sane
<1>2. R \in [PortOf[n] -> Children(n)] /\ R[port] = g
      /\ \A p \in PortOf[n] : p # port => R[p] = s.rootChild[p]
  BY <1>1
<1>3. t = [s EXCEPT !.rootChild = R, !.ctrl = C]
  BY DEF RootChildPut
<1> HIDE DEF R
<1>4. /\ t \in State(n) /\ t.rootChild = R /\ t.ctrl = C
      /\ t.entries = s.entries /\ t.oq = s.oq /\ t.ciq = s.ciq /\ t.paused = s.paused
      /\ t.hier = s.hier /\ t.wire = s.wire
  BY <1>1, <1>2, <1>3, StateOf
<1>5. OnTree(t, n)
  <2>1. ASSUME NEW p \in PortOf[n]
        PROVE  /\ \A q \in DOMAIN t.rootChild[p] : <<q, n, <<n, p>>>> \in Tree
               /\ t.ctrl[p] \in Seq(SignalOn(n, p))
    <3>1. /\ \A q \in DOMAIN s.rootChild[p] : <<q, n, <<n, p>>>> \in Tree
          /\ s.ctrl[p] \in Seq(SignalOn(n, p))
      BY DEF Sane, OnTree
    <3>2. C[p] \in Seq(SignalOn(n, p))
      <4>1. CASE C[p] = s.ctrl[p]
        BY <4>1, <3>1
      <4>2. ASSUME NEW i \in SignalOn(n, p), C[p] = Append(s.ctrl[p], i)
            PROVE  C[p] \in Seq(SignalOn(n, p))
        BY <4>2, <3>1
      <4> QED BY <4>1, <4>2 DEF TellsOf
    <3>3. \A q \in DOMAIN R[p] : <<q, n, <<n, p>>>> \in Tree
      <4>1. CASE p = port
        BY <4>1, <1>2 DEF Below
      <4>2. CASE p # port
        BY <4>2, <1>2, <3>1
      <4> QED BY <4>1, <4>2
    <3> QED BY <3>2, <3>3, <1>4
  <2> QED BY <2>1, <1>4 DEF OnTree, Sane
<1>6. InPlace(t, n) /\ Agree(t, n) /\ Served(t, n)
  BY <1>4 DEF InPlace, Agree, Served, HasCIQ, Sane
<1>7. Counted(t, n)
  <2>1. \A x, in : Held(t, n, x, in) = Held(s, n, x, in)
    BY <1>4 DEF Held
  <2> QED BY <2>1, <1>4 DEF Counted, Sane
<1>8. Told(t, n, before)
  <2>1. ASSUME NEW up \in PortOf[n]
        PROVE \/ /\ t.ctrl[up] = s.ctrl[up]
                 /\ \A x \in Root : RecordedIn(t, n, up, x) <=> RecordedIn(s, n, up, x)
              \/ \E i \in Signal :
                   /\ t.ctrl[up] = Append(s.ctrl[up], i)
                   /\ \A x \in Root : RecordedIn(t, n, up, x) <=> Obeyed(i, x, RecordedIn(s, n, up, x))
    <3>1. ASSUME NEW x \in Root, x # <<n, port>>
          PROVE  RecordedIn(t, n, up, x) <=> RecordedIn(s, n, up, x)
      <4>1. CASE x[1] = n
        <5>1. x[2] # port /\ x[2] \in PortOf[n]
          BY <3>1, <4>1, RootEnds
        <5> QED BY <4>1, <5>1, <1>2, <1>4 DEF RecordedIn
      <4>2. CASE x[1] # n
        BY <4>2, <1>4 DEF RecordedIn
      <4> QED BY <4>1, <4>2
    <3>2. RecordedIn(t, n, up, <<n, port>>) <=> IsTrue(g, up)
      BY <1>2, <1>4 DEF RecordedIn
    <3>3. RecordedIn(s, n, up, <<n, port>>) <=> IsTrue(s.rootChild[port], up)
      BY DEF RecordedIn
    <3>4. CASE C[up] = s.ctrl[up] /\ (IsTrue(g, up) <=> IsTrue(s.rootChild[port], up))
      BY <3>1, <3>2, <3>3, <3>4, <1>4
    <3>5. ASSUME NEW i \in SignalOn(n, up), C[up] = Append(s.ctrl[up], i),
                 \A x \in Root, b \in BOOLEAN :
                   Obeyed(i, x, b) <=> IF x = <<n, port>> THEN IsTrue(g, up) ELSE b
          PROVE  /\ i \in Signal /\ t.ctrl[up] = Append(s.ctrl[up], i)
                 /\ \A x \in Root : RecordedIn(t, n, up, x) <=> Obeyed(i, x, RecordedIn(s, n, up, x))
      <4>1. \A x \in Root : RecordedIn(s, n, up, x) \in BOOLEAN
        BY DEF RecordedIn, IsTrue
      <4>2. i \in Signal
        BY DEF SignalOn
      <4> QED BY <4>1, <4>2, <3>1, <3>2, <3>5, <1>4
    <3> QED BY <3>4, <3>5 DEF TellsOf
  <2> QED BY <2>1, <1>1, ToldStep DEF Sane
<1> QED BY <1>4, <1>5, <1>6, <1>7, <1>8 DEF Sane

\* A flow through a port puts the device before it into the tree of the port.
LEMMA RootInTree ==
  ASSUME NEW f \in Flow, NEW n \in Switch, NEW p, <<n, p>> \in Hops(f)
  PROVE  <<PrevHop(n, f), n, <<n, p>>>> \in Tree /\ Dist[n][<<n, p>>] = 0
<1> DEFINE i == Pos(n, f)
<1>1. /\ i \in 2 .. Len(Path[f]) - 1 /\ Path[f][i] = n
      /\ <<n, p>> \in Root /\ <<n, p>> = RootAt(f, i) /\ PrevHop(n, f) = Path[f][i - 1]
  BY HopOut
<1> HIDE DEF i
<1>2. Len(Path[f]) \in Nat
  BY CiParameters
<1>3. i <= i
  BY <1>1, <1>2
<1>4. <<Path[f][i - 1], Path[f][i], RootAt(f, i)>> \in Tree
  BY <1>1, <1>3, FlowDist
<1>5. Dist[n][<<n, p>>] = 0
  <2>1. <<n, p>>[1] = n
    OBVIOUS
  <2> QED BY <1>1, <2>1, RootEnds
<1> QED BY <1>1, <1>4, <1>5

\* An upstream device is paused for the port itself, and its pause recorded.
RootPaused(s, t, n, in, port) ==
  t = SetRootChild(Schedule(s, in, Pause(<<n, port>>, 1)), port, in, TRUE)

\* NotifyEnqueueIntoOQ, when it pauses: the record and the signal agree.
LEMMA RootPauseSane ==
  ASSUME NEW n \in Switch, NEW before \in [PortOf[n] -> [Root -> BOOLEAN]],
         NEW s, Sane(s, n, before), NEW port \in PortOf[n], NEW in,
         <<in, n, <<n, port>>>> \in Tree, NEW t, RootPaused(s, t, n, in, port)
  PROVE  Sane(t, n, before) /\ t.paused = s.paused
<1> DEFINE g == Assign(s.rootChild[port], in, TRUE)
           i == Pause(<<n, port>>, 1)
           C == [s.ctrl EXCEPT ![in] = Append(@, i)]
<1>1. /\ in \in PortOf[n] /\ <<n, port>> \in Root /\ <<in, n, <<n, port>>>> \in Tree
      /\ Dist[n][<<n, port>>] = 0
  <2>1. in \in PortOf[n] /\ <<n, port>> \in Root
    BY InTree
  <2>2. <<n, port>>[1] = n
    OBVIOUS
  <2> QED BY <2>1, <2>2, RootEnds
<1>2. s \in State(n) /\ s.rootChild \in [PortOf[n] -> Children(n)]
      /\ s.ctrl \in [PortOf[n] -> Seq(Signal)]
  BY StateOf DEF Sane
<1>3. RootChildPut(s, t, port, g, C)
  BY DEF RootPaused, SetRootChild, Schedule, RootChildPut
<1>4. s.rootChild[port] \in Children(n)
  BY <1>2
<1>5. /\ g \in Children(n) /\ DOMAIN g = DOMAIN s.rootChild[port] \cup {in}
      /\ \A p : IsTrue(g, p) <=> IF p = in THEN TRUE ELSE IsTrue(s.rootChild[port], p)
  <2> DEFINE h == s.rootChild[port]
  <2>1. h \in Children(n) /\ in \in PortOf[n]
    BY <1>4, <1>1
  <2> HIDE DEF h
  <2>2. ASSUME NEW v \in BOOLEAN
        PROVE  Assign(h, in, v) \in Children(n) /\ DOMAIN Assign(h, in, v) = DOMAIN h \cup {in}
    BY <2>1, AssignChild
  <2>3. ASSUME NEW v \in BOOLEAN, NEW p
        PROVE  IsTrue(Assign(h, in, v), p) <=> IF p = in THEN v ELSE IsTrue(h, p)
    BY <2>1, AssignChild
  <2>4. Assign(h, in, TRUE) \in Children(n) /\ DOMAIN Assign(h, in, TRUE) = DOMAIN h \cup {in}
    BY <2>2
  <2>5. \A p : IsTrue(Assign(h, in, TRUE), p) <=> IF p = in THEN TRUE ELSE IsTrue(h, p)
    BY <2>3
  <2> QED BY <2>4, <2>5 DEF h
<1> HIDE DEF g
<1>6. /\ i \in Signal /\ i \in SignalOn(n, in)
      /\ \A x, b : b \in BOOLEAN => (Obeyed(i, x, b) <=> IF x = <<n, port>> THEN TRUE ELSE b)
  <2>1. i \in Signal
    BY <1>1, SignalTypes
  <2>2. i \in SignalOn(n, in)
    BY <2>1, <1>1 DEF SignalOn, Pause
  <2>3. \A x, b : b \in BOOLEAN => (Obeyed(i, x, b) <=> IF x = <<n, port>> THEN TRUE ELSE b)
    BY <1>1 DEF Obeyed, Pauses, Resumes, Pause
  <2> QED BY <2>1, <2>2, <2>3
<1> HIDE DEF i
<1>7. Below(n, port, g)
  BY <1>5, <1>1 DEF Sane, OnTree, Below
<1>8. Append(s.ctrl[in], i) \in Seq(Signal)
  BY <1>1, <1>2, <1>6
<1>9. C \in [PortOf[n] -> Seq(Signal)]
  BY <1>2, <1>8
<1>10. TellsOf(s, n, port, g, C)
  <2> SUFFICES ASSUME NEW p \in PortOf[n]
      PROVE \/ C[p] = s.ctrl[p] /\ (IsTrue(g, p) <=> IsTrue(s.rootChild[port], p))
            \/ \E j \in SignalOn(n, p) :
                 /\ C[p] = Append(s.ctrl[p], j)
                 /\ \A x \in Root, b \in BOOLEAN :
                      Obeyed(j, x, b) <=> IF x = <<n, port>> THEN IsTrue(g, p) ELSE b
    BY DEF TellsOf
  <2>1. CASE p = in
    <3>1. C[p] = Append(s.ctrl[p], i) /\ IsTrue(g, p)
      BY <2>1, <1>2, <1>5
    <3> HIDE DEF C
    <3> QED BY <3>1, <1>6, <2>1
  <2>2. CASE p # in
    <3>1. C[p] = s.ctrl[p]
      BY <2>2, <1>2
    <3>2. IsTrue(g, p) <=> IsTrue(s.rootChild[port], p)
      BY <2>2, <1>5
    <3> QED BY <3>1, <3>2
  <2> QED BY <2>1, <2>2
<1> HIDE DEF C
<1>11. port \in PortOf[n] /\ g \in Children(n)
  BY <1>1, <1>5
<1> QED BY <1>3, <1>7, <1>9, <1>10, <1>11, RootChildSane

\* A packet that enters the OQ may have its device told.
LEMMA EnqueueOQSane ==
  ASSUME NEW n \in Switch, NEW before \in [PortOf[n] -> [Root -> BOOLEAN]],
         NEW s, Sane(s, n, before), NEW port, NEW d \in Leaving(n, port), NEW qlen, NEW t,
         t = NotifyEnqueueIntoOQ(s, n, PrevHop(n, d.flow), port, qlen)
  PROVE  Sane(t, n, before) /\ t.paused = s.paused
<1> DEFINE in == PrevHop(n, d.flow)
<1>1. d.flow \in Flow /\ <<n, port>> \in Hops(d.flow)
  BY DEF Leaving, Packet
<1>2. port \in PortOf[n] /\ <<in, n, <<n, port>>>> \in Tree
  BY <1>1, HopOut, RootInTree
<1> HIDE DEF in
<1> DEFINE u == SetRootChild(Schedule(s, in, Pause(<<n, port>>, 1)), port, in, TRUE)
<1>3. RootPaused(s, u, n, in, port)
  BY DEF RootPaused
<1> HIDE DEF u
<1>4. Sane(u, n, before) /\ u.paused = s.paused
  BY <1>2, <1>3, RootPauseSane
<1>5. t = u \/ t = s
  BY DEF NotifyEnqueueIntoOQ, in, u
<1> QED BY <1>4, <1>5

\* A packet that leaves the OQ may end the pause of the devices.
LEMMA DequeueOQSane ==
  ASSUME NEW n \in Switch, NEW before \in [PortOf[n] -> [Root -> BOOLEAN]],
         NEW s, Sane(s, n, before), NEW port \in PortOf[n], NEW t,
         t = NotifyDequeueFromOQ(s, n, port)
  PROVE  Sane(t, n, before) /\ t.paused = s.paused
<1> DEFINE up == {p \in DOMAIN s.rootChild[port] : s.rootChild[port][p]}
           g == [p \in DOMAIN s.rootChild[port] |-> FALSE]
           i == Resume(<<n, port>>)
           C == [p \in PortOf[n] |-> IF p \in up THEN Append(s.ctrl[p], i) ELSE s.ctrl[p]]
           u == [s EXCEPT
                  !.ctrl = [p \in PortOf[n] |->
                              IF p \in up THEN Append(@[p], Resume(<<n, port>>)) ELSE @[p]],
                  !.rootChild[port] = [p \in DOMAIN @ |-> FALSE]]
<1>1. s \in State(n) /\ s.rootChild \in [PortOf[n] -> Children(n)]
      /\ s.ctrl \in [PortOf[n] -> Seq(Signal)]
  BY StateOf DEF Sane
<1>2. RootChildPut(s, u, port, g, C)
  BY DEF RootChildPut
<1>3. t = u \/ t = s
  BY DEF NotifyDequeueFromOQ
<1> HIDE DEF u
<1>4. /\ DOMAIN s.rootChild[port] \subseteq PortOf[n]
      /\ \A p \in DOMAIN s.rootChild[port] : s.rootChild[port][p] \in BOOLEAN
  BY <1>1, ChildMap
<1>5. \A p : p \in up <=> IsTrue(s.rootChild[port], p)
  BY DEF IsTrue
<1>6. /\ g \in Children(n) /\ DOMAIN g = DOMAIN s.rootChild[port]
      /\ \A p : ~ IsTrue(g, p)
  <2>1. DOMAIN g = DOMAIN s.rootChild[port] /\ \A p \in DOMAIN g : g[p] = FALSE
    OBVIOUS
  <2>2. g = [p \in DOMAIN g |-> g[p]]
    OBVIOUS
  <2> HIDE DEF g
  <2>3. g \in Children(n)
    BY <2>1, <2>2, <1>4, ChildMap
  <2>4. \A p : ~ IsTrue(g, p)
    BY <2>1 DEF IsTrue
  <2> QED BY <2>1, <2>3, <2>4
<1>7. Below(n, port, g)
  BY <1>6 DEF Sane, OnTree, Below
<1>8. ASSUME NEW p \in up
      PROVE  /\ i \in Signal /\ i \in SignalOn(n, p)
             /\ \A x, b : b \in BOOLEAN => (Obeyed(i, x, b) <=> IF x = <<n, port>> THEN FALSE ELSE b)
  <2>1. <<p, n, <<n, port>>>> \in Tree
    BY <1>5, <1>6, <1>7 DEF Below, IsTrue
  <2>2. <<n, port>> \in Root
    BY <2>1, InTree
  <2>3. i \in Signal
    BY <2>2 DEF Resume, Signal
  <2>4. i \in SignalOn(n, p)
    BY <2>1, <2>3 DEF SignalOn, Resume
  <2>5. \A x, b : b \in BOOLEAN => (Obeyed(i, x, b) <=> IF x = <<n, port>> THEN FALSE ELSE b)
    BY DEF Obeyed, Pauses, Resumes, Resume
  <2> QED BY <2>3, <2>4, <2>5
<1> HIDE DEF g, i
<1>9. C \in [PortOf[n] -> Seq(Signal)]
  <2>1. ASSUME NEW p \in PortOf[n] PROVE (IF p \in up THEN Append(s.ctrl[p], i) ELSE s.ctrl[p]) \in Seq(Signal)
    <3> HIDE DEF up
    <3>1. s.ctrl[p] \in Seq(Signal)
      BY <1>1
    <3> QED BY <3>1, <1>8
  <2> QED BY <2>1
<1>10. TellsOf(s, n, port, g, C)
  <2> SUFFICES ASSUME NEW p \in PortOf[n]
       PROVE \/ C[p] = s.ctrl[p] /\ (IsTrue(g, p) <=> IsTrue(s.rootChild[port], p))
             \/ \E j \in SignalOn(n, p) :
                  /\ C[p] = Append(s.ctrl[p], j)
                  /\ \A x \in Root, b \in BOOLEAN :
                       Obeyed(j, x, b) <=> IF x = <<n, port>> THEN IsTrue(g, p) ELSE b
    BY DEF TellsOf
  <2>1. C[p] = IF p \in up THEN Append(s.ctrl[p], i) ELSE s.ctrl[p]
    OBVIOUS
  <2> HIDE DEF C, up
  <2>2. CASE p \in up
    <3>1. \A x \in Root, b \in BOOLEAN :
            Obeyed(i, x, b) <=> IF x = <<n, port>> THEN IsTrue(g, p) ELSE b
      BY <2>2, <1>6, <1>8
    <3> QED BY <3>1, <2>1, <2>2, <1>8
  <2>3. CASE p \notin up
    BY <2>1, <2>3, <1>5, <1>6
  <2> QED BY <2>2, <2>3
<1> HIDE DEF C, up
<1>11. CASE t = u
  <2>1. Sane(u, n, before) /\ u.paused = s.paused
    BY <1>2, <1>6, <1>7, <1>9, <1>10, RootChildSane
  <2> QED BY <2>1, <1>11
<1> QED BY <1>3, <1>11

\* DequeueAndTransmit: a packet goes from the OQ on the wire.
LEMMA TransmitSane ==
  ASSUME NEW n \in Switch, NEW before \in [PortOf[n] -> [Root -> BOOLEAN]],
         NEW s, Sane(s, n, before), NEW port \in PortOf[n], s.oq[port] # <<>>
  PROVE  /\ Sane(TransmitFrom(s, n, port), n, before)
         /\ TransmitFrom(s, n, port).paused = s.paused
<1> DEFINE d == Head(s.oq[port])
           W == [s.wire EXCEPT ![port] = Append(@, d)]
           O == [s.oq EXCEPT ![port] = Tail(@)]
           t == [s EXCEPT !.wire[port] = Append(@, Head(s.oq[port])), !.oq[port] = Tail(@)]
<1>1. /\ s \in State(n) /\ s.oq \in [PortOf[n] -> Seq(Packet)]
      /\ s.wire \in [PortOf[n] -> Seq(Packet)]
  BY StateOf DEF Sane
<1>2. \A p \in PortOf[n] : s.oq[p] \in Seq(Leaving(n, p)) /\ s.wire[p] \in Seq(Leaving(n, p))
  BY DEF Sane, InPlace
<1>3. d \in Leaving(n, port) /\ d \in Packet
  <2>1. d = s.oq[port][1] /\ 1 \in DOMAIN s.oq[port]
    BY <1>2
  <2>2. d \in Leaving(n, port)
    BY <2>1, <1>2
  <2> QED BY <2>2 DEF Leaving
<1>4. t = [s EXCEPT !.wire = W, !.oq = O]
  OBVIOUS
<1> HIDE DEF d
<1>5. /\ Append(s.wire[port], d) \in Seq(Packet) /\ Append(s.wire[port], d) \in Seq(Leaving(n, port))
      /\ Tail(s.oq[port]) \in Seq(Packet) /\ Tail(s.oq[port]) \in Seq(Leaving(n, port))
  <2>1. Append(s.wire[port], d) \in Seq(Packet)
    BY <1>1, <1>3
  <2>2. Append(s.wire[port], d) \in Seq(Leaving(n, port))
    BY <1>2, <1>3
  <2>3. Tail(s.oq[port]) \in Seq(Packet)
    BY <1>1
  <2>4. Tail(s.oq[port]) \in Seq(Leaving(n, port))
    BY <1>2
  <2> QED BY <2>1, <2>2, <2>3, <2>4
<1>6. /\ W \in [PortOf[n] -> Seq(Packet)] /\ O \in [PortOf[n] -> Seq(Packet)]
      /\ \A p \in PortOf[n] : W[p] \in Seq(Leaving(n, p)) /\ O[p] \in Seq(Leaving(n, p))
  BY <1>1, <1>2, <1>5
<1> HIDE DEF W, O, t
<1>7. /\ t \in State(n) /\ t.oq = O /\ t.wire = W /\ t.entries = s.entries
      /\ t.rootChild = s.rootChild /\ t.ciq = s.ciq /\ t.paused = s.paused /\ t.hier = s.hier
      /\ t.ctrl = s.ctrl
  BY <1>1, <1>4, <1>6, StateOf
<1>8. InPlace(t, n)
  BY <1>6, <1>7 DEF InPlace, Sane
<1>9. t.hier \/ \A p \in PortOf[n], r \in Root : s.ciq[p][r] = <<>>
  BY <1>7 DEF Sane, Served
<1>10. Sane(t, n, before)
  BY <1>7, <1>8, <1>9, QueuesSane
<1>11. TransmitFrom(s, n, port) = NotifyDequeueFromOQ(t, n, port)
  BY DEF TransmitFrom, t
<1> QED BY <1>7, <1>10, <1>11, DequeueOQSane

-----------------------------------------------------------------------------
(* Packets come in and move on *)

\* A match is a root further down the path, at less than limit hops.
LEMMA Matched ==
  ASSUME NEW n \in Switch, NEW p, NEW d \in Leaving(n, p), NEW s, NEW limit, NEW m,
         m = Matches(s, n, d.flow, limit), m # {}, NEW r, r = RootAt(d.flow, Max(m))
  PROVE  /\ r \in DOMAIN s.entries /\ p \in s.entries[r].ciq /\ d \in Waiting(n, p, r)
         /\ Dist[n][r] < limit
<1> DEFINE f == d.flow
           i == Pos(n, f)
<1>1. f \in Flow /\ <<n, p>> \in Hops(f)
  BY DEF Leaving, Packet
<1>2. Len(Path[f]) \in Nat
  BY <1>1, CiParameters
<1>3. i \in 2 .. Len(Path[f]) - 1 /\ Path[f][i] = n /\ NextHop(n, f) = p
  BY <1>1, HopOut
<1>4. m \subseteq 0 .. Len(Path[f])
  BY <1>2, <1>3 DEF Matches
<1>5. Max(m) \in m
  BY <1>2, <1>4, MaxIn
<1>6. /\ Max(m) \in i + 1 .. Len(Path[f]) - 1 /\ Max(m) - i < limit
      /\ RootAt(f, Max(m)) \in DOMAIN s.entries
      /\ NextHop(n, f) \in s.entries[RootAt(f, Max(m))].ciq
  BY <1>5 DEF Matches
<1>7. d \in Waiting(n, p, r)
  BY <1>6 DEF Waiting
<1>8. Dist[n][r] = Max(m) - i
  <2>1. PICK a \in i .. Len(Path[f]) - 1 : a = Max(m)
    BY <1>2, <1>3, <1>6
  <2> HIDE DEF i, f
  <2>2. Dist[n][RootAt(f, a)] = a - i
    BY <1>1, <1>3, FlowInTree
  <2> QED BY <2>1, <2>2 DEF f
<1> QED BY <1>3, <1>6, <1>7, <1>8

\* What a notification says does not depend on the CIQs.
LEMMA NotifiedFrom ==
  ASSUME NEW s, NEW a, NEW t, NEW n, NEW r, NEW in, NEW k, Notified(a, t, n, r, in, k),
         a.entries = s.entries, a.rootChild = s.rootChild, a.oq = s.oq, a.paused = s.paused,
         a.hol = s.hol, a.wire = s.wire, a.ctrl = s.ctrl
  PROVE  Notified(s, t, n, r, in, k)
  BY DEF Notified

LEMMA NotifiedTo ==
  ASSUME NEW s, NEW a, NEW t, NEW n, NEW r, NEW in, NEW k, Notified(s, a, n, r, in, k),
         t \in State(n), t.entries = a.entries, t.rootChild = a.rootChild, t.oq = a.oq,
         t.paused = a.paused, t.hol = a.hol, t.wire = a.wire, t.ctrl = a.ctrl
  PROVE  Notified(s, t, n, r, in, k)
  BY DEF Notified

\* A packet enters a CIQ: the notification after the queue or before it.
EnqueuedCIQ(s, t, n, port, r, d) ==
  \/ t = NotifyEnqueueIntoCIQ([s EXCEPT !.ciq[port][r] = Append(@, d), !.hier = TRUE],
                              PrevHop(n, d.flow), port, r)
  \/ s.hier /\ t = [NotifyEnqueueIntoCIQ(s, PrevHop(n, d.flow), port, r)
                      EXCEPT !.ciq[port][r] = Append(@, d)]

LEMMA EnqueueCIQSane ==
  ASSUME NEW n \in Switch, NEW before \in [PortOf[n] -> [Root -> BOOLEAN]],
         NEW s, Sane(s, n, before), NEW r \in DOMAIN s.entries,
         NEW port \in s.entries[r].ciq, NEW d \in Waiting(n, port, r), NEW t,
         EnqueuedCIQ(s, t, n, port, r, d)
  PROVE  /\ Sane(t, n, before) /\ t.paused = s.paused
         /\ CiqMore(s, t, port, r, d) /\ t.oq = s.oq /\ t.wire = s.wire
<1> DEFINE in == PrevHop(n, d.flow)
           Q == [s.ciq EXCEPT ![port][r] = Append(@, d)]
           a == [s EXCEPT !.ciq[port][r] = Append(@, d), !.hier = TRUE]
<1>1. /\ s \in State(n) /\ r \in Root /\ s.entries[r] \in Entry(n)
      /\ s.ciq \in [PortOf[n] -> [Root -> Seq(Packet)]]
  BY EntryAt, StateOf DEF Sane
<1>2. port \in PortOf[n] /\ d \in Packet /\ in \in PortOf[n]
  BY WaitingFacts
<1> HIDE DEF in
<1>3. Q \in [PortOf[n] -> [Root -> Seq(Packet)]]
  <2>1. Append(s.ciq[port][r], d) \in Seq(Packet)
    BY <1>1, <1>2
  <2> QED BY <1>1, <1>2, <2>1
<1>4. ASSUME t = NotifyEnqueueIntoCIQ(a, in, port, r)
      PROVE  Notified(s, t, n, r, in, 1) /\ CiqMore(s, t, port, r, d) /\ t.hier = TRUE
  <2>1. a = [s EXCEPT !.ciq = Q, !.hier = TRUE]
    OBVIOUS
  <2>2. CiqMore(s, [s EXCEPT !.ciq = Q], port, r, d)
    BY <1>1, StateOf DEF CiqMore
  <2> HIDE DEF a, Q
  <2>3. /\ a \in State(n) /\ a.entries = s.entries /\ a.rootChild = s.rootChild /\ a.oq = s.oq
        /\ a.ciq = Q /\ a.paused = s.paused /\ a.hier = TRUE /\ a.hol = s.hol
        /\ a.wire = s.wire /\ a.ctrl = s.ctrl
    BY <1>1, <1>3, <2>1, StateOf
  <2>4. Notified(a, t, n, r, in, 1) /\ t.ciq = a.ciq /\ t.hier = a.hier
    BY <1>2, <1>4, <2>3, EnqueueNotifies
  <2>5. Notified(s, t, n, r, in, 1)
    BY <2>3, <2>4, NotifiedFrom
  <2> QED BY <2>3, <2>4, <2>5 DEF CiqMore, Q
<1>5. ASSUME s.hier, t = [NotifyEnqueueIntoCIQ(s, in, port, r) EXCEPT !.ciq[port][r] = Append(@, d)]
      PROVE  Notified(s, t, n, r, in, 1) /\ CiqMore(s, t, port, r, d) /\ t.hier = TRUE
  <2> DEFINE v == NotifyEnqueueIntoCIQ(s, in, port, r)
  <2>1. Notified(s, v, n, r, in, 1) /\ v.ciq = s.ciq /\ v.hier = s.hier
    BY <1>1, <1>2, EnqueueNotifies
  <2> HIDE DEF v
  <2>2. t = [v EXCEPT !.ciq = [v.ciq EXCEPT ![port][r] = Append(@, d)]]
    BY <1>5 DEF v
  <2>3. t = [v EXCEPT !.ciq = Q]
    BY <2>1, <2>2
  <2>4. v \in State(n)
    BY <2>1 DEF Notified
  <2> HIDE DEF Q
  <2>5. /\ t \in State(n) /\ t.entries = v.entries /\ t.rootChild = v.rootChild /\ t.oq = v.oq
        /\ t.ciq = Q /\ t.paused = v.paused /\ t.hier = v.hier /\ t.hol = v.hol
        /\ t.wire = v.wire /\ t.ctrl = v.ctrl
    BY <1>3, <2>3, <2>4, StateOf
  <2>6. Notified(s, t, n, r, in, 1)
    BY <2>1, <2>5, NotifiedTo
  <2>7. s.hier = TRUE
    BY <1>1, <1>5, StateOf
  <2> QED BY <2>1, <2>5, <2>6, <2>7 DEF CiqMore, Q
<1>6. Notified(s, t, n, r, in, 1) /\ CiqMore(s, t, port, r, d) /\ t.hier = TRUE
  BY <1>4, <1>5 DEF in, EnqueuedCIQ
<1>7. Sane(t, n, before)
  BY <1>6, CountUp DEF in
<1> QED BY <1>6, <1>7 DEF Notified

\* SendToDev for data.
LEMMA ReceiveDataSane ==
  ASSUME NEW n \in Switch, NEW before \in [PortOf[n] -> [Root -> BOOLEAN]],
         NEW s, Sane(s, n, before), NEW in, NEW d \in Leaving(in, n)
  PROVE  /\ Sane(ReceiveData(s, n, d), n, before)
         /\ ReceiveData(s, n, d).paused = s.paused
<1> DEFINE f == d.flow
           port == NextHop(n, f)
           m == Matches(s, n, f, Len(Path[f]))
           r == RootAt(f, Max(m))
           t == ReceiveData(s, n, d)
<1>1. f \in Flow /\ <<in, n>> \in Hops(f) /\ d \in Packet
  BY DEF Leaving, Packet
<1>2. d \in Leaving(n, port) /\ port \in PortOf[n]
  <2>1. <<n, port>> \in Hops(f)
    BY <1>1, HopIn
  <2>2. port \in PortOf[n]
    BY <1>1, <2>1, HopOut
  <2> QED BY <1>1, <2>1, <2>2 DEF Leaving
<1>3. CASE m = {}
  <2> DEFINE u == [s EXCEPT !.oq[port] = Append(@, d)]
  <2>1. t = NotifyEnqueueIntoOQ(u, n, PrevHop(n, f), port, Len(s.oq[port]) + 1)
    BY <1>3 DEF ReceiveData
  <2>2. OqMore(s, u, port, d)
    BY DEF OqMore
  <2> HIDE DEF u, port
  <2>3. Sane(u, n, before) /\ u.paused = s.paused
    BY <1>2, <2>2, OqPut
  <2> HIDE DEF t
  <2> DEFINE len == Len(s.oq[port]) + 1
  <2>4. t = NotifyEnqueueIntoOQ(u, n, PrevHop(n, d.flow), port, len)
    BY <2>1
  <2> HIDE DEF len
  <2>5. Sane(t, n, before) /\ t.paused = u.paused
    BY <1>2, <2>3, <2>4, EnqueueOQSane
  <2> QED BY <2>3, <2>5 DEF t
<1>4. CASE m # {}
  <2>1. t = NotifyEnqueueIntoCIQ([s EXCEPT !.ciq[port][r] = Append(@, d), !.hier = TRUE],
                                 PrevHop(n, d.flow), port, r)
    BY <1>4 DEF ReceiveData
  <2> HIDE DEF t
  <2>2. r \in DOMAIN s.entries /\ port \in s.entries[r].ciq /\ d \in Waiting(n, port, r)
    <3> HIDE DEF port
    <3> QED BY <1>2, <1>4, Matched
  <2>4. EnqueuedCIQ(s, t, n, port, r, d)
    BY <2>1 DEF EnqueuedCIQ
  <2> HIDE DEF r, port
  <2>3. Sane(t, n, before) /\ t.paused = s.paused
    BY <2>2, <2>4, EnqueueCIQSane
  <2> QED BY <2>3 DEF t
<1> QED BY <1>3, <1>4

\* A packet leaves a CIQ, and what that releases.
DequeuedCIQ(s, t, n, port, r, d) ==
  /\ d = Head(s.ciq[port][r])
  /\ t = NotifyDequeueFromCIQ([s EXCEPT !.ciq[port][r] = Tail(@)], n, PrevHop(n, d.flow), port, r)

LEMMA DequeueCIQSane ==
  ASSUME NEW n \in Switch, NEW before \in [PortOf[n] -> [Root -> BOOLEAN]],
         NEW s, Sane(s, n, before), NEW port \in PortOf[n], NEW r \in Root,
         s.ciq[port][r] # <<>>, NEW d, NEW t, DequeuedCIQ(s, t, n, port, r, d)
  PROVE  /\ d \in Waiting(n, port, r) /\ r \in DOMAIN s.entries /\ s.hier
         /\ Sane(t, n, before) /\ t.paused = s.paused /\ t.hier = s.hier
         /\ \A x \in DOMAIN s.entries \ {r} :
              x \in DOMAIN t.entries /\ t.entries[x] = s.entries[x]
         /\ CiqLess(s, t, port, r) /\ t.oq = s.oq /\ t.wire = s.wire
<1> DEFINE in == PrevHop(n, d.flow)
           Q == [s.ciq EXCEPT ![port][r] = Tail(@)]
           a == [s EXCEPT !.ciq[port][r] = Tail(@)]
<1>1. /\ s \in State(n) /\ s.ciq \in [PortOf[n] -> [Root -> Seq(Packet)]]
      /\ s.ciq[port][r] \in Seq(Waiting(n, port, r))
  BY StateOf DEF Sane, InPlace
<1>2. d \in Waiting(n, port, r)
  <2>1. d = s.ciq[port][r][1] /\ 1 \in DOMAIN s.ciq[port][r]
    BY <1>1 DEF DequeuedCIQ
  <2> QED BY <1>1, <2>1
<1>3. in \in PortOf[n]
  BY <1>2, WaitingFacts
<1>4. r \in DOMAIN s.entries /\ s.hier
  BY DEF Sane, Served, HasCIQ
<1> HIDE DEF in
<1>5. Q \in [PortOf[n] -> [Root -> Seq(Packet)]]
  <2>1. Tail(s.ciq[port][r]) \in Seq(Packet)
    BY <1>1
  <2> QED BY <1>1, <2>1
<1>6. a = [s EXCEPT !.ciq = Q]
  OBVIOUS
<1>7. CiqLess(s, [s EXCEPT !.ciq = Q], port, r)
  BY <1>1, StateOf DEF CiqLess
<1> HIDE DEF a, Q
<1>8. /\ a \in State(n) /\ a.entries = s.entries /\ a.rootChild = s.rootChild /\ a.oq = s.oq
      /\ a.ciq = Q /\ a.paused = s.paused /\ a.hier = s.hier /\ a.hol = s.hol
      /\ a.wire = s.wire /\ a.ctrl = s.ctrl
  BY <1>1, <1>5, <1>6, StateOf
<1>9. PICK u : /\ Notified(a, u, n, r, in, -1) /\ u.ciq = a.ciq /\ u.hier = a.hier
               /\ t = IF u.entries[r].status[port] # "MERGE"
                        THEN CheckAndSendDealloc(u, n, r)
                        ELSE ReleaseMergeCIQEntry(u, r, port)
  <2>1. t = NotifyDequeueFromCIQ(a, n, in, port, r)
    BY DEF a, in, DequeuedCIQ
  <2>2. a \in State(n) /\ r \in DOMAIN a.entries
    BY <1>4, <1>8
  <2>3. \E u : /\ Notified(a, u, n, r, in, -1) /\ u.ciq = a.ciq /\ u.hier = a.hier
               /\ NotifyDequeueFromCIQ(a, n, in, port, r)
                    = IF u.entries[r].status[port] # "MERGE"
                        THEN CheckAndSendDealloc(u, n, r)
                        ELSE ReleaseMergeCIQEntry(u, r, port)
    BY <1>3, <2>2, DequeueNotifies
  <2> QED BY <2>1, <2>3
<1>10. Notified(s, u, n, r, in, -1)
  BY <1>8, <1>9, NotifiedFrom
<1>11. CiqLess(s, u, port, r)
  BY <1>7, <1>8, <1>9 DEF CiqLess, Q
<1>12. Sane(u, n, before)
  <2>1. d = Head(s.ciq[port][r]) /\ u.hier = s.hier
    BY <1>8, <1>9 DEF DequeuedCIQ
  <2> QED BY <1>4, <1>10, <1>11, <2>1, CountDown DEF in
<1>13. u \in State(n) /\ r \in DOMAIN u.entries /\ u.paused = s.paused /\ u.hier = s.hier
       /\ \A x \in DOMAIN s.entries \ {r} : x \in DOMAIN u.entries /\ u.entries[x] = s.entries[x]
  BY <1>4, <1>8, <1>9, <1>10 DEF Notified
<1>14. PICK free : Released(u, t, n, r, free)
  BY <1>9, <1>13, DeallocReleases, MergeReleases
<1>15. Sane(t, n, before) /\ t.paused = u.paused
  BY <1>12, <1>13, <1>14, ReleasedSane
<1>16. /\ t.hier = u.hier
       /\ \A x \in DOMAIN u.entries \ {r} : x \in DOMAIN t.entries /\ t.entries[x] = u.entries[x]
  BY <1>14 DEF Released
<1>17. t.oq = s.oq /\ t.wire = s.wire /\ t.ciq = u.ciq
  BY <1>10, <1>14 DEF Notified, Released
<1>18. CiqLess(s, t, port, r)
  BY <1>11, <1>17 DEF CiqLess
<1> QED BY <1>2, <1>4, <1>13, <1>15, <1>16, <1>17, <1>18

\* One packet of a CIQ moves on, or none does.
LEMMA MoveOneSane ==
  ASSUME NEW n \in Switch, NEW before \in [PortOf[n] -> [Root -> BOOLEAN]],
         NEW s, Sane(s, n, before), NEW port \in PortOf[n], NEW r \in Root
  PROVE  Sane(MoveOne(s, n, port, r), n, before) /\ MoveOne(s, n, port, r).paused = s.paused
<1> DEFINE d == Head(s.ciq[port][r])
           in == PrevHop(n, d.flow)
           m == Matches(s, n, d.flow, s.entries[r].hop)
           next == RootAt(d.flow, Max(m))
           t == NotifyDequeueFromCIQ([s EXCEPT !.ciq[port][r] = Tail(@)], n, in, port, r)
           u == MoveOne(s, n, port, r)
<1>1. CASE s.ciq[port][r] = <<>> \/ r \in s.paused[port]
  BY <1>1 DEF MoveOne
<1>2. CASE ~ (s.ciq[port][r] = <<>> \/ r \in s.paused[port])
  <2>1. u = IF m = {}
              THEN [NotifyEnqueueIntoOQ(t, n, in, port, Len(t.oq[port])) EXCEPT !.oq[port] = Append(@, d)]
              ELSE [NotifyEnqueueIntoCIQ(t, in, port, next) EXCEPT !.ciq[port][next] = Append(@, d)]
    BY <1>2 DEF MoveOne
  <2>2. /\ d \in Waiting(n, port, r) /\ r \in DOMAIN s.entries /\ s.hier
        /\ Sane(t, n, before) /\ t.paused = s.paused /\ t.hier = s.hier
        /\ \A x \in DOMAIN s.entries \ {r} :
             x \in DOMAIN t.entries /\ t.entries[x] = s.entries[x]
    <3> HIDE DEF t, d, in
    <3>1. DequeuedCIQ(s, t, n, port, r, d)
      BY DEF t, d, in, DequeuedCIQ
    <3> QED BY <1>2, <3>1, DequeueCIQSane
  <2> HIDE DEF t, d, u
  <2>3. d \in Leaving(n, port)
    BY <2>2, WaitingFacts
  <2>4. CASE m = {}
    <3> DEFINE len == Len(t.oq[port])
               v == NotifyEnqueueIntoOQ(t, n, PrevHop(n, d.flow), port, len)
    <3>1. u = [v EXCEPT !.oq[port] = Append(@, d)]
      BY <2>1, <2>4
    <3>2. Sane(v, n, before) /\ v.paused = t.paused
      <4> HIDE DEF len
      <4> QED BY <2>2, <2>3, EnqueueOQSane
    <3> HIDE DEF v
    <3>3. OqMore(v, u, port, d)
      BY <3>1 DEF OqMore
    <3>4. Sane(u, n, before) /\ u.paused = v.paused
      BY <3>2, <3>3, <2>3, OqPut
    <3> QED BY <3>2, <3>4, <2>2 DEF u
  <2>5. CASE m # {}
    <3>1. u = [NotifyEnqueueIntoCIQ(t, PrevHop(n, d.flow), port, next)
                 EXCEPT !.ciq[port][next] = Append(@, d)]
      BY <2>1, <2>5
    <3>2. /\ next \in DOMAIN s.entries /\ port \in s.entries[next].ciq
          /\ d \in Waiting(n, port, next) /\ Dist[n][next] < s.entries[r].hop
      BY <2>3, <2>5, Matched
    <3> HIDE DEF next
    <3>3. next # r
      <4>1. s.entries[r].hop = Dist[n][r] /\ s.entries[r] \in Entry(n)
        BY <2>2, EntryAt DEF Sane, OnTree
      <4>2. Dist[n][r] \in Nat
        BY <4>1 DEF Entry
      <4> QED BY <3>2, <4>1, <4>2
    <3>4. next \in DOMAIN t.entries /\ port \in t.entries[next].ciq
      BY <2>2, <3>2, <3>3
    <3>5. EnqueuedCIQ(t, u, n, port, next, d)
      BY <2>2, <3>1 DEF EnqueuedCIQ
    <3>6. Sane(u, n, before) /\ u.paused = t.paused
      BY <2>2, <3>2, <3>4, <3>5, EnqueueCIQSane
    <3> QED BY <2>2, <3>6 DEF u
  <2> QED BY <2>4, <2>5
<1> QED BY <1>1, <1>2

-----------------------------------------------------------------------------
(* A round: the loops over the CIQs of a port and over the ports *)

LEMMA FiniteImage ==
  ASSUME NEW S, IsFiniteSet(S), NEW F, DOMAIN F = S, NEW T, T = {F[x] : x \in S}
  PROVE  IsFiniteSet(T)
<1> DEFINE G == [x \in S |-> F[x]]
<1>1. G \in [S -> T] /\ \A y \in T : \E x \in S : G[x] = y
  OBVIOUS
<1> HIDE DEF G
<1>2. G \in Surjection(S, T)
  BY <1>1, Fun_IsSurj
<1> QED BY <1>2, FS_Surjection

\* There are finitely many links, roots and ports.
LEMMA Finite ==
  /\ IsFiniteSet(Root)
  /\ \A n \in Switch : IsFiniteSet(PortOf[n])
<1> DEFINE back(f) == {<<l[2], l[1]>> : l \in Hops(f)}
           both == [f \in Flow |-> Hops(f) \cup back(f)]
           U == {both[f] : f \in Flow}
<1>1. ASSUME NEW f \in Flow PROVE IsFiniteSet(both[f])
  <2> DEFINE F == [i \in 1 .. Len(Path[f]) - 1 |-> <<Path[f][i], Path[f][i + 1]>>]
             B == [l \in Hops(f) |-> <<l[2], l[1]>>]
  <2>1. Len(Path[f]) - 1 \in Int
    BY CiParameters
  <2>2. IsFiniteSet(1 .. Len(Path[f]) - 1)
    BY <2>1, FS_Interval
  <2>3. Hops(f) = {F[i] : i \in 1 .. Len(Path[f]) - 1} /\ DOMAIN F = 1 .. Len(Path[f]) - 1
    BY DEF Hops
  <2> HIDE DEF F
  <2>4. IsFiniteSet(Hops(f))
    BY <2>2, <2>3, FiniteImage
  <2>5. back(f) = {B[l] : l \in Hops(f)} /\ DOMAIN B = Hops(f)
    OBVIOUS
  <2> HIDE DEF B, back
  <2>6. IsFiniteSet(back(f))
    BY <2>4, <2>5, FiniteImage
  <2> DEFINE H == Hops(f)
             K == back(f)
  <2>7. IsFiniteSet(H \cup K)
    <3> HIDE DEF H, K
    <3>1. IsFiniteSet(H) /\ IsFiniteSet(K)
      BY <2>4, <2>6 DEF H, K
    <3> QED BY <3>1, FS_Union
  <2> QED BY <2>7
<1>2. IsFiniteSet(U)
  <2>1. IsFiniteSet(Flow) /\ DOMAIN both = Flow
    BY CiParameters
  <2> HIDE DEF both
  <2> QED BY <2>1, FiniteImage
<1>3. Link = UNION U
  BY DEF Link
<1>4. \A X \in U : IsFiniteSet(X)
  BY <1>1
<1>5. IsFiniteSet(Link)
  <2> HIDE DEF U
  <2> QED BY <1>2, <1>3, <1>4, FS_UNION
<1>6. IsFiniteSet(Root)
  <2>1. Root \in SUBSET Link
    BY DEF Root, Link
  <2> QED BY <2>1, <1>5, FS_Subset
<1>7. ASSUME NEW n \in Switch PROVE IsFiniteSet(PortOf[n])
  <2> DEFINE K == {k \in Link : k[1] = n}
             F == [k \in K |-> k[2]]
  <2>1. IsFiniteSet(K)
    <3>1. K \in SUBSET Link
      OBVIOUS
    <3> HIDE DEF K
    <3> QED BY <3>1, <1>5, FS_Subset
  <2>2. PortOf[n] = {F[k] : k \in K} /\ DOMAIN F = K
    BY DEF PortOf
  <2> HIDE DEF F, K
  <2> QED BY <2>1, <2>2, FiniteImage
<1> QED BY <1>6, <1>7

\* A finite set can be enumerated by falling values of a function.
LEMMA Enumeration ==
  ASSUME NEW S, IsFiniteSet(S), NEW h, \A x \in S : h[x] \in Nat
  PROVE  \E q \in [1 .. Cardinality(S) -> S] :
           IsInjective(q) /\ \A i, j \in DOMAIN q : i < j => h[q[i]] >= h[q[j]]
<1> DEFINE P(X) == \E q \in [1 .. Cardinality(X) -> X] :
                     IsInjective(q) /\ \A i, j \in DOMAIN q : i < j => h[q[i]] >= h[q[j]]
           T == {k \in Nat : \E X \in SUBSET S : IsFiniteSet(X) /\ Cardinality(X) = k /\ ~ P(X)}
<1>1. SUFFICES ASSUME ~ P(S) PROVE FALSE
  OBVIOUS
<1>2. Cardinality(S) \in T
  <2>1. Cardinality(S) \in Nat
    BY FS_CardinalityType
  <2> HIDE DEF P
  <2> QED BY <1>1, <2>1
<1>3. PICK k \in T : \A y \in T : k <= y
  <2>1. T \subseteq Nat /\ T # {}
    BY <1>2
  <2> HIDE DEF T
  <2> QED BY <2>1, Smallest
<1>4. PICK X \in SUBSET S : IsFiniteSet(X) /\ Cardinality(X) = k /\ ~ P(X)
  <2> HIDE DEF P
  <2> QED BY <1>3
<1>5. CASE X = {}
  <2> DEFINE q == [i \in 1 .. 0 |-> i]
  <2>1. Cardinality(X) = 0
    BY <1>5, FS_EmptySet
  <2>2. q \in [1 .. Cardinality(X) -> X] /\ DOMAIN q = {}
    BY <2>1
  <2>3. P(X)
    <3> HIDE DEF q
    <3> QED BY <2>2 DEF IsInjective
  <2> QED BY <2>3, <1>4
<1>6. CASE X # {}
  <2> DEFINE V == {h[x] : x \in X}
  <2>1. PICK v \in V : \A w \in V : v <= w
    <3>1. V \subseteq Nat /\ V # {}
      BY <1>6
    <3> HIDE DEF V
    <3> QED BY <3>1, Smallest
  <2>2. PICK m \in X : \A x \in X : h[m] <= h[x]
    BY <2>1
  <2> DEFINE Y == X \ {m}
  <2>3. IsFiniteSet(Y) /\ Cardinality(Y) = k - 1 /\ Y \in SUBSET S
    <3>1. IsFiniteSet(X \ {m}) /\ Cardinality(X \ {m}) = Cardinality(X) - 1
      BY <1>4, <2>2, FS_RemoveElement
    <3> QED BY <3>1, <1>4
  <2>4. k - 1 \in Nat /\ k \in Nat
    BY <2>3, FS_CardinalityType
  <2>5. P(Y)
    <3>1. k - 1 \notin T
      BY <1>3, <2>4
    <3> HIDE DEF P, Y
    <3> QED BY <3>1, <2>3, <2>4
  <2>6. PICK q \in [1 .. k - 1 -> Y] :
           IsInjective(q) /\ \A i, j \in DOMAIN q : i < j => h[q[i]] >= h[q[j]]
    BY <2>3, <2>5
  <2> DEFINE z == [i \in 1 .. k |-> IF i = k THEN m ELSE q[i]]
  <2>7. \A i \in 1 .. k : i = k \/ i \in 1 .. k - 1
    BY <2>4
  <2>8. DOMAIN z = 1 .. k /\ z[k] = m
        /\ \A i \in 1 .. k - 1 : z[i] = q[i] /\ i < k /\ q[i] \in Y /\ i \in DOMAIN q
    <3>1. 1 .. k - 1 \subseteq 1 .. k /\ k \in 1 .. k /\ k \notin 1 .. k - 1
      <4>1. k # 0
        BY <1>4, <1>6, FS_EmptySet
      <4> QED BY <4>1, <2>4
    <3> QED BY <3>1, <2>4, <2>6
  <2>9. z \in [1 .. k -> X]
    BY <2>2, <2>6, <2>7
  <2> HIDE DEF z
  <2>10. IsInjective(z)
    <3>1. ASSUME NEW i \in 1 .. k, NEW j \in 1 .. k, z[i] = z[j] PROVE i = j
      <4>1. CASE i = k
        BY <4>1, <3>1, <2>7, <2>8
      <4>2. CASE j = k
        BY <4>2, <3>1, <2>7, <2>8
      <4>3. CASE i # k /\ j # k
        BY <4>3, <3>1, <2>6, <2>7, <2>8 DEF IsInjective
      <4> QED BY <4>1, <4>2, <4>3
    <3> QED BY <3>1, <2>8 DEF IsInjective
  <2>11. ASSUME NEW i \in 1 .. k, NEW j \in 1 .. k, i < j PROVE h[z[i]] >= h[z[j]]
    <3>1. i \in 1 .. k - 1
      BY <2>4, <2>11
    <3>2. CASE j = k
      <4>1. z[i] \in X /\ z[j] = m
        BY <3>2, <2>8, <2>9
      <4>2. h[z[i]] \in Nat /\ h[m] \in Nat
        BY <4>1, <2>2
      <4> QED BY <4>1, <4>2, <2>2
    <3>3. CASE j # k
      BY <3>1, <3>3, <2>6, <2>7, <2>8, <2>11
    <3> QED BY <3>2, <3>3
  <2>12. P(X)
    BY <2>8, <2>9, <2>10, <2>11, <1>4
  <2> QED BY <2>12, <1>4
<1> QED BY <1>5, <1>6

\* The orders of the loops: roots of a port, ports of a switch.
LEMMA RootsInOrder ==
  ASSUME NEW n \in Switch, NEW s \in State(n), NEW port, NEW q, q = ByLevel(s, port)
  PROVE  Len(q) \in Nat /\ \A i \in 1 .. Len(q) : q[i] \in Root
<1> DEFINE here == {r \in DOMAIN s.entries : port \in s.entries[r].ciq}
           h == [r \in here |-> s.entries[r].hop]
           Sorted(z) == /\ z \in [1 .. Cardinality(here) -> here]
                        /\ IsInjective(z) /\ \A i, j \in DOMAIN z : i < j => h[z[i]] >= h[z[j]]
           Level(z) == /\ z \in [1 .. Cardinality(here) -> here]
                       /\ IsInjective(z)
                       /\ \A i, j \in DOMAIN z : i < j => s.entries[z[i]].hop >= s.entries[z[j]].hop
<1>1. here \subseteq Root /\ \A r \in here : h[r] \in Nat
  BY EntryAt DEF Entry
<1>2. IsFiniteSet(here)
  <2>1. here \in SUBSET Root
    BY <1>1
  <2> HIDE DEF here
  <2> QED BY <2>1, Finite, FS_Subset
<1>3. \E z : Sorted(z)
  <2> HIDE DEF here, h
  <2> QED BY <1>1, <1>2, Enumeration
<1>4. \A z : Sorted(z) => Level(z)
  <2> SUFFICES ASSUME NEW z, Sorted(z) PROVE Level(z)
    OBVIOUS
  <2>1. \A i \in DOMAIN z : z[i] \in here /\ h[z[i]] = s.entries[z[i]].hop
    OBVIOUS
  <2> HIDE DEF h, here
  <2> QED BY <2>1
<1>5. q = CHOOSE z \in [1 .. Cardinality(here) -> here] :
        IsInjective(z) /\ \A i, j \in DOMAIN z : i < j => s.entries[z[i]].hop >= s.entries[z[j]].hop
  BY DEF ByLevel
<1>6. q \in [1 .. Cardinality(here) -> here]
  <2>1. \E z \in [1 .. Cardinality(here) -> here] :
          IsInjective(z) /\ \A i, j \in DOMAIN z : i < j => s.entries[z[i]].hop >= s.entries[z[j]].hop
    BY <1>3, <1>4
  <2> HIDE DEF here, h, Sorted, Level
  <2> QED BY <1>5, <2>1
<1>7. Cardinality(here) \in Nat
  <2> HIDE DEF here
  <2> QED BY <1>2, FS_CardinalityType
<1> HIDE DEF here
<1>8. q \in Seq(here)
  BY <1>6, <1>7
<1> QED BY <1>1, <1>8

LEMMA PortsInOrder ==
  ASSUME NEW n \in Switch
  PROVE  Len(Devices[n]) \in Nat /\ \A i \in 1 .. Len(Devices[n]) : Devices[n][i] \in PortOf[n]
<1> DEFINE S == PortOf[n]
           h == [x \in S |-> 0]
           q == Devices[n]
<1>1. q = CHOOSE f \in [1 .. Cardinality(S) -> S] : IsInjective(f)
  BY DEF Devices, SetToSeq
<1>2. IsFiniteSet(S) /\ \A x \in S : h[x] \in Nat
  BY Finite
<1> HIDE DEF S, q, h
<1>3. \E f \in [1 .. Cardinality(S) -> S] : IsInjective(f)
  BY <1>2, Enumeration
<1>4. q \in [1 .. Cardinality(S) -> S]
  BY <1>1, <1>3
<1>5. Cardinality(S) \in Nat
  BY <1>2, FS_CardinalityType
<1>6. q \in Seq(S)
  BY <1>4, <1>5
<1>7. Len(q) \in Nat /\ \A i \in 1 .. Len(q) : q[i] \in S
  BY <1>6
<1> QED BY <1>7 DEF S, q

\* The states a loop over the roots of order passes through.
Moving(g, s, n, port, order, k) ==
  g = [i \in 0 .. k |-> IF i = 0 THEN s ELSE MoveOne(g[i - 1], n, port, order[i])]

LEMMA Moves ==
  ASSUME NEW n, NEW s, NEW port, NEW order, NEW k \in Nat
  PROVE  \E g : Moving(g, s, n, port, order, k)
<1> DEFINE P(j) == \E g : Moving(g, s, n, port, order, j)
           T == {j \in Nat : ~ P(j)}
<1> SUFFICES ASSUME T # {} PROVE FALSE
  OBVIOUS
<1>1. PICK x \in T : \A y \in T : x <= y
  <2> HIDE DEF P
  <2> QED BY Smallest
<1>2. CASE x = 0
  <2> DEFINE g == [i \in 0 .. 0 |-> s]
  <2>1. Moving(g, s, n, port, order, 0)
    BY DEF Moving
  <2> QED BY <2>1, <1>1, <1>2
<1>3. CASE x # 0
  <2>1. x - 1 \in Nat /\ x - 1 \notin T
    <3> HIDE DEF P
    <3> QED BY <1>1, <1>3
  <2>2. PICK h : Moving(h, s, n, port, order, x - 1)
    BY <2>1
  <2> DEFINE g == [i \in 0 .. x |-> IF i = x THEN MoveOne(h[x - 1], n, port, order[x]) ELSE h[i]]
  <2>3. g = [i \in 0 .. x |-> IF i = 0 THEN s ELSE MoveOne(g[i - 1], n, port, order[i])]
    BY <2>1, <2>2, <1>3 DEF Moving
  <2>4. Moving(g, s, n, port, order, x)
    <3> HIDE DEF g
    <3> QED BY <2>3 DEF Moving
  <2> QED BY <2>4, <1>1
<1> QED BY <1>2, <1>3

LEMMA RoundOfPortSane ==
  ASSUME NEW n \in Switch, NEW before \in [PortOf[n] -> [Root -> BOOLEAN]],
         NEW s, Sane(s, n, before), NEW port \in PortOf[n], NEW idle
  PROVE  /\ Sane(RoundOfPort(s, n, port, idle), n, before)
         /\ RoundOfPort(s, n, port, idle).paused = s.paused
<1> DEFINE order == ByLevel(s, port)
           k == Len(order)
           A == CHOOSE g : g = [i \in 0 .. k |-> IF i = 0 THEN s ELSE MoveOne(g[i - 1], n, port, order[i])]
           T == {j \in 0 .. k : ~ (Sane(A[j], n, before) /\ A[j].paused = s.paused)}
           t == A[k]
           u == RoundOfPort(s, n, port, idle)
<1>0. s \in State(n)
  BY DEF Sane
<1>1. k \in Nat /\ \A i \in 1 .. k : order[i] \in Root
  BY <1>0, RootsInOrder
<1>2. A = [i \in 0 .. k |-> IF i = 0 THEN s ELSE MoveOne(A[i - 1], n, port, order[i])]
  <2> HIDE DEF order, k
  <2>1. \E g : g = [i \in 0 .. k |-> IF i = 0 THEN s ELSE MoveOne(g[i - 1], n, port, order[i])]
    <3>1. \E g : Moving(g, s, n, port, order, k)
      BY <1>1, Moves
    <3> QED BY <3>1 DEF Moving
  <2> QED BY <2>1
<1>3. u = IF idle /\ Len(t.oq[port]) > Len(s.oq[port]) THEN TransmitFrom(t, n, port) ELSE t
  BY DEF RoundOfPort
<1> HIDE DEF A, order, k, u
<1>4. T = {}
  <2> SUFFICES ASSUME T # {} PROVE FALSE
    OBVIOUS
  <2>1. PICK x \in T : \A y \in T : x <= y
    <3>1. T \subseteq Nat
      OBVIOUS
    <3> HIDE DEF T
    <3> QED BY <3>1, Smallest
  <2>2. CASE x = 0
    <3>1. A[0] = s
      BY <1>1, <1>2
    <3> QED BY <2>1, <2>2, <3>1
  <2>3. CASE x # 0
    <3>1. x - 1 \in 0 .. k /\ Sane(A[x - 1], n, before) /\ A[x - 1].paused = s.paused
      BY <2>1, <2>3, <1>1
    <3>2. A[x] = MoveOne(A[x - 1], n, port, order[x]) /\ order[x] \in Root
      BY <1>1, <1>2, <2>3
    <3>3. Sane(A[x], n, before) /\ A[x].paused = A[x - 1].paused
      BY <3>1, <3>2, MoveOneSane
    <3> QED BY <3>1, <3>3, <2>1
  <2> QED BY <2>2, <2>3
<1>5. Sane(t, n, before) /\ t.paused = s.paused
  BY <1>1, <1>4
<1> HIDE DEF t
<1>6. CASE idle /\ Len(t.oq[port]) > Len(s.oq[port])
  <2>1. s.oq[port] \in Seq(Leaving(n, port)) /\ t.oq[port] \in Seq(Leaving(n, port))
    BY <1>5 DEF Sane, InPlace
  <2>2. t.oq[port] # <<>>
    BY <2>1, <1>6
  <2>3. Sane(TransmitFrom(t, n, port), n, before) /\ TransmitFrom(t, n, port).paused = t.paused
    BY <1>5, <2>2, TransmitSane
  <2> QED BY <2>3, <1>3, <1>5, <1>6 DEF u
<1>7. CASE ~ (idle /\ Len(t.oq[port]) > Len(s.oq[port]))
  BY <1>3, <1>5, <1>7 DEF u
<1> QED BY <1>6, <1>7

\* The same over the ports.
Rounds(g, s, n, idle, k) ==
  g = [i \in 0 .. k |-> IF i = 0 THEN s
                        ELSE RoundOfPort(g[i - 1], n, Devices[n][i], Devices[n][i] \in idle)]

LEMMA RoundOn ==
  ASSUME NEW n, NEW s, NEW idle, NEW k \in Nat
  PROVE  \E g : Rounds(g, s, n, idle, k)
<1> DEFINE P(j) == \E g : Rounds(g, s, n, idle, j)
           T == {j \in Nat : ~ P(j)}
<1> SUFFICES ASSUME T # {} PROVE FALSE
  OBVIOUS
<1>1. PICK x \in T : \A y \in T : x <= y
  <2> HIDE DEF P
  <2> QED BY Smallest
<1>2. CASE x = 0
  <2> DEFINE g == [i \in 0 .. 0 |-> s]
  <2>1. Rounds(g, s, n, idle, 0)
    BY DEF Rounds
  <2> QED BY <2>1, <1>1, <1>2
<1>3. CASE x # 0
  <2>1. x - 1 \in Nat /\ x - 1 \notin T
    <3> HIDE DEF P
    <3> QED BY <1>1, <1>3
  <2>2. PICK h : Rounds(h, s, n, idle, x - 1)
    BY <2>1
  <2> DEFINE step(b, i) == RoundOfPort(b, n, Devices[n][i], Devices[n][i] \in idle)
             g == [i \in 0 .. x |-> IF i = x THEN step(h[x - 1], x) ELSE h[i]]
  <2>3. g = [i \in 0 .. x |-> IF i = 0 THEN s
                              ELSE RoundOfPort(g[i - 1], n, Devices[n][i], Devices[n][i] \in idle)]
    BY <2>1, <2>2, <1>3 DEF Rounds
  <2>4. Rounds(g, s, n, idle, x)
    <3> HIDE DEF g
    <3> QED BY <2>3 DEF Rounds
  <2> QED BY <2>4, <1>1
<1> QED BY <1>2, <1>3

LEMMA RoundSane ==
  ASSUME NEW n \in Switch, NEW before \in [PortOf[n] -> [Root -> BOOLEAN]],
         NEW s, Sane(s, n, before), NEW idle
  PROVE  Sane(Round(s, n, idle), n, before) /\ Round(s, n, idle).paused = s.paused
<1> DEFINE k == Len(Devices[n])
           A == CHOOSE g : g = [i \in 0 .. k |->
                  IF i = 0 THEN s ELSE RoundOfPort(g[i - 1], n, Devices[n][i], Devices[n][i] \in idle)]
           T == {j \in 0 .. k : ~ (Sane(A[j], n, before) /\ A[j].paused = s.paused)}
<1>1. k \in Nat /\ \A i \in 1 .. k : Devices[n][i] \in PortOf[n]
  BY PortsInOrder
<1>2. A = [i \in 0 .. k |->
             IF i = 0 THEN s ELSE RoundOfPort(A[i - 1], n, Devices[n][i], Devices[n][i] \in idle)]
  <2> HIDE DEF k
  <2>1. \E g : g = [i \in 0 .. k |->
          IF i = 0 THEN s ELSE RoundOfPort(g[i - 1], n, Devices[n][i], Devices[n][i] \in idle)]
    <3>1. \E g : Rounds(g, s, n, idle, k)
      BY <1>1, RoundOn
    <3> QED BY <3>1 DEF Rounds
  <2> QED BY <2>1
<1>3. Round(s, n, idle) = A[k]
  BY DEF Round
<1> HIDE DEF A, k
<1>4. T = {}
  <2> SUFFICES ASSUME T # {} PROVE FALSE
    OBVIOUS
  <2>1. PICK x \in T : \A y \in T : x <= y
    <3>1. T \subseteq Nat
      OBVIOUS
    <3> HIDE DEF T
    <3> QED BY <3>1, Smallest
  <2>2. CASE x = 0
    <3>1. A[0] = s
      BY <1>1, <1>2
    <3> QED BY <2>1, <2>2, <3>1
  <2>3. CASE x # 0
    <3>1. x - 1 \in 0 .. k /\ Sane(A[x - 1], n, before) /\ A[x - 1].paused = s.paused
      BY <2>1, <2>3, <1>1
    <3>2. PICK b : A[x] = RoundOfPort(A[x - 1], n, Devices[n][x], b)
      BY <1>1, <1>2, <2>3
    <3>3. Devices[n][x] \in PortOf[n]
      BY <1>1, <2>3
    <3>4. Sane(A[x], n, before) /\ A[x].paused = A[x - 1].paused
      BY <3>1, <3>2, <3>3, RoundOfPortSane
    <3> QED BY <3>1, <3>4, <2>1
  <2> QED BY <2>2, <2>3
<1> QED BY <1>1, <1>3, <1>4

-----------------------------------------------------------------------------
(* Signals come in *)

\* Control changes, packets stay where they are.
LEMMA ControlSane ==
  ASSUME NEW n \in Switch, NEW before \in [PortOf[n] -> [Root -> BOOLEAN]],
         NEW s, Sane(s, n, before), NEW t, t \in State(n),
         t.oq = s.oq, t.ciq = s.ciq, t.wire = s.wire, t.hier = s.hier,
         OnTree(t, n), Agree(t, n), Told(t, n, before),
         \A p, x : HasCIQ(s, x, p) => HasCIQ(t, x, p),
         \A x \in DOMAIN t.entries \cap DOMAIN s.entries : t.entries[x].counter = s.entries[x].counter,
         \A x \in DOMAIN t.entries \ DOMAIN s.entries : \A m \in PortOf[n] : t.entries[x].counter[m] = 0
  PROVE  Sane(t, n, before)
<1>1. InPlace(t, n) /\ Served(t, n)
  BY DEF InPlace, Served, Sane
<1>2. Counted(t, n)
  <2>1. \A x, m : Held(t, n, x, m) = Held(s, n, x, m)
    BY DEF Held
  <2>2. \A x \in Root, m \in PortOf[n] : IsFiniteSet(Held(t, n, x, m))
    BY <2>1 DEF Counted, Sane
  <2>3. ASSUME NEW x \in DOMAIN t.entries, NEW m \in PortOf[n]
        PROVE  t.entries[x].counter[m] = Cardinality(Held(t, n, x, m))
    <3>1. CASE x \in DOMAIN s.entries
      BY <3>1, <2>1 DEF Counted, Sane
    <3>2. CASE x \notin DOMAIN s.entries
      <4>1. x \in Root
        BY EntryAt
      <4>2. \A p \in PortOf[n] : s.ciq[p][x] = <<>>
        BY <3>2, <4>1 DEF Sane, Served, HasCIQ
      <4>3. \A z : z \notin Held(s, n, x, m)
        BY <4>2, HeldAt
      <4>4. Held(t, n, x, m) = {}
        BY <4>3, <2>1
      <4>5. Cardinality(Held(t, n, x, m)) = 0
        BY <4>4, FS_EmptySet
      <4> QED BY <4>5, <3>2
    <3> QED BY <3>1, <3>2
  <2> QED BY <2>2, <2>3 DEF Counted
<1> QED BY <1>1, <1>2 DEF Sane

\* The switch has a CIQ for root r at port in, with status v.
Joined(s, t, n, in, r, v) ==
  /\ t \in State(n)
  /\ DOMAIN t.entries = DOMAIN s.entries \cup {r}
  /\ \A x \in DOMAIN s.entries \ {r} : t.entries[x] = s.entries[x]
  /\ t.entries[r].hop = Dist[n][r]
  /\ IF r \in DOMAIN s.entries
       THEN /\ t.entries[r].ciq = s.entries[r].ciq \cup {in}
            /\ t.entries[r].status = [s.entries[r].status EXCEPT ![in] = v]
            /\ t.entries[r].child = s.entries[r].child
            /\ t.entries[r].counter = s.entries[r].counter
       ELSE /\ t.entries[r].ciq = {in}
            /\ \A p \in PortOf[n] : t.entries[r].status[p] = IF p = in THEN v ELSE "INITIAL"
            /\ t.entries[r].child = Empty
            /\ \A p \in PortOf[n] : t.entries[r].counter[p] = 0
  /\ t.paused = [s.paused EXCEPT ![in] = IF v = "PAUSE" THEN @ \cup {r} ELSE @ \ {r}]
  /\ t.rootChild = s.rootChild /\ t.oq = s.oq /\ t.ciq = s.ciq
  /\ t.hier = s.hier /\ t.hol = s.hol /\ t.wire = s.wire /\ t.ctrl = s.ctrl

LEMMA JoinedSane ==
  ASSUME NEW n \in Switch, NEW before \in [PortOf[n] -> [Root -> BOOLEAN]],
         NEW s, Sane(s, n, before), NEW t, NEW in, NEW r, NEW v \in {"PAUSE", "RESUME"},
         <<n, in, r>> \in Tree, Joined(s, t, n, in, r, v)
  PROVE  Sane(t, n, before)
<1>1. s \in State(n) /\ t \in State(n)
  BY DEF Sane, Joined
<1>2. /\ in \in Switch /\ r \in Root /\ in \in PortOf[n] /\ Dist[n][r] > 0
      /\ r \in DOMAIN t.entries /\ t.entries[r] \in Entry(n)
  BY <1>1, InTree, EntryAt DEF Joined
<1>3. r[1] # n
  BY <1>2, RootEnds
<1>4. s.paused \in [PortOf[n] -> SUBSET Root]
  BY <1>1, StateOf
<1>5. \A p, x : HasCIQ(t, x, p) <=> HasCIQ(s, x, p) \/ (x = r /\ p = in)
  <2>1. ASSUME NEW p, NEW x PROVE HasCIQ(t, x, p) <=> HasCIQ(s, x, p) \/ (x = r /\ p = in)
    <3>1. CASE x # r
      BY <3>1 DEF Joined, HasCIQ
    <3>2. CASE x = r /\ r \in DOMAIN s.entries
      BY <3>2 DEF Joined, HasCIQ
    <3>3. CASE x = r /\ r \notin DOMAIN s.entries
      BY <3>3 DEF Joined, HasCIQ
    <3> QED BY <3>1, <3>2, <3>3
  <2> QED BY <2>1
<1>6. OnTree(t, n)
  <2>1. ASSUME NEW x \in DOMAIN t.entries
        PROVE  /\ t.entries[x].hop = Dist[n][x] /\ Dist[n][x] > 0
               /\ \A p \in t.entries[x].ciq : <<n, p, x>> \in Tree
               /\ \A p \in DOMAIN t.entries[x].child : <<p, n, x>> \in Tree
    <3>1. x \in DOMAIN s.entries =>
            /\ s.entries[x].hop = Dist[n][x] /\ Dist[n][x] > 0
            /\ \A p \in s.entries[x].ciq : <<n, p, x>> \in Tree
            /\ \A p \in DOMAIN s.entries[x].child : <<p, n, x>> \in Tree
      BY DEF Sane, OnTree
    <3>2. CASE x # r
      <4>1. x \in DOMAIN s.entries /\ t.entries[x] = s.entries[x]
        BY <3>2 DEF Joined
      <4> QED BY <4>1, <3>1
    <3>3. CASE x = r /\ r \in DOMAIN s.entries
      <4>1. /\ t.entries[r].hop = Dist[n][r] /\ t.entries[r].ciq = s.entries[r].ciq \cup {in}
            /\ t.entries[r].child = s.entries[r].child
        BY <3>3 DEF Joined
      <4> QED BY <4>1, <3>1, <3>3
    <3>4. CASE x = r /\ r \notin DOMAIN s.entries
      <4>1. /\ t.entries[r].hop = Dist[n][r] /\ t.entries[r].ciq = {in}
            /\ t.entries[r].child = Empty
        BY <3>4 DEF Joined
      <4> QED BY <4>1, <1>2, <3>4, EmptyChild
    <3> QED BY <3>2, <3>3, <3>4
  <2>2. t.rootChild = s.rootChild /\ t.ctrl = s.ctrl
    BY DEF Joined
  <2> QED BY <2>1, <2>2 DEF OnTree, Sane
<1>7. Agree(t, n)
  <2>1. ASSUME NEW p \in PortOf[n], NEW x \in Root
        PROVE  x \in t.paused[p] <=> HasCIQ(t, x, p) /\ t.entries[x].status[p] = "PAUSE"
    <3>1. x \in s.paused[p] <=> HasCIQ(s, x, p) /\ s.entries[x].status[p] = "PAUSE"
      BY DEF Sane, Agree
    <3>2. t.paused = [s.paused EXCEPT ![in] = IF v = "PAUSE" THEN @ \cup {r} ELSE @ \ {r}]
      BY DEF Joined
    <3>3. CASE x = r /\ p = in
      <4>1. t.entries[r].status[in] = v
        <5>1. CASE r \in DOMAIN s.entries
          <6>1. s.entries[r].status \in [PortOf[n] -> Status]
            BY <1>1, <5>1, EntryAt DEF Entry
          <6>2. t.entries[r].status = [s.entries[r].status EXCEPT ![in] = v]
            BY <5>1 DEF Joined
          <6> QED BY <6>1, <6>2, <1>2
        <5>2. CASE r \notin DOMAIN s.entries
          BY <5>2, <1>2 DEF Joined
        <5> QED BY <5>1, <5>2
      <4>2. x \in t.paused[p] <=> v = "PAUSE"
        BY <3>2, <3>3, <1>2, <1>4
      <4> QED BY <4>1, <4>2, <3>3, <1>5
    <3>4. CASE ~ (x = r /\ p = in)
      <4>1. x \in t.paused[p] <=> x \in s.paused[p]
        BY <3>2, <3>4, <1>2, <1>4
      <4>2. ASSUME HasCIQ(s, x, p) PROVE t.entries[x].status[p] = s.entries[x].status[p]
        <5>1. CASE x # r
          BY <5>1, <4>2 DEF HasCIQ, Joined
        <5>2. CASE x = r
          <6>1. r \in DOMAIN s.entries
            BY <5>2, <4>2 DEF HasCIQ
          <6>2. s.entries[r].status \in [PortOf[n] -> Status]
            BY <1>1, <6>1, EntryAt DEF Entry
          <6>3. t.entries[r].status = [s.entries[r].status EXCEPT ![in] = v]
            BY <6>1 DEF Joined
          <6> QED BY <6>2, <6>3, <5>2, <3>4
        <5> QED BY <5>1, <5>2
      <4> QED BY <4>1, <4>2, <3>1, <3>4, <1>5
    <3> QED BY <3>3, <3>4
  <2> QED BY <2>1 DEF Agree
<1>8. Told(t, n, before)
  <2>1. ASSUME NEW up \in PortOf[n], NEW x \in Root
        PROVE  RecordedIn(t, n, up, x) <=> RecordedIn(s, n, up, x)
    <3>1. t.rootChild = s.rootChild
      BY DEF Joined
    <3>2. CASE x # r
      <4>1. x \in DOMAIN t.entries <=> x \in DOMAIN s.entries
        BY <3>2 DEF Joined
      <4>2. x \in DOMAIN s.entries => t.entries[x] = s.entries[x]
        BY <3>2 DEF Joined
      <4> QED BY <3>1, <4>1, <4>2 DEF RecordedIn
    <3>3. CASE x = r /\ r \in DOMAIN s.entries
      <4>1. t.entries[r].child = s.entries[r].child
        BY <3>3 DEF Joined
      <4> QED BY <4>1, <3>3, <1>2, <1>3 DEF RecordedIn
    <3>4. CASE x = r /\ r \notin DOMAIN s.entries
      <4>1. t.entries[r].child = Empty
        BY <3>4 DEF Joined
      <4>2. ~ IsTrue(t.entries[r].child, up)
        BY <4>1, EmptyChild
      <4> QED BY <4>2, <3>4, <1>2, <1>3 DEF RecordedIn
    <3> QED BY <3>2, <3>3, <3>4
  <2>2. t.ctrl = s.ctrl
    BY DEF Joined
  <2> QED BY <2>1, <2>2 DEF Told, Sane
<1>9. \A x \in DOMAIN t.entries \cap DOMAIN s.entries : t.entries[x].counter = s.entries[x].counter
  BY DEF Joined
<1>10. \A x \in DOMAIN t.entries \ DOMAIN s.entries : \A m \in PortOf[n] : t.entries[x].counter[m] = 0
  BY DEF Joined
<1>11. t.oq = s.oq /\ t.ciq = s.ciq /\ t.wire = s.wire /\ t.hier = s.hier
  BY DEF Joined
<1> QED BY <1>1, <1>5, <1>6, <1>7, <1>8, <1>9, <1>10, <1>11, ControlSane

\* Register, up to the status: a CIQ for root r at port in.
Registered(s, q, n, in, r) ==
  /\ q \in State(n)
  /\ DOMAIN q.entries = DOMAIN s.entries \cup {r}
  /\ \A x \in DOMAIN s.entries \ {r} : q.entries[x] = s.entries[x]
  /\ q.entries[r].hop = Dist[n][r]
  /\ IF r \in DOMAIN s.entries
       THEN /\ q.entries[r].ciq = s.entries[r].ciq \cup {in}
            /\ q.entries[r].status = s.entries[r].status
            /\ q.entries[r].child = s.entries[r].child
            /\ q.entries[r].counter = s.entries[r].counter
       ELSE /\ q.entries[r].ciq = {in}
            /\ \A p \in PortOf[n] : q.entries[r].status[p] = "INITIAL"
            /\ q.entries[r].child = Empty
            /\ \A p \in PortOf[n] : q.entries[r].counter[p] = 0
  /\ q.paused = s.paused /\ q.rootChild = s.rootChild /\ q.oq = s.oq /\ q.ciq = s.ciq
  /\ q.hier = s.hier /\ q.hol = s.hol /\ q.wire = s.wire /\ q.ctrl = s.ctrl

LEMMA RegisterCIQ ==
  ASSUME NEW n \in Switch, NEW s \in State(n), NEW in \in PortOf[n], NEW sig,
         sig.root \in Root, Dist[n][sig.root] \in Nat,
         sig.root \in DOMAIN s.entries => s.entries[sig.root].hop = Dist[n][sig.root],
         sig.root \notin DOMAIN s.entries => sig.hop = Dist[n][sig.root]
  PROVE  Registered(s, Register(s, n, in, sig), n, in, sig.root)
<1> DEFINE r == sig.root
           known == r \in DOMAIN s.entries
           new == NewEntry(n, sig.hop)
           E0 == IF known THEN s.entries ELSE Assign(s.entries, r, new)
           f == [E0[r] EXCEPT !.ciq = E0[r].ciq \cup {in}]
           E == [E0 EXCEPT ![r] = f]
           q == Register(s, n, in, sig)
<1>1. s.entries \in Entries(n)
  BY StateOf
<1>2. ASSUME ~ known
      PROVE  /\ new \in Entry(n) /\ new.hop = Dist[n][r] /\ new.ciq = {} /\ new.child = Empty
             /\ \A p \in PortOf[n] : new.status[p] = "INITIAL" /\ new.counter[p] = 0
  <2>1. sig.hop = Dist[n][r]
    BY <1>2
  <2>2. Empty \in Children(n)
    BY EmptyChild
  <2> QED BY <2>1, <2>2 DEF NewEntry, Entry, Status
<1> HIDE DEF new
<1>3. /\ E0 \in Entries(n) /\ DOMAIN E0 = DOMAIN s.entries \cup {r}
      /\ \A x \in DOMAIN s.entries \ {r} : E0[x] = s.entries[x]
      /\ E0[r] = IF known THEN s.entries[r] ELSE new
  <2>1. CASE known
    BY <2>1, <1>1
  <2>2. CASE ~ known
    <3>1. E0 = [x \in DOMAIN s.entries \cup {r} |-> IF x = r THEN new ELSE s.entries[x]]
      BY <2>2 DEF Assign
    <3>2. Assign(s.entries, r, new) \in Entries(n)
      BY <2>2, <1>1, <1>2, EntryPut
    <3>3. E0 = Assign(s.entries, r, new)
      BY <2>2
    <3>4. E0[r] = new
      BY <3>1
    <3> QED BY <3>1, <3>2, <3>3, <3>4, <2>2
  <2> QED BY <2>1, <2>2
<1>4. q = [s EXCEPT !.entries = E]
  <2>1. CASE known
    BY <2>1 DEF Register
  <2>2. CASE ~ known
    <3> DEFINE t == [s EXCEPT !.entries = Assign(@, r, new)]
    <3>1. q = [t EXCEPT !.entries[r].ciq = @ \cup {in}]
      BY <2>2 DEF Register, new
    <3>2. t \in [DOMAIN s -> UNION {{t[x]} : x \in DOMAIN s}] /\ DOMAIN t = DOMAIN s
      OBVIOUS
    <3>3. t.entries = E0
      BY <2>2, StateOf
    <3>4. q = [t EXCEPT !.entries = E]
      BY <3>1, <3>3
    <3>5. [t EXCEPT !.entries = E] = [s EXCEPT !.entries = E]
      <4> HIDE DEF E, E0
      <4> QED OBVIOUS
    <3> QED BY <3>4, <3>5
  <2> QED BY <2>1, <2>2
<1> HIDE DEF E0
<1>5. E0[r] \in Entry(n)
  BY <1>3, EntryMap
<1>6. /\ f \in Entry(n) /\ f.hop = E0[r].hop /\ f.ciq = E0[r].ciq \cup {in}
      /\ f.status = E0[r].status /\ f.child = E0[r].child /\ f.counter = E0[r].counter
  BY <1>5 DEF Entry
<1>7. E \in Entries(n) /\ DOMAIN E = DOMAIN s.entries \cup {r} /\ E[r] = f
      /\ \A x \in DOMAIN s.entries \ {r} : E[x] = s.entries[x]
  <2> HIDE DEF f
  <2> QED BY <1>3, <1>6, EntryPut
<1> HIDE DEF E, f, q
<1>8. /\ q \in State(n) /\ q.entries = E /\ q.rootChild = s.rootChild /\ q.oq = s.oq /\ q.ciq = s.ciq
      /\ q.paused = s.paused /\ q.hier = s.hier /\ q.hol = s.hol /\ q.wire = s.wire /\ q.ctrl = s.ctrl
  BY <1>4, <1>7, StateOf
<1>9. CASE known
  <2>1. E0[r] = s.entries[r] /\ s.entries[r].hop = Dist[n][r]
    BY <1>3, <1>9
  <2> QED BY <2>1, <1>6, <1>7, <1>8, <1>9 DEF Registered, q
<1>10. CASE ~ known
  <2>1. E0[r] = new
    BY <1>3, <1>10
  <2> QED BY <2>1, <1>2, <1>6, <1>7, <1>8, <1>10 DEF Registered, q
<1> QED BY <1>9, <1>10

\* The status of a CIQ and the pause of the device are set together.
StatusPut(q, t, in, r, v) ==
  t = [q EXCEPT !.entries[r].status[in] = v,
                !.paused[in] = IF v = "PAUSE" THEN @ \cup {r} ELSE @ \ {r}]

LEMMA StatusJoins ==
  ASSUME NEW n \in Switch, NEW s \in State(n), NEW q, NEW in \in PortOf[n], NEW r \in Root,
         NEW v \in {"PAUSE", "RESUME"}, Registered(s, q, n, in, r), NEW t,
         StatusPut(q, t, in, r, v)
  PROVE  Joined(s, t, n, in, r, v)
<1> DEFINE e == q.entries[r]
           S == [e.status EXCEPT ![in] = v]
           f == [e EXCEPT !.status = S]
           E == [q.entries EXCEPT ![r] = f]
           P == IF v = "PAUSE" THEN q.paused[in] \cup {r} ELSE q.paused[in] \ {r}
           A == [q.paused EXCEPT ![in] = P]
<1>1. q \in State(n) /\ r \in DOMAIN q.entries /\ q.paused = s.paused
  BY DEF Registered
<1>2. q.entries \in Entries(n) /\ e \in Entry(n) /\ q.paused \in [PortOf[n] -> SUBSET Root]
  BY <1>1, StateOf, EntryAt
<1>3. S \in [PortOf[n] -> Status] /\ S[in] = v /\ \A p \in PortOf[n] : p # in => S[p] = e.status[p]
  <2>1. e.status \in [PortOf[n] -> Status] /\ v \in Status
    BY <1>2 DEF Entry, Status
  <2> HIDE DEF e
  <2> QED BY <2>1
<1>4. t = [q EXCEPT !.entries = E, !.paused = A]
  BY DEF StatusPut
<1>5. /\ f \in Entry(n) /\ f.hop = e.hop /\ f.ciq = e.ciq
      /\ f.status = S /\ f.child = e.child /\ f.counter = e.counter
  <2> HIDE DEF S
  <2> QED BY <1>2, <1>3 DEF Entry
<1>6. E \in Entries(n) /\ DOMAIN E = DOMAIN q.entries /\ E[r] = f
      /\ \A x \in DOMAIN q.entries \ {r} : E[x] = q.entries[x]
  <2> HIDE DEF f
  <2> QED BY <1>1, <1>2, <1>5, EntryPut
<1>7. A \in [PortOf[n] -> SUBSET Root]
      /\ A = [s.paused EXCEPT ![in] = IF v = "PAUSE" THEN @ \cup {r} ELSE @ \ {r}]
  <2>1. P \in SUBSET Root
    BY <1>1, <1>2
  <2> QED BY <2>1, <1>1, <1>2
<1> HIDE DEF E, f, A
<1>8. /\ t \in State(n) /\ t.entries = E /\ t.rootChild = q.rootChild /\ t.oq = q.oq /\ t.ciq = q.ciq
      /\ t.paused = A /\ t.hier = q.hier /\ t.hol = q.hol /\ t.wire = q.wire /\ t.ctrl = q.ctrl
  BY <1>1, <1>4, <1>6, <1>7, StateOf
<1>9. /\ t.rootChild = s.rootChild /\ t.oq = s.oq /\ t.ciq = s.ciq
      /\ t.hier = s.hier /\ t.hol = s.hol /\ t.wire = s.wire /\ t.ctrl = s.ctrl
  BY <1>8 DEF Registered
<1>10. /\ DOMAIN t.entries = DOMAIN s.entries \cup {r}
       /\ \A x \in DOMAIN s.entries \ {r} : t.entries[x] = s.entries[x]
       /\ t.entries[r].hop = Dist[n][r]
  BY <1>5, <1>6, <1>8 DEF Registered
<1>11. CASE r \in DOMAIN s.entries
  <2>1. /\ e.ciq = s.entries[r].ciq \cup {in} /\ e.status = s.entries[r].status
        /\ e.child = s.entries[r].child /\ e.counter = s.entries[r].counter
    BY <1>11 DEF Registered
  <2> QED BY <2>1, <1>5, <1>6, <1>7, <1>8, <1>9, <1>10, <1>11 DEF Joined
<1>12. CASE r \notin DOMAIN s.entries
  <2>1. /\ e.ciq = {in} /\ e.child = Empty
        /\ \A p \in PortOf[n] : e.status[p] = "INITIAL" /\ e.counter[p] = 0
    BY <1>12 DEF Registered
  <2> HIDE DEF e, S
  <2> QED BY <2>1, <1>3, <1>5, <1>6, <1>7, <1>8, <1>9, <1>10, <1>12 DEF Joined
<1> QED BY <1>11, <1>12

\* The devices of ports change from root old, met at port in, to root r.
Merged(s, t, n, in, r, old, ports) ==
  /\ t \in State(n)
  /\ DOMAIN t.entries = DOMAIN s.entries
  /\ \A x \in DOMAIN s.entries :
       /\ t.entries[x].hop = s.entries[x].hop /\ t.entries[x].ciq = s.entries[x].ciq
       /\ t.entries[x].counter = s.entries[x].counter
       /\ x # old => t.entries[x].status = s.entries[x].status
       /\ x # old /\ x # r => t.entries[x].child = s.entries[x].child
  /\ DOMAIN t.entries[r].child = ports \cup DOMAIN s.entries[r].child
  /\ \A p : IsTrue(t.entries[r].child, p) <=> p \notin ports /\ IsTrue(s.entries[r].child, p)
  /\ old \in DOMAIN s.entries =>
       /\ t.entries[old].child = Empty
       /\ t.entries[old].status = [s.entries[old].status EXCEPT ![in] = "MERGE"]
  /\ \A p \in PortOf[n] :
       /\ t.rootChild[p] = IF old = <<n, p>> THEN Empty ELSE s.rootChild[p]
       /\ t.paused[p] = IF p = in THEN s.paused[p] \ {old} ELSE s.paused[p]
       /\ t.ctrl[p] = IF p \in ports THEN Append(s.ctrl[p], Merge(r, s.entries[r].hop + 1, old))
                                     ELSE s.ctrl[p]
  /\ t.oq = s.oq /\ t.ciq = s.ciq /\ t.hier = s.hier /\ t.wire = s.wire

\* Why the devices may: n learns at port in of root r, and in leads to old.
MayMerge(s, n, in, r, old, ports) ==
  /\ <<n, in, r>> \in Tree /\ r \in DOMAIN s.entries
  /\ old \in Root /\ old # r /\ old \notin UpPort
  /\ old = <<n, in>> \/ <<n, in, old>> \in Tree
  /\ \A p \in ports : <<p, n, old>> \in Tree
  /\ \A up \in PortOf[n] : RecordedIn(s, n, up, old) => up \in ports

LEMMA MergeSignal ==
  ASSUME NEW n \in Switch, NEW s, OnTree(s, n), NEW in, NEW r, NEW old, NEW ports,
         MayMerge(s, n, in, r, old, ports), NEW p \in ports
  PROVE  /\ <<p, n, r>> \in Tree
         /\ Merge(r, s.entries[r].hop + 1, old) \in SignalOn(n, p)
<1>1. <<p, n, old>> \in Tree /\ <<n, in, r>> \in Tree /\ old \notin UpPort
      /\ (old = <<n, in>> \/ <<n, in, old>> \in Tree)
  BY DEF MayMerge
<1>2. <<p, n, r>> \in Tree
  <2>1. <<p, n, old>>[1] = p /\ <<p, n, old>>[2] = n /\ <<p, n, old>>[3] = old
    OBVIOUS
  <2>2. <<n, in, r>>[1] = n /\ <<n, in, r>>[2] = in /\ <<n, in, r>>[3] = r
    OBVIOUS
  <2> DEFINE a == <<p, n, old>>
             b == <<n, in, r>>
  <2>3. /\ a \in Tree /\ b \in Tree /\ a[2] = b[1] /\ a[3] \notin UpPort
        /\ (a[3] = <<b[1], b[2]>> \/ <<b[1], b[2], a[3]>> \in Tree)
    BY <1>1, <2>1, <2>2
  <2>4. <<a[1], a[2], b[3]>> \in Tree
    <3> HIDE DEF a, b
    <3> QED BY <2>3, EqualCost
  <2> QED BY <2>1, <2>2, <2>4
<1>3. s.entries[r].hop = Dist[n][r] /\ r \in Root /\ old \in Root /\ old # r
  <2>1. r \in DOMAIN s.entries /\ old \in Root /\ old # r
    BY DEF MayMerge
  <2>2. r \in Root
    BY <1>1, InTree
  <2> QED BY <2>1, <2>2 DEF OnTree
<1>4. Dist[n][r] + 1 \in Nat
  BY <1>3, EqualCost
<1> DEFINE i == Merge(r, Dist[n][r] + 1, old)
<1>5. i \in Signal
  BY <1>3, <1>4 DEF Signal, Merge
<1>6. i.kind = "MERGE" /\ i.root = r /\ i.old = old /\ i.hop = Dist[n][r] + 1
  BY DEF Merge
<1> HIDE DEF i
<1>7. i \in SignalOn(n, p)
  BY <1>1, <1>2, <1>3, <1>5, <1>6 DEF SignalOn
<1> QED BY <1>2, <1>3, <1>7 DEF i

LEMMA MergedSane ==
  ASSUME NEW n \in Switch, NEW before \in [PortOf[n] -> [Root -> BOOLEAN]],
         NEW s, Sane(s, n, before), NEW t, NEW in, NEW r, NEW old, NEW ports,
         MayMerge(s, n, in, r, old, ports), Merged(s, t, n, in, r, old, ports)
  PROVE  Sane(t, n, before)
<1>1. s \in State(n) /\ t \in State(n) /\ OnTree(s, n)
  BY DEF Sane, Merged
<1>2. /\ in \in PortOf[n] /\ r \in Root /\ r[1] # n /\ r \in DOMAIN s.entries
      /\ old \in Root /\ old # r
  <2>1. <<n, in, r>> \in Tree /\ r \in DOMAIN s.entries /\ old \in Root /\ old # r
    BY DEF MayMerge
  <2>2. in \in PortOf[n] /\ r \in Root /\ Dist[n][r] > 0
    <3>1. in \in PortOf[n] /\ r \in Root
      BY <2>1, InTree
    <3> QED BY <3>1, <2>1, <1>1 DEF OnTree
  <2> QED BY <2>1, <2>2, RootEnds
<1> DEFINE i == Merge(r, s.entries[r].hop + 1, old)
<1>3. \A p \in ports : <<p, n, r>> \in Tree /\ i \in SignalOn(n, p)
  BY <1>1, MergeSignal
<1>4. \A x, b : b \in BOOLEAN => (Obeyed(i, x, b) <=> b /\ x # r /\ x # old)
  BY DEF Obeyed, Pauses, Resumes, Merge
<1> HIDE DEF i
<1>5. \A p \in PortOf[n] :
         /\ t.rootChild[p] = IF old = <<n, p>> THEN Empty ELSE s.rootChild[p]
         /\ t.paused[p] = IF p = in THEN s.paused[p] \ {old} ELSE s.paused[p]
         /\ t.ctrl[p] = IF p \in ports THEN Append(s.ctrl[p], i) ELSE s.ctrl[p]
  BY DEF Merged, i
<1>6. OnTree(t, n)
  <2>1. ASSUME NEW x \in DOMAIN t.entries
        PROVE  /\ t.entries[x].hop = Dist[n][x] /\ Dist[n][x] > 0
               /\ \A p \in t.entries[x].ciq : <<n, p, x>> \in Tree
               /\ \A p \in DOMAIN t.entries[x].child : <<p, n, x>> \in Tree
    <3>1. x \in DOMAIN s.entries /\ t.entries[x].hop = s.entries[x].hop
          /\ t.entries[x].ciq = s.entries[x].ciq
      BY DEF Merged
    <3>2. /\ s.entries[x].hop = Dist[n][x] /\ Dist[n][x] > 0
          /\ \A p \in s.entries[x].ciq : <<n, p, x>> \in Tree
          /\ \A p \in DOMAIN s.entries[x].child : <<p, n, x>> \in Tree
      BY <3>1, <1>1 DEF OnTree
    <3>3. ASSUME NEW p \in DOMAIN t.entries[x].child PROVE <<p, n, x>> \in Tree
      <4>1. CASE x = r
        <5>1. p \in ports \cup DOMAIN s.entries[r].child
          BY <4>1, <3>3 DEF Merged
        <5> QED BY <5>1, <4>1, <3>2, <1>3
      <4>2. CASE x = old
        <5>1. t.entries[x].child = Empty
          BY <4>2, <3>1 DEF Merged
        <5> QED BY <5>1, <3>3, EmptyChild
      <4>3. CASE x # r /\ x # old
        <5>1. t.entries[x].child = s.entries[x].child
          BY <4>3, <3>1 DEF Merged
        <5> QED BY <5>1, <3>2, <3>3
      <4> QED BY <4>1, <4>2, <4>3
    <3> QED BY <3>1, <3>2, <3>3
  <2>2. ASSUME NEW p \in PortOf[n]
        PROVE  /\ \A q \in DOMAIN t.rootChild[p] : <<q, n, <<n, p>>>> \in Tree
               /\ t.ctrl[p] \in Seq(SignalOn(n, p))
    <3>1. /\ \A q \in DOMAIN s.rootChild[p] : <<q, n, <<n, p>>>> \in Tree
          /\ s.ctrl[p] \in Seq(SignalOn(n, p))
      BY <1>1 DEF OnTree
    <3>2. \A q \in DOMAIN t.rootChild[p] : <<q, n, <<n, p>>>> \in Tree
      <4>1. t.rootChild[p] = Empty \/ t.rootChild[p] = s.rootChild[p]
        BY <1>5
      <4> QED BY <4>1, <3>1, EmptyChild
    <3>3. t.ctrl[p] = s.ctrl[p] \/ (i \in SignalOn(n, p) /\ t.ctrl[p] = Append(s.ctrl[p], i))
      BY <1>3, <1>5
    <3> QED BY <3>1, <3>2, <3>3
  <2> QED BY <2>1, <2>2 DEF OnTree
<1>7. Agree(t, n)
  <2>1. ASSUME NEW p \in PortOf[n], NEW x \in Root
        PROVE  x \in t.paused[p] <=> HasCIQ(t, x, p) /\ t.entries[x].status[p] = "PAUSE"
    <3>1. x \in s.paused[p] <=> HasCIQ(s, x, p) /\ s.entries[x].status[p] = "PAUSE"
      BY DEF Sane, Agree
    <3>2. HasCIQ(t, x, p) <=> HasCIQ(s, x, p)
      BY DEF HasCIQ, Merged
    <3>3. CASE x # old
      <4>1. HasCIQ(s, x, p) => t.entries[x].status = s.entries[x].status
        BY <3>3 DEF HasCIQ, Merged
      <4> QED BY <4>1, <3>1, <3>2, <3>3, <1>5
    <3>4. CASE x = old
      <4>1. ASSUME HasCIQ(s, x, p)
            PROVE  t.entries[x].status[p] = IF p = in THEN "MERGE" ELSE s.entries[x].status[p]
        <5>1. old \in DOMAIN s.entries
          BY <4>1, <3>4 DEF HasCIQ
        <5>2. t.entries[old].status = [s.entries[old].status EXCEPT ![in] = "MERGE"]
          BY <5>1 DEF Merged
        <5>3. s.entries[old].status \in [PortOf[n] -> Status]
          BY <5>1, <1>1, EntryAt DEF Entry
        <5> QED BY <5>2, <5>3, <3>4
      <4>2. x \in t.paused[p] <=> p # in /\ x \in s.paused[p]
        BY <3>4, <1>5
      <4> QED BY <4>1, <4>2, <3>1, <3>2
    <3> QED BY <3>3, <3>4
  <2> QED BY <2>1 DEF Agree
<1>8. Told(t, n, before)
  <2>1. ASSUME NEW up \in PortOf[n], NEW x \in Root, x # r, x # old
        PROVE  RecordedIn(t, n, up, x) <=> RecordedIn(s, n, up, x)
    <3>1. CASE x[1] = n
      <4>1. x[2] \in PortOf[n] /\ x = <<n, x[2]>>
        BY <3>1, RootEnds
      <4>2. t.rootChild[x[2]] = s.rootChild[x[2]]
        BY <4>1, <2>1, <1>5
      <4> QED BY <4>2, <3>1 DEF RecordedIn
    <3>2. CASE x[1] # n
      <4>1. x \in DOMAIN t.entries <=> x \in DOMAIN s.entries
        BY DEF Merged
      <4>2. x \in DOMAIN s.entries => t.entries[x].child = s.entries[x].child
        BY <2>1 DEF Merged
      <4> QED BY <4>1, <4>2, <3>2 DEF RecordedIn
    <3> QED BY <3>1, <3>2
  <2>2. ASSUME NEW up \in PortOf[n]
        PROVE  RecordedIn(t, n, up, r) <=> up \notin ports /\ RecordedIn(s, n, up, r)
    <3>1. r \in DOMAIN t.entries
      BY <1>2 DEF Merged
    <3>2. IsTrue(t.entries[r].child, up) <=> up \notin ports /\ IsTrue(s.entries[r].child, up)
      BY DEF Merged
    <3> QED BY <3>1, <3>2, <1>2 DEF RecordedIn
  <2>3. ASSUME NEW up \in PortOf[n] PROVE ~ RecordedIn(t, n, up, old)
    <3>1. CASE old[1] = n
      <4>1. old[2] \in PortOf[n] /\ old = <<n, old[2]>>
        BY <3>1, <1>2, RootEnds
      <4>2. t.rootChild[old[2]] = Empty
        BY <4>1, <1>5
      <4>3. ~ IsTrue(t.rootChild[old[2]], up)
        BY <4>2, EmptyChild
      <4> QED BY <4>3, <3>1 DEF RecordedIn
    <3>2. CASE old[1] # n
      <4>1. ASSUME old \in DOMAIN t.entries PROVE ~ IsTrue(t.entries[old].child, up)
        <5>1. t.entries[old].child = Empty
          BY <4>1 DEF Merged
        <5> QED BY <5>1, EmptyChild
      <4> QED BY <4>1, <3>2 DEF RecordedIn
    <3> QED BY <3>1, <3>2
  <2>4. ASSUME NEW up \in PortOf[n]
        PROVE \/ /\ t.ctrl[up] = s.ctrl[up]
                 /\ \A x \in Root : RecordedIn(t, n, up, x) <=> RecordedIn(s, n, up, x)
              \/ \E j \in Signal :
                   /\ t.ctrl[up] = Append(s.ctrl[up], j)
                   /\ \A x \in Root : RecordedIn(t, n, up, x) <=> Obeyed(j, x, RecordedIn(s, n, up, x))
    <3>1. CASE up \notin ports
      <4>1. ~ RecordedIn(s, n, up, old)
        BY <3>1 DEF MayMerge
      <4>2. \A x \in Root : RecordedIn(t, n, up, x) <=> RecordedIn(s, n, up, x)
        BY <4>1, <3>1, <2>1, <2>2, <2>3
      <4> QED BY <4>2, <3>1, <1>5
    <3>2. CASE up \in ports
      <4>1. i \in Signal /\ t.ctrl[up] = Append(s.ctrl[up], i)
        BY <3>2, <1>3, <1>5 DEF SignalOn
      <4>2. \A x \in Root : RecordedIn(s, n, up, x) \in BOOLEAN
        BY DEF RecordedIn, IsTrue
      <4>3. \A x \in Root : Obeyed(i, x, RecordedIn(s, n, up, x))
                              <=> RecordedIn(s, n, up, x) /\ x # r /\ x # old
        BY <4>2, <1>4
      <4>4. \A x \in Root : RecordedIn(t, n, up, x) <=> Obeyed(i, x, RecordedIn(s, n, up, x))
        BY <4>3, <3>2, <2>1, <2>2, <2>3
      <4> QED BY <4>1, <4>4
    <3> QED BY <3>1, <3>2
  <2> QED BY <2>4, <1>1, ToldStep DEF Sane
<1>9. \A p, x : HasCIQ(s, x, p) => HasCIQ(t, x, p)
  BY DEF HasCIQ, Merged
<1>10. \A x \in DOMAIN t.entries \cap DOMAIN s.entries : t.entries[x].counter = s.entries[x].counter
  BY DEF Merged
<1>11. DOMAIN t.entries \ DOMAIN s.entries = {}
  BY DEF Merged
<1>12. t.oq = s.oq /\ t.ciq = s.ciq /\ t.wire = s.wire /\ t.hier = s.hier
  BY DEF Merged
<1> QED BY <1>1, <1>6, <1>7, <1>8, <1>9, <1>10, <1>11, <1>12, ControlSane

\* SendMerge: the children of root r and the signals.
MergeSent(s, u, n, ports, r, old) ==
  /\ u \in State(n)
  /\ DOMAIN u.entries = DOMAIN s.entries
  /\ \A x \in DOMAIN s.entries \ {r} : u.entries[x] = s.entries[x]
  /\ u.entries[r].hop = s.entries[r].hop /\ u.entries[r].ciq = s.entries[r].ciq
  /\ u.entries[r].status = s.entries[r].status /\ u.entries[r].counter = s.entries[r].counter
  /\ DOMAIN u.entries[r].child = ports \cup DOMAIN s.entries[r].child
  /\ \A p : IsTrue(u.entries[r].child, p) <=> p \notin ports /\ IsTrue(s.entries[r].child, p)
  /\ \A p \in PortOf[n] :
       u.ctrl[p] = IF p \in ports THEN Append(s.ctrl[p], Merge(r, s.entries[r].hop + 1, old))
                                  ELSE s.ctrl[p]
  /\ u.rootChild = s.rootChild /\ u.oq = s.oq /\ u.ciq = s.ciq /\ u.paused = s.paused
  /\ u.hier = s.hier /\ u.wire = s.wire

LEMMA SendMergeSends ==
  ASSUME NEW n \in Switch, NEW s \in State(n), NEW ports, ports \subseteq PortOf[n],
         NEW r \in DOMAIN s.entries, NEW old \in Root
  PROVE  MergeSent(s, SendMerge(s, n, ports, r, old), n, ports, r, old)
<1> DEFINE e == s.entries[r]
           i == Merge(r, e.hop + 1, old)
           C == [p \in PortOf[n] |-> IF p \in ports THEN Append(s.ctrl[p], i) ELSE s.ctrl[p]]
           G == [p \in ports \cup DOMAIN e.child |-> p \notin ports /\ e.child[p]]
           f == [e EXCEPT !.child = G]
           E == [s.entries EXCEPT ![r] = f]
           u == SendMerge(s, n, ports, r, old)
<1>1. u = [s EXCEPT !.ctrl = C, !.entries = E]
  BY DEF SendMerge
<1>2. r \in Root /\ e \in Entry(n) /\ s.entries \in Entries(n)
      /\ s.ctrl \in [PortOf[n] -> Seq(Signal)]
  BY StateOf, EntryAt
<1>3. i \in Signal
  <2>1. e.hop + 1 \in Nat
    BY <1>2 DEF Entry
  <2> HIDE DEF e
  <2> QED BY <1>2, <2>1 DEF Signal, Merge
<1>4. G \in Children(n) /\ DOMAIN G = ports \cup DOMAIN e.child
      /\ \A p : IsTrue(G, p) <=> p \notin ports /\ IsTrue(e.child, p)
  <2>1. e.child \in Children(n)
    BY <1>2 DEF Entry
  <2> HIDE DEF e
  <2>2. DOMAIN e.child \subseteq PortOf[n] /\ \A p \in DOMAIN e.child : e.child[p] \in BOOLEAN
    BY <2>1, ChildMap
  <2>3. /\ DOMAIN G = ports \cup DOMAIN e.child /\ G = [p \in DOMAIN G |-> G[p]]
        /\ \A p \in DOMAIN G : G[p] = (p \notin ports /\ e.child[p])
    OBVIOUS
  <2> HIDE DEF G
  <2>4. DOMAIN G \subseteq PortOf[n] /\ \A p \in DOMAIN G : G[p] \in BOOLEAN
    BY <2>2, <2>3
  <2>5. G \in Children(n)
    BY <2>3, <2>4, ChildMap
  <2>6. ASSUME NEW p PROVE IsTrue(G, p) <=> p \notin ports /\ IsTrue(e.child, p)
    BY <2>3 DEF IsTrue
  <2> QED BY <2>3, <2>5, <2>6
<1>5. /\ f \in Entry(n) /\ f.hop = e.hop /\ f.ciq = e.ciq
      /\ f.status = e.status /\ f.child = G /\ f.counter = e.counter
  <2> HIDE DEF G
  <2> QED BY <1>2, <1>4 DEF Entry
<1>6. E \in Entries(n) /\ DOMAIN E = DOMAIN s.entries /\ E[r] = f
      /\ \A x \in DOMAIN s.entries \ {r} : E[x] = s.entries[x]
  <2> HIDE DEF f
  <2> QED BY <1>2, <1>5, EntryPut
<1>7. C \in [PortOf[n] -> Seq(Signal)]
  <2>1. ASSUME NEW p \in PortOf[n]
        PROVE (IF p \in ports THEN Append(s.ctrl[p], i) ELSE s.ctrl[p]) \in Seq(Signal)
    <3> HIDE DEF i
    <3> QED BY <1>2, <1>3
  <2> QED BY <2>1
<1>8. \A p \in PortOf[n] : C[p] = IF p \in ports THEN Append(s.ctrl[p], i) ELSE s.ctrl[p]
  OBVIOUS
<1> HIDE DEF C, E, f, G, u
<1>9. /\ u \in State(n) /\ u.entries = E /\ u.rootChild = s.rootChild /\ u.oq = s.oq /\ u.ciq = s.ciq
      /\ u.paused = s.paused /\ u.hier = s.hier /\ u.wire = s.wire /\ u.ctrl = C
  BY <1>1, <1>6, <1>7, StateOf
<1> QED BY <1>4, <1>5, <1>6, <1>8, <1>9 DEF MergeSent, u

\* ReceivePause merges: the port itself was the old root.
LEMMA PortMerged ==
  ASSUME NEW n \in Switch, NEW s, Agree(s, n), OnTree(s, n), NEW u, NEW in \in PortOf[n], NEW ports,
         NEW r, <<n, in>> \in Root, MergeSent(s, u, n, ports, r, <<n, in>>)
  PROVE  Merged(s, [u EXCEPT !.rootChild[in] = Empty], n, in, r, <<n, in>>, ports)
<1> DEFINE R == [u.rootChild EXCEPT ![in] = Empty]
           t == [u EXCEPT !.rootChild[in] = Empty]
           old == <<n, in>>
<1>1. u \in State(n) /\ u.rootChild \in [PortOf[n] -> Children(n)]
  BY StateOf DEF MergeSent
<1>2. R \in [PortOf[n] -> Children(n)] /\ R[in] = Empty
      /\ \A p \in PortOf[n] : p # in => R[p] = u.rootChild[p]
  BY <1>1, EmptyChild
<1>3. t = [u EXCEPT !.rootChild = R]
  OBVIOUS
<1>4. \A p : old = <<n, p>> <=> p = in
  OBVIOUS
<1>5. old \notin DOMAIN s.entries
  <2>1. Dist[n][old] = 0
    <3>1. old[1] = n
      OBVIOUS
    <3> QED BY <3>1, RootEnds
  <2> QED BY <2>1 DEF OnTree
<1> HIDE DEF R, t, old
<1>6. /\ t \in State(n) /\ t.rootChild = R /\ t.entries = u.entries /\ t.oq = u.oq /\ t.ciq = u.ciq
      /\ t.paused = u.paused /\ t.hier = u.hier /\ t.wire = u.wire /\ t.ctrl = u.ctrl
  BY <1>1, <1>2, <1>3, StateOf
<1>7. \A p \in PortOf[n] : old \notin s.paused[p]
  BY <1>5 DEF Agree, HasCIQ, old
<1>8. \A p \in PortOf[n] :
        /\ t.rootChild[p] = IF old = <<n, p>> THEN Empty ELSE s.rootChild[p]
        /\ t.paused[p] = IF p = in THEN s.paused[p] \ {old} ELSE s.paused[p]
        /\ t.ctrl[p] = IF p \in ports THEN Append(s.ctrl[p], Merge(r, s.entries[r].hop + 1, old))
                                      ELSE s.ctrl[p]
  <2>1. u.rootChild = s.rootChild /\ u.paused = s.paused
    BY DEF MergeSent
  <2>2. ASSUME NEW p \in PortOf[n]
        PROVE  t.rootChild[p] = IF old = <<n, p>> THEN Empty ELSE s.rootChild[p]
    BY <2>1, <1>2, <1>4, <1>6
  <2>3. ASSUME NEW p \in PortOf[n]
        PROVE  t.paused[p] = IF p = in THEN s.paused[p] \ {old} ELSE s.paused[p]
    BY <2>1, <1>6, <1>7
  <2>4. ASSUME NEW p \in PortOf[n]
        PROVE  t.ctrl[p] = IF p \in ports THEN Append(s.ctrl[p], Merge(r, s.entries[r].hop + 1, old))
                                          ELSE s.ctrl[p]
    BY <1>6 DEF MergeSent, old
  <2> QED BY <2>2, <2>3, <2>4
<1>9. \A x \in DOMAIN s.entries :
        /\ t.entries[x].hop = s.entries[x].hop /\ t.entries[x].ciq = s.entries[x].ciq
        /\ t.entries[x].counter = s.entries[x].counter
        /\ x # old => t.entries[x].status = s.entries[x].status
        /\ x # old /\ x # r => t.entries[x].child = s.entries[x].child
  <2>1. ASSUME NEW x \in DOMAIN s.entries
        PROVE  /\ t.entries[x].hop = s.entries[x].hop /\ t.entries[x].ciq = s.entries[x].ciq
               /\ t.entries[x].counter = s.entries[x].counter
               /\ t.entries[x].status = s.entries[x].status
               /\ x # r => t.entries[x].child = s.entries[x].child
    <3>1. CASE x = r
      BY <3>1, <1>6 DEF MergeSent
    <3>2. CASE x # r
      BY <3>2, <1>6 DEF MergeSent
    <3> QED BY <3>1, <3>2
  <2> QED BY <2>1
<1>10. /\ DOMAIN t.entries = DOMAIN s.entries
       /\ DOMAIN t.entries[r].child = ports \cup DOMAIN s.entries[r].child
       /\ \A p : IsTrue(t.entries[r].child, p) <=> p \notin ports /\ IsTrue(s.entries[r].child, p)
       /\ t.oq = s.oq /\ t.ciq = s.ciq /\ t.hier = s.hier /\ t.wire = s.wire
  BY <1>6 DEF MergeSent
<1>11. Merged(s, t, n, in, r, old, ports)
  BY <1>5, <1>6, <1>8, <1>9, <1>10 DEF Merged
<1> QED BY <1>11 DEF t, old

\* ReceiveMerge: the entry of the old root is merged.
OldMerged(u, t, in, old) ==
  t = [u EXCEPT !.entries[old].status[in] = "MERGE", !.entries[old].child = Empty,
                !.paused[in] = @ \ {old}]

LEMMA EntryMerged ==
  ASSUME NEW n \in Switch, NEW s \in State(n), NEW u, NEW t, NEW in \in PortOf[n], NEW ports,
         NEW r \in DOMAIN s.entries, NEW old \in DOMAIN s.entries, old # r, old[1] # n,
         MergeSent(s, u, n, ports, r, old), OldMerged(u, t, in, old)
  PROVE  Merged(s, t, n, in, r, old, ports)
<1> DEFINE e == u.entries[old]
           S == [e.status EXCEPT ![in] = "MERGE"]
           f == [e EXCEPT !.status = S, !.child = Empty]
           E == [u.entries EXCEPT ![old] = f]
           P == [u.paused EXCEPT ![in] = @ \ {old}]
<1>1. u \in State(n) /\ DOMAIN u.entries = DOMAIN s.entries /\ e = s.entries[old]
  BY DEF MergeSent
<1>2. /\ e \in Entry(n) /\ old \in Root /\ u.entries \in Entries(n)
      /\ u.paused \in [PortOf[n] -> SUBSET Root]
  BY <1>1, StateOf, EntryAt
<1>3. t = [u EXCEPT !.entries = E, !.paused = P]
  BY DEF OldMerged
<1>4. S \in [PortOf[n] -> Status]
  BY <1>2 DEF Entry, Status
<1>5. f \in Entry(n) /\ f.hop = e.hop /\ f.ciq = e.ciq /\ f.status = S /\ f.child = Empty
      /\ f.counter = e.counter
  <2> HIDE DEF S
  <2>1. Empty \in Children(n)
    BY EmptyChild
  <2> QED BY <1>2, <1>4, <2>1 DEF Entry
<1>6. E \in Entries(n) /\ DOMAIN E = DOMAIN s.entries /\ E[old] = f
      /\ \A x \in DOMAIN s.entries \ {old} : E[x] = u.entries[x]
  <2> HIDE DEF f
  <2> QED BY <1>1, <1>2, <1>5, EntryPut
<1>7. P \in [PortOf[n] -> SUBSET Root]
      /\ \A p \in PortOf[n] : P[p] = IF p = in THEN u.paused[p] \ {old} ELSE u.paused[p]
  BY <1>2
<1>8. S = [s.entries[old].status EXCEPT ![in] = "MERGE"]
  BY <1>1
<1> HIDE DEF E, P, f, S
<1>9. /\ t \in State(n) /\ t.rootChild = u.rootChild /\ t.entries = E /\ t.oq = u.oq /\ t.ciq = u.ciq
      /\ t.paused = P /\ t.hier = u.hier /\ t.wire = u.wire /\ t.ctrl = u.ctrl
  BY <1>1, <1>3, <1>6, <1>7, StateOf
<1>10. \A p \in PortOf[n] :
        /\ t.rootChild[p] = IF old = <<n, p>> THEN Empty ELSE s.rootChild[p]
        /\ t.paused[p] = IF p = in THEN s.paused[p] \ {old} ELSE s.paused[p]
        /\ t.ctrl[p] = IF p \in ports THEN Append(s.ctrl[p], Merge(r, s.entries[r].hop + 1, old))
                                      ELSE s.ctrl[p]
  <2>1. u.rootChild = s.rootChild /\ u.paused = s.paused
    BY DEF MergeSent
  <2>2. \A p : old # <<n, p>>
    <3>1. \A p : <<n, p>>[1] = n
      OBVIOUS
    <3> QED BY <3>1
  <2>3. ASSUME NEW p \in PortOf[n]
        PROVE  t.ctrl[p] = IF p \in ports THEN Append(s.ctrl[p], Merge(r, s.entries[r].hop + 1, old))
                                          ELSE s.ctrl[p]
    BY <1>9 DEF MergeSent
  <2> QED BY <2>1, <2>2, <2>3, <1>7, <1>9
<1>11. \A x \in DOMAIN s.entries :
        /\ t.entries[x].hop = s.entries[x].hop /\ t.entries[x].ciq = s.entries[x].ciq
        /\ t.entries[x].counter = s.entries[x].counter
        /\ x # old => t.entries[x].status = s.entries[x].status
        /\ x # old /\ x # r => t.entries[x].child = s.entries[x].child
  <2>1. ASSUME NEW x \in DOMAIN s.entries
        PROVE  /\ t.entries[x].hop = s.entries[x].hop /\ t.entries[x].ciq = s.entries[x].ciq
               /\ t.entries[x].counter = s.entries[x].counter
               /\ x # old => t.entries[x].status = s.entries[x].status
               /\ x # old /\ x # r => t.entries[x].child = s.entries[x].child
    <3>1. CASE x = r
      <4>1. t.entries[r] = u.entries[r]
        BY <1>6, <1>9
      <4> QED BY <3>1, <4>1 DEF MergeSent
    <3>2. CASE x = old
      <4>1. t.entries[old] = f /\ e = s.entries[old]
        BY <1>1, <1>6, <1>9
      <4> QED BY <3>2, <4>1, <1>5
    <3>3. CASE x # r /\ x # old
      <4>1. t.entries[x] = u.entries[x] /\ u.entries[x] = s.entries[x]
        BY <3>3, <1>6, <1>9 DEF MergeSent
      <4> QED BY <4>1
    <3> QED BY <3>1, <3>2, <3>3
  <2> QED BY <2>1
<1>12. /\ DOMAIN t.entries[r].child = ports \cup DOMAIN s.entries[r].child
       /\ \A p : IsTrue(t.entries[r].child, p) <=> p \notin ports /\ IsTrue(s.entries[r].child, p)
       /\ t.oq = s.oq /\ t.ciq = s.ciq /\ t.hier = s.hier /\ t.wire = s.wire
  <2>1. t.entries[r] = u.entries[r]
    BY <1>6, <1>9
  <2> QED BY <2>1, <1>9 DEF MergeSent
<1>13. /\ DOMAIN t.entries = DOMAIN s.entries /\ t.entries[old].child = Empty
       /\ t.entries[old].status = [s.entries[old].status EXCEPT ![in] = "MERGE"]
  BY <1>5, <1>6, <1>8, <1>9
<1> QED BY <1>9, <1>10, <1>11, <1>12, <1>13 DEF Merged

\* What the port a signal came in by is paused for afterwards.
PausedBy(s, t, n, in, sig) ==
  \A p \in PortOf[n], x \in Root :
    x \in t.paused[p] <=> IF p = in THEN Obeyed(sig, x, x \in s.paused[p]) ELSE x \in s.paused[p]

\* What a switch may rely on when a signal comes in.
Reliable(sig, in, n) ==
  /\ sig.root \in Root /\ sig.kind \in {"PAUSE", "RESUME", "DEALLOC", "MERGE"}
  /\ sig.kind = "DEALLOC" => <<in, n, sig.root>> \in Tree
  /\ sig.kind # "DEALLOC" => <<n, in, sig.root>> \in Tree
  /\ sig.kind \in {"PAUSE", "MERGE"} => sig.hop = Dist[n][sig.root]
  /\ sig.kind = "MERGE" => /\ sig.old # sig.root /\ sig.old \in Root
                           /\ sig.old \notin UpPort /\ <<n, in, sig.old>> \in Tree

LEMMA SignalFacts ==
  ASSUME NEW in, NEW n \in Switch, NEW sig \in SignalOn(in, n)
  PROVE  Reliable(sig, in, n)
<1>1. sig \in Signal /\ sig.root \in Root /\ sig.kind \in {"PAUSE", "RESUME", "DEALLOC", "MERGE"}
      /\ (sig.kind = "MERGE" => sig.old \in Root)
  BY DEF SignalOn, Signal
<1>2. sig.kind \in {"PAUSE", "MERGE"} => sig.hop = Dist[n][sig.root]
  <2>1. ASSUME sig.kind \in {"PAUSE", "MERGE"} PROVE sig.hop = Dist[n][sig.root]
    <3>1. <<n, in, sig.root>> \in Tree /\ sig.hop = Dist[in][sig.root] + 1
      BY <2>1 DEF SignalOn
    <3>2. Dist[n][sig.root] = Dist[in][sig.root] + 1
      BY <3>1, InTree
    <3> QED BY <3>1, <3>2
  <2> QED BY <2>1
<1> QED BY <1>1, <1>2 DEF SignalOn, Reliable

\* A pause or a merge registers the CIQ; what is left is a state like it.
LEMMA RegisterJoins ==
  ASSUME NEW n \in Switch, NEW s \in State(n), OnTree(s, n), NEW in, NEW sig \in SignalOn(in, n),
         sig.kind \in {"PAUSE", "MERGE"}, NEW v \in {"PAUSE", "RESUME"}, NEW t,
         StatusPut(Register(s, n, in, sig), t, in, sig.root, v)
  PROVE  Joined(s, t, n, in, sig.root, v)
<1> DEFINE r == sig.root
           q == Register(s, n, in, sig)
<1>1. r \in Root /\ <<n, in, r>> \in Tree /\ sig.hop = Dist[n][r]
  <2>1. Reliable(sig, in, n)
    BY SignalFacts
  <2> QED BY <2>1 DEF Reliable
<1>2. in \in PortOf[n] /\ Dist[n][r] \in Nat
  BY <1>1, InTree, EqualCost
<1>3. r \in DOMAIN s.entries => s.entries[r].hop = Dist[n][r]
  BY DEF OnTree
<1>4. Registered(s, q, n, in, r)
  BY <1>1, <1>2, <1>3, RegisterCIQ
<1> HIDE DEF q
<1>5. StatusPut(q, t, in, r, v)
  BY DEF q
<1> HIDE DEF r
<1>6. Joined(s, t, n, in, r, v)
  BY <1>1, <1>2, <1>4, <1>5, StatusJoins
<1> QED BY <1>6 DEF r

\* The port that joins the tree of a root is paused, or not, for that root only.
PausedFor(s, t, n, in, r, v) ==
  \A p \in PortOf[n] : \A x :
    x \in t.paused[p] <=> IF p = in /\ x = r THEN v = "PAUSE" ELSE x \in s.paused[p]

LEMMA JoinedPaused ==
  ASSUME NEW n \in Switch, NEW s \in State(n), NEW t, NEW in \in PortOf[n], NEW r,
         NEW v \in {"PAUSE", "RESUME"}, Joined(s, t, n, in, r, v)
  PROVE  PausedFor(s, t, n, in, r, v)
<1>1. s.paused \in [PortOf[n] -> SUBSET Root]
  BY StateOf
<1>2. t.paused = [s.paused EXCEPT ![in] = IF v = "PAUSE" THEN @ \cup {r} ELSE @ \ {r}]
  BY DEF Joined
<1> QED BY <1>1, <1>2 DEF PausedFor

\* ReceivePause.
LEMMA ReceivePauseSane ==
  ASSUME NEW n \in Switch, NEW before \in [PortOf[n] -> [Root -> BOOLEAN]],
         NEW s, Sane(s, n, before), NEW in, NEW sig \in SignalOn(in, n), sig.kind = "PAUSE",
         NEW t, t = ReceivePause(s, n, in, sig)
  PROVE  Sane(t, n, before) /\ PausedBy(s, t, n, in, sig)
<1> DEFINE r == sig.root
           u == [Register(s, n, in, sig) EXCEPT
                  !.entries[r].status[in] = "PAUSE", !.paused[in] = @ \cup {r}]
           ports == DOMAIN s.rootChild[in]
           old == <<n, in>>
           w == SendMerge(u, n, ports, r, old)
           x == [w EXCEPT !.rootChild[in] = Empty]
<1>1. r \in Root /\ <<n, in, r>> \in Tree
  <2>1. Reliable(sig, in, n)
    BY SignalFacts
  <2> QED BY <2>1 DEF Reliable
<1>2. in \in PortOf[n] /\ in \in Switch /\ n \in PortOf[in]
  BY <1>1, InTree
<1>3. s \in State(n) /\ OnTree(s, n)
  BY DEF Sane
<1>4. StatusPut(Register(s, n, in, sig), u, in, r, "PAUSE")
  BY DEF StatusPut
<1> HIDE DEF u
<1>5. Joined(s, u, n, in, r, "PAUSE")
  <2>1. sig.kind \in {"PAUSE", "MERGE"}
    OBVIOUS
  <2> QED BY <2>1, <1>3, <1>4, RegisterJoins
<1>6. Sane(u, n, before)
  <2> HIDE DEF r
  <2> QED BY <1>1, <1>5, JoinedSane
<1>7. PausedBy(s, u, n, in, sig)
  <2>1. PausedFor(s, u, n, in, r, "PAUSE")
    <3> HIDE DEF r
    <3> QED BY <1>2, <1>3, <1>5, JoinedPaused
  <2>2. \A y : (Pauses(sig, y) <=> y = r) /\ ~ Resumes(sig, y)
    BY DEF Pauses, Resumes
  <2> HIDE DEF r
  <2>3. ASSUME NEW p \in PortOf[n], NEW y \in Root
        PROVE  y \in u.paused[p] <=>
                 IF p = in THEN Obeyed(sig, y, y \in s.paused[p]) ELSE y \in s.paused[p]
    <3>1. y \in u.paused[p] <=> (p = in /\ y = r) \/ y \in s.paused[p]
      BY <2>1 DEF PausedFor
    <3>2. Obeyed(sig, y, y \in s.paused[p]) <=> y = r \/ y \in s.paused[p]
      BY <2>2 DEF Obeyed
    <3> QED BY <3>1, <3>2
  <2> QED BY <2>3 DEF PausedBy
<1>8. CASE /\ <<n, in>> \notin UpPort
           /\ s.rootChild[in] # Empty
           /\ t = x
  <2>1. <<n, in>> \in Root
    <3>1. PICK p \in ports : TRUE
      <4>1. s.rootChild[in] \in Children(n)
        BY <1>2, <1>3, StateOf
      <4>2. s.rootChild[in] = [q \in DOMAIN s.rootChild[in] |-> s.rootChild[in][q]]
        BY <4>1, ChildMap
      <4>3. Empty = [q \in {} |-> s.rootChild[in][q]]
        BY DEF Empty
      <4> QED BY <1>8, <4>2, <4>3
    <3>2. <<p, n, <<n, in>>>> \in Tree
      BY <1>2, <1>3 DEF OnTree
    <3> QED BY <3>2, InTree
  <2>2. old # r
    <3>1. Dist[n][old] = 0
      <4>1. old[1] = n
        OBVIOUS
      <4> QED BY <4>1, <2>1, RootEnds
    <3>2. Dist[n][r] > 0
      BY <1>1, <1>2, InTree
    <3> QED BY <3>1, <3>2
  <2>3. r \in DOMAIN u.entries /\ u \in State(n) /\ u.rootChild = s.rootChild
        /\ OnTree(u, n) /\ Agree(u, n)
    BY <1>5, <1>6 DEF Joined, Sane
  <2>4. \A p \in ports : <<p, n, old>> \in Tree
    BY <1>2, <1>3 DEF OnTree
  <2>5. \A up \in PortOf[n] : RecordedIn(u, n, up, old) => up \in ports
    <3>1. old[1] = n /\ old[2] = in
      OBVIOUS
    <3> HIDE DEF old
    <3> QED BY <3>1, <2>3 DEF RecordedIn, IsTrue
  <2>6. ports \subseteq PortOf[n]
    BY <2>4, InTree
  <2> HIDE DEF ports, w, x
  <2>7. MayMerge(u, n, in, r, old, ports)
    BY <1>1, <1>8, <2>1, <2>2, <2>3, <2>4, <2>5 DEF MayMerge
  <2>8. MergeSent(u, w, n, ports, r, old)
    <3> HIDE DEF r, old
    <3> QED BY <2>1, <2>3, <2>6, SendMergeSends DEF w, old
  <2>9. Merged(u, x, n, in, r, old, ports)
    <3> HIDE DEF r
    <3>1. Merged(u, [w EXCEPT !.rootChild[in] = Empty], n, in, r, <<n, in>>, ports)
      BY <1>2, <2>1, <2>3, <2>8, PortMerged
    <3> QED BY <3>1 DEF x
  <2>10. Sane(x, n, before)
    <3> HIDE DEF r, old
    <3> QED BY <1>6, <2>7, <2>9, MergedSane
  <2>11. \A p \in PortOf[n] : x.paused[p] = u.paused[p]
    <3>1. \A p \in PortOf[n] : x.paused[p] = IF p = in THEN u.paused[p] \ {old} ELSE u.paused[p]
      BY <2>9 DEF Merged
    <3>2. old \notin DOMAIN u.entries
      <4>1. Dist[n][old] = 0
        <5>1. old[1] = n
          OBVIOUS
        <5> QED BY <5>1, <2>1, RootEnds
      <4> QED BY <4>1, <2>3 DEF OnTree
    <3>3. \A p \in PortOf[n] : old \notin u.paused[p]
      <4> HIDE DEF old
      <4> QED BY <2>1, <2>3, <3>2 DEF Agree, HasCIQ, old
    <3> QED BY <3>1, <3>3
  <2>12. PausedBy(s, x, n, in, sig)
    BY <1>7, <2>11 DEF PausedBy
  <2> QED BY <2>10, <2>12, <1>8
<1>9. CASE t = u
  BY <1>6, <1>7, <1>9
<1>10. t = u \/ (<<n, in>> \notin UpPort /\ s.rootChild[in] # Empty /\ t = x)
  BY DEF ReceivePause, u
<1> QED BY <1>8, <1>9, <1>10

\* CheckAndSendDealloc keeps the switch sane and no device learns of it.
LEMMA DeallocSane ==
  ASSUME NEW n \in Switch, NEW before \in [PortOf[n] -> [Root -> BOOLEAN]],
         NEW s, Sane(s, n, before), NEW r \in DOMAIN s.entries, NEW t,
         t = CheckAndSendDealloc(s, n, r)
  PROVE  Sane(t, n, before) /\ t.paused = s.paused
<1>1. s \in State(n)
  BY DEF Sane
<1>2. PICK free : Released(s, CheckAndSendDealloc(s, n, r), n, r, free)
  BY <1>1, DeallocReleases
<1>3. Released(s, t, n, r, free)
  BY <1>2
<1> QED BY <1>3, ReleasedSane

\* ReceiveResume.
LEMMA ReceiveResumeSane ==
  ASSUME NEW n \in Switch, NEW before \in [PortOf[n] -> [Root -> BOOLEAN]],
         NEW s, Sane(s, n, before), NEW in, NEW sig \in SignalOn(in, n), sig.kind = "RESUME",
         NEW t, t = ReceiveResume(s, n, in, sig)
  PROVE  Sane(t, n, before) /\ PausedBy(s, t, n, in, sig)
<1> DEFINE r == sig.root
           u == [s EXCEPT !.entries[r].status[in] = "RESUME", !.paused[in] = @ \ {r}]
<1>1. r \in Root /\ <<n, in, r>> \in Tree
  <2>1. Reliable(sig, in, n)
    BY SignalFacts
  <2> QED BY <2>1 DEF Reliable
<1>2. in \in PortOf[n]
  BY <1>1, InTree
<1>3. s \in State(n) /\ OnTree(s, n) /\ Agree(s, n)
  BY DEF Sane
<1>4. \A y : ~ Pauses(sig, y) /\ (Resumes(sig, y) <=> y = r)
  BY DEF Pauses, Resumes
<1>5. CASE HasCIQ(s, r, in) /\ t = CheckAndSendDealloc(u, n, r)
  <2>1. r \in DOMAIN s.entries /\ in \in s.entries[r].ciq
    BY <1>5 DEF HasCIQ
  <2>2. DOMAIN s.entries = DOMAIN s.entries \cup {r} /\ s.entries[r].hop = Dist[n][r]
        /\ s.entries[r].ciq = s.entries[r].ciq \cup {in}
    BY <2>1, <1>3 DEF OnTree
  <2>3. Registered(s, s, n, in, r)
    BY <2>1, <2>2, <1>3 DEF Registered
  <2>4. StatusPut(s, u, in, r, "RESUME")
    BY DEF StatusPut
  <2> HIDE DEF u, r
  <2>5. Joined(s, u, n, in, r, "RESUME")
    BY <1>1, <1>2, <1>3, <2>3, <2>4, StatusJoins
  <2>6. Sane(u, n, before)
    BY <1>1, <2>5, JoinedSane
  <2>7. PausedFor(s, u, n, in, r, "RESUME")
    BY <1>2, <1>3, <2>5, JoinedPaused
  <2>8. r \in DOMAIN u.entries
    BY <2>5 DEF Joined
  <2>9. Sane(t, n, before) /\ t.paused = u.paused
    BY <1>5, <2>6, <2>8, DeallocSane
  <2>10. ASSUME NEW p \in PortOf[n], NEW y \in Root
         PROVE  y \in t.paused[p] <=>
                  IF p = in THEN Obeyed(sig, y, y \in s.paused[p]) ELSE y \in s.paused[p]
    <3>1. y \in t.paused[p] <=> ~ (p = in /\ y = r) /\ y \in s.paused[p]
      BY <2>7, <2>9 DEF PausedFor
    <3>2. Obeyed(sig, y, y \in s.paused[p]) <=> y # r /\ y \in s.paused[p]
      BY <1>4 DEF Obeyed
    <3> QED BY <3>1, <3>2
  <2> QED BY <2>9, <2>10 DEF PausedBy
<1>6. CASE ~ HasCIQ(s, r, in) /\ t = s
  <2> HIDE DEF r
  <2>1. r \notin s.paused[in]
    BY <1>1, <1>2, <1>3, <1>6 DEF Agree
  <2>2. ASSUME NEW p \in PortOf[n], NEW y \in Root
        PROVE  y \in t.paused[p] <=>
                 IF p = in THEN Obeyed(sig, y, y \in s.paused[p]) ELSE y \in s.paused[p]
    <3>1. Obeyed(sig, y, y \in s.paused[p]) <=> y # r /\ y \in s.paused[p]
      BY <1>4 DEF Obeyed
    <3> QED BY <2>1, <3>1, <1>6
  <2> QED BY <2>2, <1>6 DEF PausedBy
<1>7. \/ HasCIQ(s, r, in) /\ t = CheckAndSendDealloc(u, n, r)
      \/ ~ HasCIQ(s, r, in) /\ t = s
  BY DEF ReceiveResume
<1> QED BY <1>5, <1>6, <1>7

\* ReceiveMerge.
LEMMA ReceiveMergeSane ==
  ASSUME NEW n \in Switch, NEW before \in [PortOf[n] -> [Root -> BOOLEAN]],
         NEW s, Sane(s, n, before), NEW in, NEW sig \in SignalOn(in, n), sig.kind = "MERGE",
         NEW t, t = ReceiveMerge(s, n, in, sig)
  PROVE  Sane(t, n, before) /\ PausedBy(s, t, n, in, sig)
<1> DEFINE r == sig.root
           old == sig.old
           u == [Register(s, n, in, sig) EXCEPT
                  !.entries[r].status[in] = "RESUME", !.paused[in] = @ \ {r}]
           ports == {p \in DOMAIN s.entries[old].child : n \notin ToR \/ s.entries[old].child[p]}
           w == SendMerge(u, n, ports, r, old)
           x == [w EXCEPT !.entries[old].status[in] = "MERGE", !.entries[old].child = Empty,
                          !.paused[in] = @ \ {old}]
<1>1. /\ r \in Root /\ <<n, in, r>> \in Tree
      /\ old # r /\ old \in Root /\ old \notin UpPort /\ <<n, in, old>> \in Tree
  <2>1. Reliable(sig, in, n)
    BY SignalFacts
  <2> QED BY <2>1 DEF Reliable
<1>2. in \in PortOf[n]
  BY <1>1, InTree
<1>3. s \in State(n) /\ OnTree(s, n) /\ Agree(s, n)
  BY DEF Sane
<1>4. \A y : ~ Pauses(sig, y) /\ (Resumes(sig, y) <=> y = r \/ y = old)
  BY DEF Pauses, Resumes
<1>5. StatusPut(Register(s, n, in, sig), u, in, r, "RESUME")
  BY DEF StatusPut
<1> HIDE DEF u
<1>6. Joined(s, u, n, in, r, "RESUME")
  <2>1. sig.kind \in {"PAUSE", "MERGE"}
    OBVIOUS
  <2> QED BY <2>1, <1>3, <1>5, RegisterJoins
<1>7. Sane(u, n, before)
  <2> HIDE DEF r
  <2> QED BY <1>1, <1>6, JoinedSane
<1>8. PausedFor(s, u, n, in, r, "RESUME")
  <2> HIDE DEF r
  <2> QED BY <1>2, <1>3, <1>6, JoinedPaused
<1>9. ASSUME \A p \in PortOf[n], y \in Root :
               y \in t.paused[p] <=> y \in u.paused[p] /\ ~ (p = in /\ y = old)
      PROVE  PausedBy(s, t, n, in, sig)
  <2> HIDE DEF r, old
  <2>1. ASSUME NEW p \in PortOf[n], NEW y \in Root
        PROVE  y \in t.paused[p] <=>
                 IF p = in THEN Obeyed(sig, y, y \in s.paused[p]) ELSE y \in s.paused[p]
    <3>1. y \in u.paused[p] <=> ~ (p = in /\ y = r) /\ y \in s.paused[p]
      BY <1>8 DEF PausedFor
    <3>2. Obeyed(sig, y, y \in s.paused[p]) <=> y # r /\ y # old /\ y \in s.paused[p]
      BY <1>4 DEF Obeyed
    <3> QED BY <3>1, <3>2, <1>9
  <2> QED BY <2>1 DEF PausedBy
<1>10. CASE old \in DOMAIN s.entries /\ t = ReleaseMergeCIQEntry(x, old, in)
  <2>1. /\ r \in DOMAIN u.entries /\ old \in DOMAIN u.entries
        /\ u.entries[old] = s.entries[old] /\ u \in State(n) /\ OnTree(u, n)
    BY <1>1, <1>6, <1>7, <1>10 DEF Joined, Sane
  <2>2. \A p \in ports : <<p, n, old>> \in Tree
    BY <1>3, <1>10 DEF OnTree
  <2>3. old[1] # n
    <3>1. Dist[n][old] > 0
      BY <1>3, <1>10 DEF OnTree
    <3> QED BY <3>1, <1>1, RootEnds
  <2>4. \A up \in PortOf[n] : RecordedIn(u, n, up, old) => up \in ports
    <3>1. ASSUME NEW up, IsTrue(s.entries[old].child, up) PROVE up \in ports
      BY <3>1 DEF IsTrue
    <3> HIDE DEF ports, old
    <3> QED BY <2>1, <2>3, <3>1 DEF RecordedIn
  <2>5. ports \subseteq PortOf[n]
    BY <2>2, InTree
  <2>6. OldMerged(w, x, in, old)
    BY DEF OldMerged
  <2> HIDE DEF ports, w, x
  <2>7. MayMerge(u, n, in, r, old, ports)
    <3> HIDE DEF r, old
    <3> QED BY <1>1, <2>1, <2>2, <2>4 DEF MayMerge
  <2> HIDE DEF r, old
  <2>8. MergeSent(u, w, n, ports, r, old)
    BY <1>1, <2>1, <2>5, SendMergeSends DEF w
  <2>9. Merged(u, x, n, in, r, old, ports)
    BY <1>1, <1>2, <2>1, <2>3, <2>6, <2>8, EntryMerged
  <2>10. Sane(x, n, before)
    BY <1>7, <2>7, <2>9, MergedSane
  <2>11. x \in State(n) /\ old \in DOMAIN x.entries /\ x.entries[old].status[in] = "MERGE"
    <3>1. /\ DOMAIN x.entries = DOMAIN u.entries /\ x \in State(n)
          /\ x.entries[old].status = [u.entries[old].status EXCEPT ![in] = "MERGE"]
      BY <2>1, <2>9 DEF Merged
    <3>2. u.entries[old].status \in [PortOf[n] -> Status]
      BY <2>1, EntryAt DEF Entry
    <3> QED BY <3>1, <3>2, <2>1, <1>2
  <2>12. PICK free : Released(x, ReleaseMergeCIQEntry(x, old, in), n, old, free)
    BY <2>11, MergeReleases
  <2>13. Released(x, t, n, old, free)
    BY <2>12, <1>10
  <2>14. Sane(t, n, before) /\ t.paused = x.paused
    BY <2>10, <2>11, <2>13, ReleasedSane
  <2>15. \A p \in PortOf[n] : x.paused[p] = IF p = in THEN u.paused[p] \ {old} ELSE u.paused[p]
    BY <2>9 DEF Merged
  <2>16. \A p \in PortOf[n], y \in Root :
           y \in t.paused[p] <=> y \in u.paused[p] /\ ~ (p = in /\ y = old)
    BY <2>14, <2>15
  <2> QED BY <2>14, <2>16, <1>9
<1>11. CASE old \notin DOMAIN s.entries /\ t = u
  <2> HIDE DEF r, old
  <2>1. old \notin s.paused[in]
    BY <1>1, <1>2, <1>3, <1>11 DEF Agree, HasCIQ
  <2>2. old \notin u.paused[in]
    BY <2>1, <1>1, <1>2, <1>8 DEF PausedFor
  <2>3. \A p \in PortOf[n], y \in Root :
          y \in t.paused[p] <=> y \in u.paused[p] /\ ~ (p = in /\ y = old)
    BY <2>2, <1>11
  <2> QED BY <2>3, <1>7, <1>9, <1>11
<1>12. \/ old \in DOMAIN s.entries /\ t = ReleaseMergeCIQEntry(x, old, in)
       \/ old \notin DOMAIN s.entries /\ t = u
  BY DEF ReceiveMerge, u
<1> QED BY <1>10, <1>11, <1>12

\* ReceiveDealloc.
LEMMA ReceiveDeallocSane ==
  ASSUME NEW n \in Switch, NEW before \in [PortOf[n] -> [Root -> BOOLEAN]],
         NEW s, Sane(s, n, before), NEW in, NEW sig \in SignalOn(in, n), sig.kind = "DEALLOC",
         NEW t, t = ReceiveDealloc(s, n, in, sig)
  PROVE  Sane(t, n, before) /\ PausedBy(s, t, n, in, sig)
<1> DEFINE r == sig.root
           port == r[2]
           resumed(g) == in \in DOMAIN g /\ ~g[in]
           u == [s EXCEPT !.rootChild[port] = Erase(@, in)]
           v == [s EXCEPT !.entries[r].child = Erase(@, in)]
<1>1. r \in Root
  <2>1. Reliable(sig, in, n)
    BY SignalFacts
  <2> QED BY <2>1 DEF Reliable
<1>2. s \in State(n) /\ OnTree(s, n)
  BY DEF Sane
<1>3. ASSUME t.paused = s.paused PROVE PausedBy(s, t, n, in, sig)
  <2>1. \A y : ~ Pauses(sig, y) /\ ~ Resumes(sig, y)
    BY DEF Pauses, Resumes
  <2>2. ASSUME NEW p \in PortOf[n], NEW y \in Root
        PROVE  y \in t.paused[p] <=>
                 IF p = in THEN Obeyed(sig, y, y \in s.paused[p]) ELSE y \in s.paused[p]
    BY <2>1, <1>3 DEF Obeyed
  <2> QED BY <2>2 DEF PausedBy
<1>4. CASE r[1] = n /\ resumed(s.rootChild[port]) /\ t = u
  <2> DEFINE g == Erase(s.rootChild[port], in)
  <2>1. port \in PortOf[n] /\ r = <<n, port>>
    BY <1>1, <1>4, RootEnds
  <2>2. s.rootChild[port] \in Children(n) /\ s.ctrl \in [PortOf[n] -> Seq(Signal)]
    BY <2>1, <1>2, StateOf
  <2>3. ~ IsTrue(s.rootChild[port], in)
    BY <1>4 DEF IsTrue
  <2> HIDE DEF r, port
  <2>4. g \in Children(n) /\ DOMAIN g = DOMAIN s.rootChild[port] \ {in}
        /\ \A q : IsTrue(g, q) <=> q # in /\ IsTrue(s.rootChild[port], q)
    <3> DEFINE h == s.rootChild[port]
    <3>1. h \in Children(n)
      BY <2>2
    <3> HIDE DEF h
    <3>2. /\ Erase(h, in) \in Children(n) /\ DOMAIN Erase(h, in) = DOMAIN h \ {in}
          /\ \A q : IsTrue(Erase(h, in), q) <=> q # in /\ IsTrue(h, q)
      BY <3>1, EraseChild
    <3> QED BY <3>2 DEF h
  <2>5. RootChildPut(s, u, port, g, s.ctrl)
    BY <1>2, StateOf DEF RootChildPut
  <2> HIDE DEF g, u
  <2>6. Below(n, port, g)
    BY <2>1, <2>4, <1>2 DEF Below, OnTree
  <2>7. TellsOf(s, n, port, g, s.ctrl)
    BY <2>3, <2>4 DEF TellsOf
  <2>8. Sane(u, n, before) /\ u.paused = s.paused
    BY <2>1, <2>2, <2>4, <2>5, <2>6, <2>7, RootChildSane
  <2> QED BY <2>8, <1>3, <1>4
<1>5. CASE r[1] # n /\ r \in DOMAIN s.entries /\ resumed(s.entries[r].child)
             /\ t = CheckAndSendDealloc(v, n, r)
  <2> DEFINE e == s.entries[r]
             g == Erase(e.child, in)
             f == [e EXCEPT !.child = g]
             E == [s.entries EXCEPT ![r] = f]
  <2>1. e \in Entry(n) /\ s.entries \in Entries(n) /\ ~ IsTrue(e.child, in) /\ e.child \in Children(n)
    BY <1>2, <1>5, StateOf, EntryAt DEF IsTrue, Entry
  <2>2. v = [s EXCEPT !.entries = E]
    OBVIOUS
  <2>3. g \in Children(n) /\ DOMAIN g = DOMAIN e.child \ {in}
        /\ \A q : IsTrue(g, q) <=> q # in /\ IsTrue(e.child, q)
    <3> HIDE DEF e
    <3> QED BY <2>1, EraseChild
  <2> HIDE DEF g
  <2>4. /\ f \in Entry(n) /\ f.hop = e.hop /\ f.ciq = e.ciq /\ f.status = e.status /\ f.child = g
        /\ f.counter = e.counter
    BY <2>1, <2>3 DEF Entry
  <2> HIDE DEF f
  <2>5. E \in Entries(n) /\ DOMAIN E = DOMAIN s.entries /\ E[r] = f
        /\ \A x \in DOMAIN s.entries \ {r} : E[x] = s.entries[x]
    BY <1>1, <1>5, <2>1, <2>4, EntryPut
  <2> HIDE DEF E, v
  <2>6. /\ v \in State(n) /\ v.entries = E /\ v.rootChild = s.rootChild /\ v.oq = s.oq /\ v.ciq = s.ciq
        /\ v.paused = s.paused /\ v.hier = s.hier /\ v.wire = s.wire /\ v.ctrl = s.ctrl
    BY <1>2, <2>2, <2>5, StateOf
  <2>7. \A x \in DOMAIN s.entries :
          /\ v.entries[x].hop = s.entries[x].hop /\ v.entries[x].ciq = s.entries[x].ciq
          /\ v.entries[x].status = s.entries[x].status
          /\ v.entries[x].counter = s.entries[x].counter
          /\ DOMAIN v.entries[x].child \subseteq DOMAIN s.entries[x].child
          /\ \A q : IsTrue(v.entries[x].child, q) <=> IsTrue(s.entries[x].child, q)
    <3>1. ASSUME NEW x \in DOMAIN s.entries
          PROVE  /\ v.entries[x].hop = s.entries[x].hop /\ v.entries[x].ciq = s.entries[x].ciq
                 /\ v.entries[x].status = s.entries[x].status
                 /\ v.entries[x].counter = s.entries[x].counter
                 /\ DOMAIN v.entries[x].child \subseteq DOMAIN s.entries[x].child
                 /\ \A q : IsTrue(v.entries[x].child, q) <=> IsTrue(s.entries[x].child, q)
      <4>1. CASE x = r
        BY <4>1, <2>1, <2>3, <2>4, <2>5, <2>6
      <4>2. CASE x # r
        BY <4>2, <2>5, <2>6
      <4> QED BY <4>1, <4>2
    <3> QED BY <3>1
  <2> HIDE DEF e, r
  <2>8. DOMAIN v.entries = DOMAIN s.entries
    BY <2>5, <2>6
  <2>9. OnTree(v, n)
    BY <1>2, <2>6, <2>7, <2>8 DEF OnTree
  <2>10. \A p, x : HasCIQ(v, x, p) <=> HasCIQ(s, x, p)
    BY <2>7, <2>8 DEF HasCIQ
  <2>11. Agree(v, n)
    <3>1. ASSUME NEW p \in PortOf[n], NEW x \in Root
          PROVE  x \in v.paused[p] <=> HasCIQ(v, x, p) /\ v.entries[x].status[p] = "PAUSE"
      <4>1. x \in s.paused[p] <=> HasCIQ(s, x, p) /\ s.entries[x].status[p] = "PAUSE"
        BY DEF Sane, Agree
      <4>2. HasCIQ(s, x, p) => v.entries[x].status = s.entries[x].status
        BY <2>7 DEF HasCIQ
      <4> QED BY <4>1, <4>2, <2>6, <2>10
    <3> QED BY <3>1 DEF Agree
  <2>12. Told(v, n, before)
    <3>1. \A up, x : RecordedIn(v, n, up, x) <=> RecordedIn(s, n, up, x)
      BY <2>6, <2>7, <2>8 DEF RecordedIn
    <3> QED BY <3>1, <2>6 DEF Told, Sane
  <2>13. \A x \in DOMAIN v.entries \cap DOMAIN s.entries : v.entries[x].counter = s.entries[x].counter
    BY <2>7
  <2>14. DOMAIN v.entries \ DOMAIN s.entries = {}
    BY <2>8
  <2>15. Sane(v, n, before)
    BY <2>6, <2>9, <2>10, <2>11, <2>12, <2>13, <2>14, ControlSane
  <2>16. Sane(t, n, before) /\ t.paused = v.paused
    BY <1>5, <2>8, <2>15, DeallocSane
  <2> QED BY <2>6, <2>16, <1>3
<1>6. CASE t = s
  BY <1>3, <1>6
<1>7. \/ r[1] = n /\ resumed(s.rootChild[port]) /\ t = u
      \/ r[1] # n /\ r \in DOMAIN s.entries /\ resumed(s.entries[r].child)
           /\ t = CheckAndSendDealloc(v, n, r)
      \/ t = s
  BY DEF ReceiveDealloc
<1> QED BY <1>4, <1>5, <1>6, <1>7

\* ReceiveCI keeps a switch sane, and the port is then paused for the roots
\* the signal says.
LEMMA ReceiveCISane ==
  ASSUME NEW n \in Switch, NEW before \in [PortOf[n] -> [Root -> BOOLEAN]],
         NEW s, Sane(s, n, before), NEW in, NEW sig \in SignalOn(in, n),
         NEW t, t = ReceiveCI(s, n, in, sig)
  PROVE  Sane(t, n, before) /\ PausedBy(s, t, n, in, sig)
<1>1. sig.kind \in {"PAUSE", "RESUME", "DEALLOC", "MERGE"}
  <2>1. Reliable(sig, in, n)
    BY SignalFacts
  <2> QED BY <2>1 DEF Reliable
<1>2. CASE sig.kind = "PAUSE"
  <2>1. t = ReceivePause(s, n, in, sig)
    BY <1>2 DEF ReceiveCI
  <2> QED BY <2>1, <1>2, ReceivePauseSane
<1>3. CASE sig.kind = "RESUME"
  <2>1. t = ReceiveResume(s, n, in, sig)
    BY <1>3 DEF ReceiveCI
  <2> QED BY <2>1, <1>3, ReceiveResumeSane
<1>4. CASE sig.kind = "DEALLOC"
  <2>1. t = ReceiveDealloc(s, n, in, sig)
    BY <1>4 DEF ReceiveCI
  <2> QED BY <2>1, <1>4, ReceiveDeallocSane
<1>5. CASE sig.kind = "MERGE"
  <2>1. t = ReceiveMerge(s, n, in, sig)
    BY <1>5 DEF ReceiveCI
  <2> QED BY <2>1, <1>5, ReceiveMergeSane
<1> QED BY <1>1, <1>2, <1>3, <1>4, <1>5
=============================================================================
