------------------------ MODULE FloodgateInvariant ------------------------
(***************************************************************************)
(* What holds between any two events of Floodgate, and what the functions  *)
(* and the events of a switch do to it: the words of the proofs.           *)
(***************************************************************************)
EXTENDS Floodgate, QueueProofs

-----------------------------------------------------------------------------
(* Types *)

Ids == Host \cup 0 .. VoqLimit - 1
Positive == Nat \ {0}
Packet == [kind : {"DATA"}, flow : Flow, seq : Nat, size : Positive, dst : Host,
           in : Node, psn : Nat, ipsn : Nat]
Frame == Packet \cup [kind : {"ACK"}, credit : Partial(Host, Nat)]
                \cup [kind : {"SYN"}, data : Partial(Host, Nat), ack : Partial(Host, Nat)]
GroupType == [VOQs : Partial(Ids, Seq(Packet)), dst2voq : Partial(Host, Ids)]
Counters == [Host -> Nat]
MmuType(s) ==
  [nxtData : Counters, rcvAck : Counters, fresh : [Host -> BOOLEAN], buffering : Counters,
   groups : [{0, 1} -> GroupType], rcvData : [Upstream(s) -> Counters],
   nxtAck : [Upstream(s) -> Counters], lstAck : [Upstream(s) -> Counters]]

-----------------------------------------------------------------------------
(* The groups of VOQs *)

\* The packets in one VOQ of a group, none if there is no such VOQ.
InVOQ(g, id) == IF id \in DOMAIN g.VOQs THEN g.VOQs[id] ELSE << >>

\* A packet taken from a VOQ: with a dynamic hash its destination is unbound
\* when nothing of it is left, and the VOQ is released when it is empty then.
Popped(g, id, d, left, r) ==
  /\ r \in GroupType
  /\ DOMAIN r.VOQs = IF DynamicHash /\ left = 0 /\ Tail(g.VOQs[id]) = << >>
                       THEN DOMAIN g.VOQs \ {id} ELSE DOMAIN g.VOQs
  /\ InVOQ(r, id) = Tail(g.VOQs[id])
  /\ \A i : i # id => InVOQ(r, i) = InVOQ(g, i)
  /\ \A e \in Host : e # d \/ left # 0 => VG!FindVOQId(r, e) = VG!FindVOQId(g, e)
  /\ DynamicHash => DOMAIN r.dst2voq = IF left = 0 THEN DOMAIN g.dst2voq \ {d} ELSE DOMAIN g.dst2voq

-----------------------------------------------------------------------------
(* Bytes in a queue, and bytes that wait *)

SizeOf(x, d, U) == IF IsFor(x, d, U) THEN x.size ELSE 0
SizesOf(d, U) == [x \in Frame |-> SizeOf(x, d, U)]

\* Where a packet may wait, and what waits there.
Places == {0, 1} \X Ids
VoqAt(m, v) == InVOQ(m.groups[v[1]], v[2])

WaitingAt(m, d, U) == [v \in Places |-> Bytes(VoqAt(m, v), d, U)]

-----------------------------------------------------------------------------
(* A switch at work: its counters and the egress queues *)

AtWork(s) == [m : MmuType(s), q : [Link -> Seq(Packet)]]

\* The counters that passing on and holding back leave alone.
Kept(m, r) ==
  /\ r.rcvAck = m.rcvAck /\ r.fresh = m.fresh
  /\ r.rcvData = m.rcvData /\ r.nxtAck = m.nxtAck /\ r.lstAck = m.lstAck

PortTo(s, d) == <<s, NextHop[s][d]>>

\* A packet as it goes on.
Same(p, x) == x.kind = p.kind /\ x.flow = p.flow /\ x.seq = p.seq /\ x.size = p.size
              /\ x.dst = p.dst /\ x.in = p.in /\ x.ipsn = p.ipsn

\* The places a destination may wait in: where it is bound to, if anywhere.
Bound(s, m, d) == {<<Group(s, d), id>> : id \in VG!FindVOQId(m.groups[Group(s, d)], d)}

\* A packet is held back.
Waited(s, st, p) ==
  [m |-> [st.m EXCEPT !.buffering[p.dst] = @ + p.size,
                      !.groups[Group(s, p.dst)] = VG!EnqueueVOQ(@, p.dst, p)],
   q |-> st.q]

Sent(s, st, v, p) ==
  LET next == Pass(s, st, p)
      left == st.m.buffering[p.dst] - p.size
  IN [m |-> [next.m EXCEPT !.buffering[p.dst] = left,
                           !.groups[v[1]] = VG!PopVOQ(@, v[2], p.dst, left)],
      q |-> next.q]

\* Where a packet that is held back waits: m before, n after.
WaitsAt(s, m, n, p, v) ==
  /\ v \in Places
  /\ VoqAt(n, v) = Append(VoqAt(m, v), p)
  /\ \A w \in Places : w # v => VoqAt(n, w) = VoqAt(m, w)
  /\ v \in Bound(s, n, p.dst)
  /\ \A e \in Host : e # p.dst \/ Bound(s, m, e) # {} => Bound(s, n, e) = Bound(s, m, e)
  /\ DynamicHash => \A h \in {0, 1} :
       /\ DOMAIN n.groups[h].VOQs \subseteq DOMAIN m.groups[h].VOQs \cup {v[2]}
       /\ DOMAIN n.groups[h].dst2voq \subseteq DOMAIN m.groups[h].dst2voq \cup {p.dst}
       /\ p.dst \in DOMAIN n.groups[h].dst2voq \ DOMAIN m.groups[h].dst2voq => h = Group(s, p.dst)
       /\ v[2] \in DOMAIN n.groups[h].VOQs \ DOMAIN m.groups[h].VOQs => h = v[1]

\* What a packet that is sent leaves behind: m before, n after.
LeftAt(s, m, n, p, v) ==
  /\ VoqAt(n, v) = Tail(VoqAt(m, v))
  /\ \A w \in Places : w # v => VoqAt(n, w) = VoqAt(m, w)
  /\ \A e \in Host : e # p.dst \/ n.buffering[p.dst] # 0 => Bound(s, n, e) = Bound(s, m, e)
  /\ DynamicHash => \A h \in {0, 1} :
       /\ DOMAIN n.groups[h].VOQs \subseteq DOMAIN m.groups[h].VOQs
       /\ DOMAIN n.groups[h].dst2voq \subseteq DOMAIN m.groups[h].dst2voq
  /\ DynamicHash /\ n.buffering[p.dst] = 0 =>
       /\ VoqAt(n, v) = << >> => v[2] \notin DOMAIN n.groups[v[1]].VOQs
       /\ p.dst \notin DOMAIN n.groups[v[1]].dst2voq

\* m_buffering counts the packets in the VOQs, each waits where its
\* destination is bound to, and with a dynamic hash nothing else is bound or
\* kept.
Placed(s, m) == \A v \in Places : \A i \in DOMAIN VoqAt(m, v) : v \in Bound(s, m, VoqAt(m, v)[i].dst)
Counted(m) == \A d \in Host : m.buffering[d] = WaitingBytes(m, d, Node)
Needed(s, m) ==
  DynamicHash => \A g \in {0, 1} :
    /\ \A d \in DOMAIN m.groups[g].dst2voq : Group(s, d) = g /\ m.buffering[d] > 0
    /\ \A id \in DOMAIN m.groups[g].VOQs : VoqAt(m, <<g, id>>) # << >>
VoqsOK(s, m) == Placed(s, m) /\ Counted(m) /\ Needed(s, m)

-----------------------------------------------------------------------------
(* Packets in order *)

\* What puts some packets in order: each stands for the numbers after lo up to
\* hi.
KeyOK(k) == \A x \in k.mem : x \in Packet /\ k.lo[x] \in Int /\ k.hi[x] \in Int /\ k.lo[x] < k.hi[x]

\* Of the packets for d, by what does not change as they go on in a switch.
KeyFor(k, d) ==
  /\ KeyOK(k) /\ \A x \in k.mem : x.dst = d
  /\ \A x, y \in Packet : Same(x, y) /\ x \in k.mem => y \in k.mem /\ k.lo[y] = k.lo[x] /\ k.hi[y] = k.hi[x]

\* A switch holds them in order, those in the port before those in the VOQs.
LinedAt(s, d, k, st, lo, hi) ==
  \E c \in Int : /\ lo <= c /\ c <= hi /\ Numbered(st.q[PortTo(s, d)], k, lo, c)
                 /\ \A v \in Places : Numbered(VoqAt(st.m, v), k, c, hi)

\* What a switch holds for d.
Holds(s, d, st, z) ==
  z \in Packet /\
  \/ \E i \in DOMAIN st.q[PortTo(s, d)] : st.q[PortTo(s, d)][i] = z
  \/ \E v \in Places : \E i \in DOMAIN VoqAt(st.m, v) : VoqAt(st.m, v)[i] = z
Total(s, st, d, U) == WaitingBytes(st.m, d, U) + Bytes(st.q[PortTo(s, d)], d, U)

\* The packets for d that left a switch, by their PSN.
PsnKey(d) == [mem |-> {x \in Packet : x.dst = d}, lo |-> [x \in Packet |-> x.psn - x.size], hi |-> [x \in Packet |-> x.psn]]

\* Those in its port are all that it counts after c.
PsnPort(s, d, st, c) ==
  /\ c <= st.m.nxtData[d]
  /\ Numbered(st.q[PortTo(s, d)], PsnKey(d), c, st.m.nxtData[d])
  /\ Covers(st.q[PortTo(s, d)], PsnKey(d), c, st.m.nxtData[d])

\* Packets that waited were sent: y after st.
Moved(s, st, y) ==
  /\ y \in AtWork(s) /\ Kept(st.m, y.m)
  /\ \A d \in Host, lo \in Int, hi \in Int : \A k :
       KeyFor(k, d) /\ LinedAt(s, d, k, st, lo, hi) => LinedAt(s, d, k, y, lo, hi)
  /\ \A d \in Host : \A z : Holds(s, d, st, z) /\ z.dst = d => \E x : Holds(s, d, y, x) /\ Same(z, x)
  /\ \A d \in Host : \A U : Total(s, y, d, U) = Total(s, st, d, U)
  /\ \A d \in Host : y.m.nxtData[d] - Bytes(y.q[PortTo(s, d)], d, Node)
                       = st.m.nxtData[d] - Bytes(st.q[PortTo(s, d)], d, Node)
  /\ Absolute => \A d \in Host, c \in Int : PsnPort(s, d, st, c) => PsnPort(s, d, y, c)
  /\ \A l \in Link : l[1] # s => y.q[l] = st.q[l]

\* What sending a packet that waited does to the queues: p becomes x.
SentOut(s, st, v, p, x, r) ==
  /\ r \in AtWork(s) /\ Kept(st.m, r.m) /\ p \in Packet /\ x \in Packet /\ Same(p, x) /\ v \in Places
  /\ VoqAt(st.m, v) # << >> /\ p = Head(VoqAt(st.m, v)) /\ VoqAt(r.m, v) = Tail(VoqAt(st.m, v))
  /\ \A w \in Places : w # v => VoqAt(r.m, w) = VoqAt(st.m, w)
  /\ PortTo(s, p.dst) \in Link /\ r.q[PortTo(s, p.dst)] = Append(st.q[PortTo(s, p.dst)], x)
  /\ \A l \in Link : l # PortTo(s, p.dst) => r.q[l] = st.q[l]
  /\ r.m.nxtData[p.dst] = st.m.nxtData[p.dst] + p.size
  /\ \A d \in Host : d # p.dst => r.m.nxtData[d] = st.m.nxtData[d]
  /\ Absolute => x.psn = r.m.nxtData[p.dst]

-----------------------------------------------------------------------------
(* Serving the turns *)

\* A route of a flow, and that a switch holds packets of the flows routed
\* through it only.
RouteOf(f, n, path) ==
  n \in 1 .. Cardinality(Switch) /\ path \in [1 .. n -> Switch] /\ IsInjective(path) /\ IsPath(f, path, n)
OnRoute(s, p) ==
  /\ p.dst = FlowDst[p.flow]
  /\ \A n, path : RouteOf(p.flow, n, path) => \E i \in 1 .. n : path[i] = s

\* A packet in a switch: where it came from, and that its PSN is noted.
Here(s, m, p) ==
  /\ OnRoute(s, p)
  /\ p.in \in Upstream(s) \/ ShouldIgnore(s, FlowSrc[p.flow])
  /\ p.in \in Upstream(s) => /\ NextHop[p.in][p.dst] = s /\ ~ ShouldIgnore(s, FlowSrc[p.flow])
                             /\ Absolute => p.ipsn <= m.rcvData[p.in][p.dst]

\* A packet on a port or a link: where it goes, and that its PSN is counted.
Out(l, m, p) ==
  /\ OnRoute(l[1], p)
  /\ NextHop[l[1]][p.dst] = l[2]
  /\ Absolute => p.psn <= m.nxtData[p.dst]
Queued(l, m, p) == Here(l[1], m, p) /\ Out(l, m, p)

\* A packet that waits does so for a window.
Waits(s, m) ==
  \A v \in Places : \A i \in DOMAIN VoqAt(m, v) :
    ~ ShouldIgnore(s, VoqAt(m, v)[i].dst) /\ Here(s, m, VoqAt(m, v)[i])
VoqsGood(s, m) == VoqsOK(s, m) /\ Waits(s, m)

\* What a switch at work has become: y after st.
Worked(s, st, y) ==
  /\ y \in AtWork(s) /\ Kept(st.m, y.m)
  /\ \A d \in Host : st.m.nxtData[d] <= y.m.nxtData[d]
  /\ \A l \in Link : \A i \in DOMAIN y.q[l] :
       \/ \E j \in DOMAIN st.q[l] : st.q[l][j] = y.q[l][i]
       \/ l[1] = s /\ Queued(l, y.m, y.q[l][i])

\* The turns: those of the destinations and those of the VOQs.
Turns == {<<d>> : d \in Host} \cup Places

\* Every VOQ whose head may be sent has a turn in the line.
LinedUp(m, line) ==
  \A v \in Places : \A p \in HeadOf(m, v) : CheckDstWin(m, p.dst, p.size) =>
    \E i \in DOMAIN line : line[i] = v \/ line[i] = <<p.dst>>
Serving(s, st) ==
  {x \in [st : AtWork(s), line : Seq(Turns)] :
     VoqsGood(s, x.st.m) /\ Worked(s, st, x.st) /\ Moved(s, st, x.st) /\ LinedUp(x.st.m, x.line)}
Still(x) == Len(x.line) + CellSum(x.st.m.buffering)

\* Turn by turn: the states the recursive function of SendWhile goes through.
Serves(f, s, x) == f = [n \in Nat |-> IF n = 0 THEN x ELSE Turn(s, f[n - 1])]
Run(g, n, s, x) == g = [i \in 0 .. n |-> IF i = 0 THEN x ELSE Turn(s, g[i - 1])]

\* No VOQ is held back for anything but its window.
Lacks(m) == \A v \in Places : \A p \in HeadOf(m, v) : ~ CheckDstWin(m, p.dst, p.size)

\* What working off a line of turns leads to.
Served(s, st, r) == r \in AtWork(s) /\ VoqsGood(s, r.m) /\ Worked(s, st, r) /\ Lacks(r.m)

\* A packet that comes to a switch: it goes on as x,
PassedOn(s, st, p, x, r) ==
  /\ r \in AtWork(s) /\ Kept(st.m, r.m) /\ x \in Packet /\ Same(p, x) /\ r.m.groups = st.m.groups
  /\ \A v \in Places : \A i \in DOMAIN VoqAt(st.m, v) : VoqAt(st.m, v)[i].dst # p.dst
  /\ PortTo(s, p.dst) \in Link /\ r.q[PortTo(s, p.dst)] = Append(st.q[PortTo(s, p.dst)], x)
  /\ \A l \in Link : l # PortTo(s, p.dst) => r.q[l] = st.q[l]
  /\ \A d \in Host : d # p.dst => r.m.nxtData[d] = st.m.nxtData[d]
  /\ ~ ShouldIgnore(s, p.dst) => /\ r.m.nxtData[p.dst] = st.m.nxtData[p.dst] + p.size
                                 /\ Absolute => x.psn = r.m.nxtData[p.dst]

\* or waits in v.
HeldBack(st, p, v, r) ==
  /\ r.q = st.q /\ Kept(st.m, r.m) /\ r.m.nxtData = st.m.nxtData /\ v \in Places /\ VoqAt(r.m, v) = Append(VoqAt(st.m, v), p)
  /\ \A w \in Places : w # v => VoqAt(r.m, w) = VoqAt(st.m, w)

\* A packet p has joined what a switch holds: y after st.
Joined(s, st, p, y) ==
  /\ y \in AtWork(s) /\ Kept(st.m, y.m)
  /\ \A d \in Host, lo \in Int, c \in Int, hi \in Int : \A k :
       KeyFor(k, d) /\ LinedAt(s, d, k, st, lo, c) /\ c <= hi /\ (p \in k.mem => c <= k.lo[p] /\ k.hi[p] <= hi)
         => LinedAt(s, d, k, y, lo, hi)
  /\ \A d \in Host : \A z : Holds(s, d, st, z) => Holds(s, d, y, z)
  /\ \E x : Holds(s, p.dst, y, x) /\ Same(p, x)
  /\ \A d \in Host : \A U : Total(s, y, d, U) = Total(s, st, d, U) + SizeOf(p, d, U)
  /\ \A d \in Host : ~ ShouldIgnore(s, d) =>
       y.m.nxtData[d] - Bytes(y.q[PortTo(s, d)], d, Node) = st.m.nxtData[d] - Bytes(st.q[PortTo(s, d)], d, Node)
  /\ Absolute => \A d \in Host, c \in Int : ~ ShouldIgnore(s, d) /\ PsnPort(s, d, st, c) => PsnPort(s, d, y, c)
  /\ \A l \in Link : l[1] # s => y.q[l] = st.q[l]

-----------------------------------------------------------------------------
(* Credits *)

\* What a switch has counted for the switches before it: acknowledged, passed
\* on, received; and nothing that was not to come this way.
Owes(s, m) ==
  \A u \in Upstream(s), d \in Host :
    /\ m.lstAck[u][d] <= m.nxtAck[u][d]
    /\ NextHop[u][d] # s => m.nxtAck[u][d] = 0 /\ m.rcvData[u][d] = 0
    /\ Absolute => m.nxtAck[u][d] <= m.rcvData[u][d]

\* A switch between two events.
StateOK(s, m) == m \in MmuType(s) /\ VoqsGood(s, m) /\ Lacks(m) /\ Owes(s, m)

\* A credit that s may give u, by what s has counted.
Gives(s, u, m, credit) ==
  /\ \A d \in DOMAIN credit : NextHop[u][d] = s /\ (Absolute => credit[d] <= m.lstAck[u][d])
  /\ Mode = "dst" => \E d \in Host : DOMAIN credit = {d}

\* A frame on a link.
Carried(l, m, x) ==
  /\ x.kind = "DATA" => Out(l, m, x)
  /\ x.kind = "ACK"  => l[2] \in Upstream(l[1]) /\ Gives(l[1], l[2], m, x.credit)
  /\ x.kind = "SYN"  => SynTimer /\ \A d \in DOMAIN x.data : NextHop[l[1]][d] = l[2] /\ x.data[d] <= m.nxtData[d]

\* A change of the credit counters alone.
Apart(m, n) ==
  /\ n.nxtData = m.nxtData /\ n.rcvAck = m.rcvAck /\ n.fresh = m.fresh
  /\ n.buffering = m.buffering /\ n.groups = m.groups
Noted(s, m, n) ==
  \A u \in Upstream(s), d \in Host : m.rcvData[u][d] <= n.rcvData[u][d] /\ m.lstAck[u][d] <= n.lstAck[u][d]

\* Credits sent back: n after m, and the frames to each switch before.
Acked(s, m, r) ==
  /\ r.m \in MmuType(s) /\ Apart(m, r.m) /\ Noted(s, m, r.m) /\ Owes(s, r.m) /\ r.m.rcvData = m.rcvData
  /\ DOMAIN r.acks \subseteq Upstream(s)
  /\ \A u \in DOMAIN r.acks : /\ r.acks[u] \in Seq(Frame)
                              /\ \A i \in DOMAIN r.acks[u] : r.acks[u][i].kind = "ACK" /\ Carried(<<s, u>>, r.m, r.acks[u][i])

\* What is paid back to the switches before: nothing, or one frame with what
\* was due.
Repaid(u, m, n, x) ==
  /\ x \in Frame /\ x.kind = "ACK"
  /\ \A d \in Host : IF d \notin DOMAIN x.credit THEN n.lstAck[u][d] = m.lstAck[u][d]
                     ELSE IF Absolute THEN n.lstAck[u][d] = x.credit[d]
                     ELSE n.lstAck[u][d] = m.lstAck[u][d] + x.credit[d]
Repays(s, m, r) ==
  \A u \in Upstream(s) :
    \/ (u \in DOMAIN r.acks => r.acks[u] = << >>) /\ \A d \in Host : r.m.lstAck[u][d] = m.lstAck[u][d]
    \/ u \in DOMAIN r.acks /\ \E x : r.acks[u] = <<x>> /\ Repaid(u, m, r.m, x)

\* A packet that leaves the switch is counted, and credits may be due.
Notified(s, m, p, r) ==
  /\ Repays(s, m, r)
  /\ \A v \in Upstream(s), e \in Host :
       r.m.nxtAck[v][e] = IF v # p.in \/ e # p.dst THEN m.nxtAck[v][e]
                          ELSE IF Absolute THEN Max({m.nxtAck[v][e], p.ipsn}) ELSE m.nxtAck[v][e] + p.size

-----------------------------------------------------------------------------
(* The inductive invariant, of the switches M, the ports Q and the links W *)

\* A hop in absolute mode: what the next hop has received was sent, and what
\* was acknowledged to the sender was sent as acknowledged.
Pair(l, a, b) ==
  Absolute => \A d \in Host : NextHop[l[1]][d] = l[2] =>
    b.rcvData[l[1]][d] <= a.nxtData[d] /\ a.rcvAck[d] <= b.lstAck[l[1]][d]

SystemOK(M, Q, W) ==
  /\ DOMAIN M = Switch /\ Q \in [Link -> Seq(Packet)] /\ W \in [Wire -> Seq(Frame)]
  /\ \A s \in Switch : StateOK(s, M[s])
  /\ \A l \in Link : \A i \in DOMAIN Q[l] : Queued(l, M[l[1]], Q[l][i])
  /\ \A l \in Wire : \A i \in DOMAIN W[l] : Carried(l, M[l[1]], W[l][i])
  /\ \A l \in Wire : Pair(l, M[l[1]], M[l[2]])

\* What a frame or packet says of its sender stays true as the counters grow.
Grown(s, m, n) == (\A d \in Host : m.nxtData[d] <= n.nxtData[d]) /\ Noted(s, m, n)

\* The ports, the links: they keep what they had, lose some of it, and get what
\* s puts there when its counters are n.
PortsFrom(s, n, Q, P) ==
  /\ P \in [Link -> Seq(Packet)]
  /\ \A l \in Link : \A i \in DOMAIN P[l] :
       (\E j \in DOMAIN Q[l] : Q[l][j] = P[l][i]) \/ (l[1] = s /\ Queued(l, n, P[l][i]))
WiresFrom(s, n, W, X) ==
  /\ X \in [Wire -> Seq(Frame)]
  /\ \A l \in Wire : \A i \in DOMAIN X[l] :
       (\E j \in DOMAIN W[l] : W[l][j] = X[l][i]) \/ (l[1] = s /\ Carried(l, n, X[l][i]))

\* Nothing is put on the links.
Drained(W, X) ==
  /\ X \in [Wire -> Seq(Frame)]
  /\ \A l \in Wire : \A i \in DOMAIN X[l] : \E j \in DOMAIN W[l] : W[l][j] = X[l][i]

\* What s agrees on with its neighbours when its counters are n.
Agreed(s, M, n) ==
  /\ \A u \in Upstream(s) : Pair(<<u, s>>, M[u], n)
  /\ \A t \in Switch : <<s, t>> \in Wire => Pair(<<s, t>>, n, M[t])

\* The links after credits are put on them.
Acking(s, w, acks) ==
  [l \in Wire |-> IF l[1] = s /\ l[2] \in DOMAIN acks THEN w[l] \o acks[l[2]] ELSE w[l]]

\* A frame that is handled leaves its link.
Handled(W, l) == [W EXCEPT ![l] = Tail(@)]

-----------------------------------------------------------------------------
(* From event to event: data *)

\* A PSN is noted as received.
Noting(m, u, d, x) == [m EXCEPT !.rcvData[u][d] = IF Absolute THEN Max({@, x}) ELSE @]

RcvNoted(s, m, u, d, x, k) ==
  /\ k \in MmuType(s) /\ Apart(m, k) /\ Noted(s, m, k) /\ Owes(s, k) /\ k.lstAck = m.lstAck /\ k.nxtAck = m.nxtAck
  /\ Absolute => x <= k.rcvData[u][d]
  /\ \A v \in Upstream(s), e \in Host :
       \/ k.rcvData[v][e] = m.rcvData[v][e]
       \/ v = u /\ e = d /\ Absolute /\ \A c \in Nat : m.rcvData[u][d] <= c /\ x <= c => k.rcvData[u][d] <= c

-----------------------------------------------------------------------------
(* From event to event: switch ACKs *)

\* The counters that ReceiveAck works with.
Restored(m, credit) ==
  [RecoverWin(m, credit) EXCEPT !.fresh = [d \in Host |-> @[d] \/ (SynTimer /\ d \in DOMAIN credit)]]

RestoredOK(s, m, credit, k) ==
  /\ k \in MmuType(s) /\ VoqsGood(s, k) /\ Owes(s, k)
  /\ k.groups = m.groups /\ k.nxtData = m.nxtData /\ k.rcvData = m.rcvData /\ k.lstAck = m.lstAck /\ k.nxtAck = m.nxtAck
  /\ \A d \in DOMAIN credit : /\ Absolute => m.rcvAck[d] <= k.rcvAck[d] /\ credit[d] <= k.rcvAck[d]
                              /\ ~ Absolute => k.rcvAck[d] = m.rcvAck[d] + credit[d]
  /\ \A d \in Host : d \notin DOMAIN credit => k.rcvAck[d] = m.rcvAck[d]
  /\ Absolute => \A d \in Host : k.rcvAck[d] = m.rcvAck[d]
                    \/ /\ d \in DOMAIN credit
                       /\ \A c \in Nat : m.rcvAck[d] <= c /\ credit[d] <= c => k.rcvAck[d] <= c

\* A switch ACK from n has come to s, and waiting packets were sent.
AckTaken(s, n, credit) ==
  /\ wire' = Handled(wire, <<n, s>>) /\ sent' = sent /\ rcvd' = rcvd
  /\ credit \in Partial(Host, Nat) /\ Gives(n, s, mmu[n], credit)
  /\ \E k, r : /\ RestoredOK(s, mmu[s], credit, k) /\ Moved(s, [m |-> k, q |-> oq], r)
               /\ mmu' = [mmu EXCEPT ![s] = r.m] /\ oq' = r.q

-----------------------------------------------------------------------------
(* From event to event: what a switch sends *)

\* Credits of s were sent back because a timer ran out.
CreditsSent(s) ==
  /\ oq' = oq /\ sent' = sent /\ rcvd' = rcvd
  /\ \E r : /\ Acked(s, mmu[s], r) /\ Repays(s, mmu[s], r) /\ r.m.nxtAck = mmu[s].nxtAck
            /\ mmu' = [mmu EXCEPT ![s] = r.m] /\ wire' = Acking(s, wire, r.acks)

-----------------------------------------------------------------------------
(* From event to event: SYN *)

\* A SYN timer of s for its link l ran out.
SynSent(s, l) ==
  /\ SynTimer /\ s \in Switch /\ l \in Wire /\ oq' = oq /\ sent' = sent /\ rcvd' = rcvd
  /\ \E k : /\ mmu' = [mmu EXCEPT ![s] = k] /\ k.groups = mmu[s].groups /\ k.nxtData = mmu[s].nxtData
            /\ k.rcvData = mmu[s].rcvData
  /\ \E x : x \in Frame /\ x.kind = "SYN" /\ (wire' = wire \/ wire' = [wire EXCEPT ![l] = Append(wire[l], x)])

\* What CheckSYN makes of the counters: what was sent counts as received and
\* passed on.
Checked(s, u, m, syn, k) ==
  /\ k \in MmuType(s) /\ Apart(m, k) /\ k.lstAck = m.lstAck /\ Noted(s, m, k) /\ Owes(s, k)
  /\ \A v \in Upstream(s), d \in Host :
       \/ k.rcvData[v][d] = m.rcvData[v][d]
       \/ v = u /\ d \in DOMAIN syn.data /\ k.rcvData[v][d] = syn.data[d]

\* The counters of u brought up to date for D.
CleanOK(s, u, m, D, n) ==
  /\ n \in MmuType(s) /\ Apart(m, n) /\ Noted(s, m, n) /\ Owes(s, n) /\ n.rcvData = m.rcvData
  /\ \A d \in D : n.lstAck[u][d] = m.nxtAck[u][d]

\* A SYN on the link l has come to s, and was answered.
SynTaken(s, l) ==
  /\ SynTimer /\ oq' = oq /\ sent' = sent /\ rcvd' = rcvd
  /\ \E n, a : /\ Apart(mmu[s], n) /\ mmu' = [mmu EXCEPT ![s] = n] /\ wire' = Acking(s, Handled(wire, l), a)
               /\ \A y \in DOMAIN a : a[y] \in Seq(Frame) /\ \A i \in DOMAIN a[y] : a[y][i].kind = "ACK"

-----------------------------------------------------------------------------
(* The packets of a flow *)

\* The packets of a flow, by their numbers.
SeqKey(f) ==
  [mem |-> {x \in Packet : x.flow = f /\ x.dst = FlowDst[f]},
   lo |-> [x \in Packet |-> x.seq - 1], hi |-> [x \in Packet |-> x.seq]]

\* A switch among the others.
At(M, Q, s) == [m |-> M[s], q |-> Q]

\* The packets of f on its way: A is what entered each switch of it and B what
\* left it, S what was sent and R what has arrived.
FlowLines(f, n, path, A, B, M, Q, W, S, R) ==
  /\ A \in [1 .. n -> Int] /\ B \in [1 .. n -> Int]
  /\ \A i \in 1 .. n : A[i] <= S /\ LinedAt(path[i], FlowDst[f], SeqKey(f), At(M, Q, path[i]), B[i], A[i])
  /\ \A i \in 1 .. n - 1 : A[i + 1] <= B[i] /\ Numbered(W[<<path[i], path[i + 1]>>], SeqKey(f), A[i + 1], B[i])
  /\ Arriving(R, B[n])

FlowOn(f, n, path, M, Q, W, S, R) == \E A, B : FlowLines(f, n, path, A, B, M, Q, W, S, R)

\* Only s changes: its counters and its ports.
Elsewhere(s, M, Q, N, P) ==
  /\ \A t \in Switch : t # s => N[t] = M[t]
  /\ \A l \in Link : l[1] # s => P[l] = Q[l]

\* What s holds of the packets of k for d stays in line.
KeptAt(s, d, k, M, Q, N, P) ==
  \A lo, hi \in Int : LinedAt(s, d, k, At(M, Q, s), lo, hi) => LinedAt(s, d, k, At(N, P, s), lo, hi)

\* What the links hold of them stays in order.
KeptOn(k, W, X) ==
  \A l \in Wire, lo, hi \in Int : lo <= hi /\ Numbered(W[l], k, lo, hi) => Numbered(X[l], k, lo, hi)

\* A packet p comes to s, and goes on or waits.
Comes(s, p, f, M, Q, N, P) ==
  /\ Elsewhere(s, M, Q, N, P)
  /\ p \notin SeqKey(f).mem => KeptAt(s, FlowDst[f], SeqKey(f), M, Q, N, P)
  /\ \A lo, c \in Int :
       p \in SeqKey(f).mem /\ c < p.seq /\ LinedAt(s, FlowDst[f], SeqKey(f), At(M, Q, s), lo, c)
         => LinedAt(s, FlowDst[f], SeqKey(f), At(N, P, s), lo, p.seq)

\* The links of a route but the one after its i-th switch keep their order.
KeptBeside(i, n, path, k, W, X) ==
  \A j \in 1 .. n - 1, lo, hi \in Int :
    /\ j # i /\ lo <= hi /\ Numbered(W[<<path[j], path[j + 1]>>], k, lo, hi)
      => Numbered(X[<<path[j], path[j + 1]>>], k, lo, hi)

\* All flows.
FlowsOK(M, Q, W, S, R) ==
  \A f \in Flow : \A n, path : RouteOf(f, n, path) => FlowOn(f, n, path, M, Q, W, S[f], R[f])

\* The next packet of a flow, as its ToR gets it from its host.
HostPacket(f) ==
  [kind |-> "DATA", flow |-> f, seq |-> sent[f] + 1, size |-> Sizes[f][sent[f] + 1],
   dst |-> FlowDst[f], in |-> FlowSrc[f], psn |-> 0, ipsn |-> 0]

\* A packet p from u has come to s, is noted, and goes on or waits or is dropped.
Arrived(s, u, p) ==
  /\ p \in Packet /\ u \in Switch /\ <<u, s>> \in Wire /\ OnRoute(u, p) /\ NextHop[u][p.dst] = s
  /\ wire[<<u, s>>] # << >> /\ p = Head(wire[<<u, s>>])
  /\ wire' = Handled(wire, <<u, s>>) /\ sent' = sent /\ rcvd' = rcvd
  /\ \E k : /\ RcvNoted(s, mmu[s], u, p.dst, p.psn, k)
            /\ \/ \E q, r : /\ q \in Packet /\ q.flow = p.flow /\ q.dst = p.dst /\ q.seq = p.seq
                            /\ q.in = u /\ q.size = p.size /\ q.ipsn = p.psn
                            /\ Joined(s, [m |-> k, q |-> oq], q, r)
                            /\ mmu' = [mmu EXCEPT ![s] = r.m] /\ oq' = r.q
               \/ mmu' = [mmu EXCEPT ![s] = k] /\ oq' = oq /\ losses' = losses + 1

\* A packet p has left s for t.
Departed(s, t, p) ==
  /\ s \in Switch /\ <<s, t>> \in Link /\ p \in Packet /\ Queued(<<s, t>>, mmu[s], p)
  /\ oq[<<s, t>>] # << >> /\ p = Head(oq[<<s, t>>])
  /\ oq' = [oq EXCEPT ![<<s, t>>] = Tail(oq[<<s, t>>])] /\ sent' = sent
  /\ rcvd' = IF t \in Host THEN [rcvd EXCEPT ![p.flow] = Append(rcvd[p.flow], p.seq)] ELSE rcvd
  /\ \E r : /\ Acked(s, mmu[s], r) /\ mmu' = [mmu EXCEPT ![s] = r.m] /\ r = NotifyDequeue(s, mmu[s], p)
            /\ wire' = Acking(s, IF t \in Host THEN wire ELSE [wire EXCEPT ![<<s, t>>] = Append(wire[<<s, t>>], p)], r.acks)

\* The first packet p of a port l leaves it.
LinedAfter(s, l, p, d, k, lo, hi, N, P) ==
  /\ p \notin k.mem => LinedAt(s, d, k, At(N, P, s), lo, hi)
  /\ p \in k.mem /\ PortTo(s, d) = l => lo <= k.lo[p] /\ LinedAt(s, d, k, At(N, P, s), k.hi[p], hi)

-----------------------------------------------------------------------------
(* What is under way on a hop *)

\* The PSNs that u has given out for d and s has not received: those after c
\* are in the port of u, the others were put on the link, in order.
HopOK(u, s, d, M, Q, W) ==
  \E c \in Int : /\ M[s].rcvData[u][d] <= c /\ PsnPort(u, d, At(M, Q, u), c)
                 /\ Numbered(W[<<u, s>>], PsnKey(d), M[s].rcvData[u][d], c)

HopsOK(M, Q, W) ==
  Absolute /\ ~ SynTimer =>
    \A u \in Switch, s \in Switch, d \in Host : IsHop(u, s, d) => HopOK(u, s, d, M, Q, W)

\* The port of u, and a link, keep what they have for d in order.
PortKept(u, d, M, Q, N, P) ==
  \A c \in Int : PsnPort(u, d, At(M, Q, u), c) => PsnPort(u, d, At(N, P, u), c)
PortsKept(u, M, Q, N, P) ==
  Absolute => \A d \in Host : ~ ShouldIgnore(u, d) => PortKept(u, d, M, Q, N, P)
LinkKept(l, k, W, X) ==
  \A lo, hi \in Int : lo <= hi /\ Numbered(W[l], k, lo, hi) => Numbered(X[l], k, lo, hi)

\* A switch put packets in its ports.
PutInPorts(s, st, r) ==
  /\ Kept(st.m, r.m) /\ \A l \in Link : l[1] # s => r.q[l] = st.q[l]
  /\ Absolute => \A d \in Host, c \in Int : ~ ShouldIgnore(s, d) /\ PsnPort(s, d, st, c) => PsnPort(s, d, r, c)

PortsWorked(s, M, Q, st, r, N, P) ==
  /\ DOMAIN M = Switch /\ st.m.nxtData = M[s].nxtData /\ st.q = Q
  /\ PutInPorts(s, st, r) /\ N = [M EXCEPT ![s] = r.m] /\ P = r.q

-----------------------------------------------------------------------------
(* Windows: where the bytes of a window are *)

\* A packet for d from U stands for as many numbers as it has bytes.
Fits(k, d, U) == \A x \in Packet : IsFor(x, d, U) => x \in k.mem /\ k.lo[x] = k.hi[x] - x.size

\* The packets for d that came from u, by the PSN they came with.
InKey(u, d) ==
  [mem |-> {x \in Packet : x.dst = d /\ x.in = u},
   lo |-> [x \in Packet |-> x.ipsn - x.size], hi |-> [x \in Packet |-> x.ipsn]]

\* The bytes u has sent for d towards s: passed on there, held there, on the link.
SentBytes(u, d, M, Q) == M[u].nxtData[d] - Bytes(Q[PortTo(u, d)], d, Node)
HeldBytes(s, u, d, M, Q) == Total(s, At(M, Q, s), d, {u})
HopBytes(u, s, d, M, Q, W) ==
  /\ SentBytes(u, d, M, Q) = M[s].nxtAck[u][d] + HeldBytes(s, u, d, M, Q) + Bytes(W[<<u, s>>], d, Node)
  /\ Absolute => /\ M[s].rcvData[u][d] = M[s].nxtAck[u][d] + HeldBytes(s, u, d, M, Q)
                 /\ LinedAt(s, d, InKey(u, d), At(M, Q, s), M[s].nxtAck[u][d], M[s].rcvData[u][d])

\* The links q to a switch carry what it was given back, z, and has not got, c.
CreditIn(d) == [x \in Frame |-> Credited(x, d)]
Paid(q, d, c, z) ==
  IF Absolute THEN z = c \/ \E i \in DOMAIN q : q[i].kind = "ACK" /\ d \in DOMAIN q[i].credit /\ q[i].credit[d] = z
  ELSE z = c + CellSum(Weights(q, CreditIn(d)))
HopPaid(u, s, d, M, W) == Paid(W[<<s, u>>], d, M[u].rcvAck[d], M[s].lstAck[u][d])

BalanceOK(M, Q, W) ==
  ~ SynTimer => \A u \in Switch, s \in Switch, d \in Host : IsHop(u, s, d) =>
    HopBytes(u, s, d, M, Q, W) /\ HopPaid(u, s, d, M, W)

\* Nothing of a hop is sent, or passed on, received or forgotten by its next.
SideSame(u, d, M, Q, N, P) == SentBytes(u, d, N, P) = SentBytes(u, d, M, Q)
StoreSame(s, u, d, M, Q, N, P) ==
  /\ HeldBytes(s, u, d, N, P) = HeldBytes(s, u, d, M, Q) /\ KeptAt(s, d, InKey(u, d), M, Q, N, P)
NotedSame(s, u, d, M, N) == N[s].nxtAck[u][d] = M[s].nxtAck[u][d] /\ N[s].rcvData[u][d] = M[s].rcvData[u][d]

\* A switch z at work that lets nothing leave.
StoresKept(z, M, Q, N, P) ==
  /\ Elsewhere(z, M, Q, N, P)
  /\ \A d \in Host : ~ ShouldIgnore(z, d) => SideSame(z, d, M, Q, N, P)
  /\ \A u \in Upstream(z), d \in Host : StoreSame(z, u, d, M, Q, N, P)

\* What a switch has put on its ports and in its VOQs, by those counters alone.
Shows(s, st, M, Q) == st.q = Q /\ st.m.groups = M[s].groups /\ st.m.nxtData = M[s].nxtData

\* A switch at work is done.
Becomes(s, M, r, N, P) == N = [M EXCEPT ![s] = r.m] /\ P = r.q

\* A packet q has come to a switch, which holds it.
Entered(s, q, M, Q, N, P) ==
  /\ Elsewhere(s, M, Q, N, P)
  /\ \A d \in Host : ~ ShouldIgnore(s, d) => SideSame(s, d, M, Q, N, P)
  /\ \A u \in Upstream(s), d \in Host :
       IF q.dst = d /\ q.in = u
       THEN /\ HeldBytes(s, u, d, N, P) = HeldBytes(s, u, d, M, Q) + q.size
            /\ \A lo, c \in Int : LinedAt(s, d, InKey(u, d), At(M, Q, s), lo, c) /\ c <= q.ipsn - q.size
                                    => LinedAt(s, d, InKey(u, d), At(N, P, s), lo, q.ipsn)
       ELSE StoreSame(s, u, d, M, Q, N, P)

\* A packet that leaves a switch takes its bytes along: what it holds then.
Unheld(s, u, d, p, M, Q, N, P) ==
  /\ HeldBytes(s, u, d, M, Q) = HeldBytes(s, u, d, N, P) + SizeOf(p, d, {u})
  /\ \A lo, hi \in Int : LinedAt(s, d, InKey(u, d), At(M, Q, s), lo, hi) =>
       LinedAfter(s, PortTo(s, p.dst), p, d, InKey(u, d), lo, hi, N, P)

\* Links with as many bytes of data as before; credits paid back as before.
SameBytes(W, X) == \A l \in Wire, d \in Host : Bytes(X[l], d, Node) = Bytes(W[l], d, Node)
StillPaid(M, W, N, X) ==
  \A u \in Switch, s \in Switch, d \in Host : IsHop(u, s, d) /\ HopPaid(u, s, d, M, W) => HopPaid(u, s, d, N, X)

\* A frame that is handled, or put on a link, or both sides' counters as before.
CountersPaid(M, N) == \A t \in Switch : N[t].rcvAck = M[t].rcvAck /\ N[t].lstAck = M[t].lstAck

\* A packet goes from the port of a hop to its link.
Leaves(l, t, p, Q, W, P, w) ==
  /\ Q[l] # << >> /\ p = Head(Q[l]) /\ P = [Q EXCEPT ![l] = Tail(Q[l])]
  /\ w = IF t \in Host THEN W ELSE [W EXCEPT ![l] = Append(W[l], p)]
SentSame(M, N) == \A x \in Switch : N[x].nxtData = M[x].nxtData

\* A packet leaves s, which counts it.
StoreCounted(s, u, d, M, Q, N, P) ==
  /\ N[s].nxtAck[u][d] + HeldBytes(s, u, d, N, P) = M[s].nxtAck[u][d] + HeldBytes(s, u, d, M, Q)
  /\ N[s].rcvData[u][d] = M[s].rcvData[u][d]
  /\ Absolute => LinedAt(s, d, InKey(u, d), At(N, P, s), N[s].nxtAck[u][d], N[s].rcvData[u][d])

-----------------------------------------------------------------------------
(* The invariant *)

FloodgateInv ==
  /\ settings \in Configuration
  /\ SystemOK(mmu, oq, wire)
  /\ FlowsOK(mmu, oq, wire, sent, rcvd) /\ DOMAIN rcvd = Flow
  /\ HopsOK(mmu, oq, wire)
  /\ losses = 0 => BalanceOK(mmu, oq, wire)
  /\ sent \in [Flow -> Nat] /\ \A f \in Flow : sent[f] <= Len(Sizes[f])
  /\ losses \in 0 .. MaxLoss /\ aborted \in BOOLEAN
===========================================================================
