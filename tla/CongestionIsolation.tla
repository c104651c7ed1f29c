------------------------- MODULE CongestionIsolation -------------------------
(***************************************************************************)
(* Congestion isolation, the hop by hop flow control of this repository    *)
(* (switch-node.cc and switch-mmu.cc, fc_mode FC_CONGESTION_ISOLATION).    *)
(*                                                                         *)
(* A port whose default queue (OQ) grows is a congestion root.  It pauses  *)
(* its upstream devices for the packets that will cross it.  An upstream   *)
(* switch keeps a CAM entry for the root and isolates such packets in a    *)
(* congestion isolated queue (CIQ) of its port; when the CIQ grows, it     *)
(* pauses its own upstream devices, so a tree of paused CIQs grows, and    *)
(* it shrinks with resume and dealloc signals.  A root that learns of a    *)
(* root downstream of it merges its tree into that one.                    *)
(*                                                                         *)
(* A handler runs to its end before the next event; it schedules its       *)
(* signals (SendCIPacket after 0 ns), which go to queue 0 of the device,   *)
(* the one of highest priority, and so precede all data the device has not *)
(* begun to transmit.  A port is named by the node at its other end, a CIQ *)
(* by its port and its root: a port has at most one CIQ for a root.        *)
(* Settings modelled: nearest_match false, ECMP routing (the routing tag   *)
(* holds the whole path), packets of one size.                             *)
(***************************************************************************)
EXTENDS Integers, Sequences, SequencesExt, FiniteSets, FiniteSetsExt, Functions

CONSTANTS
  Switch, Host,
  ToR,            \* the switches with m_isToR
  UpPort,         \* Settings::up_port, as a set of <<switch, node>>
  Flow,
  Path,           \* [Flow -> Seq(node)]: the sender, the switches, the receiver
  WireCap,        \* packets of data a link holds at once: its bandwidth-delay product
  PauseTh,        \* th_congestion, in packets: more of them cause a pause
  ResumeTh,       \* th_resume, in packets: fewer of them cause a resume
  Configuration,  \* the settings a simulation may be started with
  Congested       \* links that need not ever transmit (for FairSpec)

VARIABLES
  settings,    \* what the configuration file sets, see below
  sw,          \* [switch]: the state of a switch, see SwitchState
  chan,        \* [<<from, to>>]: what is on a link, in order
  hostPaused,  \* [host]: the roots its device is paused for
  sent,        \* [flow]: packets sent
  received     \* [flow]: the numbers of the packets received, in order

vars == <<settings, sw, chan, hostPaused, sent, received>>

(***************************************************************************)
(* Settings, read once before the simulation starts.                       *)
(***************************************************************************)
CongestionMerge == settings.congestion_merge
DeallocOn == settings.dealloc_on
OnlyDownPort == settings.only_down_port_enable
Packets == settings.packets     \* [Flow -> Nat], the bound: packets a flow sends
HolLimit == settings.hol        \* what th_hol * bytes_up_data / up_port_num may be: a set of [Switch -> Nat]

(***************************************************************************)
(* Topology.                                                               *)
(***************************************************************************)
Hops(f) == {<<Path[f][i], Path[f][i + 1]>> : i \in 1 .. Len(Path[f]) - 1}
Link == UNION {Hops(f) \cup {<<l[2], l[1]>> : l \in Hops(f)} : f \in Flow}
PortOf == [n \in Switch \cup Host |-> {l[2] : l \in {k \in Link : k[1] = n}}]
Devices == [n \in Switch |-> SetToSeq(PortOf[n])]   \* m_devices

\* What may be a congestion root: an output port on the path of a flow.
Root == {h \in UNION {Hops(f) : f \in Flow} : h[1] \in Switch}

\* A path leads from a host through switches to a host and meets no node
\* twice; a host has one device.
ASSUME CiParameters ==
  /\ IsFiniteSet(Flow) /\ Switch \cap Host = {}
  /\ PauseTh \in Nat /\ ResumeTh \in Nat
  /\ \A f \in Flow :
       /\ Path[f] \in Seq(Switch \cup Host) /\ Len(Path[f]) > 2
       /\ \A i \in DOMAIN Path[f] : Path[f][i] \in Host <=> i \in {1, Len(Path[f])}
       /\ IsInjective(Path[f])
  /\ \A k, l \in Link : k[1] \in Host /\ k[1] = l[1] => k = l
  /\ \A c \in Configuration :
       /\ {c.congestion_merge, c.dealloc_on, c.only_down_port_enable} \subseteq BOOLEAN
       /\ c.packets \in [Flow -> Nat] /\ c.hol \subseteq [Switch -> Nat]

Pos(n, f) == CHOOSE i \in DOMAIN Path[f] : Path[f][i] = n
NextHop(n, f) == Path[f][Pos(n, f) + 1]
PrevHop(n, f) == Path[f][Pos(n, f) - 1]
RootAt(f, i) == <<Path[f][i], Path[f][i + 1]>>

(***************************************************************************)
(* The state of a switch.  entries is congestion_entries; an entry has the *)
(* ports with a CIQ (oport_ciq), oport_status, iport_paused and            *)
(* iport_counter.  wire and ctrl collect what a handler transmits and the  *)
(* signals it schedules; they are empty between handlers.                  *)
(***************************************************************************)
Status == {"INITIAL", "PAUSE", "RESUME", "MERGE"}

Empty == [x \in {} |-> {}]
Assign(g, x, v) == [y \in DOMAIN g \cup {x} |-> IF y = x THEN v ELSE g[y]]
Erase(g, x) == Restrict(g, DOMAIN g \ {x})
IsTrue(g, x) == x \in DOMAIN g /\ g[x]

NewEntry(n, hop) ==
  [hop |-> hop, ciq |-> {},
   status |-> [p \in PortOf[n] |-> "INITIAL"],
   child |-> Empty,
   counter |-> [p \in PortOf[n] |-> 0]]

InitSwitch(n, hol) ==
  [entries |-> Empty,
   rootChild |-> [p \in PortOf[n] |-> Empty],            \* upstream_paused
   oq |-> [p \in PortOf[n] |-> <<>>],
   ciq |-> [p \in PortOf[n] |-> [r \in Root |-> <<>>]],
   paused |-> [p \in PortOf[n] |-> {}],                  \* m_paused
   hier |-> FALSE,                                       \* m_eventDoHierRR
   hol |-> hol,
   wire |-> [p \in PortOf[n] |-> <<>>],
   ctrl |-> [p \in PortOf[n] |-> <<>>]]

\* bytes_up_data is never assigned: what it contributes is arbitrary.
Init ==
  /\ settings \in Configuration
  /\ \E hol \in HolLimit : sw = [n \in Switch |-> InitSwitch(n, hol[n])]
  /\ chan = [l \in Link |-> <<>>]
  /\ hostPaused = [h \in Host |-> {}]
  /\ sent = [f \in Flow |-> 0]
  /\ received = [f \in Flow |-> <<>>]

Data(f, k)        == [kind |-> "DATA", flow |-> f, seq |-> k]
Pause(r, hop)     == [kind |-> "PAUSE", root |-> r, hop |-> hop]
Resume(r)         == [kind |-> "RESUME", root |-> r]
Dealloc(r)        == [kind |-> "DEALLOC", root |-> r]
Merge(r, hop, old) == [kind |-> "MERGE", root |-> r, hop |-> hop, old |-> old]

(***************************************************************************)
(* Pieces of the handlers: operators from a state of switch n to the next. *)
(***************************************************************************)
Schedule(s, port, signal) == [s EXCEPT !.ctrl[port] = Append(@, signal)]

SetChild(s, r, in, b) == [s EXCEPT !.entries[r].child = Assign(@, in, b)]
SetRootChild(s, port, in, b) == [s EXCEPT !.rootChild[port] = Assign(@, in, b)]

\* Mutant: a merged CIQ takes no more packets.
MatchesUnmerged(s, n, f, limit) ==
  {i \in Pos(n, f) + 1 .. Len(Path[f]) - 1 :
     /\ i - Pos(n, f) < limit
     /\ RootAt(f, i) \in DOMAIN s.entries
     /\ NextHop(n, f) \in s.entries[RootAt(f, i)].ciq
     /\ s.entries[RootAt(f, i)].status[NextHop(n, f)] # "MERGE"}

\* MatchNextCongestionRoot: the farthest root at less than limit hops with a
\* CIQ at this port; no root stands for the OQ.
Matches(s, n, f, limit) ==
  {i \in Pos(n, f) + 1 .. Len(Path[f]) - 1 :
     /\ i - Pos(n, f) < limit
     /\ RootAt(f, i) \in DOMAIN s.entries
     /\ NextHop(n, f) \in s.entries[RootAt(f, i)].ciq}

CheckRootPause(s, n, in, port, qlen) ==
  /\ qlen > PauseTh
  /\ <<n, port>> \in UpPort => qlen > s.hol
  /\ ~IsTrue(s.rootChild[port], in)

NotifyEnqueueIntoOQ(s, n, in, port, qlen) ==
  IF ~(OnlyDownPort /\ <<n, port>> \in UpPort) /\ CheckRootPause(s, n, in, port, qlen)
    THEN SetRootChild(Schedule(s, in, Pause(<<n, port>>, 1)), port, in, TRUE)
    ELSE s

CheckCIQPause(e, in, port) ==
  e.status[port] # "MERGE" /\ e.counter[in] > PauseTh /\ ~IsTrue(e.child, in)

NotifyEnqueueIntoCIQ(s, in, port, r) ==
  LET t == [s EXCEPT !.entries[r].counter[in] = @ + 1]
      e == t.entries[r]
  IN  IF CheckCIQPause(e, in, port)
        THEN SetChild(Schedule(t, in, Pause(r, e.hop + 1)), r, in, TRUE)
        ELSE t

\* Mutant: a resumed CIQ is released although packets are left in it.
CheckAndSendDeallocFull(s, n, r) ==
  LET e == s.entries[r]
      held == IF n \in ToR THEN \E p \in DOMAIN e.child : e.child[p]
                           ELSE DOMAIN e.child # {}
      free == {p \in e.ciq : e.status[p] = "RESUME"}
      t == [s EXCEPT
             !.ctrl = [p \in PortOf[n] |-> IF p \in free THEN Append(@[p], Dealloc(r)) ELSE @[p]],
             !.paused = [p \in PortOf[n] |-> IF p \in free THEN @[p] \ {r} ELSE @[p]],
             !.entries[r].ciq = @ \ free]
  IN  IF ~DeallocOn \/ held THEN s
      ELSE IF e.ciq = free THEN [t EXCEPT !.entries = Erase(@, r)]
      ELSE t

\* CheckAndSendDealloc: once no upstream device is controlled for the root
\* (hosts send no dealloc, so at a ToR: none is paused), release the empty,
\* resumed CIQs, and the entry with the last of them.
CheckAndSendDealloc(s, n, r) ==
  LET e == s.entries[r]
      held == IF n \in ToR THEN \E p \in DOMAIN e.child : e.child[p]
                           ELSE DOMAIN e.child # {}
      free == {p \in e.ciq : s.ciq[p][r] = <<>> /\ e.status[p] = "RESUME"}
      t == [s EXCEPT
             !.ctrl = [p \in PortOf[n] |-> IF p \in free THEN Append(@[p], Dealloc(r)) ELSE @[p]],
             !.paused = [p \in PortOf[n] |-> IF p \in free THEN @[p] \ {r} ELSE @[p]],
             !.entries[r].status = [p \in PortOf[n] |-> IF p \in free THEN "INITIAL" ELSE @[p]],
             !.entries[r].ciq = @ \ free]
  IN  IF ~DeallocOn \/ held THEN s
      ELSE IF e.ciq = free THEN [t EXCEPT !.entries = Erase(@, r)]
      ELSE t

\* ReleaseMergeCIQEntry: a merged CIQ is released without a signal.
ReleaseMergeCIQEntry(s, r, port) ==
  LET t == IF s.ciq[port][r] = <<>>
             THEN [s EXCEPT !.paused[port] = @ \ {r}, !.entries[r].ciq = @ \ {port}]
             ELSE s
      e == t.entries[r]
  IN  IF port \notin s.entries[r].ciq THEN s
      ELSE IF e.ciq = {} /\ e.child = Empty THEN [t EXCEPT !.entries = Erase(@, r)]
      ELSE t

\* Mutant: an off-by-one at the resume threshold.
CheckCIQResumeBelow(e, in, port) ==
  e.status[port] # "MERGE" /\ e.counter[in] < ResumeTh - 1 /\ IsTrue(e.child, in)

CheckCIQResume(e, in, port) ==
  e.status[port] # "MERGE" /\ e.counter[in] < ResumeTh /\ IsTrue(e.child, in)

\* Mutant: a packet is counted out twice.
NotifyDequeueTwice(s, n, in, port, r) ==
  LET t == [s EXCEPT !.entries[r].counter[in] = @ - 2]
      u == IF CheckCIQResume(t.entries[r], in, port)
             THEN SetChild(Schedule(t, in, Resume(r)), r, in, FALSE)
             ELSE t
  IN  IF u.entries[r].status[port] # "MERGE"
        THEN CheckAndSendDealloc(u, n, r)
        ELSE ReleaseMergeCIQEntry(u, r, port)

NotifyDequeueFromCIQ(s, n, in, port, r) ==
  LET t == [s EXCEPT !.entries[r].counter[in] = @ - 1]
      u == IF CheckCIQResume(t.entries[r], in, port)
             THEN SetChild(Schedule(t, in, Resume(r)), r, in, FALSE)
             ELSE t
  IN  IF u.entries[r].status[port] # "MERGE"
        THEN CheckAndSendDealloc(u, n, r)
        ELSE ReleaseMergeCIQEntry(u, r, port)

NotifyDequeueFromOQ(s, n, port) ==
  LET up == {p \in DOMAIN s.rootChild[port] : s.rootChild[port][p]}
  IN  IF Len(s.oq[port]) < ResumeTh /\ ~(OnlyDownPort /\ <<n, port>> \in UpPort)
        THEN [s EXCEPT
               !.ctrl = [p \in PortOf[n] |->
                           IF p \in up THEN Append(@[p], Resume(<<n, port>>)) ELSE @[p]],
               !.rootChild[port] = [p \in DOMAIN @ |-> FALSE]]
        ELSE s

\* DequeueAndTransmit of a device with data in its OQ.
TransmitFrom(s, n, port) ==
  NotifyDequeueFromOQ(
    [s EXCEPT !.wire[port] = Append(@, Head(s.oq[port])), !.oq[port] = Tail(@)],
    n, port)

(***************************************************************************)
(* What a handler leaves: its transmissions and then its signals go out.   *)
(***************************************************************************)
Output(n, s) ==
  /\ sw' = [sw EXCEPT ![n] =
              [s EXCEPT !.wire = [p \in PortOf[n] |-> <<>>],
                        !.ctrl = [p \in PortOf[n] |-> <<>>]]]
  /\ UNCHANGED <<hostPaused, sent, received>>

\* The channels after node n took an item from link in and put out on the others.
Carried(n, in, s) ==
  [l \in Link |->
     (IF l = in THEN Tail(chan[l]) ELSE chan[l])
       \o (IF l[1] = n THEN s.wire[l[2]] \o s.ctrl[l[2]] ELSE <<>>)]

(***************************************************************************)
(* SendToDev for data: MatchQ, then the notification and the queue.        *)
(***************************************************************************)
ReceiveData(s, n, d) ==
  LET f == d.flow
      in == PrevHop(n, f)
      port == NextHop(n, f)
      m == Matches(s, n, f, Len(Path[f]))
      r == RootAt(f, Max(m))
  IN  IF m = {}
        THEN NotifyEnqueueIntoOQ([s EXCEPT !.oq[port] = Append(@, d)],
                                 n, in, port, Len(s.oq[port]) + 1)
        ELSE NotifyEnqueueIntoCIQ(
               [s EXCEPT !.ciq[port][r] = Append(@, d), !.hier = TRUE], in, port, r)

(***************************************************************************)
(* ReceiveCI.                                                              *)
(***************************************************************************)
\* Mutant: an entry that exists is created again.
RegisterAnew(s, n, in, sig) ==
  [s EXCEPT !.entries = Assign(@, sig.root, [NewEntry(n, sig.hop) EXCEPT !.ciq = {in}])]

\* The entry of a root, created when a pause or a merge names a new one, with
\* a CIQ at the port the signal came in.
Register(s, n, in, sig) ==
  LET t == IF sig.root \in DOMAIN s.entries THEN s
           ELSE [s EXCEPT !.entries = Assign(@, sig.root, NewEntry(n, sig.hop))]
  IN  [t EXCEPT !.entries[sig.root].ciq = @ \cup {in}]

HasCIQ(s, r, port) == r \in DOMAIN s.entries /\ port \in s.entries[r].ciq

\* A merge signal to each of the ports, which become children of root r.
SendMerge(s, n, ports, r, old) ==
  LET hop == s.entries[r].hop + 1
  IN  [s EXCEPT
        !.ctrl = [p \in PortOf[n] |->
                    IF p \in ports THEN Append(@[p], Merge(r, hop, old)) ELSE @[p]],
        !.entries[r].child = [p \in ports \cup DOMAIN @ |-> p \notin ports /\ @[p]]]

ReceivePause(s, n, in, sig) ==
  LET r == sig.root
      t == [Register(s, n, in, sig) EXCEPT
              !.entries[r].status[in] = "PAUSE", !.paused[in] = @ \cup {r}]
      merges == /\ CongestionMerge /\ ~HasCIQ(s, r, in)
                /\ <<n, in>> \notin UpPort
                /\ s.rootChild[in] # Empty
  IN  IF merges
        THEN [SendMerge(t, n, DOMAIN s.rootChild[in], r, <<n, in>>)
                EXCEPT !.rootChild[in] = Empty]
        ELSE t

ReceiveResume(s, n, in, sig) ==
  LET r == sig.root
  IN  IF HasCIQ(s, r, in)
        THEN CheckAndSendDealloc(
               [s EXCEPT !.entries[r].status[in] = "RESUME", !.paused[in] = @ \ {r}], n, r)
        ELSE s

\* Mutant: a dealloc that crosses a pause on the link is obeyed.
ReceiveDeallocPaused(s, n, in, sig) ==
  LET r == sig.root
  IN  IF r[1] = n THEN [s EXCEPT !.rootChild[r[2]] = Erase(@, in)]
      ELSE IF r \in DOMAIN s.entries
        THEN CheckAndSendDealloc([s EXCEPT !.entries[r].child = Erase(@, in)], n, r)
        ELSE s

\* Mutant: the signal is not passed on when the last child is gone.
ReceiveDeallocOnly(s, n, in, sig) ==
  LET r == sig.root
      resumed(g) == in \in DOMAIN g /\ ~g[in]
  IN  IF r[1] = n
        THEN IF resumed(s.rootChild[r[2]])
               THEN [s EXCEPT !.rootChild[r[2]] = Erase(@, in)]
               ELSE s
      ELSE IF r \in DOMAIN s.entries /\ resumed(s.entries[r].child)
        THEN [s EXCEPT !.entries[r].child = Erase(@, in)]
        ELSE s

ReceiveDealloc(s, n, in, sig) ==
  LET r == sig.root
      resumed(g) == in \in DOMAIN g /\ ~g[in]
  IN  IF r[1] = n
        THEN IF resumed(s.rootChild[r[2]])
               THEN [s EXCEPT !.rootChild[r[2]] = Erase(@, in)]
               ELSE s
      ELSE IF r \in DOMAIN s.entries /\ resumed(s.entries[r].child)
        THEN CheckAndSendDealloc([s EXCEPT !.entries[r].child = Erase(@, in)], n, r)
        ELSE s

\* Mutant: the CIQ of the old root stays paused.
ReceiveMergePaused(s, n, in, sig) ==
  LET r == sig.root
      old == sig.old
      t == [Register(s, n, in, sig) EXCEPT
              !.entries[r].status[in] = "RESUME", !.paused[in] = @ \ {r}]
      below == {p \in DOMAIN s.entries[old].child : n \notin ToR \/ s.entries[old].child[p]}
      u == [SendMerge(t, n, below, r, old) EXCEPT
              !.entries[old].status[in] = "MERGE", !.entries[old].child = Empty]
  IN  IF old \in DOMAIN s.entries THEN ReleaseMergeCIQEntry(u, old, in) ELSE t

ReceiveMerge(s, n, in, sig) ==
  LET r == sig.root
      old == sig.old
      t == [Register(s, n, in, sig) EXCEPT
              !.entries[r].status[in] = "RESUME", !.paused[in] = @ \ {r}]
      below == {p \in DOMAIN s.entries[old].child : n \notin ToR \/ s.entries[old].child[p]}
      u == [SendMerge(t, n, below, r, old) EXCEPT
              !.entries[old].status[in] = "MERGE", !.entries[old].child = Empty,
              !.paused[in] = @ \ {old}]
  IN  IF old \in DOMAIN s.entries THEN ReleaseMergeCIQEntry(u, old, in) ELSE t

ReceiveCI(s, n, in, sig) ==
  CASE sig.kind = "PAUSE"   -> ReceivePause(s, n, in, sig)
    [] sig.kind = "RESUME"  -> ReceiveResume(s, n, in, sig)
    [] sig.kind = "DEALLOC" -> ReceiveDealloc(s, n, in, sig)
    [] sig.kind = "MERGE"   -> ReceiveMerge(s, n, in, sig)

(***************************************************************************)
(* DoHierQRR: every CIQ that is not paused moves one packet to the CIQ of  *)
(* the next nearer root on its path or to the OQ, the farthest roots       *)
(* first; then an idle device transmits.                                   *)
(***************************************************************************)
MoveOne(s, n, port, r) ==
  LET d == Head(s.ciq[port][r])
      in == PrevHop(n, d.flow)
      m == Matches(s, n, d.flow, s.entries[r].hop)
      next == RootAt(d.flow, Max(m))
      t == NotifyDequeueFromCIQ([s EXCEPT !.ciq[port][r] = Tail(@)], n, in, port, r)
  IN  IF s.ciq[port][r] = <<>> \/ r \in s.paused[port] THEN s
      ELSE IF m = {}
        \* the length that is compared does not count the packet yet
        THEN [NotifyEnqueueIntoOQ(t, n, in, port, Len(t.oq[port]))
                EXCEPT !.oq[port] = Append(@, d)]
        ELSE [NotifyEnqueueIntoCIQ(t, in, port, next)
                EXCEPT !.ciq[port][next] = Append(@, d)]

\* The roots with a CIQ at a port by their level, and for a level in a fixed order.
ByLevel(s, port) ==
  LET here == {r \in DOMAIN s.entries : port \in s.entries[r].ciq}
      hop(r) == s.entries[r].hop
  IN  CHOOSE q \in [1 .. Cardinality(here) -> here] :
        IsInjective(q) /\ \A i, j \in DOMAIN q : i < j => hop(q[i]) >= hop(q[j])

RoundOfPort(s, n, port, idle) ==
  LET order == ByLevel(s, port)
      after[i \in 0 .. Len(order)] ==
        IF i = 0 THEN s ELSE MoveOne(after[i - 1], n, port, order[i])
      t == after[Len(order)]
  IN  IF idle /\ Len(t.oq[port]) > Len(s.oq[port]) THEN TransmitFrom(t, n, port) ELSE t

\* The round over all devices; those in idle may transmit at once.
Round(s, n, idle) ==
  LET after[i \in 0 .. Len(Devices[n])] ==
        IF i = 0 THEN s
        ELSE RoundOfPort(after[i - 1], n, Devices[n][i], Devices[n][i] \in idle)
  IN  after[Len(Devices[n])]

\* Whether a device may begin to transmit data.
HasRoom(n, port) == Len(SelectSeq(chan[<<n, port>>], LAMBDA i : i.kind = "DATA")) < WireCap

Queued(s, n) == \E p \in PortOf[n] : s.oq[p] # <<>> \/ \E r \in Root : s.ciq[p][r] # <<>>

DoHierQRR(n) ==
  /\ sw[n].hier
  /\ \E idle \in SUBSET {p \in PortOf[n] : HasRoom(n, p) /\ \E r \in Root : sw[n].ciq[p][r] # <<>>} :
       LET s == Round([sw[n] EXCEPT !.hier = Queued(sw[n], n)], n, idle)
       IN  /\ Output(n, s)
           /\ chan' = Carried(n, <<>>, s)

(***************************************************************************)
(* The other events.                                                       *)
(***************************************************************************)
\* A device of a switch transmits data of its OQ.
Transmit(n, port) ==
  /\ sw[n].oq[port] # <<>>
  /\ HasRoom(n, port)
  /\ LET s == TransmitFrom(sw[n], n, port)
     IN  /\ Output(n, s)
         /\ chan' = Carried(n, <<>>, s)

\* A switch receives what is first on a link.
Receive(m, n) ==
  /\ chan[<<m, n>>] # <<>>
  /\ LET item == Head(chan[<<m, n>>])
         s == IF item.kind = "DATA" THEN ReceiveData(sw[n], n, item)
                                    ELSE ReceiveCI(sw[n], n, m, item)
     IN  /\ Output(n, s)
         /\ chan' = Carried(n, <<m, n>>, s)

\* Mutant: a paused device holds back all its flows.
HostSendUnpaused(f) ==
  LET h == Path[f][1] IN
  /\ sent[f] < Packets[f]
  /\ HasRoom(h, Path[f][2])
  /\ hostPaused[h] = {}
  /\ sent' = [sent EXCEPT ![f] = @ + 1]
  /\ chan' = [chan EXCEPT ![RootAt(f, 1)] = Append(@, Data(f, sent[f]))]
  /\ UNCHANGED <<sw, hostPaused, received>>

\* The device of a host sends the next packet of a flow that crosses no
\* root it is paused for (GetNextQindex, PAUSE_SPOT).
HostSend(f) ==
  LET h == Path[f][1] IN
  /\ sent[f] < Packets[f]
  /\ HasRoom(h, Path[f][2])
  /\ Hops(f) \cap hostPaused[h] = {}
  /\ sent' = [sent EXCEPT ![f] = @ + 1]
  /\ chan' = [chan EXCEPT ![RootAt(f, 1)] = Append(@, Data(f, sent[f]))]
  /\ UNCHANGED <<sw, hostPaused, received>>

HostReceive(m, h) ==
  /\ chan[<<m, h>>] # <<>>
  /\ LET item == Head(chan[<<m, h>>]) IN
       IF item.kind = "DATA"
         THEN /\ received' = [received EXCEPT ![item.flow] = Append(@, item.seq)]
              /\ UNCHANGED hostPaused
         ELSE /\ hostPaused' = [hostPaused EXCEPT ![h] =
                   CASE item.kind = "PAUSE"  -> @ \cup {item.root}
                     [] item.kind = "RESUME" -> @ \ {item.root}
                     [] item.kind = "MERGE"  -> @ \ {item.root, item.old}]
              /\ UNCHANGED received
  /\ chan' = [chan EXCEPT ![<<m, h>>] = Tail(@)]
  /\ UNCHANGED <<sw, sent>>

\* Any event but a transmission on one of the links.
NextBesides(links) ==
  /\ UNCHANGED settings
  /\ \/ \E f \in Flow : HostSend(f)
     \/ \E l \in Link : l[2] \in Host /\ HostReceive(l[1], l[2])
     \/ \E l \in Link : l[2] \in Switch /\ Receive(l[1], l[2])
     \/ \E l \in Link \ links : l[1] \in Switch /\ Transmit(l[1], l[2])
     \/ \E n \in Switch : DoHierQRR(n)

Next == NextBesides({})

Spec == Init /\ [][Next]_vars

\* The simulator runs on while an event is scheduled that does something; a
\* congested link may be slower than everything else.
FairSpec == Spec /\ WF_vars(NextBesides(Congested))

-----------------------------------------------------------------------------
(***************************************************************************)
(* Properties.                                                             *)
(***************************************************************************)
Signal ==
  [kind : {"PAUSE"}, root : Root, hop : Nat]
    \cup [kind : {"RESUME", "DEALLOC"}, root : Root]
    \cup [kind : {"MERGE"}, root : Root, hop : Nat, old : Root]
Item == Signal \cup [kind : {"DATA"}, flow : Flow, seq : Nat]

Children(n) == UNION {[D -> BOOLEAN] : D \in SUBSET PortOf[n]}

EntryOf(n) ==
  [hop : Nat, ciq : SUBSET PortOf[n], status : [PortOf[n] -> Status],
   child : Children(n), counter : [PortOf[n] -> Nat]]

\* Every variable has its type; a counter is never below zero.
TypeOK ==
  /\ \A n \in Switch :
       /\ \A r \in DOMAIN sw[n].entries : r \in Root /\ sw[n].entries[r] \in EntryOf(n)
       /\ \A p \in PortOf[n] :
            /\ sw[n].rootChild[p] \in Children(n)
            /\ sw[n].paused[p] \subseteq Root
            /\ sw[n].wire[p] = <<>> /\ sw[n].ctrl[p] = <<>>
       /\ sw[n].hier \in BOOLEAN
  /\ \A l \in Link : \A i \in DOMAIN chan[l] : chan[l][i] \in Item
  /\ hostPaused \in [Host -> SUBSET Root]
  /\ sent \in [Flow -> Nat]
  /\ \A f \in Flow : \A i \in DOMAIN received[f] : received[f][i] < Packets[f]

\* A packet waits in a CIQ only while the entry of the root has it registered
\* and a round is scheduled; otherwise the assertions of NotifyDequeueFromCIQ
\* fail or the packet waits for ever.
CiqServed ==
  \A n \in Switch : \A p \in PortOf[n], r \in Root :
    sw[n].ciq[p][r] # <<>> => HasCIQ(sw[n], r, p) /\ sw[n].hier

\* Where the CIQs of a root hold a packet that came from an upstream device.
Held(s, n, r, in) ==
  UNION {{<<p, i>> : i \in {j \in DOMAIN s.ciq[p][r] : PrevHop(n, s.ciq[p][r][j].flow) = in}} :
           p \in PortOf[n]}

\* iport_counter, which pauses and resumes an upstream device, counts what
\* the CIQs of the root hold from it, through merges and releases.
CounterExact ==
  \A n \in Switch : \A r \in DOMAIN sw[n].entries, in \in PortOf[n] :
    sw[n].entries[r].counter[in] = Cardinality(Held(sw[n], n, r, in))

\* m_paused of a device and oport_status of the entry, which are kept apart,
\* say the same of a CIQ.
StatusAgrees ==
  \A n \in Switch : \A p \in PortOf[n], r \in Root :
    r \in sw[n].paused[p] <=> HasCIQ(sw[n], r, p) /\ sw[n].entries[r].status[p] = "PAUSE"

\* What an upstream device will be once the signals on the link have
\* arrived: a pause is the last of them that concerns the root, or it is
\* paused and none of them ends that.
Pauses(i, r) == i.kind = "PAUSE" /\ i.root = r
Resumes(i, r) == \/ i.kind = "RESUME" /\ i.root = r
                 \/ i.kind = "MERGE" /\ r \in {i.root, i.old}
PausedAfter(q, r, before) ==
  \/ \E i \in DOMAIN q : Pauses(q[i], r) /\ \A j \in i + 1 .. Len(q) : ~Resumes(q[j], r)
  \/ before /\ \A j \in DOMAIN q : ~Resumes(q[j], r)

\* What a switch has on record of an upstream device.
Recorded(n, up, r) ==
  IF r[1] = n THEN IsTrue(sw[n].rootChild[r[2]], up)
  ELSE r \in DOMAIN sw[n].entries /\ IsTrue(sw[n].entries[r].child, up)

\* No upstream device stays paused that nobody will resume, and none runs
\* that is on record as paused: both ends of a link agree on every root,
\* counted the signals on their way.
PauseAgreement ==
  \A n \in Switch : \A up \in PortOf[n], r \in Root :
    Recorded(n, up, r)
      = PausedAfter(chan[<<n, up>>], r,
                    IF up \in Host THEN r \in hostPaused[up] ELSE r \in sw[up].paused[n])

\* The packets of a flow arrive in the order they were sent, although they
\* change queues and later ones may find other CIQs than earlier ones.
InOrder == \A f \in Flow : \A i \in DOMAIN received[f] : received[f][i] = i - 1

\* Nothing is on its way and nobody may act: every packet left is in a paused
\* CIQ or belongs to a flow its host holds back.
Stalled ==
  /\ \A l \in Link : chan[l] = <<>>
  /\ \A n \in Switch : \A p \in PortOf[n] :
       /\ sw[n].oq[p] = <<>>
       /\ \A r \in Root : sw[n].ciq[p][r] # <<>> => r \in sw[n].paused[p] \/ ~sw[n].hier
  /\ \A f \in Flow : sent[f] < Packets[f] => Hops(f) \cap hostPaused[Path[f][1]] # {}

\* No deadlock: switches never wait for each other's resume while packets are
\* left, whatever pauses, merges and deallocs have crossed on the links.
NoStall == Stalled => \A f \in Flow : Len(received[f]) = Packets[f]

\* All packets are through and nothing is on its way: nothing will happen any more.
Quiet ==
  /\ \A f \in Flow : Len(received[f]) = Packets[f]
  /\ \A l \in Link : chan[l] = <<>>

\* With dealloc_on, a leaf releases its empty CIQs ("if it's leaf and
\* oport's CIQ is empty -> deallocate resources", CheckAndSendDealloc), so
\* after the last packet every tree has shrunk to nothing, from its leaves
\* to the record its root keeps of the switches upstream.
TreesReleased ==
  DeallocOn /\ Quiet => \A n \in Switch :
    /\ sw[n].entries = Empty
    /\ \A p \in PortOf[n] : DOMAIN sw[n].rootChild[p] \cap Switch = {}

\* The same without congestion_merge, whatever deallocs crossed a pause.
TreesReleasedUnmerged == CongestionMerge \/ TreesReleased

\* Isolation: a packet that crosses no congested link is delivered although
\* such a link never transmits again; with no such link, every packet is: no
\* pause, merge or dealloc leaves one behind.
Isolation ==
  <>(\A f \in Flow : Hops(f) \cap Congested = {} => Len(received[f]) = Packets[f])
=============================================================================
