----------------------------- MODULE Floodgate -----------------------------
(***************************************************************************)
(* Floodgate in the switches (fc_mode FC_FLOODGATE): a switch keeps a      *)
(* window per destination; a packet that does not fit waits in a virtual   *)
(* output queue, and the next switch gives the window back with switch     *)
(* ACKs.  Covers SwitchNode::CheckVOQWin, ResumeVOQWin, SendSwitchACK,     *)
(* SendAccSwitchACK, SendSYN, ReceiveSYN and the Floodgate part of         *)
(* SwitchNotifyDequeue, with the windows, counters and timers of SwitchMmu.*)
(*                                                                         *)
(* The code's m_wins (credits) and its absolute PSN counters are one       *)
(* state: nxtData and rcvAck count the bytes sent and given back from the  *)
(* start, so m_wins is Window - (nxtData - rcvAck), and a counter of       *)
(* credits due is nxtAck - lstAck.  What differs between the two modes is  *)
(* what a frame carries and how it is applied.                             *)
(*                                                                         *)
(* Frames of queue 0 (switch ACK, SYN) have strict priority and are put on *)
(* the wire at once; data waits in the egress queue of its port.  The      *)
(* ports are named by the neighbour at their other end.                    *)
(***************************************************************************)
EXTENDS Sums, Sequences, SequencesExt, FiniteSetsExt, Functions

CONSTANTS
  Switch, Host,   \* node ids; hosts are numbers, the order of the code's maps
  ToR, Core,      \* m_isToR, m_isCore
  Down,           \* [Switch -> SUBSET Host]: switch_down_hosts
  NextHop,        \* [Switch -> [Host -> Switch \cup Host]]: the routing table, one path each
  Flow, FlowSrc, FlowDst,
  APHash,         \* [Host -> Nat]: the hash the code takes of a host's id
  Configuration   \* the settings a simulation may be started with

VARIABLES
  settings,  \* what the configuration file sets, see below
  mmu,     \* [Switch -> record]: the counters of SwitchMmu
  oq,      \* [<<switch, neighbour>> -> data packets in the egress queue]
  wire,    \* [<<switch, switch>> -> frames on the link]
  sent,    \* [Flow -> packets its host has sent]
  rcvd,    \* [Flow -> numbers of the packets its destination got, in order]
  losses,  \* frames lost so far
  aborted  \* an assertion failed: the simulation has ended

vars == <<settings, mmu, oq, wire, sent, rcvd, losses, aborted>>

(* Settings, read once before the simulation starts. *)
Mode == settings.switch_ack_mode             \* "dst" (SWITCH_DST_CREDIT), "ingress" (SWITCH_INGRESS_CREDIT)
Absolute == settings.switch_absolute_psn
ByteCounter == settings.switch_byte_counter
CreditTimer == settings.switch_credit_timer  \* switch_credit_interval > 0
AckTh == settings.th_ack                     \* m_th_ack in bytes; 0: no delayed switch ACK
SynTimer == settings.switch_syn_timer        \* switch_syn_timeout_us > 0
VoqLimit == settings.voq_limit
DynamicHash == settings.dynamic_hash
Window == settings.window                    \* the window of a destination, VOQ::BDPMAP
Sizes == settings.sizes                      \* [Flow -> Seq(Nat \ {0})]: the packets each flow sends
NDebug == settings.ndebug                    \* built without assertions
LossKinds == settings.loss     \* what may be lost: "DATA", "ACK", "SYN" on the wire, "ADMISSION" in the switch
MaxLoss == settings.maxLoss    \* bound: how many frames are lost
                               \* and settings.burst, see Bursting

ASSUME FloodgateParameters ==
  /\ IsFiniteSet(Switch) /\ Core \subseteq Switch /\ ToR \subseteq Switch
  /\ IsFiniteSet(Host) /\ Host \subseteq Nat /\ Switch \cap Host = {}
  /\ Down \in [Switch -> SUBSET Host] /\ \A x, y \in ToR : x = y \/ Down[x] \cap Down[y] = {}  \* one link each
  /\ APHash \in [Host -> Nat]
  /\ NextHop \in [Switch -> [Host -> Switch \cup Host]]
  /\ FlowSrc \in [Flow -> Host] /\ FlowDst \in [Flow -> Host]
  /\ \A c \in Configuration :
       /\ c.switch_ack_mode \in {"dst", "ingress"} /\ c.switch_byte_counter > 0 /\ c.th_ack \in Nat
       /\ {c.switch_absolute_psn, c.switch_credit_timer, c.switch_syn_timer, c.dynamic_hash} \subseteq BOOLEAN
       /\ c.switch_syn_timer => c.switch_absolute_psn
       /\ c.dynamic_hash => c.voq_limit > 0   \* third.cc refuses the other combination
       /\ c.voq_limit \in Nat /\ c.window \in Nat /\ c.sizes \in [Flow -> Seq(Nat \ {0})]
       /\ c.loss \subseteq {"DATA", "ACK", "SYN", "ADMISSION"} /\ c.maxLoss \in Nat

\* The switch a host is connected to.
ToROf(h) == CHOOSE x \in ToR : h \in Down[x]

\* The switches from a flow's source to its destination.
IsPath(f, path, n) ==
  /\ path[1] = ToROf(FlowSrc[f])
  /\ \A i \in 1 .. n - 1 : NextHop[path[i]][FlowDst[f]] = path[i + 1]
  /\ NextHop[path[n]][FlowDst[f]] = FlowDst[f]

\* Every host has a ToR, and CalculateRoutes (shortest paths) leads a flow to
\* its destination past no switch twice.
ASSUME FlowsRouted ==
  \A f \in Flow :
    /\ \E x \in ToR : FlowSrc[f] \in Down[x]
    /\ \E n \in 1 .. Cardinality(Switch) : \E path \in [1 .. n -> Switch] :
         IsInjective(path) /\ IsPath(f, path, n)

VG == INSTANCE VoqGroup

\* A link that is routed over one way goes both ways (QbbChannel::Attach).
Routed(a, b) == \E h \in Host : NextHop[a][h] = b
Link == {l \in Switch \X (Switch \cup Host) :
           Routed(l[1], l[2]) \/ (l[2] \in Switch /\ Routed(l[2], l[1]))}
Wire == {l \in Link : l[2] \in Switch}

Upstream(s) == {u \in Switch : <<u, s>> \in Wire}
Sorted(D) == [i \in 1 .. Cardinality(D) |-> CHOOSE d \in D : Cardinality({e \in D : e <= d}) = i]
HostSeq == Sorted(Host)

-----------------------------------------------------------------------------
(* Windows and virtual output queues *)

\* ConfigDst, with the groups third.cc forces (RESET_ISOLATE_DIFFGROUP): a
\* ToR ignores the hosts below it, any other switch but a core keeps them
\* in a group of their own.
ShouldIgnore(s, d) == s \in ToR /\ d \in Down[s]

\* Mutant: one group for the destinations above and below a switch.
GroupShared(s, d) == 0

Group(s, d) == IF s \notin Core /\ d \in Down[s] THEN 1 ELSE 0

Inflight(m, d) == m.nxtData[d] - m.rcvAck[d]

\* EnsureRegisteredWin, CheckDstWin: m_wins starts as the window.
CheckDstWin(m, d, size) == Inflight(m, d) + size <= Window

\* Mutant: a packet in a VOQ is charged twice.
ChargeTwice(m, d, size) == [m EXCEPT !.nxtData[d] = @ + 2 * size]

\* UpdateDstWin(.., false) and UpdateDataPSN: the bytes are charged.
Charge(m, d, size) == [m EXCEPT !.nxtData[d] = @ + size]

\* Mutant: the tag is taken before the packet is counted.
TagBefore(m, p) == [p EXCEPT !.psn = IF Absolute THEN m.nxtData[p.dst] - p.size ELSE 0]

\* SwitchPSNTag, the count after the packet.
Tag(m, p) == [p EXCEPT !.psn = IF Absolute THEN m.nxtData[p.dst] ELSE 0]

\* A packet to a host goes out of the port of its next hop.
Enqueue(s, q, p) == [q EXCEPT ![<<s, NextHop[s][p.dst]>>] = Append(@, p)]

\* A switch at work: its counters and the egress queues, with what it has passed on.
Pass(s, st, p) ==
  LET m == Charge(st.m, p.dst, p.size) IN [m |-> m, q |-> Enqueue(s, st.q, Tag(m, p))]

\* The head of a VOQ, as a set: a VOQ is <<group, id>>.
HeadOf(m, v) ==
  IF v[2] \in DOMAIN m.groups[v[1]].VOQs /\ m.groups[v[1]].VOQs[v[2]] # << >>
    THEN {Head(m.groups[v[1]].VOQs[v[2]])} ELSE {}

\* VOQ::CheckAndSendOne and SwitchMmu::VOQDequeueCallback.
SendOne(s, st, v) ==
  LET p == CHOOSE x \in HeadOf(st.m, v) : TRUE
      left == st.m.buffering[p.dst] - p.size
      next == Pass(s, st, p)
  IN [m |-> [next.m EXCEPT !.buffering[p.dst] = left,
                           !.groups[v[1]] = VG!PopVOQ(@, v[2], p.dst, left)],
      q |-> next.q]

FindVOQ(s, m, d) == {<<Group(s, d), id>> : id \in VG!FindVOQ(m.groups[Group(s, d)], d)}

\* The VOQ that may send at its turn, as a set.  The turn is a VOQ's, or a
\* destination's, <<d>>, which has one if its window is not used up.
Able(s, m, turn) ==
  {v \in IF Len(turn) = 2 THEN {turn}
         ELSE IF ShouldIgnore(s, turn[1]) \/ (~Absolute /\ Inflight(m, turn[1]) >= Window) THEN {}
         ELSE FindVOQ(s, m, turn[1]) :
     \E p \in HeadOf(m, v) : CheckDstWin(m, p.dst, p.size)}

\* A turn: the first in line sends a packet and lines up again, or leaves.
Turn(s, x) ==
  LET able == Able(s, x.st.m, Head(x.line))
      v == CHOOSE w \in able : TRUE
  IN IF x.line = << >> THEN x
     ELSE IF able = {} THEN [x EXCEPT !.line = Tail(@)]
     ELSE [st |-> SendOne(s, x.st, v), line |-> Append(Tail(x.line), v)]

\* Mutant: one packet is sent, the rest of the window is left.
SendWhileOnce(s, st, line) ==
  LET able == UNION {Able(s, st.m, turn) : turn \in ToSet(line)}
  IN IF able = {} THEN st ELSE SendOne(s, st, CHOOSE v \in able : TRUE)

\* The turns are served until none is left: every turn sends a packet, of at
\* least one byte, or makes the line shorter.
SendWhile(s, st, line) ==
  LET after[n \in Nat] == IF n = 0 THEN [st |-> st, line |-> line] ELSE Turn(s, after[n - 1])
  IN after[Len(line) + CellSum(st.m.buffering)].st

\* CheckAndSendVOQ(dst) with VOQ::CheckAndSendAll; CheckAndSendVOQ() starts
\* with the destinations in the order of their ids.
CheckAndSendVOQ(s, st, d) ==
  LET found == FindVOQ(s, st.m, d)
  IN SendWhile(s, st, IF ShouldIgnore(s, d) \/ found = {} THEN << >> ELSE <<CHOOSE v \in found : TRUE>>)
CheckAndSendVOQAll(s, st) ==
  SendWhile(s, st, [i \in DOMAIN HostSeq |-> <<HostSeq[i]>>])

\* Mutant: a short packet overtakes the ones that wait in the VOQ.
CheckVOQWinOvertakes(s, st, p) ==
  IF ShouldIgnore(s, p.dst) THEN [m |-> st.m, q |-> Enqueue(s, st.q, p)]
  ELSE IF CheckDstWin(st.m, p.dst, p.size) THEN Pass(s, st, p)
  ELSE [m |-> [st.m EXCEPT !.buffering[p.dst] = @ + p.size,
                           !.groups[Group(s, p.dst)] = VG!EnqueueVOQ(@, p.dst, p)],
        q |-> st.q]

\* Mutant: the bytes of a packet put in a VOQ are not counted.
CheckVOQWinUncounted(s, st, p) ==
  IF ShouldIgnore(s, p.dst) THEN [m |-> st.m, q |-> Enqueue(s, st.q, p)]
  ELSE IF CheckDstWin(st.m, p.dst, p.size) /\ st.m.buffering[p.dst] = 0 THEN Pass(s, st, p)
  ELSE [m |-> [st.m EXCEPT !.groups[Group(s, p.dst)] = VG!EnqueueVOQ(@, p.dst, p)], q |-> st.q]

\* CheckVOQWin: a packet goes on when its destination is below this ToR, or
\* when the window has room and no packet of the destination waits; else it
\* is put in the VOQ.
CheckVOQWin(s, st, p) ==
  IF ShouldIgnore(s, p.dst) THEN [m |-> st.m, q |-> Enqueue(s, st.q, p)]
  ELSE IF CheckDstWin(st.m, p.dst, p.size) /\ st.m.buffering[p.dst] = 0 THEN Pass(s, st, p)
  ELSE [m |-> [st.m EXCEPT !.buffering[p.dst] = @ + p.size,
                           !.groups[Group(s, p.dst)] = VG!EnqueueVOQ(@, p.dst, p)],
        q |-> st.q]

-----------------------------------------------------------------------------
(* Credits: what a switch owes the switches before it *)

\* GetIngressDstCreditCounter: nothing is due while too many bytes of the
\* destination wait (delayed switch ACK).
Credit(m, u, d) ==
  IF AckTh # 0 /\ m.buffering[d] > AckTh THEN 0 ELSE m.nxtAck[u][d] - m.lstAck[u][d]

\* What one counter and one timer stand for: the destination, or the whole port.
Scope(d) == IF Mode = "dst" THEN {d} ELSE Host
Due(m, u, D) == MapThenSumSet(LAMBDA d : Credit(m, u, d), D)

\* The frames of SendSwitchACK (one destination each) or SendAccSwitchACK
\* (one for the port).  A frame carries the PSN, or the bytes since the last.
AckFrames(m, u, D) ==
  LET Ack(E) == [kind |-> "ACK",
                 credit |-> [d \in E |-> IF Absolute THEN m.nxtAck[u][d] ELSE Credit(m, u, d)]]
  IN IF Mode = "dst" THEN [i \in 1 .. Cardinality(D) |-> Ack({Sorted(D)[i]})]
     ELSE <<Ack(D)>>

\* Mutant: the counter keeps what was sent back.
CleanNothing(m, u, D) == m

\* CleanIngressDstCreditCounter, CleanIngressCreditCounter.
Clean(m, u, D) ==
  [m EXCEPT !.lstAck[u] = [d \in Host |-> IF d \in D THEN m.nxtAck[u][d] ELSE @[d]]]

\* Switch ACKs to the switches of U for the destinations of D with credit:
\* the counters and what goes to each of them.
Acknowledge(m, U, D) ==
  LET Of(u) == {d \in D : Credit(m, u, d) > 0}
  IN [m    |-> [m EXCEPT !.lstAck = [u \in DOMAIN @ |-> IF u \in U THEN Clean(m, u, Of(u)).lstAck[u] ELSE @[u]]],
      acks |-> [u \in U |-> AckFrames(m, u, Of(u))]]

\* Frames the switch s puts on its links: acks is a function of the neighbour.
\* w is the wires after the frame being handled has left.
SendAcks(s, w, acks) ==
  wire' = [l \in Wire |-> IF l[1] = s /\ l[2] \in DOMAIN acks THEN w[l] \o acks[l[2]] ELSE w[l]]

-----------------------------------------------------------------------------
EmptyMmu(s) ==
  [nxtData   |-> [d \in Host |-> 0],
   rcvAck    |-> [d \in Host |-> 0],
   fresh     |-> [d \in Host |-> FALSE],   \* a switch ACK came since the SYN timer last ran
   buffering |-> [d \in Host |-> 0],
   groups    |-> [g \in {0, 1} |-> VG!EmptyGroup],
   rcvData   |-> [u \in Upstream(s) |-> [d \in Host |-> 0]],
   nxtAck    |-> [u \in Upstream(s) |-> [d \in Host |-> 0]],
   lstAck    |-> [u \in Upstream(s) |-> [d \in Host |-> 0]]]

Init ==
  /\ settings \in Configuration
  /\ mmu = [s \in Switch |-> EmptyMmu(s)]
  /\ oq = [l \in Link |-> << >>]
  /\ wire = [l \in Wire |-> << >>]
  /\ sent = [f \in Flow |-> 0]
  /\ rcvd = [f \in Flow |-> << >>]
  /\ losses = 0
  /\ aborted = FALSE

\* May a frame of this kind be lost here?
MayLose(kind) == kind \in LossKinds /\ losses < MaxLoss

-----------------------------------------------------------------------------
(* Data *)

\* SendToDev from a host: its next packet arrives at its ToR.
HostSend(f) ==
  LET s == ToROf(FlowSrc[f])
      p == [kind |-> "DATA", flow |-> f, seq |-> sent[f] + 1, size |-> Sizes[f][sent[f] + 1],
            dst |-> FlowDst[f], in |-> FlowSrc[f], psn |-> 0, ipsn |-> 0]
      r == CheckVOQWin(s, [m |-> mmu[s], q |-> oq], p)
  IN /\ sent[f] < Len(Sizes[f])
     /\ sent' = [sent EXCEPT ![f] = @ + 1]
     /\ mmu' = [mmu EXCEPT ![s] = r.m]
     /\ oq' = r.q
     /\ UNCHANGED <<wire, rcvd, losses, aborted>>

\* SendToDev from a switch: the PSN tag becomes the ingress tag and is noted
\* as received before the admission control may drop the packet.
ReceiveData(s, u, p) ==
  LET q == [p EXCEPT !.in = u, !.psn = 0, !.ipsn = p.psn]
      m == [mmu[s] EXCEPT !.rcvData[u][p.dst] = IF Absolute THEN Max({@, p.psn}) ELSE @]
      r == CheckVOQWin(s, [m |-> m, q |-> oq], q)
      tail == [wire EXCEPT ![<<u, s>>] = Tail(@)]
  IN \/ /\ mmu' = [mmu EXCEPT ![s] = r.m]
        /\ oq' = r.q
        /\ wire' = tail
        /\ UNCHANGED <<sent, rcvd, losses, aborted>>
     \/ /\ MayLose("ADMISSION")
        /\ mmu' = [mmu EXCEPT ![s] = m]
        /\ losses' = losses + 1
        /\ wire' = tail
        /\ UNCHANGED <<oq, sent, rcvd, aborted>>

\* The Floodgate part of SwitchNotifyDequeue for a data packet: all but the
\* source's ToR count it, and return credits when ByteCounter bytes are due
\* (to every port with delayed ACKs, else to the one it came from).  When
\* that sends none, ByteCounter > 1, no credit timer runs and nothing of the
\* destination waits, whatever is due to any port is returned.
NotifyDequeue(s, m, p) ==
  LET m1 == [m EXCEPT !.nxtAck[p.in][p.dst] = IF Absolute THEN Max({@, p.ipsn}) ELSE @ + p.size]
      At(U, least) == {u \in U : Due(m1, u, Scope(p.dst)) >= least}
      due == At(IF AckTh > 0 THEN Upstream(s) ELSE {p.in}, ByteCounter)
      flush == due = {} /\ ByteCounter > 1 /\ ~CreditTimer /\ m1.buffering[p.dst] = 0
  IN IF ShouldIgnore(s, FlowSrc[p.flow]) THEN [m |-> m, acks |-> << >>]
     ELSE Acknowledge(m1, IF flush THEN At(Upstream(s), 1) ELSE due, Scope(p.dst))

\* DequeueAndTransmit and SwitchNotifyDequeue: the next packet of a port.
Transmit(s, n) ==
  /\ oq[<<s, n>>] # << >>
  /\ LET p == Head(oq[<<s, n>>])
         r == NotifyDequeue(s, mmu[s], p)
         w == IF n \in Host THEN wire ELSE [wire EXCEPT ![<<s, n>>] = Append(@, p)]
     IN /\ mmu' = [mmu EXCEPT ![s] = r.m]
        /\ oq' = [oq EXCEPT ![<<s, n>>] = Tail(@)]
        /\ SendAcks(s, w, r.acks)
        /\ rcvd' = IF n \in Host THEN [rcvd EXCEPT ![p.flow] = Append(@, p.seq)] ELSE rcvd
     /\ UNCHANGED <<sent, losses, aborted>>

-----------------------------------------------------------------------------
(* Switch ACKs *)

\* RecoverWin; SWITCH_DST_CREDIT does the same for its one destination.
RecoverWin(m, credit) ==
  [m EXCEPT !.rcvAck = [d \in Host |-> IF d \notin DOMAIN credit THEN @[d]
                                       ELSE IF Absolute THEN Max({@[d], credit[d]})
                                       ELSE @[d] + credit[d]]]

\* ResumeVOQWin: the window is restored and waiting packets go to egress;
\* UpdateSynTime notes that an ACK came.
ReceiveAck(s, n, credit) ==
  LET restored == RecoverWin(mmu[s], credit)
      m == [restored EXCEPT !.fresh = [d \in Host |-> @[d] \/ (SynTimer /\ d \in DOMAIN credit)]]
      st == [m |-> m, q |-> oq]
      r == IF Mode = "ingress" THEN CheckAndSendVOQAll(s, st)
           ELSE CheckAndSendVOQ(s, st, CHOOSE d \in DOMAIN credit : TRUE)
  IN /\ mmu' = [mmu EXCEPT ![s] = r.m]
     /\ oq' = r.q
     /\ wire' = [wire EXCEPT ![<<n, s>>] = Tail(@)]
     /\ UNCHANGED <<sent, rcvd, losses, aborted>>

\* CreditTimeout: the timer runs while credits are due to the port.
CreditTimeout(s, u, d) ==
  /\ CreditTimer
  /\ Due(mmu[s], u, Scope(d)) > 0
  /\ LET r == Acknowledge(mmu[s], {u}, Scope(d))
     IN mmu' = [mmu EXCEPT ![s] = r.m] /\ SendAcks(s, wire, r.acks)
  /\ UNCHANGED <<oq, sent, rcvd, losses, aborted>>

-----------------------------------------------------------------------------
(* SYN: recovery of lost data and lost switch ACKs (absolute PSN only) *)

Via(s, n) == {d \in Host : NextHop[s][d] = n}

\* SynTimeout and SendSYN.  A SYN names the destinations with bytes in
\* flight from which an ACK has come since the timer last ran: the code asks
\* for m_lstrcv_ack_time + timeout >= now.  The SYN leaves queue 0 through
\* SwitchNotifyDequeue like data, whose egress counter it never entered, and
\* the assertion of RemoveFromEgressAdmission fails.
SynTimeout(s, n) ==
  LET asked == {d \in Via(s, n) : mmu[s].fresh[d]}
      open  == {d \in asked : Inflight(mmu[s], d) > 0}
  IN /\ SynTimer /\ asked # {} /\ <<s, n>> \in Wire
     /\ mmu' = [mmu EXCEPT ![s].fresh = [d \in Host |-> @[d] /\ d \notin asked]]
     /\ IF open = {} THEN UNCHANGED <<wire, aborted>>
        ELSE /\ wire' = [wire EXCEPT ![<<s, n>>] =
                           Append(@, [kind |-> "SYN",
                                      data |-> [d \in open |-> mmu[s].nxtData[d]],
                                      ack  |-> [d \in open |-> mmu[s].rcvAck[d]]])]
             /\ aborted' = ~NDebug
     /\ UNCHANGED <<oq, sent, rcvd, losses>>

\* Mutant: the received PSN moves, the credit of what was dropped is not given back.
CheckSYNKeepAck(m, u, syn) ==
  [m EXCEPT !.rcvData[u] = [d \in Host |-> IF d \in DOMAIN syn.data THEN Max({@[d], syn.data[d]}) ELSE @[d]]]

\* CheckSYN: what the upstream has sent beyond the last PSN received was
\* dropped, and counts as received and passed on.
CheckSYN(m, u, syn) ==
  LET dropped == {d \in DOMAIN syn.data : syn.data[d] > m.rcvData[u][d]}
      Set(psn) == [d \in Host |-> IF d \in dropped THEN syn.data[d] ELSE psn[d]]
  IN [m EXCEPT !.rcvData[u] = Set(@), !.nxtAck[u] = Set(@)]

\* ReceiveSYN: a switch ACK for each destination of which the upstream
\* misses one; destinations the SYN does not name count as acknowledged up
\* to 0.  In SWITCH_DST_CREDIT no delay applies (GetDstsSwitchACKTag).
ReceiveSYN(s, u, syn) ==
  LET m == CheckSYN(mmu[s], u, syn)
      missing == {d \in Host : m.nxtAck[u][d] > (IF d \in DOMAIN syn.ack THEN syn.ack[d] ELSE 0)}
      D == IF Mode = "dst" \/ AckTh = 0 THEN missing ELSE {d \in missing : m.buffering[d] <= AckTh}
      acks == IF missing = {} THEN << >> ELSE [x \in {u} |-> AckFrames(m, u, D)]
  IN /\ mmu' = [mmu EXCEPT ![s] = Clean(m, u, D)]
     /\ SendAcks(s, [wire EXCEPT ![<<u, s>>] = Tail(@)], acks)
     /\ UNCHANGED <<oq, sent, rcvd, losses, aborted>>

-----------------------------------------------------------------------------
\* QbbNetDevice::Receive and SendToDev: the first frame of a link is handled
\* by its type, or is lost on the link (the error model of third.cc).
Receive(s, n) ==
  /\ wire[<<n, s>>] # << >>
  /\ LET frame == Head(wire[<<n, s>>])
     IN \/ frame.kind = "DATA" /\ ReceiveData(s, n, frame)
        \/ frame.kind = "ACK"  /\ ReceiveAck(s, n, frame.credit)
        \/ frame.kind = "SYN"  /\ ReceiveSYN(s, n, frame)
        \/ /\ MayLose(frame.kind)
           /\ losses' = losses + 1
           /\ wire' = [wire EXCEPT ![<<n, s>>] = Tail(@)]
           /\ UNCHANGED <<mmu, oq, sent, rcvd, aborted>>

\* Bound: with settings.burst a host's packets reach its ToR back to back,
\* before anything else happens.
Bursting == settings.burst /\ \E f \in Flow : sent[f] \in 1 .. Len(Sizes[f]) - 1

Next ==
  /\ ~aborted
  /\ UNCHANGED settings
  /\ \/ \E f \in Flow : (Bursting => sent[f] > 0) /\ HostSend(f)
     \/ /\ ~Bursting
        /\ \/ \E l \in Link : Transmit(l[1], l[2])
           \/ \E l \in Wire : Receive(l[2], l[1])
           \/ \E l \in Wire, d \in Host : CreditTimeout(l[2], l[1], d)
           \/ \E l \in Wire : SynTimeout(l[1], l[2])

Spec == Init /\ [][Next]_vars

-----------------------------------------------------------------------------
(* Properties *)

\* The VOQs of a switch, and the packets in one.
Voqs(m) == UNION {{g} \X DOMAIN m.groups[g].VOQs : g \in {0, 1}}
Voq(m, v) == m.groups[v[1]].VOQs[v[2]]

\* The bytes for d in a queue that came from a node of U; those in VOQs.
IsFor(x, d, U) == x.kind = "DATA" /\ x.dst = d /\ x.in \in U
Bytes(q, d, U) == CellSum([i \in DOMAIN q |-> IF IsFor(q[i], d, U) THEN q[i].size ELSE 0])
WaitingBytes(m, d, U) == CellSum([v \in Voqs(m) |-> Bytes(Voq(m, v), d, U)])
Node == Switch \cup Host

\* Bytes for d that came from u and that s has not passed on yet.
Held(s, u, d) == WaitingBytes(mmu[s], d, {u}) + Bytes(oq[<<s, NextHop[s][d]>>], d, {u})

\* Bytes for d on their way from u to its next hop s: in the egress queue and on the link.
OnLink(u, s, d) == Bytes(oq[<<u, s>>], d, Node) + Bytes(wire[<<u, s>>], d, Node)

\* What a frame gives back for d.
Credited(x, d) == IF x.kind = "ACK" /\ d \in DOMAIN x.credit THEN x.credit[d] ELSE 0

\* A hop at which u keeps a window for d against its next hop s.
IsHop(u, s, d) == NextHop[u][d] = s /\ ~ShouldIgnore(u, d)
HasTraffic(d) == \E f \in Flow : FlowDst[f] = d /\ Sizes[f] # << >>

TypeOK ==
  /\ \A s \in Switch : \A d \in Host :
       /\ mmu[s].nxtData[d] \in Nat /\ mmu[s].rcvAck[d] \in Nat /\ mmu[s].buffering[d] \in Nat
       /\ mmu[s].fresh[d] \in BOOLEAN
       /\ \A u \in Upstream(s) :
            /\ mmu[s].nxtAck[u][d] \in Nat /\ mmu[s].lstAck[u][d] \in Nat
            /\ mmu[s].rcvData[u][d] \in Nat
  /\ \A l \in Link : \A i \in DOMAIN oq[l] : oq[l][i].dst \in Host /\ oq[l][i].seq \in Nat
  /\ \A l \in Wire : \A i \in DOMAIN wire[l] : wire[l][i].kind \in {"DATA", "ACK", "SYN"}
  /\ \A f \in Flow : sent[f] \in 0 .. Len(Sizes[f]) /\ Len(rcvd[f]) <= sent[f]
  /\ losses \in 0 .. MaxLoss /\ aborted \in BOOLEAN

\* Without loss no byte of a window is created or leaks: what a switch has
\* charged is on its way to the next hop, held there, or owed or under way
\* as credit (m_wins is Window minus that).  (A SYN credits the data it
\* overtakes before that data arrives.)
WindowConserved ==
  losses = 0 /\ ~SynTimer =>
  \A u, s \in Switch, d \in Host : IsHop(u, s, d) /\ HasTraffic(d) =>
    /\ mmu[u].nxtData[d] = mmu[s].nxtAck[u][d] + Held(s, u, d) + OnLink(u, s, d)
    /\ LET w == wire[<<s, u>>]
       IN mmu[s].lstAck[u][d] =
            IF Absolute THEN Max({mmu[u].rcvAck[d]} \cup {Credited(x, d) : x \in Range(w)})
            ELSE mmu[u].rcvAck[d] + CellSum([i \in DOMAIN w |-> Credited(w[i], d)])

\* The absolute counters of a hop never pass each other, also when frames
\* are lost (the assertions of GetInflightBytes and
\* GetIngressDstCreditCounter): acknowledged, passed on and acknowledged by
\* the next hop, passed on, received, sent.
PsnOrder ==
  Absolute => \A u, s \in Switch, d \in Host : IsHop(u, s, d) =>
    /\ mmu[u].rcvAck[d] <= mmu[s].lstAck[u][d]
    /\ mmu[s].lstAck[u][d] <= mmu[s].nxtAck[u][d]
    /\ mmu[s].nxtAck[u][d] <= mmu[s].rcvData[u][d]
    /\ mmu[s].rcvData[u][d] <= mmu[u].nxtData[d]

\* What a switch counts as received has arrived, whatever was dropped before
\* or after it: a packet still on its way has a PSN beyond that.  (A SYN,
\* which overtakes the data queued behind it, moves the count past it.)
UnderwayNotReceived ==
  Absolute /\ ~SynTimer => \A u, s \in Switch, d \in Host : IsHop(u, s, d) =>
    \A x \in Range(oq[<<u, s>>]) \cup Range(wire[<<u, s>>]) :
      x.kind = "DATA" /\ x.dst = d => x.psn > mmu[s].rcvData[u][d]

\* The packets of a flow arrive in the order they were sent (the comment in
\* CheckVOQWin: a short last packet must not pass the ones that wait).
InOrder ==
  \A f \in Flow : \A i \in 1 .. Len(rcvd[f]) - 1 : rcvd[f][i] < rcvd[f][i + 1]

\* m_buffering agrees with the VOQs (the assertion of DoStatistics), every
\* packet waits in the VOQ its destination is bound to (the assertions of
\* CheckAndSendVOQ and VOQGroup::VOQDequeueCallback), and with a dynamic
\* hash nothing else is bound or kept.
VoqAccounting ==
  \A s \in Switch :
    /\ \A d \in Host : mmu[s].buffering[d] = WaitingBytes(mmu[s], d, Node)
    /\ \A v \in Voqs(mmu[s]) : \A p \in Range(Voq(mmu[s], v)) : v \in FindVOQ(s, mmu[s], p.dst)
    /\ DynamicHash => \A g \in {0, 1} :
         /\ \A d \in DOMAIN mmu[s].groups[g].dst2voq : mmu[s].buffering[d] > 0
         /\ \A id \in DOMAIN mmu[s].groups[g].VOQs : mmu[s].groups[g].VOQs[id] # << >>

\* A packet waits at the head of a VOQ only for lack of window: whatever
\* restores a window also sends all that it allows.
HeadLacksWindow ==
  \A s \in Switch : \A v \in Voqs(mmu[s]) :
    \A p \in HeadOf(mmu[s], v) : ~CheckDstWin(mmu[s], p.dst, p.size)

\* Nothing is scheduled any more: no packet to send, no frame under way and
\* no timer that would do something.
Quiet ==
  /\ \A f \in Flow : sent[f] = Len(Sizes[f])
  /\ \A l \in Link : oq[l] = << >>
  /\ \A l \in Wire :
       /\ wire[l] = << >>
       /\ CreditTimer => Due(mmu[l[2]], l[1], Host) = 0
       /\ SynTimer => \A d \in Via(l[1], l[2]) : ~mmu[l[1]].fresh[d]

\* No set of windows, shared VOQs and withheld credits stops the switches
\* (settings.h: down streams are isolated for that; SwitchNotifyDequeue: "the
\* last several(<K) credits may always cannot send back"): when nothing is
\* left to do and no frame was lost, every packet has arrived.
NoStall == Quiet /\ losses = 0 => \A f \in Flow : Len(rcvd[f]) = Len(Sizes[f])

\* When nothing is left to do, a switch that has had ACKs of a destination
\* waits for no more of them: a SYN would have asked for the lost ones
\* (GetSwitchSYNTag: "has in-flight data/SwitchACK && hasn't receive
\* SwitchACK for a period of time").
SynAfterSilence ==
  Quiet => \A u, s \in Switch, d \in Host : IsHop(u, s, d) /\ mmu[u].rcvAck[d] > 0 => Inflight(mmu[u], d) = 0

\* After a SYN has been answered, a switch that holds nothing of a
\* destination from the sender owes nothing for what was lost (settings.h:
\* "handle packet-loss: absolute data/SwitchACK PSN + timeout").
SynSettles ==
  [][\A l \in Wire :
       (wire[l] # << >> /\ Head(wire[l]).kind = "SYN" /\ wire'[l] = Tail(wire[l]) /\ losses' = losses) =>
         \A d \in DOMAIN Head(wire[l]).data :
           Held(l[2], l[1], d) = 0 => mmu'[l[2]].nxtAck[l[1]][d] >= Head(wire[l]).data[d]]_vars
=============================================================================
