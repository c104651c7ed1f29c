------------------------------ MODULE QueuePfc ------------------------------
(***************************************************************************)
(* Pause frames that name less than a priority: a flow queue (fc_mode      *)
(* FC_BFC) or a destination (FC_VOQ_DSTPFC).  Covers the parts of          *)
(* SwitchNode::MatchQ, SendToDev, SwitchNotifyDequeue and                  *)
(* SwitchReceivePFC that belong to the two modes, the flow table and the   *)
(* pause counters of SwitchMmu, and the pause of a host's NIC; the ports   *)
(* are those of BEgressQueue.                                              *)
(*                                                                         *)
(* Bytes are counted in packets of one size.  Frames of queue 0 have       *)
(* strict priority and are put on the wire at once.  egress_bytes and the  *)
(* m_buffering counters change together with the queues and are read off   *)
(* them.  Ports are named by the neighbour at their other end; a host      *)
(* hands its packets to its ToR without a wire of their own.               *)
(***************************************************************************)
EXTENDS Integers, BEgressQueue, FiniteSetsExt, Functions

CONSTANTS
  Switch, Host,
  NextHop,                \* [Switch -> [Host -> Switch \cup Host]]: the routing table, one path each
  Flow, FlowSrc, FlowDst,
  QueueNum,               \* Settings::QUEUENUM, queue 0 for control
  Configuration           \* the settings a simulation may be started with

VARIABLES
  settings,
  port,      \* [<<switch, neighbour>> -> BEgressQueue]
  flowtb,    \* m_flow_tb: [<<switch, neighbour>> -> [fid -> [size, q]]], partial
  counter,   \* m_pause_counter: [<<switch, neighbour>> -> [upstream queue -> Nat]]
  paused,    \* SwitchMmu::paused: <<switch, neighbour, destination>>
  nic,       \* [Host -> [id -> BOOLEAN]]: m_paused of a host's device, partial
  wire,      \* [<<switch, neighbour>> -> frames on the link]
  sent,      \* [Flow -> packets its host has sent]
  rcvd,      \* [Flow -> numbers of the packets its destination got, in order]
  losses     \* packets dropped so far

vars == <<settings, port, flowtb, counter, paused, nic, wire, sent, rcvd, losses>>

(* Settings, read once before the simulation starts. *)
Bfc == settings.fc_mode = "BFC"           \* else "VOQ_DSTPFC"
Total == settings.total                   \* [Flow -> packets]
Fid == settings.fid                       \* [Flow -> GetHashFID]: equal where the hash collides
HostQ == settings.hostQ                   \* [Flow -> the id its packets carry from the host]: of the QP or its queue
Bdp == settings.bdp                       \* what a link holds in flight, the unit of both thresholds
AssignSticky == settings.assign_sticky_q
AssignPaused == settings.assign_paused_q
PauseM == settings.voq_pauseth_m
PauseMode == settings.voq_pause_mode      \* "vqlen", "buffer", "egress": the three metrics
SchTh == settings.flow_sch_th             \* packets of a flow that go unscheduled
MaxLoss == settings.maxLoss               \* bound: packets the egress admission drops

AckQ == 0                                 \* RdmaEgressQueue::ack_q_idx with ack_high_prio
DataQ == 1 .. QueueNum - 1
UpstreamQ == DataQ \cup Range(HostQ)

\* The ports that carry packets or, for those the other end sends, frames.
Routed == {<<s, NextHop[s][h]>> : s \in Switch, h \in Host}
Link == Routed \cup {<<l[2], l[1]>> : l \in {r \in Routed : r[2] \in Switch}}
IsLastHop(l) == l[2] \in Host             \* m_isLastHop
Dst(p) == FlowDst[p.flow]

ASSUME QueuePfcParameters ==
  /\ QueueNum \in Nat /\ QueueNum > 2
  /\ \A f \in Flow : FlowSrc[f] \in Host /\ FlowDst[f] \in Host \ {FlowSrc[f]}
  /\ Switch \cap Host = {}
  /\ NextHop \in [Switch -> [Host -> Switch \cup Host]]
  /\ \A s \in Switch : \A h \in Host : NextHop[s][h] \in Host => NextHop[s][h] = h
  /\ \A h \in Host : \E s \in Switch : {t \in Switch : NextHop[t][h] = h} = {s}   \* its ToR
  /\ \A c \in Configuration :
       /\ c.fc_mode \in {"BFC", "VOQ_DSTPFC"} /\ c.bdp \in Nat \ {0} /\ c.voq_pauseth_m \in Nat \ {0}
       /\ c.hostQ \in [Flow -> Nat] /\ c.total \in [Flow -> Nat] /\ c.flow_sch_th \in Nat
       /\ c.voq_pause_mode \in {"vqlen", "buffer", "egress"}

\* third.cc: queue 0 alone, then all others (BFC), or the unscheduled part,
\* then the scheduled part and the VOQs.  What a pause may stop: all but 0,
\* or all but the first two.
Priorities ==
  IF Bfc THEN << <<0>>, [k \in DataQ |-> k] >> ELSE << <<0>>, <<1>>, [k \in 1 .. QueueNum - 2 |-> k + 1] >>
Controlled == IF Bfc THEN DataQ ELSE DataQ \ {1}

Init ==
  /\ settings \in Configuration
  /\ port = [l \in Link |-> NewPort(Priorities, Controlled, QueueNum)]
  /\ flowtb = [l \in Link |-> << >>]
  /\ counter = [l \in Link |-> [id \in UpstreamQ |-> 0]]
  /\ paused = {}
  /\ nic = [h \in Host |-> << >>]
  /\ wire = [l \in Link |-> << >>]
  /\ sent = [f \in Flow |-> 0]
  /\ rcvd = [f \in Flow |-> << >>]
  /\ losses = 0

SendPfc(w, s, n, type, id) == [w EXCEPT ![<<s, n>>] = Append(@, [type |-> type, id |-> id])]

-----------------------------------------------------------------------------
(* BFC: a flow keeps its queue while it has packets there *)

\* What the flow table may show when a queue is looked for: a new entry has
\* no queue yet, and GetUsableQ reads what is in its place (0 stands for
\* every number that is no data queue).
TableSeen(tb, fid) ==
  IF fid \in DOMAIN tb THEN {tb} ELSE {Put(tb, fid, [size |-> 0, q |-> any]) : any \in 0 .. QueueNum - 1}

Idle(tb) == {e \in DOMAIN tb : tb[e].size = 0}

\* Idle entries that were used too recently (sticky_th) to be taken over.
StickySets(tb) == IF AssignSticky THEN {{}} ELSE SUBSET Idle(tb)

\* GetUsableQ: the queues in use.  By its && before its ||, a paused queue
\* is in use with assign_paused_q on; with it off, so is one that was only
\* looked up in the map of pauses, by a frame or for an earlier entry.
UsedQ(pt, tb, sticky) ==
  {tb[e].q : e \in {x \in DOMAIN tb :
     \/ tb[x].size > 0
     \/ IsPaused(pt, tb[x].q)
     \/ ~AssignPaused /\ (tb[x].q \in DOMAIN pt.paused \/ \E y \in DOMAIN tb \ {x} : tb[y].q = tb[x].q)
     \/ x \in sticky}}

\* egress_paused[..] creates the keys it looks up (which only a search with
\* assign_paused_q off can tell).
LookedUp(pt, tb) ==
  IF AssignPaused THEN pt
  ELSE LET seen == {tb[e].q : e \in Idle(tb)} \cap DataQ
       IN [pt EXCEPT !.paused = [id \in DOMAIN @ \cup seen |-> IsPaused(pt, id)]]

\* The first free queue, or any (rand) when none is.
UsableQ(pt, tb, sticky) ==
  LET free == DataQ \ UsedQ(pt, tb, sticky) IN IF free # {} THEN {Min(free)} ELSE DataQ

Reassign(pt, tb, fid) ==
  UNION {UNION {{[q |-> id, port |-> LookedUp(pt, e), table |-> [e EXCEPT ![fid].q = id]] :
                   id \in UsableQ(pt, e, sticky)} : sticky \in StickySets(e)} : e \in TableSeen(tb, fid)}

Keep(pt, tb, fid) == [q |-> tb[fid].q, port |-> pt, table |-> tb]

\* MatchQ under BFC.  An idle flow keeps its queue for the sticky time, which
\* may or may not be over.
MatchFlow(pt, tb, fid) ==
  IF fid \notin DOMAIN tb THEN Reassign(pt, tb, fid)
  ELSE {Keep(pt, tb, fid)} \cup (IF tb[fid].size = 0 THEN Reassign(pt, tb, fid) ELSE {})

\* GetBFCPauseTh, CheckBFCPause: the bytes in flight are shared by the
\* queues that may send.  pt holds the packet already, as egress_bytes does.
CheckBFCPause(pt, id) ==
  LET active == Cardinality({k \in DataQ : MaySend(pt, k)})
  IN Len(pt.queues[id]) * Max({1, active}) > Bdp

\* SendToDev: the packet is counted in the flow table, and when its queue is
\* too long it is one more reason to pause the queue it came from.
EnqueueFlow(l, p, m, w) ==
  LET s == l[1]
      long == CheckBFCPause(Enqueue(m.port, m.q, p), m.q)
  IN /\ port' = [port EXCEPT ![l] = Enqueue(m.port, m.q, [p EXCEPT !.meta = long])]
     /\ flowtb' = [flowtb EXCEPT ![l] = [m.table EXCEPT ![Fid[p.flow]].size = @ + 1]]
     /\ counter' = IF long THEN [counter EXCEPT ![<<s, p.in>>][p.upq] = @ + 1] ELSE counter
     /\ wire' = IF long /\ counter[<<s, p.in>>][p.upq] = 0 THEN SendPfc(w, s, p.in, "pause", p.upq) ELSE w
     /\ UNCHANGED paused

\* Mutant: the tag names this switch's queue before the reason is taken back.
DequeueFlowTagged(l, p, id, w) ==
  LET s == l[1]
      last == p.meta /\ counter[<<s, p.in>>][id] = 1
  IN /\ flowtb' = [flowtb EXCEPT ![l][Fid[p.flow]].size = @ - 1]
     /\ counter' = IF p.meta THEN [counter EXCEPT ![<<s, p.in>>][id] = @ - 1] ELSE counter
     /\ wire' = IF last THEN SendPfc(w, s, p.in, "resume", id) ELSE w
     /\ UNCHANGED paused

\* SwitchNotifyDequeue: a packet takes its reason with it; the last one
\* resumes the queue it came from.
DequeueFlow(l, p, id, w) ==
  LET s == l[1]
      last == p.meta /\ counter[<<s, p.in>>][p.upq] = 1
  IN /\ flowtb' = [flowtb EXCEPT ![l][Fid[p.flow]].size = @ - 1]
     /\ counter' = IF p.meta THEN [counter EXCEPT ![<<s, p.in>>][p.upq] = @ - 1] ELSE counter
     /\ wire' = IF last THEN SendPfc(w, s, p.in, "resume", p.upq) ELSE w
     /\ UNCHANGED paused

-----------------------------------------------------------------------------
(* VOQ + destination PFC: packets of a paused destination wait apart *)

\* Mutant: a packet goes back to the common queue as soon as the pause ends.
MatchVOQPausedOnly(pt, p, last) ==
  IF ~last /\ Dst(p) \in DOMAIN pt.dstQ /\ IsPaused(pt, pt.dstQ[Dst(p)]) THEN pt.dstQ[Dst(p)]
  ELSE IF p.sch THEN 2 ELSE 1

\* MatchQ under VOQ_DSTPFC: the VOQ of the destination while it is paused or
\* holds packets, but none at the last hop.
MatchVOQ(pt, p, last) ==
  IF /\ ~last
     /\ Dst(p) \in DOMAIN pt.dstQ
     /\ IsPaused(pt, pt.dstQ[Dst(p)]) \/ pt.queues[pt.dstQ[Dst(p)]] # << >>
    THEN pt.dstQ[Dst(p)]
  ELSE IF p.sch THEN 2 ELSE 1

\* m_buffering_egress_bytes of a port and m_buffering_bytes of a switch.
Buffered(pt, d) ==
  MapThenSumSet(LAMBDA id : Len(SelectSeq(pt.queues[id], LAMBDA p : Dst(p) = d)), DOMAIN pt.queues)
BufferedAll(s, l, pt, d) ==
  Buffered(pt, d) + MapThenSumSet(LAMBDA o : Buffered(port[o], d), {o \in Link : o[1] = s} \ {l})

\* The metric of voq_pause_mode, as a set: none for a common queue before
\* the last hop.
Metric(l, pt, id, d) ==
  CASE PauseMode = "vqlen"  -> IF IsLastHop(l) \/ id >= QueueNum THEN {Len(pt.queues[id])} ELSE {}
    [] PauseMode = "buffer" -> {BufferedAll(l[1], l, pt, d)}
    [] PauseMode = "egress" -> {Buffered(pt, d)}

CheckVOQPause(l, pt, id, d) == \E bytes \in Metric(l, pt, id, d) : bytes > Bdp * PauseM

\* Mutant: the queue has to fall below the threshold.
CheckVOQResumeBelow(l, pt, id, d) == \E bytes \in Metric(l, pt, id, d) : bytes < Bdp - 1

CheckVOQResume(l, pt, id, d) == \E bytes \in Metric(l, pt, id, d) : bytes <= Bdp

\* SendToDev.
EnqueueVOQ(l, p, m, w) ==
  LET s == l[1] pt == Enqueue(m.port, m.q, p) d == Dst(p)
      over == <<s, p.in, d>> \notin paused /\ CheckVOQPause(l, pt, m.q, d)
  IN /\ port' = [port EXCEPT ![l] = pt]
     /\ paused' = IF over THEN paused \cup {<<s, p.in, d>>} ELSE paused
     /\ wire' = IF over THEN SendPfc(w, s, p.in, "pause", d) ELSE w
     /\ UNCHANGED <<flowtb, counter>>

\* SwitchNotifyDequeue: every ingress that was paused for the destination is
\* resumed.
DequeueVOQ(l, p, id, w, pt) ==
  LET s == l[1] d == Dst(p)
      held == IF CheckVOQResume(l, pt, id, d) THEN {n \in Switch \cup Host : <<s, n, d>> \in paused} ELSE {}
  IN /\ paused' = paused \ {<<s, n, d>> : n \in held}
     /\ wire' = [k \in Link |-> IF k[1] = s /\ k[2] \in held
                                  THEN Append(w[k], [type |-> "resume", id |-> d]) ELSE w[k]]
     /\ UNCHANGED <<flowtb, counter>>

-----------------------------------------------------------------------------
(* The handlers of a switch and a NIC *)

MatchQ(l, p) ==
  IF Bfc THEN MatchFlow(port[l], flowtb[l], Fid[p.flow])
  ELSE {[q |-> MatchVOQ(port[l], p, IsLastHop(l)), port |-> port[l], table |-> flowtb[l]]}

\* SendToDev; w is the state of the wires without the packet.
SendToDev(s, p, w) ==
  LET l == <<s, NextHop[s][Dst(p)]>> IN
  \E m \in MatchQ(l, p) :
    \/ /\ IF Bfc THEN EnqueueFlow(l, p, m, w) ELSE EnqueueVOQ(l, p, m, w)
       /\ UNCHANGED losses
    \/ /\ losses < MaxLoss     \* CheckEgressAdmission, after MatchQ has changed the table
       /\ losses' = losses + 1
       /\ port' = [port EXCEPT ![l] = m.port]
       /\ flowtb' = [flowtb EXCEPT ![l] = m.table]
       /\ wire' = w
       /\ UNCHANGED <<counter, paused>>

\* RdmaEgressQueue::GetNextQindex passes over what PAUSE_QP (or PAUSE_QUEUE)
\* and PAUSE_DST stop; DequeueQindex adds the UpstreamTag, and GetNxtPacket
\* the SchTag once flow_sch_th packets have gone.
NicStops(f) ==
  LET id == IF Bfc THEN HostQ[f] ELSE FlowDst[f] IN id \in DOMAIN nic[FlowSrc[f]] /\ nic[FlowSrc[f]][id]

HostSend(f) ==
  LET h == FlowSrc[f]
      s == CHOOSE x \in Switch : NextHop[x][h] = h
      p == [flow |-> f, num |-> sent[f] + 1, sch |-> sent[f] >= SchTh, in |-> h, upq |-> HostQ[f], meta |-> FALSE]
  IN /\ sent[f] < Total[f]
     /\ ~NicStops(f)
     /\ sent' = [sent EXCEPT ![f] = @ + 1]
     /\ SendToDev(s, p, wire)
     /\ UNCHANGED <<settings, nic, rcvd>>

\* DequeueAndTransmit and SwitchNotifyDequeue; the packet leaves with the
\* queue it was in as its UpstreamTag.
Transmit(l) ==
  LET id == NextQ(port[l])
      p == Head(port[l].queues[id])
      pt == Dequeue(port[l])
      w == IF IsLastHop(l) THEN wire
           ELSE [wire EXCEPT ![l] = Append(@, [type |-> "data", p |-> [p EXCEPT !.in = l[1], !.upq = id, !.meta = FALSE]])]
  IN /\ CanDequeue(port[l])
     /\ port' = [port EXCEPT ![l] = pt]
     /\ IF Bfc THEN DequeueFlow(l, p, id, w) ELSE DequeueVOQ(l, p, id, w, pt)
     /\ rcvd' = IF IsLastHop(l) THEN [rcvd EXCEPT ![p.flow] = Append(@, p.num)] ELSE rcvd
     /\ UNCHANGED <<settings, nic, sent, losses>>

\* SwitchReceivePFC: the first pause of a destination registers its VOQ.
SwitchReceivePFC(l, frame) ==
  LET pt == IF Bfc THEN port[l] ELSE RegisterVOQ(port[l], frame.id)
      id == IF Bfc THEN frame.id ELSE pt.dstQ[frame.id]
  IN port' = [port EXCEPT ![l] = Pause(pt, id, frame.type = "pause")]

\* The NIC's part of QbbNetDevice::Receive: under BFC a frame that names the
\* queue of ACKs is ignored.
NicReceivePFC(h, frame) ==
  nic' = IF Bfc /\ frame.id = AckQ THEN nic
         ELSE [nic EXCEPT ![h] = Put(@, frame.id, frame.type = "pause")]

\* QbbNetDevice::Receive at the other end of a link.
Receive(l) ==
  LET frame == Head(wire[l])
      tail == [wire EXCEPT ![l] = Tail(@)]
  IN /\ wire[l] # << >>
     /\ \/ /\ frame.type = "data"
           /\ SendToDev(l[2], frame.p, tail)
           /\ UNCHANGED nic
        \/ /\ frame.type # "data"
           /\ wire' = tail
           /\ IF IsLastHop(l) THEN NicReceivePFC(l[2], frame) /\ UNCHANGED port
              ELSE SwitchReceivePFC(<<l[2], l[1]>>, frame) /\ UNCHANGED nic
           /\ UNCHANGED <<flowtb, counter, paused, losses>>
     /\ UNCHANGED <<settings, sent, rcvd>>

Next ==
  \/ \E f \in Flow : HostSend(f)
  \/ \E l \in Link : Transmit(l) \/ Receive(l)

Spec == Init /\ [][Next]_vars

-----------------------------------------------------------------------------
(* Properties *)

\* What a switch wants its neighbour n to hold back.
Wanted(s, n, id) == IF Bfc THEN counter[<<s, n>>][id] > 0 ELSE <<s, n, id>> \in paused

\* What the neighbour holds back now, and once the frames on the wire have arrived.
Stopped(n, s, id) ==
  IF n \in Host THEN id \in DOMAIN nic[n] /\ nic[n][id]
  ELSE IF Bfc THEN IsPaused(port[<<n, s>>], id)
  ELSE id \in DOMAIN port[<<n, s>>].dstQ /\ IsPaused(port[<<n, s>>], port[<<n, s>>].dstQ[id])

Pauses(x, id) == x.type = "pause" /\ x.id = id
Resumes(x, id) == x.type = "resume" /\ x.id = id
PausedAfter(frames, id, before) ==
  \/ \E i \in DOMAIN frames : Pauses(frames[i], id) /\ \A j \in i + 1 .. Len(frames) : ~Resumes(frames[j], id)
  \/ before /\ \A j \in DOMAIN frames : ~Resumes(frames[j], id)
Agreed(s, n, id) == Wanted(s, n, id) <=> PausedAfter(wire[<<s, n>>], id, Stopped(n, s, id))

\* The reasons a switch counts are those its packets carry (under BFC).
Carries(p, n, id) == p.in = n /\ p.upq = id /\ p.meta
Reasons(s, n, id) ==
  UNION {{<<l, k>>} \X {i \in DOMAIN port[l].queues[k] : Carries(port[l].queues[k][i], n, id)} :
           l \in {x \in Link : x[1] = s}, k \in DataQ}

\* The two ends of a link agree on what is paused, whatever was assigned to
\* another queue, merged into one id, or registered since: nothing stays
\* paused without a reason that will leave (SendToDev and
\* SwitchNotifyDequeue use the UpstreamTag of the packet, not the queue its
\* flow has now).  The exception is the queue of ACKs, whose frames a NIC
\* ignores under BFC.
PauseAgreement ==
  \A l \in Link : \A id \in IF Bfc THEN UpstreamQ ELSE Host :
    /\ Bfc => counter[l][id] = Cardinality(Reasons(l[1], l[2], id))
    /\ (Bfc /\ l[2] \in Host /\ id = AckQ) \/ Agreed(l[1], l[2], id)

\* The packets of a flow arrive in the order they were sent, although they
\* change between queues that overtake each other.
InOrder ==
  \A f \in Flow : \A i \in 1 .. Len(rcvd[f]) - 1 : rcvd[f][i] < rcvd[f][i + 1]

\* No pause outlives its reason: when nothing is left to do, every packet
\* has arrived or was dropped.
NoStall ==
  (/\ \A l \in Link : ~CanDequeue(port[l]) /\ wire[l] = << >>
   /\ \A f \in Flow : sent[f] = Total[f] \/ NicStops(f)) =>
     MapThenSumSet(LAMBDA f : Len(rcvd[f]), Flow) + losses = MapThenSumSet(LAMBDA f : Total[f], Flow)
=============================================================================
