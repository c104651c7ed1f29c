------------------------------- MODULE PfcHop -------------------------------
(***************************************************************************)
(* One hop of priority flow control: the upstream device of every ingress  *)
(* port, the link to the switch, the switch (SendToDev and                 *)
(* SwitchNotifyDequeue in switch-node.cc, with the unit of SwitchMmu), and *)
(* the pause and resume frames in both directions.                         *)
(*                                                                         *)
(* A handler of the simulator runs to its end before the next event, so a  *)
(* handler is one action.  What interleaves is the events: arrivals,       *)
(* transmissions and PFC frames of the different ports, and the time a     *)
(* frame spends in queue 0 of its device and on the link.                  *)
(***************************************************************************)
EXTENDS SwitchMmu, Sequences, SequencesExt

CONSTANTS
  Packet,            \* the kinds of packets: [in, out, q, dst, size]
  PfcQueue,          \* the queues with pfc_ingress_ctrls
  DstMode,           \* the ports whose pfc_mode is PAUSE_DST
  CheckSharedBuffer, \* Settings::check_shared_buffer
  WireCap,           \* packets a link holds
  FrameDelay,        \* packets an upstream device can send while a PFC frame travels to it
  DownCap            \* packets on the way to the downstream device that may still make it pause

VARIABLES
  m_queue,       \* [port][queue]: the packets waiting in an egress queue
  m_bytes,       \* [in][out][queue]: bytes that came from in and wait for out
  m_paused,      \* [port][queue]: an egress queue paused by the downstream device
  downCredit,    \* [port][queue]: packets that left and have not caused a pause
  wire,          \* [port][fine]: the packets on the link to the switch
  pfcWire,       \* [port][fine]: the PFC frames on the way to the upstream device
  upstreamPaused,\* [port][fine]: m_paused of the upstream device
  dropped        \* the reasons packets were dropped for

mmuVars  == <<ingress_bytes, hdrm_bytes, shared_used_bytes, egress_bytes, paused>>
linkVars == <<wire, pfcWire, upstreamPaused>>
vars == <<mmuVars, m_queue, m_bytes, m_paused, downCredit, linkVars, dropped>>

Frame == [pause : BOOLEAN, age : 0 .. FrameDelay]

\* pfc_fine: the name under which the bytes of a packet are counted.
FineOf(p) == IF p.in \in DstMode THEN p.dst ELSE p.q

Controlled(p) == p.q \in PfcQueue

ASSUME HopTypes ==
  /\ \A p \in Packet :
       /\ p.in \in Port /\ p.out \in Port /\ p.q \in Queue
       /\ FineOf(p) \in Fine
       /\ p.size \in Nat \ {0}
  /\ WireCap \in Nat /\ FrameDelay \in Nat /\ DownCap \in Nat

Init ==
  /\ MmuInit
  /\ m_queue = [d \in Port |-> [q \in Queue |-> <<>>]]
  /\ m_bytes = [i \in Port |-> [d \in Port |-> [q \in Queue |-> 0]]]
  /\ m_paused = [d \in Port |-> [q \in Queue |-> FALSE]]
  /\ downCredit = [d \in Port |-> [q \in Queue |-> 0]]
  /\ wire = [i \in Port |-> [f \in Fine |-> <<>>]]
  /\ pfcWire = [i \in Port |-> [f \in Fine |-> <<>>]]
  /\ upstreamPaused = [i \in Port |-> [f \in Fine |-> FALSE]]
  /\ dropped = {}

(***************************************************************************)
(* The link.  The upstream device sends unless the priority or destination *)
(* is paused.  The time a PFC frame needs is counted in packets: a frame   *)
(* arrives before the upstream device has sent more than FrameDelay of     *)
(* them.                                                                   *)
(***************************************************************************)
Aged(s) == [i \in DOMAIN s |-> [pause |-> s[i].pause, age |-> s[i].age + 1]]

UpstreamSend(p) ==
  LET f == FineOf(p) IN
  /\ ~upstreamPaused[p.in][f]
  /\ Len(wire[p.in][f]) < WireCap
  /\ \A i \in DOMAIN pfcWire[p.in][f] : pfcWire[p.in][f][i].age < FrameDelay
  /\ wire' = [wire EXCEPT ![p.in][f] = Append(@, p)]
  /\ pfcWire' = [pfcWire EXCEPT ![p.in][f] = Aged(@)]
  /\ UNCHANGED <<mmuVars, m_queue, m_bytes, m_paused, downCredit, upstreamPaused, dropped>>

\* QbbNetDevice::Receive and Resume of the upstream device.
ReceivePfc(in, f) ==
  /\ pfcWire[in][f] # <<>>
  /\ upstreamPaused' = [upstreamPaused EXCEPT ![in][f] = Head(pfcWire[in][f]).pause]
  /\ pfcWire' = [pfcWire EXCEPT ![in][f] = Tail(@)]
  /\ UNCHANGED <<mmuVars, m_queue, m_bytes, m_paused, downCredit, wire, dropped>>

SendPfc(in, f, pause) ==
  pfcWire' = [pfcWire EXCEPT ![in][f] = Append(@, [pause |-> pause, age |-> 0])]

(***************************************************************************)
(* The switch receives a packet.                                           *)
(***************************************************************************)
\* DoStatistics: the bytes waiting in all egress queues.
SwitchBuffer ==
  SumFunction([d \in Port |-> SumFunction(egress_bytes[d])])

IngressAdmits(p) ==
  Controlled(p) => CheckIngressAdmission(p.in, FineOf(p), p.size)

EgressAdmits(p) ==
  /\ CheckEgressAdmission(p.out, p.q, p.size)
  /\ CheckSharedBuffer => BufferSize > p.size + SwitchBuffer

\* Mutant: CheckShouldPause without its test of paused.
CheckAndSendPfcAgain(in, f) ==
  IF OverThreshold(in, f)'
    THEN /\ SendPfc(in, f, TRUE)
         /\ paused' = [paused EXCEPT ![in][f] = TRUE]
    ELSE UNCHANGED <<pfcWire, paused>>

CheckAndSendPfc(in, f) ==
  IF ~paused[in][f] /\ OverThreshold(in, f)'
    THEN /\ SendPfc(in, f, TRUE)
         /\ paused' = [paused EXCEPT ![in][f] = TRUE]
    ELSE UNCHANGED <<pfcWire, paused>>

Drop(reason) ==
  /\ dropped' = dropped \cup {reason}
  /\ UNCHANGED <<mmuVars, m_queue, m_bytes, pfcWire>>

Admit(p) ==
  /\ UpdateEgressAdmission(p.out, p.q, p.size)
  /\ m_bytes' = [m_bytes EXCEPT ![p.in][p.out][p.q] = @ + p.size]
  /\ m_queue' = [m_queue EXCEPT ![p.out][p.q] = Append(@, p)]
  /\ IF Controlled(p)
       THEN /\ UpdateIngressAdmission(p.in, FineOf(p), p.size)
            /\ CheckAndSendPfc(p.in, FineOf(p))
       ELSE UNCHANGED <<ingressVars, paused, pfcWire>>
  /\ UNCHANGED dropped

SendToDev(in, f) ==
  /\ wire[in][f] # <<>>
  /\ wire' = [wire EXCEPT ![in][f] = Tail(@)]
  /\ \E p \in Packet :
       /\ p = Head(wire[in][f])
       /\ \/ ~IngressAdmits(p) /\ Drop("headroom")
          \/ IngressAdmits(p) /\ ~EgressAdmits(p) /\ Drop("egress")
          \/ IngressAdmits(p) /\ EgressAdmits(p) /\ Admit(p)
  /\ UNCHANGED <<m_paused, downCredit, upstreamPaused>>

(***************************************************************************)
(* The switch transmits the packet at the head of an egress queue          *)
(* (DequeueAndTransmit, then SwitchNotifyDequeue).                         *)
(***************************************************************************)
CheckAndSendResume(in, f) ==
  IF paused[in][f] /\ UnderThreshold(in, f)'
    THEN /\ SendPfc(in, f, FALSE)
         /\ paused' = [paused EXCEPT ![in][f] = FALSE]
    ELSE UNCHANGED <<pfcWire, paused>>

Dequeue(out, q) ==
  /\ m_queue[out][q] # <<>>
  /\ ~m_paused[out][q]
  /\ \E p \in Packet :
       /\ p = Head(m_queue[out][q])
       /\ RemoveFromEgressAdmission(out, q, p.size)
       /\ m_bytes' = [m_bytes EXCEPT ![p.in][out][q] = @ - p.size]
       /\ IF Controlled(p)
            THEN /\ RemoveFromIngressAdmission(p.in, FineOf(p), p.size)
                 /\ CheckAndSendResume(p.in, FineOf(p))
            ELSE UNCHANGED <<ingressVars, paused, pfcWire>>
  /\ m_queue' = [m_queue EXCEPT ![out][q] = Tail(@)]
  /\ downCredit' = [downCredit EXCEPT ![out][q] = Least(@ + 1, DownCap)]
  /\ UNCHANGED <<m_paused, wire, upstreamPaused, dropped>>

(***************************************************************************)
(* The downstream device pauses and resumes an egress queue                *)
(* (SwitchReceivePFC).  It is a switch too, so it sends a pause only when  *)
(* a packet of that queue reaches it (CheckAndSendPfc), and a resume only  *)
(* after a pause.                                                          *)
(***************************************************************************)
SwitchReceivePause(out, q) ==
  /\ q \in PfcQueue
  /\ ~m_paused[out][q] /\ downCredit[out][q] > 0
  /\ m_paused' = [m_paused EXCEPT ![out][q] = TRUE]
  /\ downCredit' = [downCredit EXCEPT ![out][q] = @ - 1]
  /\ UNCHANGED <<mmuVars, m_queue, m_bytes, linkVars, dropped>>

SwitchReceiveResume(out, q) ==
  /\ m_paused[out][q]
  /\ m_paused' = [m_paused EXCEPT ![out][q] = FALSE]
  /\ UNCHANGED <<mmuVars, m_queue, m_bytes, downCredit, linkVars, dropped>>

Next ==
  \/ \E p \in Packet : UpstreamSend(p)
  \/ \E in \in Port, f \in Fine : ReceivePfc(in, f) \/ SendToDev(in, f)
  \/ \E out \in Port, q \in Queue :
       Dequeue(out, q) \/ SwitchReceivePause(out, q) \/ SwitchReceiveResume(out, q)

Spec == Init /\ [][Next]_vars

(***************************************************************************)
(* Events that are scheduled do happen: a packet or a frame on a link      *)
(* arrives, a device with an unpaused packet transmits, a pause ends.      *)
(* Nothing makes an upstream device send.                                  *)
(***************************************************************************)
Fairness ==
  /\ \A in \in Port, f \in Fine :
       WF_vars(ReceivePfc(in, f)) /\ WF_vars(SendToDev(in, f))
  /\ \A out \in Port : WF_vars(\E q \in Queue : Dequeue(out, q))
  /\ \A out \in Port, q \in Queue : WF_vars(SwitchReceiveResume(out, q))

FairSpec == Spec /\ Fairness

-----------------------------------------------------------------------------
(***************************************************************************)
(* Properties.                                                             *)
(***************************************************************************)

\* Every variable has its type.
TypeOK ==
  /\ ingress_bytes \in [Port -> [Fine -> Int]]
  /\ hdrm_bytes \in [Port -> [Fine -> Nat]]
  /\ shared_used_bytes \in Int
  /\ egress_bytes \in [Port -> [Queue -> Int]]
  /\ paused \in [Port -> [Fine -> BOOLEAN]]
  /\ m_queue \in [Port -> [Queue -> Seq(Packet)]]
  /\ m_bytes \in [Port -> [Port -> [Queue -> Int]]]
  /\ m_paused \in [Port -> [Queue -> BOOLEAN]]
  /\ downCredit \in [Port -> [Queue -> 0 .. DownCap]]
  /\ wire \in [Port -> [Fine -> Seq(Packet)]]
  /\ pfcWire \in [Port -> [Fine -> Seq(Frame)]]
  /\ upstreamPaused \in [Port -> [Fine -> BOOLEAN]]
  /\ dropped \subseteq {"headroom", "egress"}

\* The bytes of the packets of a kind in S that a queue holds, and that all hold.
SeqBytes(s, S) == CellSum([i \in DOMAIN s |-> IF s[i] \in S THEN s[i].size ELSE 0])

QueuedBytes(S) == CellSum([c \in Port \X Queue |-> SeqBytes(m_queue[c[1]][c[2]], S)])

\* The packets an ingress is charged for, those of one counter of m_bytes,
\* and those of an egress queue.
ChargedTo(in, f) == {p \in Packet : Controlled(p) /\ p.in = in /\ FineOf(p) = f}
Through(in, out, q) == {p \in Packet : p.in = in /\ p.out = out /\ p.q = q}
Leaving(out, q) == {p \in Packet : p.out = out /\ p.q = q}

\* What the unit has charged to an ingress, wherever it was charged, is what
\* the queues hold of it, and the same for an egress queue and for m_bytes:
\* Update*Admission and RemoveFrom*Admission are inverse although the
\* release does not know where the admission put the packet.
AccountingExact ==
  /\ \A in \in Port, f \in Fine :
       ingress_bytes[in][f] + hdrm_bytes[in][f] = QueuedBytes(ChargedTo(in, f))
  /\ \A in, out \in Port, q \in Queue :
       m_bytes[in][out][q] = QueuedBytes(Through(in, out, q))
  /\ \A out \in Port, q \in Queue :
       egress_bytes[out][q] = QueuedBytes(Leaving(out, q))

\* What every ingress holds above its reserve, and all it holds.
SharedOf  == [c \in Port \X Fine |-> GetSharedUsed(c[1], c[2])]
ChargedOf == [c \in Port \X Fine |-> ingress_bytes[c[1]][c[2]] + hdrm_bytes[c[1]][c[2]]]

\* shared_used_bytes, kept by increments, is the sum over all ingresses of
\* what they hold above their reserve.
SharedAccounting == shared_used_bytes = CellSum(SharedOf)

\* The shared buffer is never overdrawn, so the subtraction in
\* GetPfcThreshold never wraps to a huge threshold.
SharedWithinBudget == shared_used_bytes <= SharedBudget

\* All that PFC lets into the switch fits into its buffer, although no
\* single test of SendToDev looks at the whole buffer.
BufferNotExceeded == CellSum(ChargedOf) <= BufferSize

\* An ingress that has been told to pause still holds bytes.  Only a dequeue
\* from the same ingress runs CheckShouldResume, so a paused ingress without
\* bytes would never be resumed.
PausedHoldsBytes ==
  \A in \in Port, f \in Fine :
    paused[in][f] => ingress_bytes[in][f] + hdrm_bytes[in][f] > 0

\* QbbNetDevice::Resume asserts that what it resumes is paused: pause and
\* resume frames reach the upstream device in turn, and once all of them
\* have arrived it agrees with the switch.
FramesAlternate ==
  \A in \in Port, f \in Fine :
    LET s == pfcWire[in][f] IN
    /\ \A i \in 1 .. Len(s) :
         s[i].pause # (IF i = 1 THEN upstreamPaused[in][f] ELSE s[i - 1].pause)
    /\ paused[in][f] = (IF s = <<>> THEN upstreamPaused[in][f] ELSE Last(s).pause)

\* PFC is lossless: what an upstream device sends before it learns of a
\* pause fits into the headroom, so CheckIngressAdmission never drops.
NoHeadroomDrop == "headroom" \notin dropped

\* No upstream device stays paused for ever.
PauseEnds ==
  \A in \in Port, f \in Fine : upstreamPaused[in][f] ~> ~upstreamPaused[in][f]
=============================================================================
