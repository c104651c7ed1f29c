------------------------------ MODULE GoBackN ------------------------------
(***************************************************************************)
(* The RDMA transport without IRN, on paths that keep the order of packets *)
(* (rdma-hw.cc, rdma-operation.cc, rdma-queue-pair.cc): one queue pair,    *)
(* its messages, the receiver, and the links between them, which may lose  *)
(* packets.  Sequence numbers count packets.  Settings modelled: an ACK    *)
(* for every packet received in order (L2_ACK_INTERVAL 1), no back to      *)
(* zero, FIFO scheduling of messages; pacing delays a packet by an         *)
(* arbitrary time, and the device asks the queue pair again until then.    *)
(***************************************************************************)
EXTENDS Integers, Sequences

CONSTANTS
  Msg,            \* the numbers of the messages (m_msgSeq)
  Size,           \* [Msg -> Nat \ {0}]: the packets of a message
  WireCap,        \* bound: packets and answers under way at once
  Configuration   \* the settings a simulation may be started with

ASSUME GoBackNParameters ==
  /\ Msg \subseteq Nat
  /\ Size \in [Msg -> Nat \ {0}]
  /\ Configuration \subseteq
       [nack_reaction : BOOLEAN,     \* a NACK makes the sender go back
        rto : BOOLEAN,               \* rto_us > 0
        win : Nat,                   \* m_win in packets; 0: no window
        loss : SUBSET {"data", "answer"},
        maxLoss : Nat]               \* bound: how many are lost

VARIABLES
  settings,
  list,       \* [Msg -> where the message is: rdma_msgs_sending, rdma_msgs_waiting, m_finished_msgs]
  snd_nxt,    \* [Msg -> next packet to send]
  snd_una,    \* [Msg -> first packet not acknowledged]
  timer,      \* m_eventTimeoutRetransmission is scheduled
  expected,   \* [Msg -> ReceiverNextExpectedSeq]
  received,   \* [Msg -> m_received_psn]
  lastNACK,   \* [Msg -> m_lastNACK]; -1 while m_nackTimer is 0
  complete,   \* [Msg -> the receiver has the message among its m_finished_msgs]
  data,       \* packets under way to the receiver
  answers,    \* ACKs and NACKs under way to the sender
  losses      \* how many have been lost

sender == <<list, snd_nxt, snd_una, timer>>
receiver == <<expected, received, lastNACK, complete>>
vars == <<settings, sender, receiver, data, answers, losses>>

Packets(m) == 0 .. Size[m] - 1

Init ==
  /\ settings \in Configuration
  /\ list = [m \in Msg |-> "sending"]
  /\ snd_nxt = [m \in Msg |-> 0]
  /\ snd_una = [m \in Msg |-> 0]
  /\ timer = FALSE
  /\ expected = [m \in Msg |-> 0]
  /\ received = [m \in Msg |-> {}]
  /\ lastNACK = [m \in Msg |-> -1]
  /\ complete = [m \in Msg |-> FALSE]
  /\ data = << >>
  /\ answers = << >>
  /\ losses = 0

-----------------------------------------------------------------------------
(* The sender *)

Unfinished == {m \in Msg : list[m] # "finished"}

\* GetBytesLeft = 0 and GetOnTheFly # 0: what ResetMSGRTOTime looks for.
AllSent == {m \in Unfinished : snd_nxt[m] >= Size[m] /\ snd_nxt[m] # snd_una[m]}

\* ResetMSGRTOTime after an action of the sender: the event is set anew if
\* a message is all sent, else it is left as it was.  MsgComplete of the
\* last message cancels it.
ResetRTO ==
  timer' = (settings.rto /\ Unfinished' # {} /\ (timer \/ AllSent' # {}))

\* PeekFIFOMsg: the first message of the sending list with packets left.
Peek(m) ==
  LET ready == {x \in Msg : list[x] = "sending" /\ snd_nxt[x] < Size[x]}
  IN m \in ready /\ \A x \in ready : m <= x

\* Mutant: the packet to send is counted as under way already.
IsWinBoundEarly(m) ==
  settings.win # 0 /\ (snd_nxt[m] < snd_una[m] \/ snd_nxt[m] + 1 - snd_una[m] >= settings.win)

\* IsWinBound(GetOnTheFly()): the difference is unsigned, so an
\* acknowledgement beyond snd_nxt makes it huge.
IsWinBound(m) ==
  settings.win # 0 /\ (snd_nxt[m] < snd_una[m] \/ snd_nxt[m] - snd_una[m] >= settings.win)

\* ShouldSndData and GetNxtPacket.
Send(m) ==
  /\ Peek(m)
  /\ ~IsWinBound(m)
  /\ Len(data) + Len(answers) < WireCap
  /\ data' = Append(data, [msg |-> m, seq |-> snd_nxt[m]])
  /\ snd_nxt' = [snd_nxt EXCEPT ![m] = @ + 1]
  /\ list' = [list EXCEPT ![m] = IF snd_nxt[m] + 1 = Size[m] THEN "waiting" ELSE @]
  /\ UNCHANGED snd_una
  /\ ResetRTO
  /\ UNCHANGED <<settings, receiver, answers, losses>>

\* ReceiveAck for a message that is not finished: Acknowledge, MsgComplete,
\* and Recover for a NACK.
Acknowledge(a) ==
  LET m == a.msg
      una == IF a.seq > snd_una[m] THEN a.seq ELSE snd_una[m]
      recover == a.kind = "NACK" /\ settings.nack_reaction
  IN /\ snd_una' = [snd_una EXCEPT ![m] = una]
     /\ snd_nxt' = [snd_nxt EXCEPT ![m] = IF recover THEN una ELSE @]
     /\ list' = [list EXCEPT ![m] = IF una >= Size[m] THEN "finished"
                                    ELSE IF recover THEN "sending" ELSE @]
     /\ ResetRTO

ReceiveAnswer ==
  /\ answers # << >>
  /\ answers' = Tail(answers)
  /\ IF list[Head(answers).msg] = "finished" THEN UNCHANGED sender ELSE Acknowledge(Head(answers))
  /\ UNCHANGED <<settings, receiver, data, losses>>

\* RecoverMSG: the messages without an action for rto_us go back.  The event
\* was set for the oldest of those that are all sent, so that one is among
\* them if there is any; it may be late for it, or early for others.
Timeout ==
  /\ timer
  /\ \E overdue \in SUBSET Unfinished :
       /\ AllSent # {} => overdue \cap AllSent # {}
       /\ snd_nxt' = [m \in Msg |-> IF m \in overdue THEN snd_una[m] ELSE snd_nxt[m]]
       /\ list' = [m \in Msg |-> IF m \in overdue THEN "sending" ELSE list[m]]
  /\ timer' = FALSE
  /\ UNCHANGED <<settings, snd_una, receiver, data, answers, losses>>

-----------------------------------------------------------------------------
(* The receiver *)

\* Mutant: only the tag of the last packet counts.
ReceivedLast(got, m) == Size[m] - 1 \in got

\* ReceivedAll: the last packet and, from 0, all before it.
ReceivedAll(got, m) == got = Packets(m)

\* ReceiveUdp of a packet of a message that is not complete: an answer of
\* the kind goes back with the next sequence number expected, and a message
\* of which all packets have arrived is complete.
Answer(kind, p, next) ==
  LET got == received[p.msg] \cup {p.seq} IN
  /\ expected' = [expected EXCEPT ![p.msg] = next]
  /\ received' = [received EXCEPT ![p.msg] = got]
  /\ complete' = [complete EXCEPT ![p.msg] = ReceivedAll(got, p.msg)]
  /\ answers' = Append(answers, [kind |-> kind, msg |-> p.msg, seq |-> next])

\* No answer; m_received_psn has the packet all the same.
Silent(p) ==
  /\ received' = [received EXCEPT ![p.msg] = @ \cup {p.seq}]
  /\ UNCHANGED <<expected, lastNACK, complete, answers>>

\* Mutant: a duplicate advances the receiver.
ReceiveUdpTwice(p) ==
  LET next == expected[p.msg] IN
  \/ /\ p.seq <= next
     /\ Answer("ACK", p, next + 1)
     /\ UNCHANGED lastNACK
  \/ /\ p.seq > next
     /\ Answer("NACK", p, next)
     /\ lastNACK' = [lastNACK EXCEPT ![p.msg] = next]

\* Mutant: the receiver goes on behind the gap.
ReceiveUdpGap(p) ==
  LET next == expected[p.msg] IN
  \/ /\ p.seq = next
     /\ Answer("ACK", p, next + 1)
     /\ UNCHANGED lastNACK
  \/ /\ p.seq > next
     /\ Answer("NACK", p, p.seq + 1)
     /\ lastNACK' = [lastNACK EXCEPT ![p.msg] = next]
  \/ /\ p.seq < next
     /\ Silent(p)

\* ReceiverCheckSeq: in order; beyond a gap, with a NACK unless one for the
\* gap was sent less than m_nack_interval ago; a duplicate.
ReceiveUdp(p) ==
  LET next == expected[p.msg] IN
  \/ /\ p.seq = next
     /\ Answer("ACK", p, next + 1)
     /\ UNCHANGED lastNACK
  \/ /\ p.seq > next
     /\ Answer("NACK", p, next)
     /\ lastNACK' = [lastNACK EXCEPT ![p.msg] = next]
  \/ /\ p.seq > next
     /\ lastNACK[p.msg] = next
     /\ Silent(p)
  \/ /\ p.seq < next
     /\ Silent(p)

ReceiveData ==
  /\ data # << >>
  /\ data' = Tail(data)
  /\ IF complete[Head(data).msg] THEN UNCHANGED <<receiver, answers>> ELSE ReceiveUdp(Head(data))
  /\ UNCHANGED <<settings, sender, losses>>

-----------------------------------------------------------------------------
\* The network drops a packet or an answer (the admission control of a
\* switch, or the error model of third.cc).
MayLose(kind) == kind \in settings.loss /\ losses < settings.maxLoss

Lose ==
  /\ losses' = losses + 1
  /\ \/ MayLose("data") /\ data # << >> /\ data' = Tail(data) /\ UNCHANGED answers
     \/ MayLose("answer") /\ answers # << >> /\ answers' = Tail(answers) /\ UNCHANGED data
  /\ UNCHANGED <<settings, sender, receiver>>

SendAny == \E m \in Msg : Send(m)

Next == SendAny \/ ReceiveAnswer \/ Timeout \/ ReceiveData \/ Lose

Spec == Init /\ [][Next]_vars

\* What is under way arrives, a device that may send does so, and an event
\* that is scheduled happens.
Fairness ==
  /\ WF_vars(SendAny)
  /\ WF_vars(ReceiveData)
  /\ WF_vars(ReceiveAnswer)
  /\ WF_vars(Timeout)

FairSpec == Spec /\ Fairness

-----------------------------------------------------------------------------
(* Properties *)

TypeOK ==
  /\ settings \in Configuration
  /\ list \in [Msg -> {"sending", "waiting", "finished"}]
  /\ timer \in BOOLEAN
  /\ {snd_nxt, snd_una, expected} \subseteq [Msg -> Nat]
  /\ received \in [Msg -> SUBSET Nat]
  /\ \A m \in Msg :
       /\ snd_nxt[m] <= Size[m] /\ snd_una[m] <= Size[m] /\ expected[m] <= Size[m]
       /\ received[m] \subseteq Packets(m)
  /\ lastNACK \in [Msg -> Nat \cup {-1}]
  /\ complete \in [Msg -> BOOLEAN]
  /\ data \in Seq([msg : Msg, seq : Nat])
  /\ answers \in Seq([kind : {"ACK", "NACK"}, msg : Msg, seq : Nat])
  /\ losses \in Nat

\* The sender takes for delivered only what arrived in order, and a message
\* whose packets were all accepted is complete: the receiver stops to
\* listen at completion, so later answers would never come.
AckedDelivered ==
  \A m \in Msg :
    /\ snd_una[m] <= expected[m]
    /\ 0 .. expected[m] - 1 \subseteq received[m]
    /\ expected[m] = Size[m] => complete[m]

\* The transport reports a message at the receiver only when all of it has
\* arrived and at the sender only after that, whatever is lost, sent again
\* or late.
T == INSTANCE Transfer WITH
       got <- received,
       finished <- [m \in Msg |-> list[m] = "finished"]
Refines == T!Spec

AllFinished == \A m \in Msg : list[m] = "finished"

\* Without loss and without timeouts every message is finished: window,
\* scheduling and acknowledgements never wait for each other.
LosslessFinishes == settings.maxLoss = 0 /\ ~settings.rto => <>AllFinished

\* With the reaction to NACK, a drop does not leave a message unfinished
\* (settings.h: "(false) Turn off the reaction of NACK. --> In this way, drop
\* will cause unfinished message"), all the more with the timeout as well.
DropsRecovered == settings.nack_reaction /\ settings.rto => <>AllFinished
=============================================================================
