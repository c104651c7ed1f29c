-------------------------------- MODULE Irn --------------------------------
(***************************************************************************)
(* The RDMA transport with IRN (USE_IRN): selective repeat instead of      *)
(* going back (rdma-hw.cc and the classes Irn of rdma-operation.cc).  As   *)
(* in GoBackN: one queue pair, the receiver, links that keep the order but *)
(* may lose; sequence numbers count packets.  Both of the code's recovery  *)
(* schemes are here, the timer of each packet and the timeout of the queue *)
(* pair, which goes back (rto_us is not 0 by default).  The window does    *)
(* not bind: with IRN GetOnTheFly counts packets, and it counts bytes.     *)
(***************************************************************************)
EXTENDS Integers, Sequences, FiniteSets

CONSTANTS
  Msg,            \* the numbers of the messages (m_msgSeq)
  Size,           \* [Msg -> Nat \ {0}]: the packets of a message
  WireCap,        \* bound: packets and answers under way at once
  Configuration   \* the settings a simulation may be started with

ASSUME IrnParameters ==
  /\ Msg \subseteq Nat
  /\ Size \in [Msg -> Nat \ {0}]
  /\ Configuration \subseteq
       [rto : BOOLEAN,                          \* rto_us > 0
        loss : SUBSET {"data", "answer"},
        maxLoss : Nat]                          \* bound: how many are lost

VARIABLES
  settings,
  list,       \* [Msg -> where the message is: rdma_msgs_sending, rdma_msgs_waiting, m_finished_msgs]
  snd_nxt,    \* [Msg -> next packet to send for the first time]
  snd_una,    \* [Msg -> largest sequence number of an ACK]
  state,      \* [Msg -> IRN_STATE of each packet]: m_states, ACK before m_baseSeq
  rtx,        \* [Msg -> m_rtxSeqQueues]
  armed,      \* [Msg -> packets with a pending event in m_rtxEvents]
  timer,      \* m_eventTimeoutRetransmission is scheduled
  received,   \* [Msg -> m_received_psn, and the packets in state ACK at the receiver]
  next,       \* [Msg -> GetNextSequenceNumber of the receiver: behind the last packet it has]
  complete,   \* [Msg -> the receiver has the message among its m_finished_msgs]
  data,       \* packets under way to the receiver
  answers,    \* ACKs and SACKs under way to the sender
  losses      \* how many have been lost

sender == <<list, snd_nxt, snd_una, state, rtx, armed, timer>>
receiver == <<received, next, complete>>
vars == <<settings, sender, receiver, data, answers, losses>>

Packets(m) == 0 .. Size[m] - 1

Init ==
  /\ settings \in Configuration
  /\ list = [m \in Msg |-> "sending"]
  /\ snd_nxt = [m \in Msg |-> 0]
  /\ snd_una = [m \in Msg |-> 0]
  /\ state = [m \in Msg |-> [k \in Packets(m) |-> "UNDEF"]]
  /\ rtx = [m \in Msg |-> << >>]
  /\ armed = [m \in Msg |-> {}]
  /\ timer = FALSE
  /\ received = [m \in Msg |-> {}]
  /\ next = [m \in Msg |-> 0]
  /\ complete = [m \in Msg |-> FALSE]
  /\ data = << >>
  /\ answers = << >>
  /\ losses = 0

-----------------------------------------------------------------------------
(* The sender *)

Unfinished == {m \in Msg : list[m] # "finished"}

\* A packet that was sent and not acknowledged: state NACK or UNACK.
Open(m, k) == k \in Packets(m) /\ state[m][k] \in {"UNACK", "NACK"}

\* What is below m_baseSeq after MoveWindow: the packets before the first one not acknowledged.
Below(st, m) == {k \in Packets(m) : \A j \in 0 .. k : st[j] = "ACK"}

\* GetBytesLeft, apart from its unit.
BytesLeft(m) == snd_nxt[m] < Size[m] \/ rtx[m] # << >>

\* ResetMSGRTOTime, and the event cancelled with the last message; see GoBackN.
AllSent == {m \in Unfinished : ~BytesLeft(m) /\ \E k \in Packets(m) : state[m][k] = "UNACK"}

ResetRTO ==
  timer' = (settings.rto /\ Unfinished' # {} /\ (timer \/ AllSent' # {}))

\* PeekFIFOMsg: the first message of the sending list with something to send.
Peek(m) ==
  LET ready == {x \in Msg : list[x] = "sending" /\ BytesLeft(x)}
  IN m \in ready /\ \A x \in ready : m <= x

\* The places of the queue whose packet is open, and how many come up to place i.
Kept(m) == {i \in DOMAIN rtx[m] : Open(m, rtx[m][i])}
Rank(m, i) == Cardinality({h \in Kept(m) : h <= i})

\* ShouldSndData drops from the queue what has been acknowledged meanwhile
\* (a SelectSeq, written out for the proofs).
Requeued(m) ==
  [n \in 1 .. Cardinality(Kept(m)) |-> rtx[m][CHOOSE i \in Kept(m) : Rank(m, i) = n]]

\* ShouldSndData of a message with nothing left to send after that.
Settle(m) ==
  /\ Peek(m)
  /\ snd_nxt[m] >= Size[m]
  /\ Requeued(m) = << >>
  /\ rtx' = [rtx EXCEPT ![m] = << >>]
  /\ list' = [list EXCEPT ![m] = "waiting"]
  /\ UNCHANGED <<settings, snd_nxt, snd_una, state, armed, timer, receiver, data, answers, losses>>

\* Mutant: snd_nxt counts every packet sent.
TransmitCounted(m, k) ==
  /\ Len(data) + Len(answers) < WireCap
  /\ data' = Append(data, [msg |-> m, seq |-> k])
  /\ snd_nxt' = [snd_nxt EXCEPT ![m] = @ + 1]
  /\ armed' = [armed EXCEPT ![m] = IF state[m][k] = "ACK" THEN @ ELSE @ \cup {k}]
  /\ list' = [list EXCEPT ![m] = IF snd_nxt'[m] >= Size[m] /\ rtx'[m] = << >>
                                 THEN "waiting" ELSE @]
  /\ ResetRTO
  /\ UNCHANGED <<settings, snd_una, receiver, answers, losses>>

\* The end of GetNxtPacket, for packet k: the first retransmission of a
\* packet that snd_nxt went back to moves it on, too.
Transmit(m, k) ==
  /\ Len(data) + Len(answers) < WireCap
  /\ data' = Append(data, [msg |-> m, seq |-> k])
  /\ snd_nxt' = [snd_nxt EXCEPT ![m] = IF k = @ THEN @ + 1 ELSE @]
  /\ armed' = [armed EXCEPT ![m] = IF state[m][k] = "ACK" THEN @ ELSE @ \cup {k}]
  /\ list' = [list EXCEPT ![m] = IF snd_nxt'[m] >= Size[m] /\ rtx'[m] = << >>
                                 THEN "waiting" ELSE @]
  /\ ResetRTO
  /\ UNCHANGED <<settings, snd_una, receiver, answers, losses>>

\* GetNxtPacket, retransmissions first.
Resend(m, k) ==
  /\ Peek(m)
  /\ Requeued(m) # << >>
  /\ k = Head(Requeued(m))
  /\ Open(m, k)
  /\ rtx' = [rtx EXCEPT ![m] = Tail(Requeued(m))]
  /\ state' = [state EXCEPT ![m][k] = "UNACK"]
  /\ Transmit(m, k)

\* GetNxtPacket of a new packet.  SendNewPacket lengthens m_states by one,
\* also for a packet that is sent anew because snd_nxt went back; entries
\* beyond the last packet are left out, nothing ever refers to them.
SendNew(m, k) ==
  /\ Peek(m)
  /\ Requeued(m) = << >>
  /\ snd_nxt[m] < Size[m]
  /\ k = snd_nxt[m]
  /\ rtx' = [rtx EXCEPT ![m] = << >>]
  /\ state' = [state EXCEPT ![m] =
       [j \in Packets(m) |->
          IF @[j] = "UNDEF" /\ \A i \in 0 .. j - 1 : @[i] # "UNDEF" THEN "UNACK" ELSE @[j]]]
  /\ Transmit(m, k)

\* What both ReceiveAck and ReceiveSack end with: MsgComplete.
Finished(m, st) == Below(st, m) = Packets(m)

\* AckIrnState; Acknowledge with the number of the packet itself.
ReceiveAck(m, seq) ==
  LET st == [state[m] EXCEPT ![seq] = IF Open(m, seq) THEN "ACK" ELSE @] IN
  /\ state' = [state EXCEPT ![m] = st]
  /\ armed' = [armed EXCEPT ![m] = @ \ {seq}]
  /\ snd_una' = [snd_una EXCEPT ![m] = IF seq > @ THEN seq ELSE @]
  /\ list' = [list EXCEPT ![m] = IF Finished(m, st) THEN "finished" ELSE @]
  /\ UNCHANGED <<snd_nxt, rtx>>
  /\ ResetRTO

\* Mutant: the packets of the gap are not queued.
ReceiveSackUnqueued(m, seq, nack) ==
  LET gap == nack .. seq - 1
      st == [k \in Packets(m) |-> IF k = seq THEN "ACK" ELSE IF k \in gap THEN "NACK" ELSE state[m][k]]
  IN
  /\ state' = [state EXCEPT ![m] = st]
  /\ armed' = [armed EXCEPT ![m] = @ \ (gap \cup {seq})]
  /\ list' = [list EXCEPT ![m] = IF Finished(m, st) THEN "finished" ELSE "sending"]
  /\ UNCHANGED <<snd_nxt, snd_una, rtx, timer>>

\* Mutant: all before the packet is taken for lost.
ReceiveSackAll(m, seq, nack) ==
  LET gap == 0 .. seq - 1
      st == [k \in Packets(m) |-> IF k = seq THEN "ACK" ELSE IF k \in gap THEN "NACK" ELSE state[m][k]]
  IN
  /\ state' = [state EXCEPT ![m] = st]
  /\ armed' = [armed EXCEPT ![m] = @ \ (gap \cup {seq})]
  /\ rtx' = [rtx EXCEPT ![m] = @ \o [i \in 1 .. seq |-> i - 1]]
  /\ list' = [list EXCEPT ![m] = IF Finished(m, st) THEN "finished" ELSE "sending"]
  /\ UNCHANGED <<snd_nxt, snd_una, timer>>

\* SackIrnState: the packet is acknowledged, the gap before it lost, whatever
\* was known of the packets in the gap; all of them are queued.
ReceiveSack(m, seq, nack) ==
  LET gap == IF Open(m, seq) /\ nack \notin Below(state[m], m) THEN nack .. seq - 1 ELSE {}
      st == [k \in Packets(m) |-> IF k = seq /\ Open(m, k) THEN "ACK"
                                  ELSE IF k \in gap THEN "NACK" ELSE state[m][k]]
  IN
  /\ state' = [state EXCEPT ![m] = st]
  /\ armed' = [armed EXCEPT ![m] = @ \ (gap \cup {seq})]
  /\ rtx' = [rtx EXCEPT ![m] = @ \o [i \in 1 .. seq - nack |-> nack + i - 1]]
  /\ list' = [list EXCEPT ![m] = IF Finished(m, st) THEN "finished" ELSE "sending"]
  /\ UNCHANGED <<snd_nxt, snd_una, timer>>

ReceiveAnswer ==
  /\ answers # << >>
  /\ answers' = Tail(answers)
  /\ LET a == Head(answers) IN
     \/ list[a.msg] = "finished" /\ UNCHANGED sender
     \/ list[a.msg] # "finished" /\ a.kind = "ACK" /\ ReceiveAck(a.msg, a.seq)
     \/ list[a.msg] # "finished" /\ a.kind = "SACK" /\ ReceiveSack(a.msg, a.seq, a.nack)
  /\ UNCHANGED <<settings, receiver, data, losses>>

\* Mutant: the message stays in the list it is in.
IrnTimerHandlerWaiting(m, k) ==
  /\ state' = [state EXCEPT ![m][k] = "NACK"]
  /\ rtx' = [rtx EXCEPT ![m] = Append(@, k)]
  /\ UNCHANGED list

\* IrnTimerHandler of a packet that is open: nothing has cancelled the event.
IrnTimerHandler(m, k) ==
  /\ state' = [state EXCEPT ![m][k] = "NACK"]
  /\ rtx' = [rtx EXCEPT ![m] = Append(@, k)]
  /\ list' = [list EXCEPT ![m] = "sending"]

PacketTimeout ==
  \E m \in Unfinished : \E k \in armed[m] :
    /\ armed' = [armed EXCEPT ![m] = @ \ {k}]
    /\ Open(m, k)
    /\ IrnTimerHandler(m, k)
    /\ UNCHANGED <<settings, snd_nxt, snd_una, timer, receiver, data, answers, losses>>

\* RecoverMSG and Recover, with IRN as without: see GoBackN.
Timeout ==
  /\ timer
  /\ \E overdue \in SUBSET Unfinished :
       /\ AllSent # {} => overdue \cap AllSent # {}
       /\ snd_nxt' = [m \in Msg |-> IF m \in overdue THEN snd_una[m] ELSE snd_nxt[m]]
       /\ list' = [m \in Msg |-> IF m \in overdue THEN "sending" ELSE list[m]]
  /\ timer' = FALSE
  /\ UNCHANGED <<settings, snd_una, state, rtx, armed, receiver, data, answers, losses>>

-----------------------------------------------------------------------------
(* The receiver *)

\* Mutant: complete with the last packet, whatever is missing before it.
ReceivedLast(got, m) == Size[m] - 1 \in got

\* ReceivedAll, and m_baseSeq beyond the last packet.
ReceivedAll(got, m) == got = Packets(m)

\* ReceiveUdp of a packet of a message that is not complete (UpdateIrnState):
\* an ACK, or a SACK with the first number the packet skipped.
ReceiveUdp(p) ==
  LET m == p.msg
      got == received[m] \cup {p.seq}
  IN
  /\ received' = [received EXCEPT ![m] = got]
  /\ next' = [next EXCEPT ![m] = IF p.seq >= @ THEN p.seq + 1 ELSE @]
  /\ complete' = [complete EXCEPT ![m] = ReceivedAll(got, m)]
  /\ answers' = Append(answers,
       IF p.seq <= next[m] THEN [kind |-> "ACK", msg |-> m, seq |-> p.seq, nack |-> p.seq]
       ELSE [kind |-> "SACK", msg |-> m, seq |-> p.seq, nack |-> next[m]])

ReceiveData ==
  /\ data # << >>
  /\ data' = Tail(data)
  /\ IF complete[Head(data).msg] THEN UNCHANGED <<receiver, answers>> ELSE ReceiveUdp(Head(data))
  /\ UNCHANGED <<settings, sender, losses>>

-----------------------------------------------------------------------------
\* The network drops a packet or an answer (the admission control of a
\* switch, or the error model of third.cc).
MayLose(kind) == kind \in settings.loss /\ losses < settings.maxLoss

Lose ==
  /\ losses' = losses + 1
  /\ \/ MayLose("data") /\ data # << >> /\ data' = Tail(data) /\ UNCHANGED answers
     \/ MayLose("answer") /\ answers # << >> /\ answers' = Tail(answers) /\ UNCHANGED data
  /\ UNCHANGED <<settings, sender, receiver>>

SendAny == \E m \in Msg : Settle(m) \/ \E k \in Packets(m) : Resend(m, k) \/ SendNew(m, k)

Next == SendAny \/ ReceiveAnswer \/ PacketTimeout \/ Timeout \/ ReceiveData \/ Lose

Spec == Init /\ [][Next]_vars

\* What is under way arrives, a device that may send does so, and an event
\* that is scheduled happens.
Fairness ==
  /\ WF_vars(SendAny)
  /\ WF_vars(ReceiveData)
  /\ WF_vars(ReceiveAnswer)
  /\ WF_vars(PacketTimeout)
  /\ WF_vars(Timeout)

FairSpec == Spec /\ Fairness

-----------------------------------------------------------------------------
(* Properties *)

TypeOK ==
  /\ settings \in Configuration
  /\ list \in [Msg -> {"sending", "waiting", "finished"}]
  /\ {snd_nxt, snd_una, next} \subseteq [Msg -> Nat]
  /\ timer \in BOOLEAN
  /\ complete \in [Msg -> BOOLEAN]
  /\ \A m \in Msg :
       /\ snd_nxt[m] <= Size[m] /\ snd_una[m] < Size[m] /\ next[m] <= Size[m]
       /\ state[m] \in [Packets(m) -> {"UNDEF", "UNACK", "NACK", "ACK"}]
       /\ rtx[m] \in Seq(Packets(m))
       /\ armed[m] \cup received[m] \subseteq Packets(m)
  /\ data \in Seq([msg : Msg, seq : Nat])
  /\ answers \in Seq([kind : {"ACK", "SACK"}, msg : Msg, seq : Nat, nack : Nat])
  /\ losses \in Nat

\* No packet is forgotten: what is sent and not acknowledged has its timer,
\* is in the queue of retransmissions, or is still to be sent (SendNewPacket
\* marks a packet too many when snd_nxt went back); and a message waits, where
\* PeekFIFOMsg does not look, only with a timer for each of its packets
\* (SackIrnState cancels timers, ShouldSndData and SetRtxEvent replace entries).
NothingForgotten ==
  \A m \in Unfinished : \A k \in Packets(m) :
    /\ Open(m, k) => k \in armed[m] \/ snd_nxt[m] <= k
                                    \/ \E i \in 1 .. Len(rtx[m]) : rtx[m][i] = k
    /\ list[m] = "waiting" => k \in armed[m] \/ state[m][k] = "ACK"

\* SackIrnState overwrites what it knew of the packets in the gap: it must
\* never be one that was acknowledged, for the receiver may be complete and
\* never acknowledge it again.
AckedStaysAcked ==
  [][\A m \in Msg : \A k \in Packets(m) : state[m][k] = "ACK" => state'[m][k] = "ACK"]_vars

\* The transport reports a message at the receiver only when all of it has
\* arrived and at the sender only after that: what GoBackN promises.
T == INSTANCE Transfer WITH
       got <- received,
       finished <- [m \in Msg |-> list[m] = "finished"]
Refines == T!Spec

\* Unlike going back, selective repeat finishes every message whatever
\* packets are dropped, as long as answers arrive.
DropsFinish == "answer" \notin settings.loss => <>(\A m \in Msg : list[m] = "finished")
=============================================================================
