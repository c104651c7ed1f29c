------------------------------ MODULE IrnProofs ------------------------------
(***************************************************************************)
(* What holds of Irn for every set of messages, every size of them and     *)
(* every configuration: a selective acknowledgement never makes the sender *)
(* lose what it knows, the transport implements Transfer (both rest on the *)
(* order of the answers on the way back), no packet is forgotten, and the  *)
(* types.                                                                  *)
(***************************************************************************)
EXTENDS Irn, QueueProofs

AnswerRecord == [kind : {"ACK", "SACK"}, msg : Msg, seq : Nat, nack : Nat]

(***************************************************************************)
(* The inductive invariant.                                                *)
(***************************************************************************)

\* The part of TypeOK that the argument needs.
Typed ==
  /\ next \in [Msg -> Nat]
  /\ received \in [Msg -> SUBSET Nat]
  /\ complete \in [Msg -> BOOLEAN]
  /\ list \in [Msg -> {"sending", "waiting", "finished"}]
  /\ DOMAIN state = Msg /\ \A m \in Msg : DOMAIN state[m] = Packets(m)
  /\ data \in Seq([msg : Msg, seq : Nat])
  /\ answers \in Seq(AnswerRecord)

\* A packet under way is one of its message.
DataOfMessage ==
  \A i \in 1 .. Len(data) : data[i].seq < Size[data[i].msg]

\* The receiver's window ends behind what it has, and it is done with all.
WindowCovers ==
  \A m \in Msg :
    /\ received[m] \subseteq Packets(m)
    /\ \A k \in received[m] : k < next[m]
    /\ complete[m] <=> received[m] = Packets(m)

\* What an answer acknowledges, and what the sender has as acknowledged, has arrived.
AnswersTrue ==
  \A i \in 1 .. Len(answers) : answers[i].seq \in received[answers[i].msg]

AckedTrue ==
  \A m \in Msg : \A k \in Packets(m) : state[m][k] = "ACK" => k \in received[m]

\* The gap a SACK reports is open at the sender and stays so until the SACK
\* arrives: no answer before it acknowledges a packet of the gap.
GapsOpen ==
  \A i \in 1 .. Len(answers) :
    answers[i].kind = "SACK" =>
      \A k \in answers[i].nack .. answers[i].seq - 1 :
        /\ state[answers[i].msg][k] # "ACK"
        /\ \A j \in 1 .. i - 1 : ~ (answers[j].msg = answers[i].msg /\ answers[j].seq = k)

IInv == Typed /\ DataOfMessage /\ WindowCovers /\ AnswersTrue /\ AckedTrue /\ GapsOpen

-----------------------------------------------------------------------------
(* Sequences: what a channel holds after a step *)

\* Element by element, what a longer channel holds.
LEMMA AppendElements ==
  ASSUME NEW S, NEW s \in Seq(S), NEW e \in S
  PROVE  /\ Append(s, e) \in Seq(S)
         /\ Len(Append(s, e)) = Len(s) + 1
         /\ Append(s, e)[Len(s) + 1] = e
         /\ \A i \in 1 .. Len(s) : Append(s, e)[i] = s[i] /\ s[i] \in S
OBVIOUS

\* Element by element, what a channel holds whose first one was taken.
LEMMA TailElements ==
  ASSUME NEW S, NEW s \in Seq(S), s # << >>
  PROVE  /\ Tail(s) \in Seq(S)
         /\ Len(s) \in Nat \ {0} /\ Len(Tail(s)) = Len(s) - 1
         /\ Head(s) = s[1] /\ Head(s) \in S
         /\ \A i \in 1 .. Len(s) - 1 : i + 1 \in 1 .. Len(s) /\ Tail(s)[i] = s[i + 1]
OBVIOUS

-----------------------------------------------------------------------------
(* The sender's knowledge *)

\* The packet that a step of the sender acknowledges, if any: the one the
\* first answer under way names.
Acknowledges(m, k) ==
  /\ answers # << >>
  /\ answers' = Tail(answers)
  /\ Head(answers).msg = m
  /\ Head(answers).seq = k

\* How a step may change what is known of packet k.
Learns(m, k) ==
  /\ state[m][k] = "ACK" => state'[m][k] = "ACK"
  /\ state'[m][k] = "ACK" => state[m][k] = "ACK" \/ Acknowledges(m, k)

\* The state keeps its shape, and its change is one of the above.
StateStep ==
  /\ DOMAIN state' = Msg /\ \A m \in Msg : DOMAIN state'[m] = Packets(m)
  /\ \A m \in Msg : \A k \in Packets(m) : Learns(m, k)

LEMMA UnchangedStateStep ==
  ASSUME Typed, UNCHANGED state
  PROVE  StateStep
BY DEF StateStep, Learns, Typed

\* Marking one open packet with a state other than ACK.
LEMMA MarkStateStep ==
  ASSUME Typed, NEW m \in Msg, NEW k, Open(m, k), NEW mark \in {"UNACK", "NACK"},
         state' = [state EXCEPT ![m][k] = mark]
  PROVE  StateStep
<1>1. k \in Packets(m) /\ state[m][k] # "ACK"
  BY DEF Open
<1>2. DOMAIN state' = Msg /\ \A x \in Msg : DOMAIN state'[x] = Packets(x)
  BY <1>1 DEF Typed
<1>3. ASSUME NEW x \in Msg, NEW j \in Packets(x) PROVE Learns(x, j)
  <2>1. CASE x = m /\ j = k
    BY <1>1, <2>1 DEF Typed, Learns
  <2>2. CASE ~(x = m /\ j = k)
    <3>1. state'[x][j] = state[x][j]
      BY <1>1, <2>2 DEF Typed
    <3> QED
      BY <3>1 DEF Learns
  <2> QED
    BY <2>1, <2>2
<1> QED
  BY <1>2, <1>3 DEF StateStep

LEMMA SendNewStateStep ==
  ASSUME Typed, NEW m \in Msg, NEW k, SendNew(m, k)
  PROVE  StateStep
<1> DEFINE st == [j \in Packets(m) |->
             IF state[m][j] = "UNDEF" /\ \A i \in 0 .. j - 1 : state[m][i] # "UNDEF"
             THEN "UNACK" ELSE state[m][j]]
<1>1. state' = [state EXCEPT ![m] = st]
  BY DEF SendNew
<1>2. DOMAIN st = Packets(m) /\ \A j \in Packets(m) : st[j] = "ACK" <=> state[m][j] = "ACK"
  OBVIOUS
<1> HIDE DEF st
<1>3. DOMAIN state' = Msg /\ \A x \in Msg : DOMAIN state'[x] = Packets(x)
  BY <1>1, <1>2 DEF Typed
<1>4. ASSUME NEW x \in Msg, NEW j \in Packets(x) PROVE Learns(x, j)
  BY <1>1, <1>2 DEF Typed, Learns
<1> QED
  BY <1>3, <1>4 DEF StateStep

LEMMA ReceiveAnswerStateStep ==
  ASSUME IInv, ReceiveAnswer
  PROVE  StateStep
<1> DEFINE a == Head(answers)
           m == a.msg
           seq == a.seq
<1>1. /\ Typed /\ answers # << >> /\ answers' = Tail(answers)
      /\ answers \in Seq(AnswerRecord)
  BY DEF IInv, ReceiveAnswer, Typed
<1>2. a = answers[1] /\ 1 \in 1 .. Len(answers) /\ a \in AnswerRecord
  BY <1>1, TailElements
<1>3. m \in Msg /\ seq \in Nat /\ a.nack \in Nat
  BY <1>2 DEF AnswerRecord
<1>4. seq \in Packets(m)
  BY <1>2, <1>3 DEF IInv, AnswersTrue, WindowCovers
<1>5. CASE list[m] = "finished"
  BY <1>1, <1>5, UnchangedStateStep DEF ReceiveAnswer, sender
<1>6. CASE list[m] # "finished" /\ a.kind = "ACK"
  <2> DEFINE st == [state[m] EXCEPT ![seq] = IF Open(m, seq) THEN "ACK" ELSE @]
  <2>1. state' = [state EXCEPT ![m] = st]
    BY <1>6 DEF ReceiveAnswer, ReceiveAck
  <2>2. DOMAIN st = Packets(m) /\ \A k \in Packets(m) :
           (state[m][k] = "ACK" => st[k] = "ACK") /\ (st[k] = "ACK" => state[m][k] = "ACK" \/ k = seq)
    BY <1>1, <1>3, <1>4 DEF Typed
  <2> HIDE DEF st
  <2>3. DOMAIN state' = Msg /\ \A x \in Msg : DOMAIN state'[x] = Packets(x)
    BY <1>1, <2>1, <2>2 DEF Typed
  <2>4. ASSUME NEW x \in Msg, NEW k \in Packets(x) PROVE Learns(x, k)
    BY <1>1, <2>1, <2>2 DEF Typed, Learns, Acknowledges
  <2> QED
    BY <2>3, <2>4 DEF StateStep
<1>7. CASE list[m] # "finished" /\ a.kind = "SACK"
  <2> DEFINE gap == IF Open(m, seq) /\ a.nack \notin Below(state[m], m) THEN a.nack .. seq - 1 ELSE {}
             st == [k \in Packets(m) |-> IF k = seq /\ Open(m, k) THEN "ACK"
                                         ELSE IF k \in gap THEN "NACK" ELSE state[m][k]]
  <2>1. state' = [state EXCEPT ![m] = st]
    BY <1>7 DEF ReceiveAnswer, ReceiveSack
  <2>2. \A k \in gap : state[m][k] # "ACK"
    BY <1>2, <1>7 DEF IInv, GapsOpen
  <2> HIDE DEF gap
  <2>3. DOMAIN st = Packets(m) /\ \A k \in Packets(m) :
           (state[m][k] = "ACK" => st[k] = "ACK") /\ (st[k] = "ACK" => state[m][k] = "ACK" \/ k = seq)
    BY <2>2 DEF Open
  <2> HIDE DEF st
  <2>4. DOMAIN state' = Msg /\ \A x \in Msg : DOMAIN state'[x] = Packets(x)
    BY <1>1, <2>1, <2>3 DEF Typed
  <2>5. ASSUME NEW x \in Msg, NEW k \in Packets(x) PROVE Learns(x, k)
    BY <1>1, <2>1, <2>3 DEF Typed, Learns, Acknowledges
  <2> QED
    BY <2>4, <2>5 DEF StateStep
<1> QED
  BY <1>2, <1>5, <1>6, <1>7 DEF AnswerRecord

LEMMA NextStateStep ==
  ASSUME IInv, [Next]_vars
  PROVE  StateStep
<1>1. Typed
  BY DEF IInv
<1>2. CASE UNCHANGED state
  BY <1>1, <1>2, UnchangedStateStep
<1>3. ASSUME NEW m \in Msg, NEW k \in Packets(m), Resend(m, k) PROVE StateStep
  BY <1>1, <1>3, MarkStateStep DEF Resend
<1>4. ASSUME NEW m \in Msg, NEW k \in Packets(m), SendNew(m, k) PROVE StateStep
  BY <1>1, <1>4, SendNewStateStep
<1>5. CASE PacketTimeout
  <2>1. PICK m \in Unfinished : \E k \in armed[m] : Open(m, k) /\ IrnTimerHandler(m, k)
    BY <1>5 DEF PacketTimeout
  <2>2. PICK k \in armed[m] : Open(m, k) /\ IrnTimerHandler(m, k)
    BY <2>1
  <2> QED
    BY <1>1, <2>2, MarkStateStep DEF IrnTimerHandler, Unfinished
<1>6. CASE ReceiveAnswer
  BY <1>6, ReceiveAnswerStateStep
<1>7. CASE \E m \in Msg : Settle(m)
  BY <1>2, <1>7 DEF Settle
<1>8. CASE Timeout \/ ReceiveData \/ Lose \/ UNCHANGED vars
  BY <1>2, <1>8 DEF Timeout, ReceiveData, Lose, sender, vars
<1> QED
  BY <1>3, <1>4, <1>5, <1>6, <1>7, <1>8 DEF Next, SendAny

-----------------------------------------------------------------------------
(* The links and the receiver *)

\* The five things a step may do to the links and to the receiver.
Sends ==
  \E m \in Msg : \E k \in Packets(m) :
    data' = Append(data, [msg |-> m, seq |-> k]) /\ UNCHANGED <<receiver, answers>>
TakesAnswer == answers # << >> /\ answers' = Tail(answers) /\ UNCHANGED <<receiver, data>>
TakesData == data # << >> /\ data' = Tail(data) /\ UNCHANGED <<receiver, answers>>
Accepts ==
  /\ data # << >>
  /\ data' = Tail(data)
  /\ ~complete[Head(data).msg]
  /\ ReceiveUdp(Head(data))
LinkStep == UNCHANGED <<receiver, answers, data>> \/ Sends \/ TakesAnswer \/ TakesData \/ Accepts

LEMMA NextLinkStep ==
  ASSUME [Next]_vars
  PROVE  LinkStep
<1>1. ASSUME NEW m \in Msg, Settle(m) PROVE LinkStep
  BY <1>1 DEF Settle, LinkStep
<1>2. ASSUME NEW m \in Msg, NEW k \in Packets(m), Transmit(m, k) PROVE LinkStep
  BY <1>2 DEF Transmit, LinkStep, Sends
<1>3. CASE SendAny
  BY <1>1, <1>2, <1>3 DEF SendAny, Resend, SendNew
<1>4. CASE PacketTimeout \/ Timeout
  BY <1>4 DEF PacketTimeout, Timeout, LinkStep
<1>5. CASE ReceiveAnswer
  BY <1>5 DEF ReceiveAnswer, LinkStep, TakesAnswer
<1>6. CASE ReceiveData
  BY <1>6 DEF ReceiveData, LinkStep, TakesData, Accepts
<1>7. CASE Lose
  BY <1>7 DEF Lose, LinkStep, TakesData, TakesAnswer
<1>8. CASE UNCHANGED vars
  BY <1>8 DEF vars, LinkStep
<1> QED
  BY <1>3, <1>4, <1>5, <1>6, <1>7, <1>8 DEF Next

LEMMA NextListTyped ==
  ASSUME Typed, [Next]_vars
  PROVE  list' \in [Msg -> {"sending", "waiting", "finished"}]
<1> DEFINE L == [Msg -> {"sending", "waiting", "finished"}]
<1>1. list \in L
  BY DEF Typed
<1>2. ASSUME NEW m \in Msg, Settle(m) PROVE list' \in L
  BY <1>1, <1>2 DEF Settle
<1>3. ASSUME NEW m \in Msg, NEW k \in Packets(m), Transmit(m, k) PROVE list' \in L
  BY <1>1, <1>3 DEF Transmit
<1>4. CASE SendAny
  BY <1>2, <1>3, <1>4 DEF SendAny, Resend, SendNew
<1>5. CASE PacketTimeout
  BY <1>1, <1>5 DEF PacketTimeout, IrnTimerHandler
<1>6. CASE Timeout
  BY <1>1, <1>6 DEF Timeout
<1>7. CASE ReceiveAnswer
  BY <1>1, <1>7 DEF ReceiveAnswer, ReceiveAck, ReceiveSack, sender
<1>8. CASE ReceiveData \/ Lose \/ UNCHANGED vars
  BY <1>1, <1>8 DEF ReceiveData, Lose, vars, sender
<1> QED
  BY <1>4, <1>5, <1>6, <1>7, <1>8 DEF Next

\* What the receiver does with a packet that it accepts.
LEMMA AcceptsEffect ==
  ASSUME IInv, Accepts
  PROVE  \E p \in [msg : Msg, seq : Nat] :
           /\ data' = Tail(data) /\ data # << >> /\ p = Head(data)
           /\ p.seq \in Packets(p.msg) /\ ~complete[p.msg]
           /\ received' = [received EXCEPT ![p.msg] = @ \cup {p.seq}]
           /\ next' = [next EXCEPT ![p.msg] = IF p.seq >= @ THEN p.seq + 1 ELSE @]
           /\ complete' = [complete EXCEPT ![p.msg] = (received'[p.msg] = Packets(p.msg))]
           /\ \E a \in AnswerRecord :
                /\ answers' = Append(answers, a)
                /\ a.msg = p.msg /\ a.seq = p.seq
                /\ a.kind = "SACK" => a.nack = next[p.msg]
<1> DEFINE p == Head(data)
<1>1. /\ data \in Seq([msg : Msg, seq : Nat]) /\ data # << >> /\ data' = Tail(data)
      /\ received \in [Msg -> SUBSET Nat] /\ next \in [Msg -> Nat]
  BY DEF IInv, Typed, Accepts
<1>2. p \in [msg : Msg, seq : Nat] /\ p = data[1] /\ 1 \in 1 .. Len(data)
  <2> DEFINE D == [msg : Msg, seq : Nat]
  <2>1. data \in Seq(D) /\ data # << >>
    BY <1>1
  <2> HIDE DEF D
  <2>2. Len(data) \in Nat \ {0} /\ Head(data) = data[1] /\ Head(data) \in D
    BY <2>1, TailElements
  <2> QED
    BY <2>2 DEF D
<1>3. p.msg \in Msg /\ p.seq \in Nat
  BY <1>2
<1>4. p.seq \in Packets(p.msg)
  <2>1. p.seq < Size[p.msg] /\ Size[p.msg] \in Nat
    BY <1>2, <1>3, IrnParameters DEF IInv, DataOfMessage
  <2> QED
    BY <1>3, <2>1 DEF Packets
<1>5. ~complete[p.msg] /\ ReceiveUdp(p)
  BY DEF Accepts
<1> DEFINE a == IF p.seq <= next[p.msg]
                THEN [kind |-> "ACK", msg |-> p.msg, seq |-> p.seq, nack |-> p.seq]
                ELSE [kind |-> "SACK", msg |-> p.msg, seq |-> p.seq, nack |-> next[p.msg]]
<1> HIDE DEF p
<1>6. /\ received' = [received EXCEPT ![p.msg] = received[p.msg] \cup {p.seq}]
      /\ next' = [next EXCEPT ![p.msg] = IF p.seq >= @ THEN p.seq + 1 ELSE @]
      /\ complete' = [complete EXCEPT ![p.msg] = ReceivedAll(received[p.msg] \cup {p.seq}, p.msg)]
      /\ answers' = Append(answers, a)
  BY <1>5 DEF ReceiveUdp
<1>7. a \in AnswerRecord /\ a.msg = p.msg /\ a.seq = p.seq /\ (a.kind = "SACK" => a.nack = next[p.msg])
  <2>1. next[p.msg] \in Nat
    BY <1>1, <1>3
  <2>2. CASE p.seq <= next[p.msg]
    BY <1>3, <2>2 DEF AnswerRecord
  <2>3. CASE ~(p.seq <= next[p.msg])
    BY <1>3, <2>1, <2>3 DEF AnswerRecord
  <2> QED
    BY <2>2, <2>3
<1>8. received'[p.msg] = received[p.msg] \cup {p.seq}
  BY <1>1, <1>3, <1>6
<1> HIDE DEF a
<1>9. complete' = [complete EXCEPT ![p.msg] = (received'[p.msg] = Packets(p.msg))]
  BY <1>6, <1>8 DEF ReceivedAll
<1>10. p = Head(data)
  BY DEF p
<1> QED
  BY <1>1, <1>2, <1>4, <1>5, <1>6, <1>7, <1>9, <1>10

-----------------------------------------------------------------------------
(* The invariant *)

LEMMA InitInv == Init => IInv
<1> SUFFICES ASSUME Init PROVE IInv
  OBVIOUS
<1> USE DEF Init
<1>1. Typed
  <2>1. data \in Seq([msg : Msg, seq : Nat]) /\ answers \in Seq(AnswerRecord)
    OBVIOUS
  <2> QED
    BY <2>1 DEF Typed
<1>2. DataOfMessage /\ AnswersTrue /\ GapsOpen
  BY DEF DataOfMessage, AnswersTrue, GapsOpen
<1>3. WindowCovers
  <2>1. ASSUME NEW m \in Msg PROVE 0 \in Packets(m)
    <3>1. Size[m] \in Nat \ {0}
      BY IrnParameters
    <3> QED
      BY <3>1 DEF Packets
  <2> QED
    BY <2>1 DEF WindowCovers
<1>4. AckedTrue
  BY DEF AckedTrue
<1> QED
  BY <1>1, <1>2, <1>3, <1>4 DEF IInv

LEMMA NextTyped ==
  ASSUME IInv, [Next]_vars
  PROVE  Typed' /\ DataOfMessage'
<1> DEFINE D == [msg : Msg, seq : Nat]
<1>1. Typed /\ data \in Seq(D) /\ answers \in Seq(AnswerRecord)
  BY DEF IInv, Typed
<1>2. /\ list' \in [Msg -> {"sending", "waiting", "finished"}]
      /\ DOMAIN state' = Msg /\ \A m \in Msg : DOMAIN state'[m] = Packets(m)
  BY <1>1, NextListTyped, NextStateStep DEF StateStep
<1>3. /\ received' \in [Msg -> SUBSET Nat] /\ next' \in [Msg -> Nat] /\ complete' \in [Msg -> BOOLEAN]
      /\ answers' \in Seq(AnswerRecord)
  <2>1. CASE UNCHANGED <<receiver, answers>>
    BY <1>1, <2>1 DEF receiver, Typed
  <2>2. CASE TakesAnswer
    BY <1>1, <2>2, TailElements DEF receiver, Typed, TakesAnswer
  <2>3. CASE Accepts
    <3>1. PICK p \in D :
            /\ received' = [received EXCEPT ![p.msg] = @ \cup {p.seq}]
            /\ next' = [next EXCEPT ![p.msg] = IF p.seq >= @ THEN p.seq + 1 ELSE @]
            /\ complete' = [complete EXCEPT ![p.msg] = (received'[p.msg] = Packets(p.msg))]
            /\ \E a \in AnswerRecord : answers' = Append(answers, a)
      BY <2>3, AcceptsEffect
    <3>2. answers' \in Seq(AnswerRecord)
      BY <1>1, <3>1, AppendElements
    <3>3. p.msg \in Msg /\ p.seq \in Nat
      OBVIOUS
    <3> QED
      BY <1>1, <3>1, <3>2, <3>3 DEF Typed
  <2> QED
    BY <2>1, <2>2, <2>3, NextLinkStep DEF LinkStep, Sends, TakesData
<1>4. data' \in Seq(D) /\ DataOfMessage'
  <2>1. CASE UNCHANGED data
    BY <1>1, <2>1 DEF IInv, DataOfMessage
  <2>2. CASE data # << >> /\ data' = Tail(data)
    BY <1>1, <2>2, TailElements DEF IInv, DataOfMessage
  <2>3. ASSUME NEW m \in Msg, NEW k \in Packets(m), data' = Append(data, [msg |-> m, seq |-> k])
        PROVE  data' \in Seq(D) /\ DataOfMessage'
    <3>1. [msg |-> m, seq |-> k] \in D /\ k < Size[m]
      <4>1. Size[m] \in Nat
        BY IrnParameters
      <4> QED
        BY <4>1 DEF Packets
    <3>2. /\ data' \in Seq(D) /\ Len(data') = Len(data) + 1 /\ Len(data) \in Nat
          /\ data'[Len(data) + 1] = [msg |-> m, seq |-> k]
          /\ \A i \in 1 .. Len(data) : data'[i] = data[i]
      BY <1>1, <2>3, <3>1, AppendElements
    <3>3. ASSUME NEW i \in 1 .. Len(data') PROVE data'[i].seq < Size[data'[i].msg]
      <4>1. CASE i = Len(data) + 1
        BY <3>1, <3>2, <4>1
      <4>2. CASE i # Len(data) + 1
        BY <3>2, <4>2 DEF IInv, DataOfMessage
      <4> QED
        BY <4>1, <4>2
    <3> QED
      BY <3>2, <3>3 DEF DataOfMessage
  <2> QED
    BY <2>1, <2>2, <2>3, NextLinkStep DEF LinkStep, Sends, TakesAnswer, TakesData, Accepts
<1> QED
  BY <1>2, <1>3, <1>4 DEF Typed

\* The receiver only gains packets, and its window covers them.
LEMMA NextWindow ==
  ASSUME IInv, [Next]_vars
  PROVE  WindowCovers' /\ \A m \in Msg : received[m] \subseteq received'[m]
<1>1. Typed /\ WindowCovers
  BY DEF IInv
<1>2. CASE UNCHANGED receiver
  BY <1>1, <1>2 DEF receiver, WindowCovers
<1>3. CASE Accepts
  <2>1. PICK p \in [msg : Msg, seq : Nat] :
          /\ p.seq \in Packets(p.msg)
          /\ received' = [received EXCEPT ![p.msg] = @ \cup {p.seq}]
          /\ next' = [next EXCEPT ![p.msg] = IF p.seq >= @ THEN p.seq + 1 ELSE @]
          /\ complete' = [complete EXCEPT ![p.msg] = (received'[p.msg] = Packets(p.msg))]
    BY <1>3, AcceptsEffect
  <2>2. /\ p.msg \in Msg /\ p.seq \in Nat /\ received \in [Msg -> SUBSET Nat]
        /\ next \in [Msg -> Nat] /\ complete \in [Msg -> BOOLEAN]
    BY <1>1 DEF Typed
  <2>3. ASSUME NEW m \in Msg
        PROVE  /\ received[m] \subseteq received'[m]
               /\ received'[m] \subseteq Packets(m)
               /\ \A k \in received'[m] : k < next'[m]
               /\ complete'[m] <=> received'[m] = Packets(m)
    <3>1. CASE m = p.msg
      <4>1. received'[m] = received[m] \cup {p.seq} /\ next'[m] = IF p.seq >= next[m] THEN p.seq + 1 ELSE next[m]
        BY <2>1, <2>2, <3>1
      <4>2. complete'[m] <=> received'[m] = Packets(m)
        BY <2>1, <2>2, <3>1
      <4>3. \A k \in received'[m] : k < next'[m]
        <5>1. next[m] \in Nat /\ received[m] \subseteq Nat
          BY <2>2
        <5> QED
          BY <1>1, <2>2, <4>1, <5>1 DEF WindowCovers
      <4> QED
        BY <1>1, <2>1, <3>1, <4>1, <4>2, <4>3 DEF WindowCovers
    <3>2. CASE m # p.msg
      BY <1>1, <2>1, <2>2, <3>2 DEF WindowCovers
    <3> QED
      BY <3>1, <3>2
  <2> QED
    BY <2>3 DEF WindowCovers
<1> QED
  BY <1>2, <1>3, NextLinkStep DEF LinkStep, Sends, TakesAnswer, TakesData

LEMMA NextAnswersTrue ==
  ASSUME IInv, [Next]_vars
  PROVE  AnswersTrue' /\ AckedTrue'
<1>1. Typed /\ answers \in Seq(AnswerRecord) /\ \A m \in Msg : received[m] \subseteq received'[m]
  BY NextWindow DEF IInv, Typed
<1>2. ASSUME NEW i \in 1 .. Len(answers) PROVE answers[i].seq \in received'[answers[i].msg]
  <2>1. answers[i] \in AnswerRecord
    BY <1>1
  <2> QED
    BY <1>1, <2>1 DEF AnswerRecord, IInv, AnswersTrue
<1>3. AnswersTrue'
  <2>1. CASE UNCHANGED answers
    BY <1>2, <2>1 DEF AnswersTrue
  <2>2. CASE TakesAnswer
    BY <1>1, <1>2, <2>2, TailElements DEF AnswersTrue, TakesAnswer
  <2>3. CASE Accepts
    <3>1. PICK p \in [msg : Msg, seq : Nat] :
            /\ received' = [received EXCEPT ![p.msg] = @ \cup {p.seq}]
            /\ \E a \in AnswerRecord : answers' = Append(answers, a) /\ a.msg = p.msg /\ a.seq = p.seq
      BY <2>3, AcceptsEffect
    <3>2. PICK a \in AnswerRecord : answers' = Append(answers, a) /\ a.msg = p.msg /\ a.seq = p.seq
      BY <3>1
    <3>3. a.seq \in received'[a.msg]
      BY <1>1, <3>1, <3>2 DEF Typed
    <3>4. /\ Len(answers') = Len(answers) + 1 /\ Len(answers) \in Nat
          /\ answers'[Len(answers) + 1] = a
          /\ \A i \in 1 .. Len(answers) : answers'[i] = answers[i]
      BY <1>1, <3>2, AppendElements
    <3>5. ASSUME NEW i \in 1 .. Len(answers') PROVE answers'[i].seq \in received'[answers'[i].msg]
      <4>1. CASE i = Len(answers) + 1
        BY <3>3, <3>4, <4>1
      <4>2. CASE i # Len(answers) + 1
        BY <1>2, <3>4, <4>2
      <4> QED
        BY <4>1, <4>2
    <3> QED
      BY <3>5 DEF AnswersTrue
  <2> QED
    BY <2>1, <2>2, <2>3, NextLinkStep DEF LinkStep, Sends, TakesData
<1>4. AckedTrue'
  <2> SUFFICES ASSUME NEW m \in Msg, NEW k \in Packets(m), state'[m][k] = "ACK"
               PROVE  k \in received'[m]
    BY DEF AckedTrue
  <2>1. state[m][k] = "ACK" \/ Acknowledges(m, k)
    BY NextStateStep DEF StateStep, Learns
  <2>2. CASE state[m][k] = "ACK"
    BY <1>1, <2>2 DEF IInv, AckedTrue
  <2>3. CASE Acknowledges(m, k)
    <3>1. Head(answers) = answers[1] /\ 1 \in 1 .. Len(answers)
      BY <1>1, <2>3, TailElements DEF Acknowledges
    <3> QED
      BY <1>2, <2>3, <3>1 DEF Acknowledges
  <2> QED
    BY <2>1, <2>2, <2>3
<1> QED
  BY <1>3, <1>4

\* The order of the answers on the link is what keeps a gap open until its
\* SACK arrives; a new gap has not been acknowledged at all.
LEMMA NextGapsOpen ==
  ASSUME IInv, [Next]_vars
  PROVE  GapsOpen'
<1>1. Typed /\ answers \in Seq(AnswerRecord) /\ Len(answers) \in Nat
  BY DEF IInv, Typed
<1>2. ASSUME NEW i \in 1 .. Len(answers), answers[i].kind = "SACK",
             NEW k \in answers[i].nack .. answers[i].seq - 1
      PROVE  /\ answers[i].msg \in Msg /\ k \in Packets(answers[i].msg)
             /\ state[answers[i].msg][k] # "ACK"
             /\ \A j \in 1 .. i - 1 : ~ (answers[j].msg = answers[i].msg /\ answers[j].seq = k)
  <2>1. answers[i] \in AnswerRecord
    BY <1>1
  <2>2. answers[i].msg \in Msg /\ answers[i].seq \in Nat /\ answers[i].nack \in Nat
    BY <2>1 DEF AnswerRecord
  <2>3. answers[i].seq \in Packets(answers[i].msg)
    BY <2>2 DEF IInv, AnswersTrue, WindowCovers
  <2>4. k \in Packets(answers[i].msg)
    <3>1. Size[answers[i].msg] \in Nat
      BY <2>2, IrnParameters
    <3> QED
      BY <2>2, <2>3, <3>1 DEF Packets
  <2> QED
    BY <1>2, <2>2, <2>4 DEF IInv, GapsOpen
<1>3. CASE UNCHANGED answers
  <2> SUFFICES ASSUME NEW i \in 1 .. Len(answers), answers[i].kind = "SACK",
                      NEW k \in answers[i].nack .. answers[i].seq - 1
               PROVE  state'[answers[i].msg][k] # "ACK"
    BY <1>2, <1>3 DEF GapsOpen
  <2>1. ~Acknowledges(answers[i].msg, k)
    BY <1>1, <1>3, TailElements DEF Acknowledges
  <2> QED
    BY <1>2, <2>1, NextStateStep DEF StateStep, Learns
<1>4. CASE TakesAnswer
  <2>1. /\ Len(answers') = Len(answers) - 1 /\ Head(answers) = answers[1]
        /\ \A i \in 1 .. Len(answers) - 1 : i + 1 \in 1 .. Len(answers) /\ answers'[i] = answers[i + 1]
    BY <1>1, <1>4, TailElements DEF TakesAnswer
  <2> SUFFICES ASSUME NEW i \in 1 .. Len(answers'), answers'[i].kind = "SACK",
                      NEW k \in answers'[i].nack .. answers'[i].seq - 1
               PROVE  /\ state'[answers'[i].msg][k] # "ACK"
                      /\ \A j \in 1 .. i - 1 : ~ (answers'[j].msg = answers'[i].msg /\ answers'[j].seq = k)
    BY DEF GapsOpen
  <2>2. i + 1 \in 1 .. Len(answers) /\ answers'[i] = answers[i + 1]
    BY <2>1
  <2>3. /\ answers'[i].msg \in Msg /\ k \in Packets(answers'[i].msg)
        /\ state[answers'[i].msg][k] # "ACK"
        /\ \A j \in 1 .. i : ~ (answers[j].msg = answers'[i].msg /\ answers[j].seq = k)
    <3>1. i + 1 - 1 = i
      OBVIOUS
    <3> QED
      BY <1>2, <2>2, <3>1
  <2>4. ~Acknowledges(answers'[i].msg, k)
    <3>1. 1 \in 1 .. i
      BY <1>1, <2>1
    <3> QED
      BY <2>1, <2>3, <3>1 DEF Acknowledges
  <2>5. state'[answers'[i].msg][k] # "ACK"
    BY <2>3, <2>4, NextStateStep DEF StateStep, Learns
  <2>6. ASSUME NEW j \in 1 .. i - 1
        PROVE  ~ (answers'[j].msg = answers'[i].msg /\ answers'[j].seq = k)
    <3>1. answers'[j] = answers[j + 1] /\ j + 1 \in 1 .. i
      BY <1>1, <2>1
    <3> QED
      BY <2>3, <3>1
  <2> QED
    BY <2>5, <2>6
<1>5. CASE Accepts
  <2>1. PICK p \in [msg : Msg, seq : Nat] :
          /\ p.seq \in Packets(p.msg)
          /\ \E a \in AnswerRecord :
               /\ answers' = Append(answers, a)
               /\ a.msg = p.msg /\ a.seq = p.seq
               /\ a.kind = "SACK" => a.nack = next[p.msg]
    BY <1>5, AcceptsEffect
  <2>2. PICK a \in AnswerRecord :
          /\ answers' = Append(answers, a)
          /\ a.msg = p.msg /\ a.seq = p.seq
          /\ a.kind = "SACK" => a.nack = next[p.msg]
    BY <2>1
  <2>3. /\ Len(answers') = Len(answers) + 1
        /\ answers'[Len(answers) + 1] = a
        /\ \A i \in 1 .. Len(answers) : answers'[i] = answers[i]
    BY <1>1, <2>2, AppendElements
  <2>4. \A m \in Msg : \A k \in Packets(m) : ~Acknowledges(m, k)
    <3>1. ASSUME answers # << >>, answers' = Tail(answers) PROVE FALSE
      <4>1. Len(answers') = Len(answers) - 1
        BY <1>1, <3>1, TailElements
      <4> QED
        BY <1>1, <2>3, <4>1
    <3> QED
      BY <3>1 DEF Acknowledges
  <2> SUFFICES ASSUME NEW i \in 1 .. Len(answers'), answers'[i].kind = "SACK",
                      NEW k \in answers'[i].nack .. answers'[i].seq - 1
               PROVE  /\ state'[answers'[i].msg][k] # "ACK"
                      /\ \A j \in 1 .. i - 1 : ~ (answers'[j].msg = answers'[i].msg /\ answers'[j].seq = k)
    BY DEF GapsOpen
  <2>5. CASE i # Len(answers) + 1
    <3>1. i \in 1 .. Len(answers) /\ answers'[i] = answers[i]
      BY <1>1, <2>3, <2>5
    <3>2. state'[answers[i].msg][k] # "ACK"
      BY <1>2, <2>4, <3>1, NextStateStep DEF StateStep, Learns
    <3>3. ASSUME NEW j \in 1 .. i - 1
          PROVE  ~ (answers'[j].msg = answers'[i].msg /\ answers'[j].seq = k)
      <4>1. j \in 1 .. Len(answers) /\ answers'[j] = answers[j]
        BY <1>1, <2>3, <3>1
      <4> QED
        BY <1>2, <3>1, <4>1
    <3> QED
      BY <3>1, <3>2, <3>3
  <2>6. CASE i = Len(answers) + 1
    <3>1. answers'[i] = a /\ a.kind = "SACK" /\ k \in next[p.msg] .. p.seq - 1
      BY <2>2, <2>3, <2>6
    <3>2. /\ p.msg \in Msg /\ p.seq \in Nat /\ next[p.msg] \in Nat /\ Size[p.msg] \in Nat
      BY <1>1, IrnParameters DEF Typed
    <3>3. k \in Packets(p.msg) /\ k >= next[p.msg]
      BY <2>1, <3>1, <3>2 DEF Packets
    <3>4. k \notin received[p.msg]
      BY <3>2, <3>3 DEF IInv, WindowCovers
    <3>5. state'[p.msg][k] # "ACK"
      BY <2>4, <3>2, <3>3, <3>4, NextStateStep DEF StateStep, Learns, IInv, AckedTrue
    <3>6. ASSUME NEW j \in 1 .. i - 1
          PROVE  ~ (answers'[j].msg = p.msg /\ answers'[j].seq = k)
      <4>1. j \in 1 .. Len(answers) /\ answers'[j] = answers[j]
        BY <1>1, <2>3, <2>6
      <4> QED
        BY <3>4, <4>1 DEF IInv, AnswersTrue
    <3> QED
      BY <2>2, <3>1, <3>5, <3>6
  <2> QED
    BY <2>5, <2>6
<1> QED
  BY <1>3, <1>4, <1>5, NextLinkStep DEF LinkStep, Sends, TakesData

LEMMA NextInv == IInv /\ [Next]_vars => IInv'
BY NextTyped, NextWindow, NextAnswersTrue, NextGapsOpen DEF IInv

THEOREM Invariance == Spec => []IInv
BY InitInv, NextInv, PTL DEF Spec

\* What SackIrnState overwrites is never a packet that was acknowledged,
\* whatever is lost, sent twice or timed out too early.
THEOREM AckedStays == Spec => AckedStaysAcked
<1>1. IInv /\ [Next]_vars =>
        [\A m \in Msg : \A k \in Packets(m) : state[m][k] = "ACK" => state'[m][k] = "ACK"]_vars
  BY NextStateStep DEF StateStep, Learns
<1> QED
  BY <1>1, Invariance, PTL DEF Spec, AckedStaysAcked

-----------------------------------------------------------------------------
(* Refinement *)

done == [m \in Msg |-> list[m] = "finished"]

\* A step that finishes a message at the sender finds it complete at the receiver.
LEMMA ReceiveAnswerRefines ==
  ASSUME IInv, ReceiveAnswer
  PROVE  T!Next \/ UNCHANGED <<received, complete, done>>
<1> DEFINE a == Head(answers)
           m == a.msg
<1>1. /\ Typed /\ answers # << >> /\ answers \in Seq(AnswerRecord)
      /\ UNCHANGED <<received, complete>>
  BY DEF IInv, Typed, ReceiveAnswer, receiver
<1>2. a \in AnswerRecord /\ m \in Msg
  <2>1. a \in AnswerRecord
    BY <1>1, TailElements
  <2> QED
    BY <2>1 DEF AnswerRecord
<1>3. CASE list[m] = "finished"
  BY <1>1, <1>3 DEF ReceiveAnswer, sender, done
<1>4. CASE list[m] # "finished"
  <2>1. PICK st : /\ state' = [state EXCEPT ![m] = st]
                  /\ list' = [list EXCEPT ![m] = IF Finished(m, st) THEN "finished"
                                                ELSE IF a.kind = "ACK" THEN @ ELSE "sending"]
    <3>1. CASE a.kind = "ACK"
      BY <1>2, <1>4, <3>1 DEF ReceiveAnswer, ReceiveAck
    <3>2. CASE a.kind = "SACK"
      BY <1>2, <1>4, <3>2 DEF ReceiveAnswer, ReceiveSack
    <3> QED
      BY <1>2, <3>1, <3>2 DEF AnswerRecord
  <2>2. list \in [Msg -> {"sending", "waiting", "finished"}] /\ state'[m] = st
    BY <1>1, <1>2, <2>1 DEF Typed
  <2> HIDE DEF a
  <2>3. CASE Finished(m, st)
    <3>1. ASSUME NEW k \in Packets(m) PROVE state'[m][k] = "ACK"
      <4>1. k \in Below(st, m)
        BY <2>3 DEF Finished
      <4>2. k \in 0 .. k
        BY DEF Packets
      <4> QED
        BY <2>2, <4>1, <4>2 DEF Below
    <3>2. Packets(m) \subseteq received[m]
      <4>1. AckedTrue'
        BY NextAnswersTrue DEF Next
      <4> QED
        BY <1>1, <1>2, <3>1, <4>1 DEF AckedTrue
    <3>3. complete[m]
      BY <1>2, <3>2 DEF IInv, WindowCovers
    <3>4. PICK x \in Msg : x = m
      BY <1>2
    <3>5. T!Finish(x)
      BY <1>1, <1>4, <2>1, <2>2, <2>3, <3>3, <3>4 DEF T!Finish
    <3> QED
      BY <3>5 DEF T!Next
  <2>4. CASE ~Finished(m, st)
    BY <1>1, <1>2, <1>4, <2>1, <2>2, <2>4 DEF done
  <2> QED
    BY <2>3, <2>4
<1> QED
  BY <1>3, <1>4

\* A packet that the receiver accepts is an arrival.
LEMMA AcceptsRefines ==
  ASSUME IInv, Accepts, UNCHANGED done
  PROVE  T!Next
<1>1. PICK p \in [msg : Msg, seq : Nat] :
        /\ p.seq \in Packets(p.msg) /\ ~complete[p.msg]
        /\ received' = [received EXCEPT ![p.msg] = @ \cup {p.seq}]
        /\ complete' = [complete EXCEPT ![p.msg] = (received'[p.msg] = Packets(p.msg))]
  BY AcceptsEffect
<1>2. p.msg \in Msg /\ p.seq \in T!Packets(p.msg) /\ Packets(p.msg) = T!Packets(p.msg)
  BY <1>1 DEF Packets, T!Packets
<1>3. T!Arrive(p.msg, p.seq)
  BY <1>1, <1>2 DEF T!Arrive, done
<1> QED
  BY <1>2, <1>3 DEF T!Next

LEMMA NextRefines ==
  ASSUME IInv, [Next]_vars
  PROVE  [T!Next]_<<received, complete, done>>
<1>1. Typed
  BY DEF IInv
<1> DEFINE same == \A x \in Msg : (list'[x] = "finished") = (list[x] = "finished")
<1>2. ASSUME NEW m \in Msg, Settle(m) PROVE UNCHANGED <<received, complete, done>>
  <2>1. same /\ UNCHANGED <<received, complete>>
    BY <1>1, <1>2 DEF Settle, Peek, Typed, receiver
  <2> QED
    BY <2>1 DEF done
<1>3. ASSUME NEW m \in Msg, NEW k \in Packets(m), Peek(m), Transmit(m, k)
      PROVE  UNCHANGED <<received, complete, done>>
  <2>1. same /\ UNCHANGED <<received, complete>>
    BY <1>1, <1>3 DEF Transmit, Peek, Typed, receiver
  <2> QED
    BY <2>1 DEF done
<1>4. CASE SendAny
  BY <1>2, <1>3, <1>4 DEF SendAny, Resend, SendNew
<1>5. CASE PacketTimeout
  <2>1. PICK m \in Unfinished : list' = [list EXCEPT ![m] = "sending"]
    BY <1>5 DEF PacketTimeout, IrnTimerHandler
  <2>2. same /\ UNCHANGED <<received, complete>>
    BY <1>1, <1>5, <2>1 DEF PacketTimeout, Typed, receiver, Unfinished
  <2> QED
    BY <2>2 DEF done
<1>6. CASE Timeout
  <2>1. PICK overdue \in SUBSET Unfinished :
          list' = [m \in Msg |-> IF m \in overdue THEN "sending" ELSE list[m]]
    BY <1>6 DEF Timeout
  <2>2. same /\ UNCHANGED <<received, complete>>
    BY <1>6, <2>1 DEF Unfinished, Timeout, receiver
  <2> QED
    BY <2>2 DEF done
<1>7. CASE ReceiveAnswer
  BY <1>7, ReceiveAnswerRefines
<1>8. CASE ReceiveData
  <2>1. UNCHANGED done
    BY <1>8 DEF ReceiveData, sender, done
  <2>2. CASE Accepts
    BY <2>1, <2>2, AcceptsRefines
  <2>3. CASE ~Accepts
    BY <1>8, <2>1, <2>3 DEF ReceiveData, Accepts, receiver
  <2> QED
    BY <2>2, <2>3
<1>9. CASE Lose \/ UNCHANGED vars
  BY <1>9 DEF Lose, vars, sender, receiver, done
<1> QED
  BY <1>4, <1>5, <1>6, <1>7, <1>8, <1>9 DEF Next

\* Selective repeat implements what going back implements: completion is
\* reported at the receiver only with the whole message, and at the sender
\* only after the receiver.
THEOREM Refinement == Spec => Refines
<1>1. Init => T!Init
  BY DEF Init, T!Init
<1>2. IInv /\ [Next]_vars => [T!Next]_<<received, complete, done>>
  BY NextRefines
<1> QED
  BY <1>1, <1>2, Invariance, PTL DEF Spec, Refines, T!Spec, done
-----------------------------------------------------------------------------
(* Types, and what the sender still knows of a packet that is open *)

\* What ShouldSndData leaves of a queue are the open packets in it.
LEMMA RequeuedOpen ==
  ASSUME NEW m \in Msg, rtx[m] \in Seq(Packets(m))
  PROVE  /\ Requeued(m) \in Seq(Packets(m))
         /\ \A n \in 1 .. Len(Requeued(m)) :
              \E i \in 1 .. Len(rtx[m]) : rtx[m][i] = Requeued(m)[n] /\ Open(m, rtx[m][i])
         /\ \A i \in 1 .. Len(rtx[m]) : Open(m, rtx[m][i]) =>
              \E n \in 1 .. Len(Requeued(m)) : Requeued(m)[n] = rtx[m][i]
<1> DEFINE K == Kept(m)
           N == Cardinality(K)
           at(n) == CHOOSE i \in K : Rank(m, i) = n
<1>1. K \in SUBSET (1 .. Len(rtx[m])) /\ Len(rtx[m]) \in Nat
  BY DEF Kept
<1>2. K \in SUBSET Int /\ IsFiniteSet(K)
  <2> DEFINE places == 1 .. Len(rtx[m])
  <2>1. 1 \in Int /\ Len(rtx[m]) \in Int
    BY <1>1
  <2>2. IsFiniteSet(places)
    BY <2>1, FS_Interval
  <2>3. K \in SUBSET Int
    BY <1>1
  <2> HIDE DEF K
  <2>4. K \in SUBSET places
    BY <1>1
  <2> HIDE DEF places
  <2>5. IsFiniteSet(K)
    BY <2>2, <2>4, FS_Subset
  <2> QED
    BY <2>3, <2>5
<1>3. /\ N \in Nat
      /\ \A i \in K : Rank(m, i) \in 1 .. N
      /\ \A i, j \in K : Rank(m, i) = Rank(m, j) => i = j
      /\ \A n \in 1 .. N : \E i \in K : Rank(m, i) = n
  BY <1>2, Ranks DEF Rank
<1>4. \A i \in 1 .. Len(rtx[m]) : i \in K <=> Open(m, rtx[m][i])
  BY DEF Kept
<1>5. Requeued(m) = [n \in 1 .. N |-> rtx[m][at(n)]]
  BY DEF Requeued
<1> HIDE DEF K, N
<1>6. \A n \in 1 .. N : at(n) \in K
  BY <1>3
<1>7. \A i \in K : at(Rank(m, i)) = i
  BY <1>3
<1> HIDE DEF at
<1>8. \A i \in K : rtx[m][i] \in Packets(m)
  BY <1>1
<1>9. Requeued(m) \in Seq(Packets(m)) /\ Len(Requeued(m)) = N
  <2>1. Requeued(m) \in [1 .. N -> Packets(m)]
    BY <1>5, <1>6, <1>8
  <2> HIDE DEF Requeued
  <2> QED
    BY <1>3, <2>1
<1>10. \A n \in 1 .. N : Requeued(m)[n] = rtx[m][at(n)]
  BY <1>5
<1>11. \A i \in K : Rank(m, i) \in 1 .. N /\ Requeued(m)[Rank(m, i)] = rtx[m][i]
  BY <1>3, <1>7, <1>10
<1> QED
  BY <1>1, <1>4, <1>6, <1>9, <1>10, <1>11

Queued(m, k) == \E i \in 1 .. Len(rtx[m]) : rtx[m][i] = k

\* Neither packet k nor one behind it was ever sent, as far as can be told:
\* there is no trace of any at the sender, and none on the links.  (snd_nxt
\* goes back, so that snd_nxt <= k alone does not say so.)
NoTrace(m, k) ==
  /\ snd_nxt[m] <= k /\ snd_una[m] <= k
  /\ \A j \in armed[m] : j < k
  /\ \A i \in 1 .. Len(rtx[m]) : rtx[m][i] < k
NotOnLinks(m, k) ==
  /\ \A i \in 1 .. Len(data) : data[i].msg = m => data[i].seq < k
  /\ \A i \in 1 .. Len(answers) : answers[i].msg = m => answers[i].seq < k
NeverSent(m, k) == NoTrace(m, k) /\ NotOnLinks(m, k)

\* What was sent is known to the sender, and an open packet of it is provided for.
Provided(m, k) ==
  /\ state[m][k] = "UNDEF" => NeverSent(m, k)
  /\ Open(m, k) => k \in armed[m] \/ Queued(m, k) \/ NeverSent(m, k)

\* A message that waits has a timer for all that is not acknowledged.
WaitsTimed(m) ==
  list[m] = "waiting" => \A k \in Packets(m) : k \in armed[m] \/ state[m][k] = "ACK"

\* The types of what the sender keeps for message m.
SenderTyped(m) ==
  /\ snd_nxt[m] \in 0 .. Size[m] /\ snd_una[m] \in Packets(m)
  /\ state[m] \in [Packets(m) -> {"UNDEF", "UNACK", "NACK", "ACK"}]
  /\ rtx[m] \in Seq(Packets(m))
  /\ armed[m] \in SUBSET Packets(m)

\* The functions over the messages.
SenderShape ==
  /\ snd_nxt \in [Msg -> Nat] /\ snd_una \in [Msg -> Nat]
  /\ DOMAIN rtx = Msg /\ DOMAIN armed = Msg

MessageInv(m) == SenderTyped(m) /\ WaitsTimed(m) /\ \A k \in Packets(m) : Provided(m, k)

\* All that is about the sender alone.
SenderInv == SenderShape /\ \A m \in Msg : MessageInv(m)

\* What a message has no part in.
SameSender(m) ==
  /\ snd_nxt'[m] = snd_nxt[m] /\ snd_una'[m] = snd_una[m] /\ state'[m] = state[m]
  /\ rtx'[m] = rtx[m] /\ armed'[m] = armed[m] /\ list'[m] = list[m]

\* The links: a number beyond all that was sent stays so, but for what this step sends.
LinksStay(m) ==
  \A k \in Packets(m) :
    NotOnLinks(m, k) =>
      \/ NotOnLinks(m, k)'
      \/ \E j \in Packets(m) : k <= j /\ data' = Append(data, [msg |-> m, seq |-> j])

LEMMA NextLinksStay ==
  ASSUME IInv, [Next]_vars, NEW m \in Msg
  PROVE  LinksStay(m)
<1> DEFINE D == [msg : Msg, seq : Nat]
           below(q, k) == \A i \in 1 .. Len(q) : q[i].msg = m => q[i].seq < k
<1>1. data \in Seq(D) /\ answers \in Seq(AnswerRecord)
  BY DEF IInv, Typed
<1> SUFFICES ASSUME NEW k \in Packets(m), below(data, k), below(answers, k),
                    \A j \in Packets(m) : k <= j => data' # Append(data, [msg |-> m, seq |-> j])
             PROVE  below(data', k) /\ below(answers', k)
  BY DEF LinksStay, NotOnLinks
<1> HIDE DEF D
<1>2. CASE UNCHANGED <<receiver, answers, data>>
  BY <1>2
<1>3. CASE Sends
  <2> PICK x \in Msg : \E j \in Packets(x) :
          data' = Append(data, [msg |-> x, seq |-> j]) /\ UNCHANGED <<receiver, answers>>
    BY <1>3 DEF Sends
  <2>1. PICK j \in Packets(x) :
          data' = Append(data, [msg |-> x, seq |-> j]) /\ answers' = answers
    OBVIOUS
  <2>2. k \in Int /\ j \in Nat /\ (x = m => j < k)
    BY <2>1 DEF Packets
  <2>3. [msg |-> x, seq |-> j] \in D
    BY <2>2 DEF D
  <2>4. /\ Len(data') = Len(data) + 1 /\ Len(data) \in Nat
        /\ data'[Len(data) + 1] = [msg |-> x, seq |-> j]
        /\ \A i \in 1 .. Len(data) : data'[i] = data[i]
    BY <1>1, <2>1, <2>3, AppendElements
  <2>5. ASSUME NEW i \in 1 .. Len(data'), data'[i].msg = m PROVE data'[i].seq < k
    <3>1. CASE i = Len(data) + 1
      BY <2>2, <2>4, <2>5, <3>1
    <3>2. CASE i # Len(data) + 1
      <4>1. i \in 1 .. Len(data)
        BY <2>4, <3>2
      <4> QED
        BY <2>4, <2>5, <4>1
    <3> QED
      BY <3>1, <3>2
  <2> QED
    BY <2>1, <2>5
<1>4. CASE TakesAnswer
  <2>1. \A i \in 1 .. Len(answers') : i + 1 \in 1 .. Len(answers) /\ answers'[i] = answers[i + 1]
    BY <1>1, <1>4, TailElements DEF TakesAnswer
  <2> QED
    BY <1>4, <2>1 DEF TakesAnswer
<1>5. CASE TakesData
  <2>1. \A i \in 1 .. Len(data') : i + 1 \in 1 .. Len(data) /\ data'[i] = data[i + 1]
    BY <1>1, <1>5, TailElements DEF TakesData
  <2> QED
    BY <1>5, <2>1 DEF TakesData
<1>6. CASE Accepts
  <2>1. PICK p \in [msg : Msg, seq : Nat] :
          /\ data' = Tail(data) /\ data # << >> /\ p = Head(data)
          /\ \E a \in AnswerRecord : answers' = Append(answers, a) /\ a.msg = p.msg /\ a.seq = p.seq
    BY <1>6, AcceptsEffect
  <2>2. PICK a \in AnswerRecord : answers' = Append(answers, a) /\ a.msg = p.msg /\ a.seq = p.seq
    BY <2>1
  <2>3. /\ \A i \in 1 .. Len(data') : i + 1 \in 1 .. Len(data) /\ data'[i] = data[i + 1]
        /\ 1 \in 1 .. Len(data) /\ p = data[1]
    BY <1>1, <2>1, TailElements
  <2>4. a.msg = m => a.seq < k
    BY <2>2, <2>3
  <2>5. /\ Len(answers') = Len(answers) + 1 /\ Len(answers) \in Nat
        /\ answers'[Len(answers) + 1] = a
        /\ \A i \in 1 .. Len(answers) : answers'[i] = answers[i]
    BY <1>1, <2>2, AppendElements
  <2>6. ASSUME NEW i \in 1 .. Len(answers'), answers'[i].msg = m PROVE answers'[i].seq < k
    <3>1. CASE i = Len(answers) + 1
      BY <2>4, <2>5, <2>6, <3>1
    <3>2. CASE i # Len(answers) + 1
      <4>1. i \in 1 .. Len(answers)
        BY <2>5, <3>2
      <4> QED
        BY <2>5, <2>6, <4>1
    <3> QED
      BY <3>1, <3>2
  <2> QED
    BY <2>3, <2>6
<1> QED
  BY <1>2, <1>3, <1>4, <1>5, <1>6, NextLinkStep DEF LinkStep

\* A message that a step has no part in.
LEMMA SameKeeps ==
  ASSUME NEW m \in Msg, MessageInv(m), SameSender(m), LinksStay(m),
         \A j \in Packets(m) : data' # Append(data, [msg |-> m, seq |-> j])
  PROVE  MessageInv(m)'
<1>1. SenderTyped(m)' /\ WaitsTimed(m)'
  BY DEF MessageInv, SenderTyped, WaitsTimed, SameSender
<1>2. \A k \in Packets(m) : NotOnLinks(m, k) => NotOnLinks(m, k)'
  BY DEF LinksStay
<1>3. \A k \in Packets(m) : NoTrace(m, k) => NoTrace(m, k)'
  BY DEF NoTrace, SameSender
<1>4. \A k \in Packets(m) : Provided(m, k)'
  BY <1>2, <1>3 DEF MessageInv, Provided, NeverSent, Open, Queued, SameSender
<1> QED
  BY <1>1, <1>4 DEF MessageInv

\* A packet below snd_nxt or snd_una has been sent.
LEMMA SentBelow ==
  ASSUME NEW m \in Msg, MessageInv(m), NEW k \in Packets(m), k < snd_nxt[m]
  PROVE  state[m][k] # "UNDEF" /\ ~NeverSent(m, k)
<1>1. snd_nxt[m] \in Int /\ k \in Int
  BY IrnParameters DEF MessageInv, SenderTyped, Packets
<1> QED
  BY <1>1 DEF MessageInv, Provided, NeverSent, NoTrace

\* The four states of a packet.
LEMMA FourStates ==
  ASSUME NEW m \in Msg, SenderTyped(m), NEW k \in Packets(m)
  PROVE  state[m][k] = "UNDEF" \/ state[m][k] = "ACK" \/ Open(m, k)
BY DEF SenderTyped, Open

\* ShouldSndData moves a message to the waiting ones.
LEMMA SettleKeeps ==
  ASSUME SenderInv, NEW m \in Msg, Settle(m), LinksStay(m), DOMAIN list = Msg,
         \A j \in Packets(m) : data' # Append(data, [msg |-> m, seq |-> j])
  PROVE  MessageInv(m)'
<1>1. /\ rtx' = [rtx EXCEPT ![m] = << >>] /\ list'[m] = "waiting"
      /\ snd_nxt' = snd_nxt /\ snd_una' = snd_una /\ state' = state /\ armed' = armed
      /\ snd_nxt[m] >= Size[m] /\ Requeued(m) = << >>
  BY DEF Settle
<1>2. MessageInv(m) /\ SenderTyped(m) /\ rtx'[m] = << >>
  BY <1>1 DEF SenderInv, SenderShape, MessageInv
<1>3. \A i \in 1 .. Len(rtx[m]) : ~Open(m, rtx[m][i])
  <2>1. Len(Requeued(m)) = 0
    BY <1>1
  <2>2. rtx[m] \in Seq(Packets(m))
    BY <1>2 DEF SenderTyped
  <2> HIDE DEF Requeued
  <2> QED
    BY <2>1, <2>2, RequeuedOpen
<1>4. ASSUME NEW k \in Packets(m)
      PROVE  /\ k < snd_nxt[m]
             /\ k \in armed[m] \/ state[m][k] = "ACK"
  <2>1. k < snd_nxt[m]
    <3>1. Size[m] \in Nat /\ snd_nxt[m] \in Nat
      BY <1>2, IrnParameters DEF SenderTyped
    <3> QED
      BY <1>1, <3>1 DEF Packets
  <2>2. state[m][k] # "UNDEF" /\ ~NeverSent(m, k)
    BY <1>2, <2>1, SentBelow
  <2>3. Open(m, k) => k \in armed[m]
    BY <1>2, <1>3, <2>2 DEF MessageInv, Provided, Queued
  <2> QED
    BY <1>2, <2>1, <2>2, <2>3, FourStates
<1>5. SenderTyped(m)'
  BY <1>1, <1>2 DEF SenderTyped
<1>6. WaitsTimed(m)'
  BY <1>1, <1>4 DEF WaitsTimed
<1>7. ASSUME NEW k \in Packets(m) PROVE Provided(m, k)'
  <2>1. state[m][k] # "UNDEF"
    BY <1>2, <1>4, SentBelow
  <2> QED
    BY <1>1, <1>4, <2>1 DEF Provided, Open
<1> QED
  BY <1>5, <1>6, <1>7 DEF MessageInv

\* GetNxtPacket sends packet k: no packet that was never sent is before it,
\* and what it takes out of the queue is k and what is not open.
SendsWell(m, k) ==
  /\ list[m] = "sending"
  /\ \A j \in Packets(m) : NeverSent(m, j) => k <= j
  /\ state'[m] \in [Packets(m) -> {"UNDEF", "UNACK", "NACK", "ACK"}]
  /\ \/ Open(m, k)' /\ state[m][k] # "ACK"
     \/ state'[m][k] = "ACK" /\ state[m][k] = "ACK"
  /\ \A j \in Packets(m) : state'[m][j] = "UNDEF" => state[m][j] = "UNDEF"
  /\ \A j \in Packets(m) \ {k} :
       Open(m, j)' => j \in armed[m] \/ Queued(m, j)' \/ NeverSent(m, j)
  /\ rtx'[m] \in Seq(Packets(m))
  /\ \A i \in 1 .. Len(rtx'[m]) : \E h \in 1 .. Len(rtx[m]) : rtx'[m][i] = rtx[m][h]

LEMMA TransmitKeeps ==
  ASSUME SenderInv, NEW m \in Msg, NEW k \in Packets(m), Transmit(m, k), SendsWell(m, k),
         LinksStay(m), data \in Seq([msg : Msg, seq : Nat]), DOMAIN list = Msg
  PROVE  MessageInv(m)'
<1>1. /\ MessageInv(m) /\ SenderTyped(m) /\ SenderShape
  BY DEF SenderInv, MessageInv
<1>2. /\ Size[m] \in Nat /\ snd_nxt[m] \in 0 .. Size[m] /\ snd_una[m] \in Packets(m)
      /\ k \in 0 .. Size[m] - 1
  BY <1>1, IrnParameters DEF SenderTyped, Packets
<1>3. /\ snd_nxt'[m] = IF k = snd_nxt[m] THEN snd_nxt[m] + 1 ELSE snd_nxt[m]
      /\ snd_una'[m] = snd_una[m]
      /\ armed'[m] = IF state[m][k] = "ACK" THEN armed[m] ELSE armed[m] \cup {k}
      /\ list'[m] = IF snd_nxt'[m] >= Size[m] /\ rtx'[m] = << >> THEN "waiting" ELSE "sending"
  BY <1>1 DEF SenderShape, Transmit, SendsWell
<1>4. SenderTyped(m)'
  <2>1. snd_nxt'[m] \in 0 .. Size[m]
    BY <1>2, <1>3
  <2>2. armed'[m] \in SUBSET Packets(m)
    BY <1>1, <1>3 DEF SenderTyped
  <2> QED
    BY <1>2, <1>3, <2>1, <2>2 DEF SenderTyped, SendsWell
<1>5. ASSUME NEW j \in Packets(m), j # k, NeverSent(m, j) PROVE NeverSent(m, j)'
  <2>1. k < j /\ j \in Int
    BY <1>5 DEF SendsWell, Packets
  <2>2. NotOnLinks(m, j)'
    <3>1. ASSUME NEW i \in Packets(m), j <= i PROVE data' # Append(data, [msg |-> m, seq |-> i])
      <4> DEFINE D == [msg : Msg, seq : Nat]
                 e == [msg |-> m, seq |-> i]
                 f == [msg |-> m, seq |-> k]
      <4>1. data \in Seq(D) /\ e \in D /\ f \in D /\ e.seq # f.seq /\ data' = Append(data, f)
        BY <2>1, <3>1 DEF Packets, Transmit
      <4> HIDE DEF D, e, f
      <4>2. Append(data, f)[Len(data) + 1] = f /\ Append(data, e)[Len(data) + 1] = e
        BY <4>1
      <4> QED
        BY <4>1, <4>2 DEF e
    <3>2. NotOnLinks(m, j)
      BY <1>5 DEF NeverSent
    <3> QED
      BY <3>1, <3>2 DEF LinksStay
  <2>3. NoTrace(m, j)'
    <3>1. NoTrace(m, j)
      BY <1>5 DEF NeverSent
    <3>2. snd_nxt'[m] <= j /\ snd_una'[m] <= j
      BY <1>2, <1>3, <2>1, <3>1 DEF NoTrace
    <3>3. \A i \in armed'[m] : i < j
      BY <1>3, <2>1, <3>1 DEF NoTrace
    <3>4. \A i \in 1 .. Len(rtx'[m]) : rtx'[m][i] < j
      BY <3>1 DEF NoTrace, SendsWell
    <3> QED
      BY <3>2, <3>3, <3>4 DEF NoTrace
  <2> QED
    BY <2>2, <2>3 DEF NeverSent
<1>6. ASSUME NEW j \in Packets(m) PROVE Provided(m, j)'
  <2>1. CASE j = k
    BY <1>3, <2>1 DEF SendsWell, Provided, Open
  <2>2. CASE j # k
    <3>1. armed[m] \subseteq armed'[m]
      BY <1>3
    <3>2. state'[m][j] = "UNDEF" => NeverSent(m, j)
      BY <1>1 DEF SendsWell, MessageInv, Provided
    <3>3. Open(m, j)' => j \in armed'[m] \/ Queued(m, j)' \/ NeverSent(m, j)
      BY <2>2, <3>1 DEF SendsWell
    <3> QED
      BY <1>5, <2>2, <3>2, <3>3 DEF Provided
  <2> QED
    BY <2>1, <2>2
<1>7. WaitsTimed(m)'
  <2> SUFFICES ASSUME list'[m] = "waiting", NEW j \in Packets(m)
               PROVE  j \in armed'[m] \/ state'[m][j] = "ACK"
    BY DEF WaitsTimed
  <2>1. snd_nxt'[m] >= Size[m] /\ rtx'[m] = << >>
    BY <1>3
  <2>2. ~NeverSent(m, j)'
    <3>1. j < Size[m] /\ j \in Int /\ snd_nxt'[m] \in Int
      BY <1>2, <1>3 DEF Packets
    <3> QED
      BY <1>2, <2>1, <3>1 DEF NeverSent, NoTrace
  <2>3. ~Queued(m, j)'
    BY <2>1 DEF Queued
  <2>4. state'[m][j] = "UNDEF" \/ state'[m][j] = "ACK" \/ Open(m, j)'
    BY DEF SendsWell, Open
  <2> QED
    BY <1>6, <2>2, <2>3, <2>4 DEF Provided
<1> QED
  BY <1>4, <1>6, <1>7 DEF MessageInv

LEMMA ResendKeeps ==
  ASSUME SenderInv, Typed, NEW m \in Msg, NEW k \in Packets(m), Resend(m, k), LinksStay(m)
  PROVE  MessageInv(m)'
<1> DEFINE q == Requeued(m)
<1>1. /\ list[m] = "sending" /\ q # << >> /\ k = Head(q) /\ Open(m, k) /\ Transmit(m, k)
      /\ rtx' = [rtx EXCEPT ![m] = Tail(q)] /\ state' = [state EXCEPT ![m][k] = "UNACK"]
  BY DEF Resend, Peek
<1>2. /\ MessageInv(m) /\ SenderTyped(m) /\ rtx[m] \in Seq(Packets(m))
      /\ DOMAIN rtx = Msg /\ DOMAIN state = Msg
  BY DEF SenderInv, SenderShape, MessageInv, SenderTyped, Typed
<1>3. /\ q \in Seq(Packets(m))
      /\ \A n \in 1 .. Len(q) :
           \E i \in 1 .. Len(rtx[m]) : rtx[m][i] = q[n] /\ Open(m, rtx[m][i])
      /\ \A i \in 1 .. Len(rtx[m]) : Open(m, rtx[m][i]) => \E n \in 1 .. Len(q) : q[n] = rtx[m][i]
  BY <1>2, RequeuedOpen
<1> HIDE DEF q
<1>4. /\ rtx'[m] = Tail(q) /\ rtx'[m] \in Seq(Packets(m)) /\ k = q[1] /\ Len(q) \in Nat \ {0}
      /\ Len(rtx'[m]) = Len(q) - 1
      /\ \A i \in 1 .. Len(q) - 1 : i + 1 \in 1 .. Len(q) /\ rtx'[m][i] = q[i + 1]
  BY <1>1, <1>2, <1>3, TailElements
<1>5. PICK h \in 1 .. Len(rtx[m]) : rtx[m][h] = k
  <2>1. 1 \in 1 .. Len(q)
    BY <1>4
  <2>2. \E i \in 1 .. Len(rtx[m]) : rtx[m][i] = q[1]
    BY <1>3, <2>1
  <2> QED
    BY <1>4, <2>2
<1>6. /\ state'[m][k] = "UNACK"
      /\ \A j \in Packets(m) \ {k} : state'[m][j] = state[m][j]
      /\ state'[m] \in [Packets(m) -> {"UNDEF", "UNACK", "NACK", "ACK"}]
  BY <1>1, <1>2 DEF SenderTyped
<1>7. \A j \in Packets(m) : NeverSent(m, j) => k <= j
  BY <1>5 DEF NeverSent, NoTrace, Packets
<1>8. ASSUME NEW j \in Packets(m) \ {k}, Open(m, j)'
      PROVE  j \in armed[m] \/ Queued(m, j)' \/ NeverSent(m, j)
  <2>1. Open(m, j)
    BY <1>6, <1>8 DEF Open
  <2>2. CASE Queued(m, j)
    <3>1. PICK n \in 1 .. Len(q) : q[n] = j
      BY <1>3, <2>1, <2>2 DEF Queued
    <3>2. n # 1
      BY <1>4, <3>1
    <3>3. n - 1 \in 1 .. Len(rtx'[m]) /\ rtx'[m][n - 1] = j
      BY <1>4, <3>1, <3>2
    <3> QED
      BY <3>3 DEF Queued
  <2> QED
    BY <1>2, <2>1, <2>2 DEF MessageInv, Provided
<1>9. \A i \in 1 .. Len(rtx'[m]) : \E g \in 1 .. Len(rtx[m]) : rtx'[m][i] = rtx[m][g]
  <2>1. ASSUME NEW i \in 1 .. Len(rtx'[m]) PROVE \E g \in 1 .. Len(rtx[m]) : rtx'[m][i] = rtx[m][g]
    <3>1. i \in 1 .. Len(q) - 1
      BY <1>4, <2>1
    <3>2. i + 1 \in 1 .. Len(q) /\ rtx'[m][i] = q[i + 1]
      BY <1>4, <3>1
    <3>3. PICK g \in 1 .. Len(rtx[m]) : rtx[m][g] = q[i + 1]
      BY <1>3, <3>2
    <3> QED
      BY <3>2, <3>3
  <2> QED
    BY <2>1
<1>10. Open(m, k)' /\ state[m][k] # "ACK"
  BY <1>1, <1>6 DEF Open
<1>11. \A j \in Packets(m) : state'[m][j] = "UNDEF" => state[m][j] = "UNDEF"
  BY <1>6
<1>12. SendsWell(m, k)
  BY <1>1, <1>4, <1>6, <1>7, <1>8, <1>9, <1>10, <1>11 DEF SendsWell
<1> QED
  BY <1>1, <1>12, TransmitKeeps DEF Typed

LEMMA SendNewKeeps ==
  ASSUME SenderInv, Typed, NEW m \in Msg, NEW k \in Packets(m), SendNew(m, k), LinksStay(m)
  PROVE  MessageInv(m)'
<1> DEFINE st == [j \in Packets(m) |->
             IF state[m][j] = "UNDEF" /\ \A i \in 0 .. j - 1 : state[m][i] # "UNDEF"
             THEN "UNACK" ELSE state[m][j]]
<1>1. /\ list[m] = "sending" /\ Requeued(m) = << >> /\ k = snd_nxt[m] /\ Transmit(m, k)
      /\ rtx' = [rtx EXCEPT ![m] = << >>] /\ state' = [state EXCEPT ![m] = st]
  BY DEF SendNew, Peek
<1>2. /\ MessageInv(m) /\ SenderTyped(m) /\ rtx[m] \in Seq(Packets(m))
      /\ DOMAIN rtx = Msg /\ DOMAIN state = Msg
  BY DEF SenderInv, SenderShape, MessageInv, SenderTyped, Typed
<1>3. \A i \in 1 .. Len(rtx[m]) : ~Open(m, rtx[m][i])
  <2>1. Len(Requeued(m)) = 0
    BY <1>1
  <2> HIDE DEF Requeued
  <2> QED
    BY <1>2, <2>1, RequeuedOpen
<1>4. st[k] # "UNDEF"
  <2>1. ASSUME NEW i \in 0 .. k - 1 PROVE state[m][i] # "UNDEF"
    <3>1. i \in Packets(m) /\ i < snd_nxt[m]
      <4>1. Size[m] \in Nat /\ k \in 0 .. Size[m] - 1
        BY IrnParameters DEF Packets
      <4> QED
        BY <1>1, <4>1 DEF Packets
    <3> QED
      BY <1>2, <3>1, SentBelow
  <2> QED
    BY <2>1
<1>5. /\ \A j \in Packets(m) :
           st[j] = state[m][j] \/ (state[m][j] = "UNDEF" /\ st[j] = "UNACK")
      /\ st \in [Packets(m) -> {"UNDEF", "UNACK", "NACK", "ACK"}]
  <2>1. \A j \in Packets(m) : state[m][j] \in {"UNDEF", "UNACK", "NACK", "ACK"}
    BY <1>2 DEF SenderTyped
  <2>2. \A j \in Packets(m) :
          st[j] = state[m][j] \/ (state[m][j] = "UNDEF" /\ st[j] = "UNACK")
    OBVIOUS
  <2>3. DOMAIN st = Packets(m) /\ st = [j \in Packets(m) |-> st[j]]
    OBVIOUS
  <2> HIDE DEF st
  <2>4. \A j \in Packets(m) : st[j] \in {"UNDEF", "UNACK", "NACK", "ACK"}
    BY <2>1, <2>2
  <2> QED
    BY <2>2, <2>3, <2>4
<1> HIDE DEF st
<1>6. state'[m] = st /\ rtx'[m] = << >>
  BY <1>1, <1>2
<1>7. \A j \in Packets(m) : NeverSent(m, j) => k <= j
  BY <1>1 DEF NeverSent, NoTrace
<1>8. ASSUME NEW j \in Packets(m) \ {k}, Open(m, j)'
      PROVE  j \in armed[m] \/ Queued(m, j)' \/ NeverSent(m, j)
  <2>1. ~Queued(m, j) \/ ~Open(m, j)
    BY <1>3 DEF Queued
  <2>2. state[m][j] = "UNDEF" \/ Open(m, j)
    BY <1>5, <1>6, <1>8 DEF Open
  <2> QED
    BY <1>2, <2>1, <2>2 DEF MessageInv, Provided
<1>9. \/ Open(m, k)' /\ state[m][k] # "ACK"
      \/ state'[m][k] = "ACK" /\ state[m][k] = "ACK"
  BY <1>4, <1>5, <1>6 DEF Open
<1>10. rtx'[m] \in Seq(Packets(m)) /\ \A i \in 1 .. Len(rtx'[m]) : \E g \in 1 .. Len(rtx[m]) : rtx'[m][i] = rtx[m][g]
  BY <1>6
<1>11. \A j \in Packets(m) : state'[m][j] = "UNDEF" => state[m][j] = "UNDEF"
  BY <1>5, <1>6
<1>12. state'[m] \in [Packets(m) -> {"UNDEF", "UNACK", "NACK", "ACK"}]
  BY <1>5, <1>6
<1>13. SendsWell(m, k)
  BY <1>1, <1>7, <1>8, <1>9, <1>10, <1>11, <1>12 DEF SendsWell
<1> QED
  BY <1>1, <1>13, TransmitKeeps DEF Typed

\* A packet number beyond all that was sent, when a step sends nothing.
LEMMA StillNotOnLinks ==
  ASSUME NEW m \in Msg, LinksStay(m), NEW k \in Packets(m), NotOnLinks(m, k),
         \A j \in Packets(m) : data' # Append(data, [msg |-> m, seq |-> j])
  PROVE  NotOnLinks(m, k)'
BY DEF LinksStay

LEMMA ReceiveAckKeeps ==
  ASSUME SenderInv, Typed, NEW m \in Msg, NEW seq \in Packets(m), ReceiveAck(m, seq),
         \A j \in Packets(m) : NeverSent(m, j) => seq < j,
         LinksStay(m),
         \A j \in Packets(m) : data' # Append(data, [msg |-> m, seq |-> j])
  PROVE  MessageInv(m)'
<1> DEFINE st == [state[m] EXCEPT ![seq] = IF Open(m, seq) THEN "ACK" ELSE @]
<1>1. /\ MessageInv(m) /\ SenderTyped(m) /\ SenderShape /\ DOMAIN list = Msg /\ DOMAIN state = Msg
  BY DEF SenderInv, MessageInv, Typed
<1>2. /\ state' = [state EXCEPT ![m] = st]
      /\ armed' = [armed EXCEPT ![m] = armed[m] \ {seq}]
      /\ snd_una' = [snd_una EXCEPT ![m] = IF seq > snd_una[m] THEN seq ELSE snd_una[m]]
      /\ list' = [list EXCEPT ![m] = IF Finished(m, st) THEN "finished" ELSE list[m]]
      /\ snd_nxt' = snd_nxt /\ rtx' = rtx
  BY DEF ReceiveAck
<1>3. state[m][seq] # "UNDEF"
  BY <1>1 DEF MessageInv, Provided, Packets
<1>4. /\ st \in [Packets(m) -> {"UNDEF", "UNACK", "NACK", "ACK"}]
      /\ st[seq] = "ACK"
      /\ \A j \in Packets(m) \ {seq} : st[j] = state[m][j]
  <2>1. state[m][seq] = "ACK" \/ Open(m, seq)
    BY <1>1, <1>3, FourStates
  <2> QED
    BY <1>1, <2>1 DEF SenderTyped, Open
<1> HIDE DEF st
<1>5. /\ state'[m] = st /\ armed'[m] = armed[m] \ {seq}
      /\ snd_una'[m] = (IF seq > snd_una[m] THEN seq ELSE snd_una[m])
      /\ list'[m] \in {"finished", list[m]}
      /\ snd_nxt'[m] = snd_nxt[m] /\ rtx'[m] = rtx[m]
  BY <1>1, <1>2 DEF SenderShape
<1>6. SenderTyped(m)'
  BY <1>1, <1>4, <1>5 DEF SenderTyped
<1>7. WaitsTimed(m)'
  <2> SUFFICES ASSUME list[m] = "waiting", NEW k \in Packets(m)
               PROVE  k \in armed'[m] \/ state'[m][k] = "ACK"
    BY <1>5 DEF WaitsTimed
  <2> QED
    BY <1>1, <1>4, <1>5 DEF MessageInv, WaitsTimed
<1>8. ASSUME NEW k \in Packets(m), NeverSent(m, k) PROVE NeverSent(m, k)'
  <2>1. NotOnLinks(m, k)'
    BY <1>8, StillNotOnLinks DEF NeverSent
  <2>2. NoTrace(m, k)'
    <3>1. seq < k /\ NoTrace(m, k)
      BY <1>8 DEF NeverSent
    <3> QED
      BY <1>5, <3>1 DEF NoTrace, Packets
  <2> QED
    BY <2>1, <2>2 DEF NeverSent
<1>9. ASSUME NEW k \in Packets(m) PROVE Provided(m, k)'
  <2>1. CASE k = seq
    BY <1>4, <1>5, <2>1 DEF Provided, Open
  <2>2. CASE k # seq
    BY <1>1, <1>4, <1>5, <1>8, <2>2 DEF MessageInv, Provided, Open, Queued
  <2> QED
    BY <2>1, <2>2
<1> QED
  BY <1>6, <1>7, <1>9 DEF MessageInv

\* SackIrnState: the timers it cancels are those of packets it queues.
LEMMA ReceiveSackKeeps ==
  ASSUME SenderInv, Typed, NEW m \in Msg, NEW seq \in Packets(m), NEW nack \in Nat,
         ReceiveSack(m, seq, nack),
         \A j \in Packets(m) : NeverSent(m, j) => seq < j,
         LinksStay(m),
         \A j \in Packets(m) : data' # Append(data, [msg |-> m, seq |-> j])
  PROVE  MessageInv(m)'
<1> DEFINE gap == IF Open(m, seq) /\ nack \notin Below(state[m], m) THEN nack .. seq - 1 ELSE {}
           st == [k \in Packets(m) |-> IF k = seq /\ Open(m, k) THEN "ACK"
                                       ELSE IF k \in gap THEN "NACK" ELSE state[m][k]]
           add == [i \in 1 .. seq - nack |-> nack + i - 1]
<1>1. /\ MessageInv(m) /\ SenderTyped(m) /\ SenderShape /\ DOMAIN list = Msg /\ DOMAIN state = Msg
  BY DEF SenderInv, MessageInv, Typed
<1>2. /\ state' = [state EXCEPT ![m] = st]
      /\ armed' = [armed EXCEPT ![m] = armed[m] \ (gap \cup {seq})]
      /\ rtx' = [rtx EXCEPT ![m] = rtx[m] \o add]
      /\ list' = [list EXCEPT ![m] = IF Finished(m, st) THEN "finished" ELSE "sending"]
      /\ snd_nxt' = snd_nxt /\ snd_una' = snd_una
  BY DEF ReceiveSack
<1>3. state[m][seq] = "ACK" \/ Open(m, seq)
  <2>1. state[m][seq] # "UNDEF"
    BY <1>1 DEF MessageInv, Provided, Packets
  <2> QED
    BY <1>1, <2>1, FourStates
<1>4. seq \in Nat /\ seq < Size[m] /\ Size[m] \in Nat
  BY IrnParameters DEF Packets
<1>5. gap \subseteq nack .. seq - 1 /\ gap \subseteq Packets(m)
  BY <1>4 DEF Packets
<1>6. /\ add \in Seq(Packets(m))
      /\ \A i \in 1 .. Len(add) : add[i] < seq
      /\ \A k \in nack .. seq - 1 : \E i \in 1 .. Len(add) : add[i] = k
  <2>1. CASE nack < seq
    <3> DEFINE n == seq - nack
    <3>1. n \in Nat /\ \A i \in 1 .. n : nack + i - 1 \in Packets(m) /\ nack + i - 1 < seq
      BY <1>4, <2>1 DEF Packets
    <3>2. \A k \in nack .. seq - 1 : k - nack + 1 \in 1 .. n /\ nack + (k - nack + 1) - 1 = k
      BY <1>4, <2>1
    <3> HIDE DEF n
    <3>3. add = [i \in 1 .. n |-> nack + i - 1]
      BY DEF n
    <3> HIDE DEF add
    <3>4. add \in Seq(Packets(m)) /\ Len(add) = n
      <4>1. add \in [1 .. n -> Packets(m)]
        BY <3>1, <3>3
      <4> QED
        BY <3>1, <4>1
    <3> QED
      BY <3>1, <3>2, <3>3, <3>4
  <2>2. CASE ~(nack < seq)
    <3>1. 1 .. seq - nack = {} /\ nack .. seq - 1 = {}
      BY <1>4, <2>2
    <3>2. add = << >>
      BY <3>1
    <3> HIDE DEF add
    <3> QED
      BY <3>1, <3>2
  <2> QED
    BY <2>1, <2>2
<1> HIDE DEF add
<1>7. /\ st \in [Packets(m) -> {"UNDEF", "UNACK", "NACK", "ACK"}]
      /\ st[seq] = "ACK"
      /\ \A j \in Packets(m) \ {seq} : st[j] = IF j \in gap THEN "NACK" ELSE state[m][j]
  <2> HIDE DEF gap
  <2>1. \A j \in Packets(m) : st[j] \in {"UNDEF", "UNACK", "NACK", "ACK"}
    BY <1>1 DEF SenderTyped
  <2>2. seq \notin gap
    BY <1>4, <1>5
  <2>3. st[seq] = "ACK"
    BY <1>3, <2>2
  <2>4. \A j \in Packets(m) \ {seq} : st[j] = IF j \in gap THEN "NACK" ELSE state[m][j]
    OBVIOUS
  <2>5. st = [j \in Packets(m) |-> st[j]]
    OBVIOUS
  <2> HIDE DEF st
  <2> QED
    BY <2>1, <2>3, <2>4, <2>5
<1> HIDE DEF st, gap
<1>8. /\ state'[m] = st /\ armed'[m] = armed[m] \ (gap \cup {seq}) /\ rtx'[m] = rtx[m] \o add
      /\ list'[m] \in {"finished", "sending"}
      /\ snd_nxt'[m] = snd_nxt[m] /\ snd_una'[m] = snd_una[m]
  BY <1>1, <1>2 DEF SenderShape
<1>9. /\ rtx'[m] \in Seq(Packets(m))
      /\ \A i \in 1 .. Len(rtx'[m]) :
           (\E h \in 1 .. Len(rtx[m]) : rtx'[m][i] = rtx[m][h]) \/ rtx'[m][i] < seq
      /\ \A k : Queued(m, k) => Queued(m, k)'
      /\ \A k \in gap : Queued(m, k)'
  <2> DEFINE q == rtx[m]
             r == q \o add
             P == Packets(m)
  <2>1. q \in Seq(P) /\ add \in Seq(P)
    BY <1>1, <1>6 DEF SenderTyped
  <2> HIDE DEF P, q
  <2>2. /\ r \in Seq(P) /\ Len(r) = Len(q) + Len(add) /\ Len(q) \in Nat /\ Len(add) \in Nat
        /\ \A i \in 1 .. Len(q) : i \in 1 .. Len(r) /\ r[i] = q[i]
        /\ \A i \in 1 .. Len(add) : Len(q) + i \in 1 .. Len(r) /\ r[Len(q) + i] = add[i]
    BY <2>1
  <2> HIDE DEF r
  <2>3. ASSUME NEW i \in 1 .. Len(r)
        PROVE  (\E h \in 1 .. Len(q) : r[i] = q[h]) \/ r[i] < seq
    <3>1. CASE i \in 1 .. Len(q)
      BY <2>2, <3>1
    <3>2. CASE i \notin 1 .. Len(q)
      <4>1. i - Len(q) \in 1 .. Len(add) /\ Len(q) + (i - Len(q)) = i
        BY <2>2, <3>2
      <4> QED
        BY <1>6, <2>2, <4>1
    <3> QED
      BY <3>1, <3>2
  <2>4. \A k : (\E i \in 1 .. Len(q) : q[i] = k) => \E i \in 1 .. Len(r) : r[i] = k
    BY <2>2
  <2>5. \A k \in gap : \E i \in 1 .. Len(r) : r[i] = k
    BY <1>5, <1>6, <2>2
  <2>6. rtx'[m] = r /\ rtx[m] = q
    BY <1>8 DEF q, r
  <2> QED
    BY <2>2, <2>3, <2>4, <2>5, <2>6 DEF Queued, P
<1>10. SenderTyped(m)'
  BY <1>1, <1>7, <1>8, <1>9 DEF SenderTyped
<1>11. WaitsTimed(m)'
  BY <1>8 DEF WaitsTimed
<1>12. ASSUME NEW k \in Packets(m), NeverSent(m, k) PROVE NeverSent(m, k)'
  <2>1. NotOnLinks(m, k)'
    BY <1>12, StillNotOnLinks DEF NeverSent
  <2>2. seq < k /\ NoTrace(m, k) /\ k \in Int
    BY <1>12 DEF NeverSent, Packets
  <2>3. \A i \in 1 .. Len(rtx'[m]) : rtx'[m][i] < k
    <3> SUFFICES ASSUME NEW i \in 1 .. Len(rtx'[m]), rtx'[m][i] < seq PROVE rtx'[m][i] < k
      BY <1>9, <2>2 DEF NoTrace
    <3>1. rtx'[m][i] \in Packets(m) /\ Packets(m) \subseteq Int
      <4>1. rtx'[m][i] \in Packets(m)
        BY <1>9
      <4> QED
        BY <4>1 DEF Packets
    <3> QED
      BY <1>4, <2>2, <3>1
  <2>4. NoTrace(m, k)'
    BY <1>8, <2>2, <2>3 DEF NoTrace
  <2> QED
    BY <2>1, <2>4 DEF NeverSent
<1>13. ASSUME NEW k \in Packets(m) PROVE Provided(m, k)'
  <2>1. CASE k = seq
    BY <1>7, <1>8, <2>1 DEF Provided, Open
  <2>2. CASE k # seq /\ k \in gap
    <3>1. state'[m][k] = "NACK" /\ Queued(m, k)'
      BY <1>7, <1>8, <1>9, <2>2
    <3> QED
      BY <3>1 DEF Provided
  <2>3. CASE k # seq /\ k \notin gap
    <3>1. state'[m][k] = state[m][k] /\ (k \in armed[m] => k \in armed'[m])
      BY <1>7, <1>8, <2>3
    <3>2. Queued(m, k) => Queued(m, k)'
      BY <1>9
    <3>3. Open(m, k)' <=> Open(m, k)
      BY <3>1 DEF Open
    <3> QED
      BY <1>1, <1>12, <3>1, <3>2, <3>3 DEF MessageInv, Provided
  <2> QED
    BY <2>1, <2>2, <2>3
<1> QED
  BY <1>10, <1>11, <1>13 DEF MessageInv

\* IrnTimerHandler: the packet whose timer has gone off is in the queue.
LEMMA PacketTimeoutKeeps ==
  ASSUME SenderInv, Typed, NEW m \in Msg, NEW k \in armed[m], Open(m, k), IrnTimerHandler(m, k),
         armed' = [armed EXCEPT ![m] = @ \ {k}], snd_nxt' = snd_nxt, snd_una' = snd_una,
         LinksStay(m),
         \A j \in Packets(m) : data' # Append(data, [msg |-> m, seq |-> j])
  PROVE  MessageInv(m)'
<1>1. /\ MessageInv(m) /\ SenderTyped(m) /\ SenderShape /\ DOMAIN list = Msg /\ DOMAIN state = Msg
      /\ k \in Packets(m) /\ k \in Int
  BY DEF SenderInv, MessageInv, Typed, Open, Packets
<1>2. /\ state'[m] = [state[m] EXCEPT ![k] = "NACK"]
      /\ rtx'[m] = Append(rtx[m], k)
      /\ armed'[m] = armed[m] \ {k}
      /\ list'[m] = "sending"
      /\ snd_nxt'[m] = snd_nxt[m] /\ snd_una'[m] = snd_una[m]
  BY <1>1 DEF IrnTimerHandler, SenderShape
<1>3. /\ state'[m] \in [Packets(m) -> {"UNDEF", "UNACK", "NACK", "ACK"}]
      /\ state'[m][k] = "NACK"
      /\ \A j \in Packets(m) \ {k} : state'[m][j] = state[m][j]
  BY <1>1, <1>2 DEF SenderTyped
<1>4. /\ rtx'[m] \in Seq(Packets(m)) /\ Len(rtx'[m]) = Len(rtx[m]) + 1 /\ Len(rtx[m]) \in Nat
      /\ rtx'[m][Len(rtx[m]) + 1] = k
      /\ \A i \in 1 .. Len(rtx[m]) : rtx'[m][i] = rtx[m][i]
  <2> DEFINE P == Packets(m)
             q == rtx[m]
  <2>1. q \in Seq(P) /\ k \in P
    BY <1>1 DEF SenderTyped
  <2> HIDE DEF P, q
  <2>2. Len(q) \in Nat
    BY <2>1
  <2> QED
    BY <1>2, <2>1, <2>2, AppendElements DEF P, q
<1>5. SenderTyped(m)'
  BY <1>1, <1>2, <1>3, <1>4 DEF SenderTyped
<1>6. WaitsTimed(m)'
  BY <1>2 DEF WaitsTimed
<1>7. ASSUME NEW j \in Packets(m), NeverSent(m, j) PROVE NeverSent(m, j)'
  <2>1. NotOnLinks(m, j)'
    BY <1>7, StillNotOnLinks DEF NeverSent
  <2>2. NoTrace(m, j) /\ k < j
    BY <1>7 DEF NeverSent, NoTrace
  <2>3. ASSUME NEW i \in 1 .. Len(rtx'[m]) PROVE rtx'[m][i] < j
    <3>1. CASE i = Len(rtx[m]) + 1
      BY <1>4, <2>2, <3>1
    <3>2. CASE i # Len(rtx[m]) + 1
      <4>1. i \in 1 .. Len(rtx[m])
        BY <1>4, <3>2
      <4> QED
        BY <1>4, <2>2, <4>1 DEF NoTrace
    <3> QED
      BY <3>1, <3>2
  <2>4. NoTrace(m, j)'
    BY <1>2, <2>2, <2>3 DEF NoTrace
  <2> QED
    BY <2>1, <2>4 DEF NeverSent
<1>8. ASSUME NEW j \in Packets(m) PROVE Provided(m, j)'
  <2>1. Queued(m, k)' /\ (Queued(m, j) => Queued(m, j)')
    BY <1>4 DEF Queued
  <2>2. CASE j = k
    BY <1>3, <2>1, <2>2 DEF Provided
  <2>3. CASE j # k
    BY <1>1, <1>2, <1>3, <1>7, <2>1, <2>3 DEF MessageInv, Provided, Open
  <2> QED
    BY <2>2, <2>3
<1> QED
  BY <1>5, <1>6, <1>8 DEF MessageInv

\* Recover goes back; timers and queue stay, and so does what NeverSent says.
LEMMA TimeoutKeeps ==
  ASSUME SenderInv, Typed, NEW m \in Msg,
         snd_nxt'[m] \in {snd_una[m], snd_nxt[m]}, list'[m] \in {"sending", list[m]},
         snd_una' = snd_una, state' = state, rtx' = rtx, armed' = armed,
         LinksStay(m),
         \A j \in Packets(m) : data' # Append(data, [msg |-> m, seq |-> j])
  PROVE  MessageInv(m)'
<1>1. MessageInv(m) /\ SenderTyped(m)
  BY DEF SenderInv, MessageInv
<1>2. SenderTyped(m)'
  <2>1. snd_una[m] \in 0 .. Size[m]
    BY <1>1, IrnParameters DEF SenderTyped, Packets
  <2> QED
    BY <1>1, <2>1 DEF SenderTyped
<1>3. WaitsTimed(m)'
  BY <1>1 DEF MessageInv, WaitsTimed
<1>4. ASSUME NEW k \in Packets(m), NeverSent(m, k) PROVE NeverSent(m, k)'
  BY <1>4, StillNotOnLinks DEF NeverSent, NoTrace
<1>5. \A k \in Packets(m) : Provided(m, k)'
  BY <1>1, <1>4 DEF MessageInv, Provided, Open, Queued
<1> QED
  BY <1>2, <1>3, <1>5 DEF MessageInv

LEMMA InitSenderInv == Init => SenderInv
<1> SUFFICES ASSUME Init PROVE SenderInv
  OBVIOUS
<1>1. SenderShape
  BY DEF Init, SenderShape
<1>2. ASSUME NEW m \in Msg PROVE MessageInv(m)
  <2>1. Size[m] \in Nat /\ 0 \in Packets(m) /\ Packets(m) \subseteq Nat
    <3>1. Size[m] \in Nat \ {0}
      BY IrnParameters
    <3> QED
      BY <3>1 DEF Packets
  <2>2. /\ list[m] = "sending" /\ snd_nxt[m] = 0 /\ snd_una[m] = 0
        /\ state[m] = [k \in Packets(m) |-> "UNDEF"] /\ rtx[m] = << >> /\ armed[m] = {}
        /\ data = << >> /\ answers = << >>
    BY DEF Init
  <2>3. SenderTyped(m)
    BY <2>1, <2>2 DEF SenderTyped
  <2>4. ASSUME NEW k \in Packets(m) PROVE Provided(m, k)
    BY <2>1, <2>2 DEF Provided, Open, NeverSent, NoTrace, NotOnLinks
  <2> QED
    BY <2>2, <2>3, <2>4 DEF MessageInv, WaitsTimed
<1> QED
  BY <1>1, <1>2 DEF SenderInv

\* Which step sends a packet of message m can be told from the link.
LEMMA SendsNone ==
  ASSUME Typed, NEW m \in Msg,
         \/ data' = data
         \/ (data # << >> /\ data' = Tail(data))
         \/ \E x \in Msg \ {m} : \E i \in Packets(x) : data' = Append(data, [msg |-> x, seq |-> i])
  PROVE  \A j \in Packets(m) : data' # Append(data, [msg |-> m, seq |-> j])
<1> DEFINE D == [msg : Msg, seq : Nat]
<1>1. data \in Seq(D)
  BY DEF Typed
<1> SUFFICES ASSUME NEW j \in Packets(m), data' = Append(data, [msg |-> m, seq |-> j])
             PROVE  FALSE
  OBVIOUS
<1> DEFINE e == [msg |-> m, seq |-> j]
<1>2. e \in D /\ e.msg = m
  BY DEF Packets
<1>3. CASE data' = data \/ (data # << >> /\ data' = Tail(data))
  <2> HIDE DEF D, e
  <2>1. Len(Append(data, e)) = Len(data) + 1 /\ Len(data) \in Nat
    BY <1>1, <1>2, AppendElements
  <2>2. data # << >> => Len(Tail(data)) = Len(data) - 1
    BY <1>1, TailElements
  <2>3. data' = Append(data, e)
    BY DEF e
  <2> QED
    BY <1>3, <2>1, <2>2, <2>3
<1>4. ASSUME NEW x \in Msg \ {m}, NEW i \in Packets(x), data' = Append(data, [msg |-> x, seq |-> i])
      PROVE  FALSE
  <2> DEFINE f == [msg |-> x, seq |-> i]
  <2>1. f \in D /\ f.msg = x
    BY DEF Packets
  <2>2. data' = Append(data, f) /\ data' = Append(data, e)
    BY <1>4
  <2> HIDE DEF D, e, f
  <2>3. Append(data, f)[Len(data) + 1] = f /\ Append(data, e)[Len(data) + 1] = e
    BY <1>1, <1>2, <2>1, AppendElements
  <2> QED
    BY <1>2, <2>1, <2>2, <2>3
<1> QED
  BY <1>3, <1>4

\* The first answer under way acknowledges a packet that was sent.
LEMMA AnswerSent ==
  ASSUME IInv, answers # << >>
  PROVE  /\ Head(answers) \in AnswerRecord /\ Head(answers).msg \in Msg
         /\ Head(answers).seq \in Packets(Head(answers).msg) /\ Head(answers).nack \in Nat
         /\ \A j \in Packets(Head(answers).msg) :
              NeverSent(Head(answers).msg, j) => Head(answers).seq < j
<1> DEFINE a == Head(answers)
<1>1. a = answers[1] /\ 1 \in 1 .. Len(answers) /\ a \in AnswerRecord
  BY TailElements DEF IInv, Typed
<1>2. a.msg \in Msg /\ a.nack \in Nat /\ a.seq \in Packets(a.msg)
  BY <1>1 DEF AnswerRecord, IInv, AnswersTrue, WindowCovers
<1>3. \A j \in Packets(a.msg) : NeverSent(a.msg, j) => a.seq < j
  BY <1>1 DEF NeverSent, NotOnLinks
<1> QED
  BY <1>1, <1>2, <1>3

LEMMA NextSenderInv ==
  ASSUME IInv, SenderInv, [Next]_vars
  PROVE  SenderInv'
<1>1. /\ Typed /\ SenderShape /\ DOMAIN list = Msg /\ DOMAIN state = Msg
      /\ DOMAIN snd_nxt = Msg /\ DOMAIN snd_una = Msg /\ DOMAIN rtx = Msg /\ DOMAIN armed = Msg
      /\ \A m \in Msg : LinksStay(m) /\ MessageInv(m)
  BY NextLinksStay DEF IInv, Typed, SenderInv, SenderShape
<1>2. ASSUME NEW m \in Msg, NEW k \in Packets(m), Resend(m, k) \/ SendNew(m, k)
      PROVE  SenderInv'
  <2>1. /\ Transmit(m, k) /\ \E q : rtx' = [rtx EXCEPT ![m] = q]
        /\ \E s : state' = [state EXCEPT ![m] = s]
    BY <1>2 DEF Resend, SendNew
  <2>2. /\ data' = Append(data, [msg |-> m, seq |-> k])
        /\ snd_nxt' = [snd_nxt EXCEPT ![m] = IF k = @ THEN @ + 1 ELSE @]
        /\ \E A : armed' = [armed EXCEPT ![m] = A]
        /\ \E l : list' = [list EXCEPT ![m] = l]
        /\ snd_una' = snd_una
    BY <2>1 DEF Transmit
  <2>3. SenderShape'
    <3>1. snd_nxt[m] \in Nat
      BY <1>1 DEF SenderShape
    <3> QED
      BY <1>1, <2>1, <2>2, <3>1 DEF SenderShape
  <2>4. MessageInv(m)'
    BY <1>1, <1>2, ResendKeeps, SendNewKeeps
  <2>5. ASSUME NEW x \in Msg, x # m PROVE MessageInv(x)'
    <3>1. SameSender(x)
      BY <1>1, <2>1, <2>2, <2>5 DEF SameSender
    <3>2. \A j \in Packets(x) : data' # Append(data, [msg |-> x, seq |-> j])
      BY <1>1, <2>2, <2>5, SendsNone
    <3> QED
      BY <1>1, <3>1, <3>2, SameKeeps
  <2> QED
    BY <2>3, <2>4, <2>5 DEF SenderInv
<1>3. ASSUME data' = data \/ (data # << >> /\ data' = Tail(data)), NEW x \in Msg, SameSender(x)
      PROVE  MessageInv(x)'
  <2>1. \A j \in Packets(x) : data' # Append(data, [msg |-> x, seq |-> j])
    BY <1>1, <1>3, SendsNone
  <2> QED
    BY <1>1, <1>3, <2>1, SameKeeps
<1>4. ASSUME data' = data, NEW x \in Msg
      PROVE  \A j \in Packets(x) : data' # Append(data, [msg |-> x, seq |-> j])
  BY <1>1, <1>4, SendsNone
<1>5. ASSUME NEW m \in Msg, Settle(m) PROVE SenderInv'
  <2>1. /\ data' = data /\ rtx' = [rtx EXCEPT ![m] = << >>] /\ list' = [list EXCEPT ![m] = "waiting"]
        /\ snd_nxt' = snd_nxt /\ snd_una' = snd_una /\ state' = state /\ armed' = armed
    BY <1>5 DEF Settle
  <2>2. SenderShape'
    BY <1>1, <2>1 DEF SenderShape
  <2>3. MessageInv(m)'
    BY <1>1, <1>4, <1>5, <2>1, SettleKeeps
  <2>4. \A x \in Msg \ {m} : SameSender(x)
    BY <1>1, <2>1 DEF SameSender
  <2> QED
    BY <1>3, <2>1, <2>2, <2>3, <2>4 DEF SenderInv
<1>6. CASE ReceiveAnswer
  <2>1. data' = data /\ answers # << >>
    BY <1>6 DEF ReceiveAnswer
  <2> PICK a \in AnswerRecord : a = Head(answers)
    BY <2>1, AnswerSent
  <2> PICK m \in Msg : m = a.msg
    BY DEF AnswerRecord
  <2>2. /\ m \in Msg /\ a.seq \in Packets(m) /\ a.nack \in Nat
        /\ \A j \in Packets(m) : NeverSent(m, j) => a.seq < j
    BY <2>1, AnswerSent
  <2>3. \A j \in Packets(m) : data' # Append(data, [msg |-> m, seq |-> j])
    BY <1>4, <2>1, <2>2
  <2>4. \/ UNCHANGED sender
        \/ ReceiveAck(m, a.seq)
        \/ ReceiveSack(m, a.seq, a.nack)
    BY <1>6 DEF ReceiveAnswer
  <2>5. CASE UNCHANGED sender
    <3>1. SenderShape' /\ \A x \in Msg : SameSender(x)
      BY <1>1, <2>5 DEF sender, SenderShape, SameSender
    <3> QED
      BY <1>3, <2>1, <3>1 DEF SenderInv
  <2>6. CASE ReceiveAck(m, a.seq)
    <3>1. MessageInv(m)'
      BY <1>1, <2>2, <2>3, <2>6, ReceiveAckKeeps
    <3>2. /\ snd_nxt' = snd_nxt /\ rtx' = rtx
          /\ \E s : state' = [state EXCEPT ![m] = s]
          /\ \E A : armed' = [armed EXCEPT ![m] = A]
          /\ snd_una' = [snd_una EXCEPT ![m] = IF a.seq > @ THEN a.seq ELSE @]
          /\ \E l : list' = [list EXCEPT ![m] = l]
      BY <2>6 DEF ReceiveAck
    <3>3. SenderShape'
      <4>1. a.seq \in Nat
        BY <2>2 DEF Packets
      <4> QED
        BY <1>1, <3>2, <4>1 DEF SenderShape
    <3>4. \A x \in Msg \ {m} : SameSender(x)
      BY <1>1, <3>2 DEF SameSender
    <3> QED
      BY <1>3, <2>1, <3>1, <3>3, <3>4 DEF SenderInv
  <2>7. CASE ReceiveSack(m, a.seq, a.nack)
    <3>1. MessageInv(m)'
      BY <1>1, <2>2, <2>3, <2>7, ReceiveSackKeeps
    <3>2. /\ snd_nxt' = snd_nxt /\ snd_una' = snd_una
          /\ \E s : state' = [state EXCEPT ![m] = s]
          /\ \E A : armed' = [armed EXCEPT ![m] = A]
          /\ \E q : rtx' = [rtx EXCEPT ![m] = q]
          /\ \E l : list' = [list EXCEPT ![m] = l]
      BY <2>7 DEF ReceiveSack
    <3>3. SenderShape'
      BY <1>1, <3>2 DEF SenderShape
    <3>4. \A x \in Msg \ {m} : SameSender(x)
      BY <1>1, <3>2 DEF SameSender
    <3> QED
      BY <1>3, <2>1, <3>1, <3>3, <3>4 DEF SenderInv
  <2> QED
    BY <2>4, <2>5, <2>6, <2>7
<1>7. CASE PacketTimeout
  <2>1. PICK m \in Unfinished : \E k \in armed[m] :
          /\ armed' = [armed EXCEPT ![m] = @ \ {k}] /\ Open(m, k) /\ IrnTimerHandler(m, k)
          /\ snd_nxt' = snd_nxt /\ snd_una' = snd_una /\ data' = data
    BY <1>7 DEF PacketTimeout
  <2>2. PICK k \in armed[m] :
          /\ armed' = [armed EXCEPT ![m] = @ \ {k}] /\ Open(m, k) /\ IrnTimerHandler(m, k)
          /\ snd_nxt' = snd_nxt /\ snd_una' = snd_una /\ data' = data
    BY <2>1
  <2>3. m \in Msg
    BY DEF Unfinished
  <2>4. MessageInv(m)'
    <3>1. \A j \in Packets(m) : data' # Append(data, [msg |-> m, seq |-> j])
      BY <1>4, <2>2, <2>3
    <3> QED
      BY <1>1, <2>2, <2>3, <3>1, PacketTimeoutKeeps
  <2>5. /\ \E s : state' = [state EXCEPT ![m][k] = s]
        /\ \E q : rtx' = [rtx EXCEPT ![m] = q]
        /\ \E l : list' = [list EXCEPT ![m] = l]
    BY <2>2 DEF IrnTimerHandler
  <2>6. SenderShape'
    BY <1>1, <2>2, <2>5 DEF SenderShape
  <2>7. \A x \in Msg \ {m} : SameSender(x)
    BY <1>1, <2>2, <2>3, <2>5 DEF SameSender
  <2> QED
    BY <1>3, <2>2, <2>4, <2>6, <2>7 DEF SenderInv
<1>8. CASE Timeout
  <2>1. /\ data' = data /\ snd_una' = snd_una /\ state' = state /\ rtx' = rtx /\ armed' = armed
        /\ \E overdue \in SUBSET Unfinished :
             /\ snd_nxt' = [m \in Msg |-> IF m \in overdue THEN snd_una[m] ELSE snd_nxt[m]]
             /\ list' = [m \in Msg |-> IF m \in overdue THEN "sending" ELSE list[m]]
    BY <1>8 DEF Timeout
  <2>2. /\ \A m \in Msg : snd_nxt'[m] \in {snd_una[m], snd_nxt[m]} /\ list'[m] \in {"sending", list[m]}
        /\ snd_nxt' \in [Msg -> Nat]
    BY <1>1, <2>1 DEF SenderShape
  <2>3. SenderShape'
    BY <1>1, <2>1, <2>2 DEF SenderShape
  <2>4. ASSUME NEW m \in Msg PROVE MessageInv(m)'
    <3>1. \A j \in Packets(m) : data' # Append(data, [msg |-> m, seq |-> j])
      BY <1>4, <2>1
    <3> QED
      BY <1>1, <2>1, <2>2, <3>1, TimeoutKeeps
  <2> QED
    BY <2>3, <2>4 DEF SenderInv
<1>9. CASE ReceiveData \/ Lose \/ UNCHANGED vars
  <2>1. /\ UNCHANGED sender
        /\ data' = data \/ (data # << >> /\ data' = Tail(data))
    BY <1>9 DEF ReceiveData, Lose, vars
  <2>2. SenderShape' /\ \A x \in Msg : SameSender(x)
    BY <1>1, <2>1 DEF sender, SenderShape, SameSender
  <2> QED
    BY <1>3, <2>1, <2>2 DEF SenderInv
<1> QED
  BY <1>2, <1>5, <1>6, <1>7, <1>8, <1>9 DEF Next, SendAny

\* What the sender has open is provided for, and it knows what it has sent.
THEOREM SenderInvariance == Spec => []SenderInv
BY Invariance, InitSenderInv, NextSenderInv, PTL DEF Spec

\* No packet that is open is forgotten: it has its timer, is in the queue of
\* retransmissions, or is sent for the first time; and a message waits only
\* while each of its packets is acknowledged or has its timer.
THEOREM NoneForgotten == Spec => []NothingForgotten
<1>1. ASSUME SenderInv PROVE NothingForgotten
  <2>1. ASSUME NEW m \in Unfinished, NEW k \in Packets(m)
        PROVE  /\ Open(m, k) => k \in armed[m] \/ snd_nxt[m] <= k
                                \/ \E i \in 1 .. Len(rtx[m]) : rtx[m][i] = k
               /\ list[m] = "waiting" => k \in armed[m] \/ state[m][k] = "ACK"
    <3>1. MessageInv(m)
      BY <1>1 DEF SenderInv, Unfinished
    <3>2. Provided(m, k) /\ WaitsTimed(m)
      BY <3>1 DEF MessageInv
    <3>3. Open(m, k) => k \in armed[m] \/ snd_nxt[m] <= k
                        \/ \E i \in 1 .. Len(rtx[m]) : rtx[m][i] = k
      BY <3>2 DEF Provided, NeverSent, NoTrace, Queued
    <3>4. list[m] = "waiting" => k \in armed[m] \/ state[m][k] = "ACK"
      BY <3>2 DEF WaitsTimed
    <3> QED
      BY <3>3, <3>4
  <2> QED
    BY <2>1 DEF NothingForgotten
<1> QED
  BY <1>1, SenderInvariance, PTL

\* What TypeOK says beyond the two invariants.
RestTyped ==
  /\ settings \in Configuration
  /\ timer \in BOOLEAN
  /\ losses \in Nat
  /\ \A m \in Msg : next[m] <= Size[m]

LEMMA NextRestTyped ==
  ASSUME IInv, RestTyped, [Next]_vars
  PROVE  RestTyped'
<1>1. settings' \in Configuration
  <2>1. settings' = settings
    BY DEF Next, SendAny, Settle, Resend, SendNew, Transmit, ReceiveAnswer, PacketTimeout,
           Timeout, ReceiveData, Lose, vars
  <2> QED
    BY <2>1 DEF RestTyped
<1>2. timer' \in BOOLEAN
  <2>1. ResetRTO => timer' \in BOOLEAN
    BY DEF ResetRTO
  <2>2. timer' \in {timer, FALSE} \/ ResetRTO
    BY DEF Next, SendAny, Settle, Resend, SendNew, Transmit, ReceiveAnswer, ReceiveAck, ReceiveSack,
           PacketTimeout, Timeout, ReceiveData, Lose, sender, vars
  <2> QED
    BY <2>1, <2>2 DEF RestTyped
<1>3. losses' \in Nat
  <2>1. losses' = losses \/ losses' = losses + 1
    BY DEF Next, SendAny, Settle, Resend, SendNew, Transmit, ReceiveAnswer, PacketTimeout,
           Timeout, ReceiveData, Lose, vars
  <2> QED
    BY <2>1 DEF RestTyped
<1>4. ASSUME NEW m \in Msg PROVE next'[m] <= Size[m]
  <2>1. CASE UNCHANGED receiver
    BY <2>1 DEF receiver, RestTyped
  <2>2. CASE Accepts
    <3>1. PICK p \in [msg : Msg, seq : Nat] :
            /\ p.seq \in Packets(p.msg)
            /\ next' = [next EXCEPT ![p.msg] = IF p.seq >= @ THEN p.seq + 1 ELSE @]
      BY <2>2, AcceptsEffect
    <3>2. Size[m] \in Nat /\ next[m] \in Nat /\ next[m] <= Size[m] /\ DOMAIN next = Msg
      BY IrnParameters DEF IInv, Typed, RestTyped
    <3>3. CASE p.msg = m
      <4>1. p.seq \in Nat /\ p.seq + 1 <= Size[m]
        BY <3>1, <3>2, <3>3 DEF Packets
      <4>2. next'[m] = IF p.seq >= next[m] THEN p.seq + 1 ELSE next[m]
        BY <3>1, <3>2, <3>3
      <4> QED
        BY <3>2, <4>1, <4>2
    <3>4. CASE p.msg # m
      BY <3>1, <3>2, <3>4
    <3> QED
      BY <3>3, <3>4
  <2> QED
    BY <2>1, <2>2, NextLinkStep DEF LinkStep, Sends, TakesAnswer, TakesData
<1> QED
  BY <1>1, <1>2, <1>3, <1>4 DEF RestTyped

\* The types, among them that snd_nxt stays within the message although two
\* ways of recovery move it, and that the queue holds packets of its message.
THEOREM TypeCorrect == Spec => []TypeOK
<1>1. Init => RestTyped
  <2> SUFFICES ASSUME Init PROVE RestTyped
    OBVIOUS
  <2>1. \A m \in Msg : 0 <= Size[m]
    BY IrnParameters
  <2> QED
    BY <2>1 DEF Init, RestTyped
<1>2. ASSUME IInv, SenderInv, RestTyped PROVE TypeOK
  <2>1. /\ list \in [Msg -> {"sending", "waiting", "finished"}]
        /\ {snd_nxt, snd_una, next} \subseteq [Msg -> Nat]
        /\ complete \in [Msg -> BOOLEAN]
        /\ data \in Seq([msg : Msg, seq : Nat])
        /\ answers \in Seq(AnswerRecord)
    BY <1>2 DEF IInv, Typed, SenderInv, SenderShape
  <2>2. ASSUME NEW m \in Msg
        PROVE  /\ snd_nxt[m] <= Size[m] /\ snd_una[m] < Size[m] /\ next[m] <= Size[m]
               /\ state[m] \in [Packets(m) -> {"UNDEF", "UNACK", "NACK", "ACK"}]
               /\ rtx[m] \in Seq(Packets(m))
               /\ armed[m] \cup received[m] \subseteq Packets(m)
    <3>1. SenderTyped(m) /\ Size[m] \in Nat
      BY <1>2, IrnParameters DEF SenderInv, MessageInv
    <3>2. snd_nxt[m] <= Size[m] /\ snd_una[m] < Size[m]
      BY <3>1 DEF SenderTyped, Packets
    <3>3. received[m] \subseteq Packets(m) /\ next[m] <= Size[m]
      BY <1>2 DEF IInv, WindowCovers, RestTyped
    <3> QED
      BY <3>1, <3>2, <3>3 DEF SenderTyped
  <2> QED
    BY <1>2, <2>1, <2>2 DEF TypeOK, RestTyped, AnswerRecord
<1> QED
  BY <1>1, <1>2, NextRestTyped, Invariance, SenderInvariance, PTL DEF Spec
=============================================================================
