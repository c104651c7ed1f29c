---------------------------- MODULE GoBackNProofs ----------------------------
(***************************************************************************)
(* What holds of GoBackN for every set of messages, every size of them and *)
(* every configuration: neither loss nor a timeout at a bad time makes the *)
(* sender take for delivered what the receiver does not have, and so the   *)
(* transport implements Transfer.                                          *)
(***************************************************************************)
EXTENDS GoBackN, TLAPS

(***************************************************************************)
(* The inductive invariant: AckedDelivered speaks of the numbers at the    *)
(* two ends, and has to be carried over the answers under way.             *)
(***************************************************************************)

\* An answer under way says no more than the receiver has accepted.
AnswersTrue ==
  \A i \in 1 .. Len(answers) : answers[i].seq <= expected[answers[i].msg]

\* A packet under way is one of its message.
DataOfMessage ==
  \A i \in 1 .. Len(data) : data[i].seq < Size[data[i].msg]

\* A message is done at an end only for the reason the code has for it.
DoneForAReason ==
  \A m \in Msg :
    /\ complete[m] => received[m] = Packets(m)
    /\ list[m] = "finished" => snd_una[m] = Size[m]

IInv == TypeOK /\ AckedDelivered /\ AnswersTrue /\ DataOfMessage /\ DoneForAReason

-----------------------------------------------------------------------------
(* Sequences: what a channel holds after a step *)

\* All elements of a channel satisfy what all of it and the new one did.
LEMMA AppendHas ==
  ASSUME NEW S, NEW s \in Seq(S), NEW e \in S
  PROVE  /\ Append(s, e) \in Seq(S)
         /\ \A i \in 1 .. Len(Append(s, e)) :
              Append(s, e)[i] = e \/ \E j \in 1 .. Len(s) : Append(s, e)[i] = s[j]
<1>1. Append(s, e) \in Seq(S) /\ Len(Append(s, e)) = Len(s) + 1
  OBVIOUS
<1>2. ASSUME NEW i \in 1 .. Len(s) + 1
      PROVE  Append(s, e)[i] = e \/ \E j \in 1 .. Len(s) : Append(s, e)[i] = s[j]
  <2>1. CASE i = Len(s) + 1
    BY <2>1
  <2>2. CASE i \in 1 .. Len(s)
    <3>1. Append(s, e)[i] = s[i]
      BY <2>2
    <3> QED
      BY <2>2, <3>1
  <2> QED
    BY <2>1, <2>2
<1> QED
  BY <1>1, <1>2

\* What is left of a channel was in it, and so was what was taken.
LEMMA TailHas ==
  ASSUME NEW S, NEW s \in Seq(S), s # << >>
  PROVE  /\ Tail(s) \in Seq(S)
         /\ Head(s) \in S
         /\ \E j \in 1 .. Len(s) : Head(s) = s[j]
         /\ \A i \in 1 .. Len(Tail(s)) : \E j \in 1 .. Len(s) : Tail(s)[i] = s[j]
<1>1. Len(s) \in Nat /\ Len(s) >= 1 /\ Head(s) = s[1] /\ Len(Tail(s)) = Len(s) - 1
  OBVIOUS
<1>2. ASSUME NEW i \in 1 .. Len(Tail(s))
      PROVE  \E j \in 1 .. Len(s) : Tail(s)[i] = s[j]
  <2>1. i + 1 \in 1 .. Len(s) /\ Tail(s)[i] = s[i + 1]
    BY <1>1
  <2> QED
    BY <2>1
<1> QED
  BY <1>1, <1>2

-----------------------------------------------------------------------------
(* The invariant *)

LEMMA InitInv == Init => IInv
<1> SUFFICES ASSUME Init PROVE IInv
  OBVIOUS
<1> USE DEF Init
<1>1. TypeOK
  <2>1. data \in Seq([msg : Msg, seq : Nat]) /\ answers \in Seq([kind : {"ACK", "NACK"}, msg : Msg, seq : Nat])
    OBVIOUS
  <2>2. {snd_nxt, snd_una, expected} \subseteq [Msg -> Nat] /\ received \in [Msg -> SUBSET Nat]
    OBVIOUS
  <2>3. ASSUME NEW m \in Msg
        PROVE  /\ snd_nxt[m] <= Size[m] /\ snd_una[m] <= Size[m] /\ expected[m] <= Size[m]
               /\ received[m] \subseteq Packets(m)
    <3>1. Size[m] \in Nat
      BY GoBackNParameters
    <3> QED
      BY <3>1
  <2>4. lastNACK \in [Msg -> Nat \cup {-1}]
    OBVIOUS
  <2> QED
    BY <2>1, <2>2, <2>3, <2>4 DEF TypeOK
<1>2. AckedDelivered
  <2>1. ASSUME NEW m \in Msg
        PROVE  /\ snd_una[m] <= expected[m]
               /\ 0 .. expected[m] - 1 \subseteq received[m]
               /\ expected[m] = Size[m] => complete[m]
    <3>1. Size[m] \in Nat \ {0} /\ snd_una[m] = 0 /\ expected[m] = 0
      BY GoBackNParameters
    <3>2. 0 .. 0 - 1 = {}
      OBVIOUS
    <3> QED
      BY <3>1, <3>2
  <2> QED
    BY <2>1 DEF AckedDelivered
<1>3. AnswersTrue /\ DataOfMessage /\ DoneForAReason
  BY DEF Init, AnswersTrue, DataOfMessage, DoneForAReason
<1> QED
  BY <1>1, <1>2, <1>3 DEF IInv

\* The event that ResetMSGRTOTime leaves is set or not.
LEMMA ResetTyped == ResetRTO => timer' \in BOOLEAN
BY DEF ResetRTO

LEMMA SendInv ==
  ASSUME IInv, NEW m \in Msg, Send(m)
  PROVE  IInv'
<1> DEFINE p == [msg |-> m, seq |-> snd_nxt[m]]
<1>1. TypeOK
  BY DEF IInv
<1>2. list[m] = "sending" /\ snd_nxt[m] < Size[m] /\ snd_nxt[m] \in Nat /\ Size[m] \in Nat
  BY <1>1, GoBackNParameters DEF TypeOK, Send, Peek
<1>3. p \in [msg : Msg, seq : Nat] /\ data' = Append(data, p)
  BY <1>2 DEF Send
<1>4. TypeOK'
  <2>1. data' \in Seq([msg : Msg, seq : Nat])
    BY <1>1, <1>3, AppendHas DEF TypeOK
  <2>2. list' \in [Msg -> {"sending", "waiting", "finished"}]
    BY <1>1 DEF TypeOK, Send
  <2>3. snd_nxt' \in [Msg -> Nat] /\ \A x \in Msg : snd_nxt'[x] <= Size[x]
    BY <1>1, <1>2, GoBackNParameters DEF TypeOK, Send
  <2> QED
    BY <1>1, <2>1, <2>2, <2>3, ResetTyped DEF TypeOK, Send, receiver
<1>5. AckedDelivered' /\ AnswersTrue'
  BY DEF IInv, AckedDelivered, AnswersTrue, Send, receiver
<1>6. DataOfMessage'
  <2> SUFFICES ASSUME NEW i \in 1 .. Len(data') PROVE data'[i].seq < Size[data'[i].msg]
    BY DEF DataOfMessage
  <2>1. data'[i] = p \/ \E j \in 1 .. Len(data) : data'[i] = data[j]
    BY <1>1, <1>3, AppendHas DEF TypeOK
  <2> QED
    BY <1>2, <2>1 DEF IInv, DataOfMessage
<1>7. DoneForAReason'
  BY <1>1, <1>2 DEF IInv, DoneForAReason, TypeOK, Send, receiver
<1> QED
  BY <1>4, <1>5, <1>6, <1>7 DEF IInv

\* What an answer may tell, whether or not its message is finished already.
LEMMA AcknowledgeKeeps ==
  ASSUME IInv, NEW a \in [kind : {"ACK", "NACK"}, msg : Msg, seq : Nat],
         a.seq <= expected[a.msg], Acknowledge(a)
  PROVE  /\ list' \in [Msg -> {"sending", "waiting", "finished"}]
         /\ {snd_nxt', snd_una'} \subseteq [Msg -> Nat]
         /\ timer' \in BOOLEAN
         /\ \A m \in Msg :
              /\ snd_nxt'[m] <= Size[m]
              /\ snd_una'[m] <= expected[m]
              /\ list'[m] = "finished" => snd_una'[m] = Size[m]
<1> DEFINE m == a.msg
           una == IF a.seq > snd_una[m] THEN a.seq ELSE snd_una[m]
           recover == a.kind = "NACK" /\ settings.nack_reaction
<1>1. m \in Msg /\ TypeOK /\ Size \in [Msg -> Nat]
  BY GoBackNParameters DEF IInv
<1>2. /\ snd_nxt \in [Msg -> Nat] /\ snd_una \in [Msg -> Nat] /\ expected \in [Msg -> Nat]
      /\ list \in [Msg -> {"sending", "waiting", "finished"}]
      /\ \A x \in Msg : snd_nxt[x] <= Size[x] /\ expected[x] <= Size[x] /\ snd_una[x] <= expected[x]
      /\ \A x \in Msg : list[x] = "finished" => snd_una[x] = Size[x]
  BY <1>1 DEF IInv, TypeOK, AckedDelivered, DoneForAReason
<1>3. una \in Nat /\ una <= expected[m] /\ una <= Size[m] /\ snd_una[m] <= una
  BY <1>1, <1>2
<1>4. /\ snd_una' = [snd_una EXCEPT ![m] = una]
      /\ snd_nxt' = [snd_nxt EXCEPT ![m] = IF recover THEN una ELSE @]
      /\ list' = [list EXCEPT ![m] = IF una >= Size[m] THEN "finished"
                                     ELSE IF recover THEN "sending" ELSE @]
      /\ ResetRTO
  BY DEF Acknowledge
<1> HIDE DEF una, recover, m
<1>5. list' \in [Msg -> {"sending", "waiting", "finished"}]
  BY <1>1, <1>2, <1>4
<1>6. {snd_nxt', snd_una'} \subseteq [Msg -> Nat]
  BY <1>1, <1>2, <1>3, <1>4
<1>7. ASSUME NEW x \in Msg
      PROVE  /\ snd_nxt'[x] <= Size[x]
             /\ snd_una'[x] <= expected[x]
             /\ list'[x] = "finished" => snd_una'[x] = Size[x]
  <2>1. CASE x # m
    BY <1>1, <1>2, <1>4, <2>1
  <2>2. CASE x = m
    <3>1. snd_una'[x] = una /\ snd_nxt'[x] \in {una, snd_nxt[x]}
      BY <1>1, <1>2, <1>4, <2>2
    <3>2. list'[x] = "finished" => una >= Size[m] \/ list[m] = "finished"
      BY <1>1, <1>2, <1>4, <2>2
    <3>3. Size[m] \in Nat /\ snd_una[m] \in Nat /\ expected[m] \in Nat
      BY <1>1, <1>2
    <3>4. list'[x] = "finished" => una = Size[m]
      BY <1>1, <1>2, <1>3, <3>2, <3>3
    <3> QED
      BY <1>1, <1>2, <1>3, <2>2, <3>1, <3>4
  <2> QED
    BY <2>1, <2>2
<1> QED
  BY <1>4, <1>5, <1>6, <1>7, ResetTyped

LEMMA ReceiveAnswerInv ==
  ASSUME IInv, ReceiveAnswer
  PROVE  IInv'
<1> DEFINE A == [kind : {"ACK", "NACK"}, msg : Msg, seq : Nat]
           a == Head(answers)
<1>1. TypeOK /\ answers \in Seq(A) /\ answers # << >> /\ answers' = Tail(answers)
  BY DEF IInv, TypeOK, ReceiveAnswer
<1>2. answers' \in Seq(A) /\ a \in A
  BY <1>1, TailHas
<1>3. a.seq <= expected[a.msg]
  <2>1. PICK j \in 1 .. Len(answers) : a = answers[j]
    BY <1>1, TailHas
  <2> QED
    BY <2>1 DEF IInv, AnswersTrue
<1>4. UNCHANGED <<settings, receiver, data, losses>>
  BY DEF ReceiveAnswer
<1>5. AnswersTrue'
  <2> SUFFICES ASSUME NEW i \in 1 .. Len(answers')
               PROVE  answers'[i].seq <= expected[answers'[i].msg]
    BY <1>4 DEF AnswersTrue, receiver
  <2>1. PICK j \in 1 .. Len(answers) : answers'[i] = answers[j]
    BY <1>1, TailHas
  <2> QED
    BY <2>1 DEF IInv, AnswersTrue
<1>6. DataOfMessage'
  BY <1>4 DEF IInv, DataOfMessage
<1>7. CASE list[a.msg] = "finished"
  <2>1. UNCHANGED sender
    BY <1>7 DEF ReceiveAnswer
  <2>2. TypeOK'
    BY <1>1, <1>2, <1>4, <2>1 DEF TypeOK, sender, receiver
  <2>3. AckedDelivered' /\ DoneForAReason'
    BY <1>4, <2>1 DEF IInv, AckedDelivered, DoneForAReason, sender, receiver
  <2> QED
    BY <1>5, <1>6, <2>2, <2>3 DEF IInv
<1>8. CASE list[a.msg] # "finished"
  <2>1. Acknowledge(a)
    BY <1>8 DEF ReceiveAnswer
  <2>2. /\ list' \in [Msg -> {"sending", "waiting", "finished"}]
        /\ {snd_nxt', snd_una'} \subseteq [Msg -> Nat]
        /\ timer' \in BOOLEAN
        /\ \A m \in Msg :
             /\ snd_nxt'[m] <= Size[m]
             /\ snd_una'[m] <= expected[m]
             /\ list'[m] = "finished" => snd_una'[m] = Size[m]
    BY <1>2, <1>3, <2>1, AcknowledgeKeeps
  <2>3. ASSUME NEW m \in Msg PROVE snd_una'[m] <= Size[m]
    <3>1. expected[m] <= Size[m] /\ Size[m] \in Nat /\ expected[m] \in Nat /\ snd_una'[m] \in Nat
      BY <1>1, <2>2, GoBackNParameters DEF TypeOK
    <3> QED
      BY <2>2, <3>1
  <2>4. TypeOK'
    BY <1>1, <1>2, <1>4, <2>2, <2>3 DEF TypeOK, receiver
  <2>5. AckedDelivered' /\ DoneForAReason'
    BY <1>4, <2>2 DEF IInv, AckedDelivered, DoneForAReason, receiver
  <2> QED
    BY <1>5, <1>6, <2>4, <2>5 DEF IInv
<1> QED
  BY <1>7, <1>8

LEMMA TimeoutInv ==
  ASSUME IInv, Timeout
  PROVE  IInv'
<1>1. PICK overdue \in SUBSET Unfinished :
        /\ snd_nxt' = [m \in Msg |-> IF m \in overdue THEN snd_una[m] ELSE snd_nxt[m]]
        /\ list' = [m \in Msg |-> IF m \in overdue THEN "sending" ELSE list[m]]
  BY DEF Timeout
<1>2. TypeOK'
  <2>1. TypeOK
    BY DEF IInv
  <2>2. list' \in [Msg -> {"sending", "waiting", "finished"}]
    BY <1>1, <2>1 DEF TypeOK
  <2>3. snd_nxt' \in [Msg -> Nat] /\ \A m \in Msg : snd_nxt'[m] <= Size[m]
    BY <1>1, <2>1 DEF TypeOK
  <2> QED
    BY <2>1, <2>2, <2>3 DEF TypeOK, Timeout, receiver
<1>3. AckedDelivered' /\ AnswersTrue' /\ DataOfMessage'
  BY DEF IInv, AckedDelivered, AnswersTrue, DataOfMessage, Timeout, receiver
<1>4. DoneForAReason'
  BY <1>1 DEF IInv, DoneForAReason, Timeout, receiver
<1> QED
  BY <1>2, <1>3, <1>4 DEF IInv

-----------------------------------------------------------------------------
(* The receiver's step *)

\* What ReceiveUdp does to the receiver, for each of its outcomes: how far
\* it expects, and the answer, if any.
LEMMA ReceiveUdpCases ==
  ASSUME TypeOK, NEW p \in [msg : Msg, seq : Nat], ReceiveUdp(p)
  PROVE  /\ lastNACK' \in [Msg -> Nat \cup {-1}]
         /\ \/ \E kind \in {"ACK", "NACK"}, next \in Nat :
                 /\ Answer(kind, p, next)
                 /\ \/ next = expected[p.msg] + 1 /\ p.seq = expected[p.msg]
                    \/ next = expected[p.msg] /\ p.seq > next
            \/ Silent(p)
<1>1. expected[p.msg] \in Nat /\ p.msg \in Msg /\ lastNACK \in [Msg -> Nat \cup {-1}]
  BY DEF TypeOK
<1>2. CASE p.seq = expected[p.msg] /\ Answer("ACK", p, expected[p.msg] + 1) /\ UNCHANGED lastNACK
  BY <1>1, <1>2
<1>3. CASE /\ p.seq > expected[p.msg]
           /\ Answer("NACK", p, expected[p.msg])
           /\ lastNACK' = [lastNACK EXCEPT ![p.msg] = expected[p.msg]]
  BY <1>1, <1>3
<1>4. CASE Silent(p)
  BY <1>1, <1>4 DEF Silent
<1> QED
  BY <1>2, <1>3, <1>4 DEF ReceiveUdp

\* An answer never tells more than what the receiver has, and completion is
\* noticed with the packet that makes it so.
LEMMA AnswerInv ==
  ASSUME IInv, NEW p \in [msg : Msg, seq : Nat], p.seq < Size[p.msg],
         NEW kind \in {"ACK", "NACK"}, NEW next \in Nat, Answer(kind, p, next),
         ~complete[p.msg], lastNACK' \in [Msg -> Nat \cup {-1}],
         \/ next = expected[p.msg] + 1 /\ p.seq = expected[p.msg]
         \/ next = expected[p.msg] /\ p.seq > next,
         UNCHANGED <<settings, sender, losses>>,
         data' \in Seq([msg : Msg, seq : Nat]), DataOfMessage'
  PROVE  IInv'
<1> DEFINE m == p.msg
           got == received[m] \cup {p.seq}
           e == [kind |-> kind, msg |-> m, seq |-> next]
<1>1. /\ TypeOK /\ m \in Msg /\ p.seq \in Nat /\ Size[m] \in Nat \ {0}
      /\ expected[m] \in Nat /\ expected[m] <= Size[m]
      /\ expected \in [Msg -> Nat] /\ received \in [Msg -> SUBSET Nat]
      /\ complete \in [Msg -> BOOLEAN]
  BY GoBackNParameters DEF IInv, TypeOK
<1>2. /\ expected' = [expected EXCEPT ![m] = next]
      /\ received' = [received EXCEPT ![m] = got]
      /\ complete' = [complete EXCEPT ![m] = ReceivedAll(got, m)]
      /\ answers' = Append(answers, e)
  BY DEF Answer
<1>3. expected[m] <= next /\ next <= Size[m]
  BY <1>1
<1>4. got \subseteq Packets(m)
  BY <1>1 DEF TypeOK, Packets
<1>5. 0 .. next - 1 \subseteq got
  <2>1. 0 .. expected[m] - 1 \subseteq received[m]
    BY <1>1 DEF IInv, AckedDelivered
  <2>2. CASE next = expected[m]
    BY <2>1, <2>2
  <2>3. CASE next = expected[m] + 1 /\ p.seq = expected[m]
    <3>1. ASSUME NEW k \in 0 .. next - 1 PROVE k \in (0 .. expected[m] - 1) \cup {p.seq}
      BY <1>1, <2>3
    <3> QED
      BY <2>1, <3>1
  <2> QED
    BY <2>2, <2>3
<1>6. next = Size[m] => ReceivedAll(got, m)
  BY <1>4, <1>5 DEF ReceivedAll, Packets
<1>7. TypeOK'
  <2>1. answers' \in Seq([kind : {"ACK", "NACK"}, msg : Msg, seq : Nat])
    BY <1>1, <1>2, AppendHas DEF TypeOK
  <2>2. expected' \in [Msg -> Nat] /\ received' \in [Msg -> SUBSET Nat] /\ complete' \in [Msg -> BOOLEAN]
    <3>1. ReceivedAll(got, m) \in BOOLEAN
      BY DEF ReceivedAll
    <3>2. got \in SUBSET Nat
      BY <1>1
    <3> HIDE DEF got, m
    <3> QED
      BY <1>1, <1>2, <3>1, <3>2
  <2>3. ASSUME NEW x \in Msg PROVE expected'[x] <= Size[x] /\ received'[x] \subseteq Packets(x)
    <3>1. CASE x = m
      BY <1>1, <1>2, <1>3, <1>4, <3>1
    <3>2. CASE x # m
      BY <1>1, <1>2, <3>2 DEF TypeOK
    <3> QED
      BY <3>1, <3>2
  <2> QED
    BY <1>1, <2>1, <2>2, <2>3 DEF TypeOK, sender
<1>8. AckedDelivered'
  <2>1. ASSUME NEW x \in Msg
        PROVE  /\ snd_una[x] <= expected'[x]
               /\ 0 .. expected'[x] - 1 \subseteq received'[x]
               /\ expected'[x] = Size[x] => complete'[x]
    <3>1. CASE x = m
      <4>1. expected'[x] = next /\ received'[x] = got /\ complete'[x] = ReceivedAll(got, m)
        BY <1>1, <1>2, <3>1
      <4>2. snd_una[m] <= expected[m] /\ snd_una[m] \in Nat
        BY <1>1 DEF IInv, AckedDelivered, TypeOK
      <4> QED
        BY <1>1, <1>3, <1>5, <1>6, <3>1, <4>1, <4>2
    <3>2. CASE x # m
      BY <1>1, <1>2, <3>2 DEF IInv, AckedDelivered
    <3> QED
      BY <3>1, <3>2
  <2> QED
    BY <2>1 DEF AckedDelivered, sender
<1>9. AnswersTrue'
  <2> DEFINE A == [kind : {"ACK", "NACK"}, msg : Msg, seq : Nat]
  <2>0. answers \in Seq(A) /\ e \in A
    BY <1>1 DEF TypeOK
  <2> SUFFICES ASSUME NEW i \in 1 .. Len(answers')
               PROVE  answers'[i].seq <= expected'[answers'[i].msg]
    BY DEF AnswersTrue
  <2>1. answers'[i] = e \/ \E j \in 1 .. Len(answers) : answers'[i] = answers[j]
    <3> HIDE DEF A, e
    <3> QED
      BY <1>2, <2>0, AppendHas
  <2>2. CASE answers'[i] = e
    BY <1>1, <1>2, <2>2
  <2>3. ASSUME NEW j \in 1 .. Len(answers), answers'[i] = answers[j]
        PROVE  answers'[i].seq <= expected'[answers'[i].msg]
    <3>1. answers[j].msg \in Msg /\ answers[j].seq \in Nat
      <4>1. answers[j] \in A
        <5> HIDE DEF A
        <5> QED
          BY <2>0
      <4> QED
        BY <4>1
    <3>2. answers[j].seq <= expected[answers[j].msg]
      BY DEF IInv, AnswersTrue
    <3>3. expected[answers[j].msg] <= expected'[answers[j].msg]
      BY <1>1, <1>2, <1>3, <3>1
    <3>4. expected[answers[j].msg] \in Nat /\ expected'[answers[j].msg] \in Nat
      BY <1>1, <1>2, <3>1
    <3> QED
      BY <2>3, <3>1, <3>2, <3>3, <3>4
  <2> QED
    BY <2>1, <2>2, <2>3
<1>10. DoneForAReason'
  <2>1. ASSUME NEW x \in Msg PROVE complete'[x] => received'[x] = Packets(x)
    <3>1. CASE x = m
      BY <1>1, <1>2, <3>1 DEF ReceivedAll
    <3>2. CASE x # m
      BY <1>1, <1>2, <3>2 DEF IInv, DoneForAReason
    <3> QED
      BY <3>1, <3>2
  <2> QED
    BY <2>1 DEF IInv, DoneForAReason, sender
<1> QED
  BY <1>7, <1>8, <1>9, <1>10 DEF IInv

LEMMA SilentInv ==
  ASSUME IInv, NEW p \in [msg : Msg, seq : Nat], p.seq < Size[p.msg], Silent(p),
         ~complete[p.msg],
         UNCHANGED <<settings, sender, losses>>,
         data' \in Seq([msg : Msg, seq : Nat]), DataOfMessage'
  PROVE  IInv'
<1>1. /\ TypeOK /\ p.msg \in Msg /\ p.seq \in Nat /\ Size[p.msg] \in Nat
      /\ received' = [received EXCEPT ![p.msg] = @ \cup {p.seq}]
      /\ UNCHANGED <<expected, lastNACK, complete, answers>>
  BY GoBackNParameters DEF IInv, TypeOK, Silent
<1>2. ASSUME NEW x \in Msg
      PROVE  /\ received[x] \subseteq received'[x]
             /\ received'[x] \subseteq Packets(x)
             /\ x # p.msg => received'[x] = received[x]
  BY <1>1 DEF TypeOK, Packets
<1>3. received' \in [Msg -> SUBSET Nat]
  BY <1>1 DEF TypeOK
<1>4. TypeOK'
  BY <1>1, <1>2, <1>3 DEF TypeOK, sender
<1>5. AckedDelivered'
  BY <1>1, <1>2 DEF IInv, AckedDelivered, sender
<1>6. AnswersTrue' /\ DoneForAReason'
  BY <1>1, <1>2 DEF IInv, AnswersTrue, DoneForAReason, sender
<1> QED
  BY <1>4, <1>5, <1>6 DEF IInv

LEMMA ReceiveDataInv ==
  ASSUME IInv, ReceiveData
  PROVE  IInv'
<1> DEFINE D == [msg : Msg, seq : Nat]
           p == Head(data)
<1>1. TypeOK /\ data \in Seq(D) /\ data # << >> /\ data' = Tail(data)
  BY DEF IInv, TypeOK, ReceiveData
<1>2. data' \in Seq(D) /\ p \in D
  BY <1>1, TailHas
<1>3. p.seq < Size[p.msg]
  <2>1. PICK j \in 1 .. Len(data) : p = data[j]
    BY <1>1, TailHas
  <2> QED
    BY <2>1 DEF IInv, DataOfMessage
<1>4. DataOfMessage'
  <2> SUFFICES ASSUME NEW i \in 1 .. Len(data') PROVE data'[i].seq < Size[data'[i].msg]
    BY DEF DataOfMessage
  <2>1. PICK j \in 1 .. Len(data) : data'[i] = data[j]
    BY <1>1, TailHas
  <2> QED
    BY <2>1 DEF IInv, DataOfMessage
<1>5. UNCHANGED <<settings, sender, losses>>
  BY DEF ReceiveData
<1>6. CASE complete[p.msg]
  <2>1. UNCHANGED <<receiver, answers>>
    BY <1>6 DEF ReceiveData
  <2>2. TypeOK'
    BY <1>1, <1>2, <1>5, <2>1 DEF TypeOK, sender, receiver
  <2> QED
    BY <1>4, <1>5, <2>1, <2>2 DEF IInv, AckedDelivered, AnswersTrue, DoneForAReason, sender, receiver
<1>7. CASE ~complete[p.msg]
  <2>1. ReceiveUdp(p)
    BY <1>7 DEF ReceiveData
  <2> HIDE DEF p
  <2>2. CASE Silent(p)
    BY <1>2, <1>3, <1>4, <1>5, <1>7, <2>2, SilentInv
  <2>3. CASE ~Silent(p)
    <3>1. lastNACK' \in [Msg -> Nat \cup {-1}]
      BY <1>1, <1>2, <2>1, ReceiveUdpCases
    <3>2. PICK kind \in {"ACK", "NACK"}, next \in Nat :
            /\ Answer(kind, p, next)
            /\ \/ next = expected[p.msg] + 1 /\ p.seq = expected[p.msg]
               \/ next = expected[p.msg] /\ p.seq > next
      BY <1>1, <1>2, <2>1, <2>3, ReceiveUdpCases
    <3> QED
      BY <1>2, <1>3, <1>4, <1>5, <1>7, <3>1, <3>2, AnswerInv
  <2> QED
    BY <2>2, <2>3
<1> QED
  BY <1>6, <1>7

LEMMA LoseInv ==
  ASSUME IInv, Lose
  PROVE  IInv'
<1>1. /\ TypeOK /\ losses' = losses + 1
      /\ UNCHANGED <<settings, sender, receiver>>
  BY DEF IInv, Lose
<1>2. CASE data # << >> /\ data' = Tail(data) /\ UNCHANGED answers
  <2>1. data' \in Seq([msg : Msg, seq : Nat])
    BY <1>1, <1>2, TailHas DEF TypeOK
  <2>2. \A i \in 1 .. Len(data') : \E j \in 1 .. Len(data) : data'[i] = data[j]
    BY <1>1, <1>2, TailHas DEF TypeOK
  <2>3. TypeOK'
    BY <1>1, <1>2, <2>1 DEF TypeOK, sender, receiver
  <2>4. DataOfMessage'
    BY <2>2 DEF IInv, DataOfMessage
  <2> QED
    BY <1>1, <1>2, <2>3, <2>4 DEF IInv, AckedDelivered, AnswersTrue, DoneForAReason, sender, receiver
<1>3. CASE answers # << >> /\ answers' = Tail(answers) /\ UNCHANGED data
  <2>1. answers' \in Seq([kind : {"ACK", "NACK"}, msg : Msg, seq : Nat])
    BY <1>1, <1>3, TailHas DEF TypeOK
  <2>2. \A i \in 1 .. Len(answers') : \E j \in 1 .. Len(answers) : answers'[i] = answers[j]
    BY <1>1, <1>3, TailHas DEF TypeOK
  <2>3. TypeOK'
    <3>1. UNCHANGED <<settings, list, snd_nxt, snd_una, timer, expected, received, lastNACK,
                      complete, data>> /\ losses' \in Nat
      BY <1>1, <1>3 DEF TypeOK, sender, receiver
    <3> QED
      BY <1>1, <2>1, <3>1 DEF TypeOK
  <2>4. AnswersTrue'
    BY <1>1, <2>2 DEF IInv, AnswersTrue, receiver
  <2> QED
    BY <1>1, <1>3, <2>3, <2>4 DEF IInv, AckedDelivered, DataOfMessage, DoneForAReason, sender, receiver
<1> QED
  BY <1>2, <1>3 DEF Lose

LEMMA StutterInv ==
  ASSUME IInv, UNCHANGED vars
  PROVE  IInv'
<1>1. UNCHANGED <<settings, list, snd_nxt, snd_una, timer, expected, received, lastNACK,
                  complete, data, answers, losses>>
  BY DEF vars, sender, receiver
<1>2. TypeOK'
  BY <1>1 DEF IInv, TypeOK
<1> QED
  BY <1>1, <1>2 DEF IInv, AckedDelivered, AnswersTrue, DataOfMessage, DoneForAReason

LEMMA NextInv == IInv /\ [Next]_vars => IInv'
<1>1. IInv /\ Next => IInv'
  BY SendInv, ReceiveAnswerInv, TimeoutInv, ReceiveDataInv, LoseInv DEF Next, SendAny
<1> QED
  BY <1>1, StutterInv

\* Every reachable state satisfies the invariant and all that it is made of.
THEOREM Invariance == Spec => []IInv
BY InitInv, NextInv, PTL DEF Spec

\* Every variable keeps its type, and no number passes the size of its
\* message: rdma-operation.cc subtracts these without a check.
THEOREM TypeCorrect == Spec => []TypeOK
<1>1. IInv => TypeOK
  BY DEF IInv
<1> QED
  BY <1>1, Invariance, PTL

\* What the sender has as acknowledged, the receiver has accepted in order
\* (Acknowledge and ReceiverCheckSeq), over any loss, NACK and timeout.
THEOREM AckedIsDelivered == Spec => []AckedDelivered
<1>1. IInv => AckedDelivered
  BY DEF IInv
<1> QED
  BY <1>1, Invariance, PTL

-----------------------------------------------------------------------------
(* Refinement *)

done == [m \in Msg |-> list[m] = "finished"]

LEMMA InitRefines == Init => T!Init
BY DEF Init, T!Init

\* An acknowledgement that finishes a message comes when all of it has been
\* accepted; any other step of the sender is invisible.
LEMMA ReceiveAnswerRefines ==
  ASSUME IInv, ReceiveAnswer
  PROVE  T!Next \/ UNCHANGED <<received, complete, done>>
<1> DEFINE a == Head(answers)
           m == a.msg
           una == IF a.seq > snd_una[m] THEN a.seq ELSE snd_una[m]
<1>1. /\ TypeOK /\ a \in [kind : {"ACK", "NACK"}, msg : Msg, seq : Nat]
      /\ a.seq <= expected[m]
  <2>1. TypeOK /\ answers # << >>
    BY DEF IInv, ReceiveAnswer
  <2>2. PICK j \in 1 .. Len(answers) : a = answers[j]
    BY <2>1, TailHas DEF TypeOK
  <2> QED
    BY <2>1, <2>2, TailHas DEF TypeOK, IInv, AnswersTrue
<1>2. UNCHANGED <<received, complete>>
  BY DEF ReceiveAnswer, receiver
<1>3. CASE list[m] = "finished"
  BY <1>2, <1>3 DEF ReceiveAnswer, sender, done
<1>4. CASE list[m] # "finished"
  <2>1. list' = [list EXCEPT ![m] = IF una >= Size[m] THEN "finished"
                                    ELSE IF a.kind = "NACK" /\ settings.nack_reaction
                                         THEN "sending" ELSE @]
    BY <1>4 DEF ReceiveAnswer, Acknowledge
  <2>2. list \in [Msg -> {"sending", "waiting", "finished"}] /\ m \in Msg
    BY <1>1 DEF TypeOK
  <2>3. /\ una \in Nat /\ una <= expected[m] /\ expected[m] <= Size[m]
        /\ Size[m] \in Nat /\ expected[m] \in Nat
    BY <1>1, GoBackNParameters DEF TypeOK, IInv, AckedDelivered
  <2> HIDE DEF una, m, a
  <2>4. CASE una >= Size[m]
    <3>1. complete[m]
      BY <2>2, <2>3, <2>4 DEF IInv, AckedDelivered
    <3>2. ~done[m] /\ done' = [done EXCEPT ![m] = TRUE]
      BY <1>4, <2>1, <2>2, <2>4 DEF done
    <3>3. PICK x \in Msg : x = m
      BY <2>2
    <3>4. T!Finish(x)
      BY <1>2, <3>1, <3>2, <3>3 DEF T!Finish, done
    <3> QED
      BY <3>4 DEF T!Next
  <2>5. CASE ~(una >= Size[m])
    BY <1>2, <1>4, <2>1, <2>2, <2>5 DEF done
  <2> QED
    BY <2>4, <2>5
<1> QED
  BY <1>3, <1>4

\* A packet that arrives before completion is an arrival, answered or not.
LEMMA ReceiveDataRefines ==
  ASSUME IInv, ReceiveData
  PROVE  T!Next \/ UNCHANGED <<received, complete, done>>
<1> DEFINE p == Head(data)
           m == p.msg
<1>1. TypeOK /\ p \in [msg : Msg, seq : Nat] /\ p.seq < Size[m]
  <2>1. TypeOK /\ data # << >>
    BY DEF IInv, ReceiveData
  <2>2. PICK j \in 1 .. Len(data) : p = data[j]
    BY <2>1, TailHas DEF TypeOK
  <2> QED
    BY <2>1, <2>2, TailHas DEF TypeOK, IInv, DataOfMessage
<1>2. UNCHANGED done
  BY DEF ReceiveData, sender, done
<1>3. CASE complete[m]
  BY <1>2, <1>3 DEF ReceiveData, receiver
<1>4. CASE ~complete[m]
  <2>1. ReceiveUdp(p)
    BY <1>4 DEF ReceiveData
  <2> DEFINE k == p.seq
  <2>2. m \in Msg /\ k \in T!Packets(m) /\ Packets(m) = T!Packets(m)
    <3>1. m \in Msg /\ k \in Nat /\ Size[m] \in Nat /\ k < Size[m]
      BY <1>1, GoBackNParameters
    <3> QED
      BY <3>1 DEF T!Packets, Packets
  <2>3. received \in [Msg -> SUBSET Nat] /\ complete \in [Msg -> BOOLEAN]
    BY <1>1 DEF TypeOK
  <2>4. received' = [received EXCEPT ![m] = @ \cup {k}]
    BY <1>1, <2>1, ReceiveUdpCases DEF Answer, Silent
  <2>5. \E c \in BOOLEAN : (c => received'[m] = Packets(m)) /\ complete' = [complete EXCEPT ![m] = c]
    <3>1. CASE Silent(p)
      <4>1. complete' = [complete EXCEPT ![m] = FALSE]
        BY <1>4, <2>2, <2>3, <3>1 DEF Silent
      <4> QED
        BY <4>1
    <3>2. CASE ~Silent(p)
      <4>1. PICK kind \in {"ACK", "NACK"}, next \in Nat : Answer(kind, p, next)
        BY <1>1, <2>1, <3>2, ReceiveUdpCases
      <4> DEFINE c == ReceivedAll(received[m] \cup {k}, m)
      <4>2. complete' = [complete EXCEPT ![m] = c]
        BY <4>1 DEF Answer
      <4>3. c \in BOOLEAN /\ (c => received'[m] = Packets(m))
        BY <2>2, <2>3, <2>4 DEF ReceivedAll
      <4> QED
        BY <4>2, <4>3
    <3> QED
      BY <3>1, <3>2
  <2>6. T!Arrive(m, k)
    BY <1>2, <1>4, <2>2, <2>4, <2>5 DEF T!Arrive, done
  <2> QED
    BY <2>2, <2>6 DEF T!Next
<1> QED
  BY <1>3, <1>4

LEMMA NextRefines ==
  ASSUME IInv, [Next]_vars
  PROVE  [T!Next]_<<received, complete, done>>
<1>1. TypeOK
  BY DEF IInv
<1>2. ASSUME NEW m \in Msg, Send(m) PROVE UNCHANGED <<received, complete, done>>
  <2>1. list[m] = "sending" /\ UNCHANGED <<received, complete>>
    BY <1>2 DEF Send, Peek, receiver
  <2>2. \A x \in Msg : (list'[x] = "finished") = (list[x] = "finished")
    BY <1>1, <1>2, <2>1 DEF Send, TypeOK
  <2> QED
    BY <2>1, <2>2 DEF done
<1>3. ASSUME Timeout PROVE UNCHANGED <<received, complete, done>>
  <2>1. PICK overdue \in SUBSET Unfinished :
          list' = [m \in Msg |-> IF m \in overdue THEN "sending" ELSE list[m]]
    BY <1>3 DEF Timeout
  <2>2. \A x \in Msg : (list'[x] = "finished") = (list[x] = "finished")
    BY <2>1 DEF Unfinished
  <2> QED
    BY <1>3, <2>2 DEF done, Timeout, receiver
<1>4. ASSUME Lose PROVE UNCHANGED <<received, complete, done>>
  BY <1>4 DEF Lose, sender, receiver, done
<1>5. ASSUME UNCHANGED vars PROVE UNCHANGED <<received, complete, done>>
  BY <1>5 DEF vars, sender, receiver, done
<1> QED
  BY <1>2, <1>3, <1>4, <1>5, ReceiveAnswerRefines, ReceiveDataRefines DEF Next, SendAny

\* The transport implements what its users are promised: completion is
\* reported at the receiver only with the whole message, and at the sender
\* only after the receiver (MsgComplete, ReceivedAll, IsFinished).
THEOREM Refinement == Spec => Refines
<1>1. Init => T!Init
  BY InitRefines
<1>2. IInv /\ [Next]_vars => [T!Next]_<<received, complete, done>>
  BY NextRefines
<1> QED
  BY <1>1, <1>2, Invariance, PTL DEF Spec, Refines, T!Spec, done
=============================================================================
