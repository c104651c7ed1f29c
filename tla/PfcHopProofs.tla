---------------------------- MODULE PfcHopProofs ----------------------------
(***************************************************************************)
(* What holds of PfcHop for every number of ports and queues, every packet *)
(* size, every headroom and every delay of the link.  The second part is   *)
(* about the byte counters: they are exact, an ingress that has been       *)
(* paused holds bytes, and what PFC admits fits into the buffer.           *)
(***************************************************************************)
EXTENDS PfcHop, QueueProofs

(***************************************************************************)
(* Updates of one entry of a function of functions.                        *)
(***************************************************************************)
LEMMA Update2 ==
  ASSUME NEW A, NEW B, NEW S, NEW g \in [A -> [B -> S]],
         NEW a \in A, NEW b \in B, NEW v \in S
  PROVE  /\ [g EXCEPT ![a][b] = v] \in [A -> [B -> S]]
         /\ [g EXCEPT ![a][b] = v][a][b] = v
         /\ \A c \in A, d \in B :
              c # a \/ d # b => [g EXCEPT ![a][b] = v][c][d] = g[c][d]
  OBVIOUS

LEMMA Update3 ==
  ASSUME NEW A, NEW B, NEW C, NEW S, NEW g \in [A -> [B -> [C -> S]]],
         NEW a \in A, NEW b \in B, NEW c \in C, NEW v \in S
  PROVE  [g EXCEPT ![a][b][c] = v] \in [A -> [B -> [C -> S]]]
  OBVIOUS

(***************************************************************************)
(* Type correctness.                                                       *)
(***************************************************************************)

\* The budget and every threshold are integers.
LEMMA BudgetType == SharedBudget \in Nat
<1>1. Headroom \in [Port -> Int] /\ [p \in Port |-> Reserve] \in [Port -> Int]
  BY MmuTypes
<1>2. CellSum(Headroom) \in Nat
  BY <1>1, CellsFinite, MmuTypes
<1>3. CellSum([p \in Port |-> Reserve]) \in Nat
  BY <1>1, CellsFinite, MmuTypes
<1> QED
  BY <1>2, <1>3, MmuTypes, BudgetIsPositive
  DEF SharedBudget, TotalHeadroom, TotalReserve

\* A division by a positive number stays between zero and the dividend.
LEMMA DivBounds ==
  ASSUME NEW x \in Nat, NEW k \in Nat \ {0}
  PROVE  x \div k \in Nat /\ x \div k <= x
  OBVIOUS

\* The operations of SwitchMmu keep the types of the counters.
LEMMA UpdateIngressType ==
  ASSUME TypeOK, NEW p \in Packet, Controlled(p),
         UpdateIngressAdmission(p.in, FineOf(p), p.size)
  PROVE  /\ ingress_bytes' \in [Port -> [Fine -> Int]]
         /\ hdrm_bytes' \in [Port -> [Fine -> Nat]]
         /\ shared_used_bytes' \in Int
<1> DEFINE in == p.in
           f == FineOf(p)
           new == ingress_bytes[in][f] + p.size
<1>1. /\ in \in Port /\ f \in Fine /\ p.size \in Nat
      /\ ingress_bytes \in [Port -> [Fine -> Int]]
      /\ hdrm_bytes \in [Port -> [Fine -> Nat]]
      /\ shared_used_bytes \in Int
  BY HopTypes DEF TypeOK
<1>2. new \in Int /\ hdrm_bytes[in][f] + p.size \in Nat
  BY <1>1
<1>3. Least(p.size, Excess(new)) \in Int
  BY <1>1, <1>2, MmuTypes DEF Least, Excess
<1> HIDE DEF in, f
<1>4. /\ [ingress_bytes EXCEPT ![in][f] = new] \in [Port -> [Fine -> Int]]
      /\ [hdrm_bytes EXCEPT ![in][f] = hdrm_bytes[in][f] + p.size]
           \in [Port -> [Fine -> Nat]]
  BY <1>1, <1>2, Update2
<1>5. UpdateIngressAdmission(in, f, p.size)
  BY DEF in, f
<1>6. CASE TakesHeadroom(in, f, p.size)
  BY <1>1, <1>4, <1>5, <1>6 DEF UpdateIngressAdmission
<1>7. CASE ~TakesHeadroom(in, f, p.size)
  BY <1>1, <1>3, <1>4, <1>5, <1>7 DEF UpdateIngressAdmission
<1> QED
  BY <1>6, <1>7

LEMMA RemoveIngressType ==
  ASSUME TypeOK, NEW p \in Packet,
         RemoveFromIngressAdmission(p.in, FineOf(p), p.size)
  PROVE  /\ ingress_bytes' \in [Port -> [Fine -> Int]]
         /\ hdrm_bytes' \in [Port -> [Fine -> Nat]]
         /\ shared_used_bytes' \in Int
<1> DEFINE in == p.in
           f == FineOf(p)
           fromHdrm == Least(hdrm_bytes[in][f], p.size)
           fromShared == Least(p.size - fromHdrm, GetSharedUsed(in, f))
<1>1. /\ in \in Port /\ f \in Fine /\ p.size \in Nat
      /\ ingress_bytes \in [Port -> [Fine -> Int]]
      /\ hdrm_bytes \in [Port -> [Fine -> Nat]]
      /\ shared_used_bytes \in Int
  BY HopTypes DEF TypeOK
<1>2. ingress_bytes[in][f] \in Int /\ hdrm_bytes[in][f] \in Nat
  BY <1>1
<1>3. /\ fromHdrm \in Int /\ fromShared \in Int
      /\ hdrm_bytes[in][f] - fromHdrm \in Nat
      /\ ingress_bytes[in][f] - (p.size - fromHdrm) \in Int
  BY <1>1, <1>2, MmuTypes DEF Least, GetSharedUsed, Excess
<1> HIDE DEF in, f, fromHdrm, fromShared
<1>4. /\ [ingress_bytes EXCEPT ![in][f] = ingress_bytes[in][f] - (p.size - fromHdrm)]
           \in [Port -> [Fine -> Int]]
      /\ [hdrm_bytes EXCEPT ![in][f] = hdrm_bytes[in][f] - fromHdrm]
           \in [Port -> [Fine -> Nat]]
  BY <1>1, <1>3, Update2
<1> QED
  BY <1>1, <1>3, <1>4 DEF RemoveFromIngressAdmission, in, f, fromHdrm, fromShared

\* A PFC frame that is sent has the type of a frame.
LEMMA SendPfcType ==
  ASSUME TypeOK, NEW in \in Port, NEW f \in Fine, NEW pause \in BOOLEAN,
         SendPfc(in, f, pause)
  PROVE  pfcWire' \in [Port -> [Fine -> Seq(Frame)]]
<1>1. [pause |-> pause, age |-> 0] \in Frame
  BY HopTypes DEF Frame
<1>2. pfcWire \in [Port -> [Fine -> Seq(Frame)]]
  BY DEF TypeOK
<1>3. Append(pfcWire[in][f], [pause |-> pause, age |-> 0]) \in Seq(Frame)
  BY <1>1, <1>2
<1> QED
  BY <1>2, <1>3, Update2 DEF SendPfc

\* Ageing keeps a sequence of frames one.
LEMMA AgedType ==
  ASSUME NEW s \in Seq(Frame), \A i \in DOMAIN s : s[i].age < FrameDelay
  PROVE  Aged(s) \in Seq(Frame) /\ Len(Aged(s)) = Len(s)
<1>1. ASSUME NEW i \in 1 .. Len(s)
      PROVE  [pause |-> s[i].pause, age |-> s[i].age + 1] \in Frame
  <2>1. s[i] \in Frame
    OBVIOUS
  <2>2. s[i].pause \in BOOLEAN /\ s[i].age \in 0 .. FrameDelay
    BY <2>1 DEF Frame
  <2>3. s[i].age + 1 \in 0 .. FrameDelay
    BY <2>2, HopTypes
  <2> QED
    BY <2>2, <2>3 DEF Frame
<1>2. Aged(s) = [i \in 1 .. Len(s) |-> [pause |-> s[i].pause, age |-> s[i].age + 1]]
  BY DEF Aged
<1>3. Aged(s) \in [1 .. Len(s) -> Frame]
  BY <1>1, <1>2
<1>4. Len(s) \in Nat
  OBVIOUS
<1> QED
  BY <1>3, <1>4

THEOREM TypeCorrect == Spec => []TypeOK
<1>1. Init => TypeOK
  BY HopTypes DEF Init, MmuInit, TypeOK
<1>2. TypeOK /\ [Next]_vars => TypeOK'
  <2> SUFFICES ASSUME TypeOK, [Next]_vars PROVE TypeOK'
    OBVIOUS
  <2>1. ASSUME NEW p \in Packet, UpstreamSend(p) PROVE TypeOK'
    <3> DEFINE f == FineOf(p)
    <3>1. /\ p.in \in Port /\ f \in Fine
          /\ wire \in [Port -> [Fine -> Seq(Packet)]]
          /\ pfcWire \in [Port -> [Fine -> Seq(Frame)]]
      BY HopTypes DEF TypeOK
    <3>2. Append(wire[p.in][f], p) \in Seq(Packet)
      BY <3>1
    <3>3. Aged(pfcWire[p.in][f]) \in Seq(Frame)
      BY <2>1, <3>1, AgedType DEF UpstreamSend
    <3>4. /\ wire' = [wire EXCEPT ![p.in][f] = Append(wire[p.in][f], p)]
          /\ pfcWire' = [pfcWire EXCEPT ![p.in][f] = Aged(pfcWire[p.in][f])]
      BY <2>1 DEF UpstreamSend
    <3> HIDE DEF f
    <3>5. /\ wire' \in [Port -> [Fine -> Seq(Packet)]]
          /\ pfcWire' \in [Port -> [Fine -> Seq(Frame)]]
      BY <3>1, <3>2, <3>3, <3>4, Update2
    <3> QED
      BY <2>1, <3>5 DEF UpstreamSend, TypeOK, mmuVars
  <2>2. ASSUME NEW in \in Port, NEW f \in Fine, ReceivePfc(in, f) PROVE TypeOK'
    <3>1. Head(pfcWire[in][f]) \in Frame /\ Tail(pfcWire[in][f]) \in Seq(Frame)
      BY <2>2 DEF ReceivePfc, TypeOK
    <3>2. Head(pfcWire[in][f]).pause \in BOOLEAN
      BY <3>1 DEF Frame
    <3> QED
      BY <2>2, <3>1, <3>2 DEF ReceivePfc, TypeOK, mmuVars
  <2>3. ASSUME NEW in \in Port, NEW f \in Fine, SendToDev(in, f) PROVE TypeOK'
    <3>1. PICK p \in Packet :
            \/ Drop("headroom") \/ Drop("egress") \/ Admit(p)
      BY <2>3 DEF SendToDev
    <3>2. wire' \in [Port -> [Fine -> Seq(Packet)]]
      BY <2>3 DEF SendToDev, TypeOK
    <3>3. CASE Drop("headroom") \/ Drop("egress")
      BY <2>3, <3>2, <3>3 DEF SendToDev, Drop, TypeOK, mmuVars
    <3>4. CASE Admit(p)
      <4>1. /\ ingress_bytes' \in [Port -> [Fine -> Int]]
            /\ hdrm_bytes' \in [Port -> [Fine -> Nat]]
            /\ shared_used_bytes' \in Int
        BY <3>4, UpdateIngressType DEF Admit, ingressVars, TypeOK
      <4>2. /\ paused' \in [Port -> [Fine -> BOOLEAN]]
            /\ pfcWire' \in [Port -> [Fine -> Seq(Frame)]]
        <5>1. CASE UNCHANGED <<pfcWire, paused>>
          BY <5>1 DEF TypeOK
        <5>2. CASE /\ SendPfc(p.in, FineOf(p), TRUE)
                   /\ paused' = [paused EXCEPT ![p.in][FineOf(p)] = TRUE]
          <6>1. p.in \in Port /\ FineOf(p) \in Fine
            BY HopTypes
          <6>2. paused \in [Port -> [Fine -> BOOLEAN]]
            BY DEF TypeOK
          <6> QED
            BY <5>2, <6>1, <6>2, SendPfcType, Update2
        <5> QED
          BY <3>4, <5>1, <5>2 DEF Admit, CheckAndSendPfc
      <4>3. /\ egress_bytes' \in [Port -> [Queue -> Int]]
            /\ m_bytes' \in [Port -> [Port -> [Queue -> Int]]]
            /\ m_queue' \in [Port -> [Queue -> Seq(Packet)]]
        <5>1. /\ p.in \in Port /\ p.out \in Port /\ p.q \in Queue /\ p.size \in Nat
              /\ egress_bytes \in [Port -> [Queue -> Int]]
              /\ m_bytes \in [Port -> [Port -> [Queue -> Int]]]
              /\ m_queue \in [Port -> [Queue -> Seq(Packet)]]
          BY HopTypes DEF TypeOK
        <5>2. /\ egress_bytes[p.out][p.q] + p.size \in Int
              /\ m_bytes[p.in][p.out][p.q] + p.size \in Int
              /\ Append(m_queue[p.out][p.q], p) \in Seq(Packet)
          <6>1. egress_bytes[p.out][p.q] \in Int
            BY <5>1
          <6>2. m_bytes[p.in][p.out][p.q] \in Int
            BY <5>1
          <6>3. m_queue[p.out][p.q] \in Seq(Packet)
            BY <5>1
          <6>4. egress_bytes[p.out][p.q] + p.size \in Int
            BY <5>1, <6>1
          <6>5. m_bytes[p.in][p.out][p.q] + p.size \in Int
            <7> DEFINE old == m_bytes[p.in][p.out][p.q]
            <7>1. old \in Int /\ p.size \in Int
              BY <5>1, <6>2
            <7> HIDE DEF old
            <7>2. old + p.size \in Int
              BY <7>1
            <7> QED
              BY <7>2 DEF old
          <6>6. Append(m_queue[p.out][p.q], p) \in Seq(Packet)
            BY <6>3
          <6> QED
            BY <6>4, <6>5, <6>6
        <5>3. egress_bytes' \in [Port -> [Queue -> Int]]
          BY <3>4, <5>1, <5>2, Update2 DEF Admit, UpdateEgressAdmission
        <5>4. m_bytes' \in [Port -> [Port -> [Queue -> Int]]]
          <6>1. m_bytes' = [m_bytes EXCEPT
                  ![p.in][p.out][p.q] = m_bytes[p.in][p.out][p.q] + p.size]
            BY <3>4 DEF Admit
          <6> DEFINE new == m_bytes[p.in][p.out][p.q] + p.size
          <6>2. new \in Int
            BY <5>2
          <6> DEFINE in1 == p.in
                     out1 == p.out
                     q1 == p.q
          <6>3. in1 \in Port /\ out1 \in Port /\ q1 \in Queue
            BY <5>1
          <6> HIDE DEF new, in1, out1, q1
          <6>4. [m_bytes EXCEPT ![in1][out1][q1] = new]
                  \in [Port -> [Port -> [Queue -> Int]]]
            BY <5>1, <6>2, <6>3, Update3
          <6> QED
            BY <6>1, <6>4 DEF new, in1, out1, q1
        <5>5. m_queue' \in [Port -> [Queue -> Seq(Packet)]]
          BY <3>4, <5>1, <5>2, Update2 DEF Admit
        <5> QED
          BY <5>3, <5>4, <5>5
      <4> QED
        BY <2>3, <3>2, <3>4, <4>1, <4>2, <4>3 DEF SendToDev, Admit, TypeOK
    <3> QED
      BY <3>1, <3>3, <3>4
  <2>4. ASSUME NEW out \in Port, NEW q \in Queue, Dequeue(out, q) PROVE TypeOK'
    <3>1. PICK p \in Packet :
            /\ RemoveFromEgressAdmission(out, q, p.size)
            /\ m_bytes' = [m_bytes EXCEPT ![p.in][out][q] = @ - p.size]
            /\ IF Controlled(p)
                 THEN /\ RemoveFromIngressAdmission(p.in, FineOf(p), p.size)
                      /\ CheckAndSendResume(p.in, FineOf(p))
                 ELSE UNCHANGED <<ingressVars, paused, pfcWire>>
      BY <2>4 DEF Dequeue
    <3>2. /\ ingress_bytes' \in [Port -> [Fine -> Int]]
          /\ hdrm_bytes' \in [Port -> [Fine -> Nat]]
          /\ shared_used_bytes' \in Int
      BY <3>1, RemoveIngressType DEF ingressVars, TypeOK
    <3>3. /\ paused' \in [Port -> [Fine -> BOOLEAN]]
          /\ pfcWire' \in [Port -> [Fine -> Seq(Frame)]]
      <4>1. CASE UNCHANGED <<pfcWire, paused>>
        BY <4>1 DEF TypeOK
      <4>2. CASE /\ SendPfc(p.in, FineOf(p), FALSE)
                 /\ paused' = [paused EXCEPT ![p.in][FineOf(p)] = FALSE]
        <5>1. p.in \in Port /\ FineOf(p) \in Fine
          BY HopTypes
        <5>2. paused \in [Port -> [Fine -> BOOLEAN]]
          BY DEF TypeOK
        <5> QED
          BY <4>2, <5>1, <5>2, SendPfcType, Update2
      <4> QED
        BY <3>1, <4>1, <4>2 DEF CheckAndSendResume
    <3>4. /\ egress_bytes' \in [Port -> [Queue -> Int]]
          /\ m_bytes' \in [Port -> [Port -> [Queue -> Int]]]
      <4>1. /\ p.in \in Port /\ p.size \in Nat
            /\ egress_bytes \in [Port -> [Queue -> Int]]
            /\ m_bytes \in [Port -> [Port -> [Queue -> Int]]]
        BY HopTypes DEF TypeOK
      <4>2. /\ egress_bytes[out][q] - p.size \in Int
            /\ m_bytes[p.in][out][q] - p.size \in Int
        BY <4>1
      <4>3. egress_bytes' \in [Port -> [Queue -> Int]]
        BY <3>1, <4>1, <4>2, Update2 DEF RemoveFromEgressAdmission
      <4>4. m_bytes' \in [Port -> [Port -> [Queue -> Int]]]
        <5>1. m_bytes' = [m_bytes EXCEPT
                ![p.in][out][q] = m_bytes[p.in][out][q] - p.size]
          BY <3>1
        <5> DEFINE new == m_bytes[p.in][out][q] - p.size
        <5>2. new \in Int
          BY <4>2
        <5> DEFINE in == p.in
        <5>3. in \in Port
          BY <4>1
        <5> HIDE DEF new, in
        <5>4. [m_bytes EXCEPT ![in][out][q] = new]
                \in [Port -> [Port -> [Queue -> Int]]]
          BY <4>1, <5>2, <5>3, Update3
        <5> QED
          BY <5>1, <5>4 DEF new, in
      <4> QED
        BY <4>3, <4>4
    <3>5. /\ m_queue' \in [Port -> [Queue -> Seq(Packet)]]
          /\ downCredit' \in [Port -> [Queue -> 0 .. DownCap]]
      <4>1. /\ m_queue \in [Port -> [Queue -> Seq(Packet)]]
            /\ downCredit \in [Port -> [Queue -> 0 .. DownCap]]
        BY DEF TypeOK
      <4>2. Tail(m_queue[out][q]) \in Seq(Packet)
        BY <2>4, <4>1 DEF Dequeue
      <4>3. Least(downCredit[out][q] + 1, DownCap) \in 0 .. DownCap
        BY <4>1, HopTypes DEF Least
      <4> QED
        BY <2>4, <4>1, <4>2, <4>3, Update2 DEF Dequeue
    <3> QED
      BY <2>4, <3>2, <3>3, <3>4, <3>5 DEF Dequeue, TypeOK
  <2>5. ASSUME NEW out \in Port, NEW q \in Queue,
               SwitchReceivePause(out, q) \/ SwitchReceiveResume(out, q)
        PROVE  TypeOK'
    <3>1. /\ m_paused \in [Port -> [Queue -> BOOLEAN]]
          /\ downCredit \in [Port -> [Queue -> 0 .. DownCap]]
      BY DEF TypeOK
    <3>2. downCredit[out][q] > 0 => downCredit[out][q] - 1 \in 0 .. DownCap
      BY <3>1, HopTypes
    <3>3. /\ m_paused' \in [Port -> [Queue -> BOOLEAN]]
          /\ downCredit' \in [Port -> [Queue -> 0 .. DownCap]]
      <4>1. CASE SwitchReceivePause(out, q)
        BY <3>1, <3>2, <4>1, Update2 DEF SwitchReceivePause
      <4>2. CASE SwitchReceiveResume(out, q)
        BY <3>1, <4>2, Update2 DEF SwitchReceiveResume
      <4> QED
        BY <2>5, <4>1, <4>2
    <3> QED
      BY <2>5, <3>3
      DEF SwitchReceivePause, SwitchReceiveResume, TypeOK, mmuVars, linkVars
  <2>6. CASE UNCHANGED vars
    BY <2>6 DEF vars, mmuVars, linkVars, TypeOK
  <2> QED
    BY <2>1, <2>2, <2>3, <2>4, <2>5, <2>6 DEF Next
<1> QED
  BY <1>1, <1>2, PTL DEF Spec


(***************************************************************************)
(* The shared buffer.                                                      *)
(***************************************************************************)

\* What a step does to the unit: nothing, one admission or one release.
LEMMA MmuStep ==
  ASSUME [Next]_vars
  PROVE  \/ UNCHANGED ingressVars
         \/ \E p \in Packet :
              /\ Controlled(p) /\ CheckIngressAdmission(p.in, FineOf(p), p.size)
              /\ UpdateIngressAdmission(p.in, FineOf(p), p.size)
         \/ \E p \in Packet :
              Controlled(p) /\ RemoveFromIngressAdmission(p.in, FineOf(p), p.size)
<1>1. CASE \E p \in Packet : UpstreamSend(p)
  BY <1>1 DEF UpstreamSend, mmuVars, ingressVars
<1>2. CASE \E in \in Port, f \in Fine : ReceivePfc(in, f)
  BY <1>2 DEF ReceivePfc, mmuVars, ingressVars
<1>3. CASE \E in \in Port, f \in Fine : SendToDev(in, f)
  <2>1. PICK p \in Packet :
          \/ Drop("headroom") \/ Drop("egress")
          \/ IngressAdmits(p) /\ Admit(p)
    BY <1>3 DEF SendToDev
  <2> QED
    BY <2>1 DEF Drop, Admit, IngressAdmits, mmuVars, ingressVars
<1>4. CASE \E out \in Port, q \in Queue : Dequeue(out, q)
  BY <1>4 DEF Dequeue, ingressVars
<1>5. CASE \E out \in Port, q \in Queue :
             SwitchReceivePause(out, q) \/ SwitchReceiveResume(out, q)
  BY <1>5 DEF SwitchReceivePause, SwitchReceiveResume, mmuVars, ingressVars
<1>6. CASE UNCHANGED vars
  BY <1>6 DEF vars, mmuVars, ingressVars
<1> QED
  BY <1>1, <1>2, <1>3, <1>4, <1>5, <1>6 DEF Next

\* Every threshold is an integer, and a dynamic one is at most what is left
\* of the shared buffer as long as that is not overdrawn.
LEMMA ThresholdBound ==
  ASSUME NEW port \in Port, shared_used_bytes \in Int, shared_used_bytes <= SharedBudget,
         StaticTh[port] = 0
  PROVE  /\ GetPfcThreshold(port) \in Nat
         /\ GetPfcThreshold(port) <= SharedBudget - shared_used_bytes
<1>1. SharedBudget - shared_used_bytes \in Nat
  BY BudgetType
<1>2. Alpha[port] \in Nat \ {0}
  BY MmuTypes
<1>3. Unsigned(SharedBudget - shared_used_bytes) = SharedBudget - shared_used_bytes
  BY <1>1 DEF Unsigned
<1>4. GetPfcThreshold(port) = (SharedBudget - shared_used_bytes) \div Alpha[port]
  BY <1>3 DEF GetPfcThreshold
<1> QED
  BY <1>1, <1>2, <1>4, DivBounds

\* The admission charges the shared buffer with what the excess over the
\* reserve grows by, and the release credits what it shrinks by.
LEMMA ExcessGrows ==
  ASSUME NEW old \in Int, NEW d \in Nat
  PROVE  /\ Least(d, Excess(old + d)) = Excess(old + d) - Excess(old)
         /\ Least(d, Excess(old)) = Excess(old) - Excess(old - d)
BY MmuTypes DEF Least, Excess

SharedIn(ingress) == [c \in Port \X Fine |-> Excess(ingress[c[1]][c[2]])]

\* A change of one ingress changes the sum by the change of its excess.
LEMMA SharedChange ==
  ASSUME NEW g \in [Port -> [Fine -> Int]], NEW in \in Port, NEW f \in Fine, NEW v \in Int
  PROVE  /\ CellSum(SharedIn([g EXCEPT ![in][f] = v]))
              = CellSum(SharedIn(g)) + (Excess(v) - Excess(g[in][f]))
         /\ CellSum(SharedIn(g)) \in Nat
<1> DEFINE I == Port \X Fine
           h == [g EXCEPT ![in][f] = v]
<1>1. IsFiniteSet(I)
  BY MmuTypes, FS_Product
<1>2. \A x \in Int : Excess(x) \in Nat
  BY MmuTypes DEF Excess
<1>3. /\ h \in [Port -> [Fine -> Int]] /\ h[in][f] = v
      /\ \A a \in Port, b \in Fine : a # in \/ b # f => h[a][b] = g[a][b]
  BY Update2
<1> HIDE DEF h
<1>4. SharedIn(g) \in [I -> Nat] /\ SharedIn(h) \in [I -> Nat]
  BY <1>2, <1>3 DEF SharedIn
<1>5. SharedIn(h) = [SharedIn(g) EXCEPT ![<<in, f>>] = Excess(v)]
  <2> DEFINE k == [SharedIn(g) EXCEPT ![<<in, f>>] = Excess(v)]
  <2>1. k \in [I -> Nat]
    BY <1>2, <1>4
  <2>2. ASSUME NEW a \in Port, NEW b \in Fine PROVE SharedIn(h)[<<a, b>>] = k[<<a, b>>]
    <3>1. CASE a = in /\ b = f
      BY <1>3, <1>4, <3>1 DEF SharedIn
    <3>2. CASE a # in \/ b # f
      <4>1. <<a, b>> # <<in, f>> /\ <<a, b>> \in I
        BY <3>2
      <4> QED
        BY <1>3, <1>4, <3>2, <4>1 DEF SharedIn
    <3> QED
      BY <3>1, <3>2
  <2>3. \A c \in I : SharedIn(h)[c] = k[c]
    BY <2>2
  <2> HIDE DEF k, I
  <2> QED
    BY <1>4, <2>1, <2>3 DEF k
<1>6. SharedIn(g)[<<in, f>>] = Excess(g[in][f]) /\ <<in, f>> \in I
  BY DEF SharedIn
<1>7. Excess(v) \in Nat
  BY <1>2
<1>8. CellSum([SharedIn(g) EXCEPT ![<<in, f>>] = Excess(v)])
        = CellSum(SharedIn(g)) + (Excess(v) - SharedIn(g)[<<in, f>>])
  <2> HIDE DEF I
  <2> QED
    BY <1>1, <1>4, <1>6, <1>7, CellsChange
<1>9. CellSum(SharedIn(g)) \in Nat
  <2>1. SharedIn(g) \in [I -> Int]
    BY <1>4
  <2> HIDE DEF I
  <2> QED
    BY <1>1, <2>1, CellsFinite
<1> QED
  BY <1>5, <1>6, <1>8, <1>9 DEF h

\* Nothing is shared while every ingress is empty.
LEMMA NoCells ==
  ASSUME NEW g \in [Port -> [Fine -> Int]], \A a \in Port, b \in Fine : g[a][b] = 0
  PROVE  CellSum(SharedIn(g)) = 0
<1>1. \A a \in Port, b \in Fine : Excess(g[a][b]) = 0
  BY MmuTypes DEF Excess
<1>2. Cells(SharedIn(g)) = {}
  <2>1. ASSUME NEW c \in Cells(SharedIn(g)) PROVE FALSE
    <3>1. PICK i \in Port \X Fine : c \in {i} \X (1 .. SharedIn(g)[i])
      BY <2>1 DEF Cells, SharedIn
    <3>2. SharedIn(g)[i] = 0
      BY <1>1 DEF SharedIn
    <3> QED
      BY <3>1, <3>2
  <2> QED
    BY <2>1
<1> QED
  BY <1>2, FS_EmptySet DEF CellSum

\* What an admission and a release do to the shared buffer.
LEMMA SharedByAdmission ==
  ASSUME TypeOK, NEW p \in Packet, UpdateIngressAdmission(p.in, FineOf(p), p.size)
  PROVE  \/ TakesHeadroom(p.in, FineOf(p), p.size) /\ UNCHANGED <<ingress_bytes, shared_used_bytes>>
         \/ /\ ~TakesHeadroom(p.in, FineOf(p), p.size)
            /\ ingress_bytes' = [ingress_bytes EXCEPT ![p.in][FineOf(p)]
                                   = ingress_bytes[p.in][FineOf(p)] + p.size]
            /\ shared_used_bytes' = shared_used_bytes
                 + (Excess(ingress_bytes[p.in][FineOf(p)] + p.size)
                      - Excess(ingress_bytes[p.in][FineOf(p)]))
<1> DEFINE old == ingress_bytes[p.in][FineOf(p)]
<1>1. old \in Int /\ p.size \in Nat
  BY HopTypes DEF TypeOK
<1>2. Least(p.size, Excess(old + p.size)) = Excess(old + p.size) - Excess(old)
  <2> HIDE DEF old
  <2> QED
    BY <1>1, ExcessGrows
<1> QED
  BY <1>2 DEF UpdateIngressAdmission

LEMMA SharedByRelease ==
  ASSUME TypeOK, NEW p \in Packet, RemoveFromIngressAdmission(p.in, FineOf(p), p.size)
  PROVE  \E d \in Nat :
           /\ ingress_bytes' = [ingress_bytes EXCEPT ![p.in][FineOf(p)]
                                  = ingress_bytes[p.in][FineOf(p)] - d]
           /\ shared_used_bytes' = shared_used_bytes
                - (Excess(ingress_bytes[p.in][FineOf(p)])
                     - Excess(ingress_bytes[p.in][FineOf(p)] - d))
           /\ Excess(ingress_bytes[p.in][FineOf(p)])
                - Excess(ingress_bytes[p.in][FineOf(p)] - d) >= 0
<1> DEFINE old == ingress_bytes[p.in][FineOf(p)]
           h == hdrm_bytes[p.in][FineOf(p)]
           d == p.size - Least(h, p.size)
<1>1. old \in Int /\ p.size \in Nat /\ h \in Nat
  BY HopTypes DEF TypeOK
<1>2. d \in Nat
  <2> HIDE DEF old, h
  <2> QED
    BY <1>1 DEF Least
<1>3. Least(d, Excess(old)) = Excess(old) - Excess(old - d)
  <2> HIDE DEF old, h, d
  <2> QED
    BY <1>1, <1>2, ExcessGrows
<1>4. Excess(old) - Excess(old - d) >= 0
  <2> HIDE DEF old, h, d
  <2> QED
    BY <1>1, <1>2, MmuTypes DEF Excess
<1>5. /\ ingress_bytes' = [ingress_bytes EXCEPT ![p.in][FineOf(p)] = old - d]
      /\ shared_used_bytes' = shared_used_bytes - Least(d, Excess(old))
  BY DEF RemoveFromIngressAdmission, GetSharedUsed
<1> QED
  BY <1>2, <1>3, <1>4, <1>5

\* shared_used_bytes is what all ingresses hold above their reserve, in the
\* switch of any size (SharedAccounting).
THEOREM SharedAccountingCorrect == Spec => []SharedAccounting
<1>1. SharedAccounting <=> shared_used_bytes = CellSum(SharedIn(ingress_bytes))
  BY DEF SharedAccounting, SharedOf, SharedIn, GetSharedUsed
<1>2. Init => SharedAccounting
  <2> SUFFICES ASSUME Init PROVE SharedAccounting
    OBVIOUS
  <2>1. /\ ingress_bytes \in [Port -> [Fine -> Int]]
        /\ \A a \in Port, b \in Fine : ingress_bytes[a][b] = 0
    BY DEF Init, MmuInit
  <2> QED
    BY <1>1, <2>1, NoCells DEF Init, MmuInit
<1>3. TypeOK /\ SharedAccounting /\ [Next]_vars => SharedAccounting'
  <2> SUFFICES ASSUME TypeOK, SharedAccounting, [Next]_vars
               PROVE  shared_used_bytes' = CellSum(SharedIn(ingress_bytes'))
    BY DEF SharedAccounting, SharedOf, SharedIn, GetSharedUsed
  <2>1. shared_used_bytes = CellSum(SharedIn(ingress_bytes))
    BY <1>1
  <2>2. ingress_bytes \in [Port -> [Fine -> Int]]
    BY DEF TypeOK
  <2>3. \A x \in Int : Excess(x) \in Nat
    BY MmuTypes DEF Excess
  <2>4. CASE UNCHANGED ingressVars
    BY <2>1, <2>4 DEF ingressVars
  <2>5. ASSUME NEW p \in Packet, UpdateIngressAdmission(p.in, FineOf(p), p.size)
        PROVE  shared_used_bytes' = CellSum(SharedIn(ingress_bytes'))
    <3>1. CASE UNCHANGED <<ingress_bytes, shared_used_bytes>>
      BY <2>1, <3>1
    <3>2. CASE /\ ingress_bytes' = [ingress_bytes EXCEPT ![p.in][FineOf(p)]
                                      = ingress_bytes[p.in][FineOf(p)] + p.size]
               /\ shared_used_bytes' = shared_used_bytes
                    + (Excess(ingress_bytes[p.in][FineOf(p)] + p.size)
                         - Excess(ingress_bytes[p.in][FineOf(p)]))
      <4> DEFINE in == p.in
                 f == FineOf(p)
                 v == ingress_bytes[in][f] + p.size
      <4>1. in \in Port /\ f \in Fine /\ v \in Int
        BY <2>2, HopTypes
      <4>2. /\ ingress_bytes' = [ingress_bytes EXCEPT ![in][f] = v]
            /\ shared_used_bytes' = shared_used_bytes + (Excess(v) - Excess(ingress_bytes[in][f]))
        BY <3>2
      <4> HIDE DEF in, f, v
      <4> QED
        BY <2>1, <2>2, <4>1, <4>2, SharedChange
    <3> QED
      BY <2>5, <3>1, <3>2, SharedByAdmission
  <2>6. ASSUME NEW p \in Packet, RemoveFromIngressAdmission(p.in, FineOf(p), p.size)
        PROVE  shared_used_bytes' = CellSum(SharedIn(ingress_bytes'))
    <3> DEFINE in == p.in
               f == FineOf(p)
    <3>1. in \in Port /\ f \in Fine
      BY HopTypes
    <3>2. PICK d \in Nat :
            /\ ingress_bytes' = [ingress_bytes EXCEPT ![in][f] = ingress_bytes[in][f] - d]
            /\ shared_used_bytes' = shared_used_bytes
                 - (Excess(ingress_bytes[in][f]) - Excess(ingress_bytes[in][f] - d))
      BY <2>6, SharedByRelease
    <3> DEFINE old == ingress_bytes[in][f]
               v == ingress_bytes[in][f] - d
    <3>3. old \in Int /\ v \in Int
      BY <2>2, <3>1
    <3>4. Excess(v) \in Nat /\ Excess(old) \in Nat
      BY <2>3, <3>3
    <3>5. CellSum(SharedIn([ingress_bytes EXCEPT ![in][f] = v]))
            = CellSum(SharedIn(ingress_bytes)) + (Excess(v) - Excess(old))
          /\ CellSum(SharedIn(ingress_bytes)) \in Nat
      <4> HIDE DEF in, f, v
      <4> QED
        BY <2>2, <3>1, <3>3, SharedChange
    <3>6. /\ ingress_bytes' = [ingress_bytes EXCEPT ![in][f] = v]
          /\ shared_used_bytes' = CellSum(SharedIn(ingress_bytes)) - (Excess(old) - Excess(v))
      BY <2>1, <3>2
    <3> HIDE DEF in, f, v, old
    <3> QED
      BY <3>4, <3>5, <3>6
  <2> QED
    BY <2>4, <2>5, <2>6, MmuStep
<1> QED
  BY <1>2, <1>3, TypeCorrect, PTL DEF Spec

\* With dynamic thresholds, whatever their shifts, the shared buffer is never
\* overdrawn, so the unsigned subtraction in GetPfcThreshold never wraps
\* (SharedWithinBudget).
THEOREM BudgetKept ==
  ASSUME \A port \in Port : StaticTh[port] = 0
  PROVE  Spec => []SharedWithinBudget
<1>1. Init => SharedWithinBudget
  BY BudgetType DEF Init, MmuInit, SharedWithinBudget
<1>2. TypeOK /\ SharedWithinBudget /\ [Next]_vars => SharedWithinBudget'
  <2> SUFFICES ASSUME TypeOK, SharedWithinBudget, [Next]_vars
               PROVE  shared_used_bytes' <= SharedBudget
    BY DEF SharedWithinBudget, SharedBudget, TotalHeadroom, TotalReserve, CellSum, Cells
  <2>1. shared_used_bytes \in Int /\ shared_used_bytes <= SharedBudget
    BY DEF TypeOK, SharedWithinBudget
  <2>2. CASE UNCHANGED ingressVars
    BY <2>1, <2>2 DEF ingressVars
  <2>3. ASSUME NEW p \in Packet, UpdateIngressAdmission(p.in, FineOf(p), p.size)
        PROVE  shared_used_bytes' <= SharedBudget
    <3> DEFINE old == ingress_bytes[p.in][FineOf(p)]
               new == old + p.size
               th == GetPfcThreshold(p.in)
    <3>1. p.in \in Port /\ old \in Int /\ p.size \in Nat /\ new \in Int
      BY HopTypes DEF TypeOK
    <3>2. th \in Nat /\ th <= SharedBudget - shared_used_bytes
      BY <2>1, <3>1, ThresholdBound
    <3>3. CASE UNCHANGED shared_used_bytes
      BY <2>1, <3>3
    <3>4. CASE /\ ~TakesHeadroom(p.in, FineOf(p), p.size)
               /\ shared_used_bytes' = shared_used_bytes + (Excess(new) - Excess(old))
      <4>1. new <= Reserve \/ new - Reserve <= th
        BY <3>1, <3>2, <3>4, MmuTypes DEF TakesHeadroom
      <4> HIDE DEF old, th
      <4>2. Excess(old) \in Nat /\ Excess(new) \in Nat /\ Excess(new) <= th
        BY <3>1, <3>2, <4>1, MmuTypes DEF Excess
      <4> HIDE DEF new
      <4> QED
        BY <2>1, <3>2, <3>4, <4>2, BudgetType
    <3> QED
      BY <2>3, <3>3, <3>4, SharedByAdmission
  <2>4. ASSUME NEW p \in Packet, RemoveFromIngressAdmission(p.in, FineOf(p), p.size)
        PROVE  shared_used_bytes' <= SharedBudget
    <3>1. PICK d \in Nat :
            /\ shared_used_bytes' = shared_used_bytes
                 - (Excess(ingress_bytes[p.in][FineOf(p)])
                      - Excess(ingress_bytes[p.in][FineOf(p)] - d))
            /\ Excess(ingress_bytes[p.in][FineOf(p)])
                 - Excess(ingress_bytes[p.in][FineOf(p)] - d) >= 0
      BY <2>4, SharedByRelease
    <3> DEFINE gone == Excess(ingress_bytes[p.in][FineOf(p)])
                         - Excess(ingress_bytes[p.in][FineOf(p)] - d)
    <3>2. gone \in Int
      <4>1. ingress_bytes[p.in][FineOf(p)] \in Int
        BY HopTypes DEF TypeOK
      <4> QED
        BY <4>1, MmuTypes DEF Excess
    <3>3. shared_used_bytes' = shared_used_bytes - gone /\ gone >= 0
      BY <3>1
    <3> HIDE DEF gone
    <3> QED
      BY <2>1, <3>2, <3>3, BudgetType
  <2> QED
    BY <2>2, <2>3, <2>4, MmuStep
<1> QED
  BY <1>1, <1>2, TypeCorrect, PTL DEF Spec

-----------------------------------------------------------------------------
(***************************************************************************)
(* PFC loses no packet: the protocol between the switch and the upstream   *)
(* device, and the headroom it needs, for every number of ports, every     *)
(* link and every mix of packet sizes.                                     *)
(***************************************************************************)


(***************************************************************************)
(* Pause and resume frames alternate.                                      *)
(***************************************************************************)

\* The frames of one ingress, given what they are on their way to.
Alternate(s, up, now) ==
  /\ \A i \in 1 .. Len(s) : s[i].pause # (IF i = 1 THEN up ELSE s[i - 1].pause)
  /\ now = (IF s = <<>> THEN up ELSE s[Len(s)].pause)

LEMMA AlternateAppend ==
  ASSUME NEW s \in Seq(Frame), NEW up \in BOOLEAN, NEW now \in BOOLEAN,
         NEW fr \in Frame, Alternate(s, up, now), fr.pause # now
  PROVE  Alternate(Append(s, fr), up, fr.pause)
<1> DEFINE t == Append(s, fr)
<1>1. Len(t) = Len(s) + 1 /\ t # <<>> /\ t[Len(t)] = fr
  OBVIOUS
<1>2. \A i \in 1 .. Len(s) : t[i] = s[i]
  OBVIOUS
<1>3. Len(s) \in Nat
  OBVIOUS
<1> HIDE DEF t
<1>4. ASSUME NEW i \in 1 .. Len(t)
      PROVE  t[i].pause # (IF i = 1 THEN up ELSE t[i - 1].pause)
  <2>1. CASE i \in 1 .. Len(s)
    <3>1. i # 1 => i - 1 \in 1 .. Len(s)
      BY <1>3, <2>1
    <3> QED
      BY <1>2, <2>1, <3>1 DEF Alternate
  <2>2. CASE i = Len(s) + 1
    <3>1. CASE s = <<>>
      BY <1>1, <2>2, <3>1 DEF Alternate
    <3>2. CASE s # <<>>
      <4>1. Len(s) \in 1 .. Len(s) /\ i # 1 /\ i - 1 = Len(s)
        BY <1>3, <2>2, <3>2
      <4> QED
        BY <1>1, <1>2, <2>2, <3>2, <4>1 DEF Alternate
    <3> QED
      BY <3>1, <3>2
  <2> QED
    BY <1>1, <1>3, <2>1, <2>2
<1> QED
  BY <1>1, <1>4 DEF Alternate, t, Frame

LEMMA AlternateTail ==
  ASSUME NEW s \in Seq(Frame), NEW up \in BOOLEAN, NEW now \in BOOLEAN,
         s # <<>>, Alternate(s, up, now)
  PROVE  Alternate(Tail(s), Head(s).pause, now)
<1> DEFINE t == Tail(s)
<1>1. /\ Len(s) \in Nat /\ Len(s) >= 1 /\ Len(t) = Len(s) - 1 /\ Head(s) = s[1]
      /\ t = <<>> <=> Len(s) = 1
  <2>1. Len(s) \in Nat /\ Len(s) >= 1 /\ Len(t) = Len(s) - 1 /\ Head(s) = s[1]
    OBVIOUS
  <2>2. t \in Seq(Frame)
    OBVIOUS
  <2> HIDE DEF t
  <2>3. t = <<>> <=> Len(t) = 0
    BY <2>2
  <2> QED
    BY <2>1, <2>3
<1>2. \A i \in 1 .. Len(s) - 1 : t[i] = s[i + 1]
  OBVIOUS
<1> HIDE DEF t
<1>3. ASSUME NEW i \in 1 .. Len(t)
      PROVE  t[i].pause # (IF i = 1 THEN Head(s).pause ELSE t[i - 1].pause)
  <2>1. i \in Int /\ 1 <= i /\ i <= Len(s) - 1
    BY <1>1
  <2>2. i + 1 \in 1 .. Len(s) /\ i + 1 # 1 /\ (i + 1) - 1 = i
    BY <1>1, <2>1
  <2>3. t[i].pause = s[i + 1].pause /\ s[i + 1].pause # s[i].pause
    BY <1>2, <2>1, <2>2 DEF Alternate
  <2>4. CASE i = 1
    BY <1>1, <2>3, <2>4
  <2>5. CASE i # 1
    <3>1. i - 1 \in 1 .. Len(s) - 1 /\ (i - 1) + 1 = i
      BY <1>1, <2>1, <2>5
    <3>2. t[i - 1] = s[i]
      BY <1>2, <3>1
    <3> QED
      BY <2>3, <2>5, <3>2
  <2> QED
    BY <2>4, <2>5
<1>4. now = (IF t = <<>> THEN Head(s).pause ELSE t[Len(t)].pause)
  <2>1. now = s[Len(s)].pause
    BY DEF Alternate
  <2>2. CASE Len(s) = 1
    BY <1>1, <2>1, <2>2
  <2>3. CASE Len(s) # 1
    <3>1. Len(t) \in 1 .. Len(s) - 1 /\ Len(t) + 1 = Len(s)
      BY <1>1, <2>3
    <3>2. t[Len(t)] = s[Len(s)]
      BY <1>2, <3>1
    <3> QED
      BY <1>1, <2>1, <2>3, <3>2
  <2> QED
    BY <2>2, <2>3
<1> QED
  BY <1>3, <1>4 DEF Alternate, t

\* Growing older changes no frame but its age.
LEMMA AlternateAged ==
  ASSUME NEW s \in Seq(Frame), NEW up, NEW now, Alternate(s, up, now)
  PROVE  Alternate(Aged(s), up, now)
<1> DEFINE t == Aged(s)
<1>1. DOMAIN s = 1 .. Len(s) /\ Len(s) \in Nat
  OBVIOUS
<1>2. t = [i \in 1 .. Len(s) |-> [pause |-> s[i].pause, age |-> s[i].age + 1]]
  BY <1>1 DEF Aged
<1>3. Len(t) = Len(s) /\ (t = <<>> <=> s = <<>>)
  BY <1>1, <1>2
<1>4. \A i \in 1 .. Len(s) : t[i].pause = s[i].pause
  BY <1>2
<1> HIDE DEF t
<1>5. ASSUME NEW i \in 1 .. Len(t)
      PROVE  t[i].pause # (IF i = 1 THEN up ELSE t[i - 1].pause)
  <2>1. i \in 1 .. Len(s) /\ (i # 1 => i - 1 \in 1 .. Len(s))
    BY <1>1, <1>3
  <2> QED
    BY <1>4, <2>1 DEF Alternate
<1>6. s # <<>> => Len(s) \in 1 .. Len(s)
  BY <1>1
<1> QED
  BY <1>3, <1>4, <1>5, <1>6 DEF Alternate, t

\* The same for all ingresses.
Alternating ==
  \A in \in Port, f \in Fine :
    Alternate(pfcWire[in][f], upstreamPaused[in][f], paused[in][f])

LEMMA AlternatingIs == ASSUME TypeOK PROVE FramesAlternate <=> Alternating
<1>1. ASSUME NEW in \in Port, NEW f \in Fine PROVE pfcWire[in][f] \in Seq(Frame)
  BY DEF TypeOK
<1> QED
  BY <1>1 DEF FramesAlternate, Alternating, Alternate, Last

\* What a step does to the frames of one ingress.
LEMMA FrameStep ==
  ASSUME TypeOK, [Next]_vars, NEW in \in Port, NEW f \in Fine
  PROVE  LET s  == pfcWire[in][f]
             u  == upstreamPaused[in][f]
             pd == paused[in][f]
             s2 == pfcWire'[in][f]
             u2 == upstreamPaused'[in][f]
             pd2 == paused'[in][f]
         IN  \/ s2 = s /\ u2 = u /\ pd2 = pd
             \/ s2 = Aged(s) /\ u2 = u /\ pd2 = pd
             \/ s # <<>> /\ s2 = Tail(s) /\ u2 = Head(s).pause /\ pd2 = pd
             \/ /\ u2 = u
                /\ \E b \in BOOLEAN : /\ s2 = Append(s, [pause |-> b, age |-> 0])
                                     /\ pd # b /\ pd2 = b
<1> USE DEF mmuVars, linkVars
<1>0. /\ pfcWire \in [Port -> [Fine -> Seq(Frame)]]
      /\ paused \in [Port -> [Fine -> BOOLEAN]]
      /\ upstreamPaused \in [Port -> [Fine -> BOOLEAN]]
  BY DEF TypeOK
<1>1. ASSUME NEW p \in Packet, UpstreamSend(p)
      PROVE  /\ pfcWire'[in][f] = pfcWire[in][f] \/ pfcWire'[in][f] = Aged(pfcWire[in][f])
             /\ upstreamPaused'[in][f] = upstreamPaused[in][f] /\ paused'[in][f] = paused[in][f]
  BY <1>0, <1>1 DEF UpstreamSend
<1>2. ASSUME NEW i \in Port, NEW g \in Fine, ReceivePfc(i, g)
      PROVE  /\ \/ /\ pfcWire'[in][f] = pfcWire[in][f]
                   /\ upstreamPaused'[in][f] = upstreamPaused[in][f]
                \/ /\ pfcWire[in][f] # <<>>
                   /\ pfcWire'[in][f] = Tail(pfcWire[in][f])
                   /\ upstreamPaused'[in][f] = Head(pfcWire[in][f]).pause
             /\ paused'[in][f] = paused[in][f]
  BY <1>0, <1>2 DEF ReceivePfc
<1>3. ASSUME NEW i \in Port, NEW g \in Fine,
             \/ UNCHANGED <<pfcWire, paused>>
             \/ CheckAndSendPfc(i, g) \/ CheckAndSendResume(i, g),
             UNCHANGED upstreamPaused
      PROVE  /\ \/ /\ pfcWire'[in][f] = pfcWire[in][f]
                   /\ paused'[in][f] = paused[in][f]
                \/ \E b \in BOOLEAN :
                     /\ pfcWire'[in][f] = Append(pfcWire[in][f], [pause |-> b, age |-> 0])
                     /\ paused[in][f] # b /\ paused'[in][f] = b
             /\ upstreamPaused'[in][f] = upstreamPaused[in][f]
  <2>1. CASE UNCHANGED <<pfcWire, paused>>
    BY <1>3, <2>1
  <2>2. CASE CheckAndSendPfc(i, g)
    <3>1. \/ UNCHANGED <<pfcWire, paused>>
          \/ /\ paused[i][g] = FALSE
             /\ pfcWire' = [pfcWire EXCEPT ![i][g]
                              = Append(pfcWire[i][g], [pause |-> TRUE, age |-> 0])]
             /\ paused' = [paused EXCEPT ![i][g] = TRUE]
      BY <1>0, <2>2 DEF CheckAndSendPfc, SendPfc
    <3>2. CASE i = in /\ g = f
      <4>1. CASE UNCHANGED <<pfcWire, paused>>
        BY <1>3, <4>1
      <4>2. CASE /\ paused[i][g] = FALSE
                 /\ pfcWire' = [pfcWire EXCEPT ![i][g]
                                  = Append(pfcWire[i][g], [pause |-> TRUE, age |-> 0])]
                 /\ paused' = [paused EXCEPT ![i][g] = TRUE]
        <5>1. /\ pfcWire'[i][g] = Append(pfcWire[i][g], [pause |-> TRUE, age |-> 0])
              /\ paused'[i][g] = TRUE
          BY <1>0, <4>2
        <5>2. paused[i][g] # TRUE /\ TRUE \in BOOLEAN
          BY <4>2
        <5> QED
          BY <1>3, <3>2, <5>1, <5>2
      <4> QED
        BY <3>1, <4>1, <4>2
    <3>3. CASE i # in \/ g # f
      BY <1>0, <1>3, <3>1, <3>3
    <3> QED
      BY <3>2, <3>3
  <2>3. CASE CheckAndSendResume(i, g)
    <3>1. \/ UNCHANGED <<pfcWire, paused>>
          \/ /\ paused[i][g] = TRUE
             /\ pfcWire' = [pfcWire EXCEPT ![i][g]
                              = Append(pfcWire[i][g], [pause |-> FALSE, age |-> 0])]
             /\ paused' = [paused EXCEPT ![i][g] = FALSE]
      BY <1>0, <2>3 DEF CheckAndSendResume, SendPfc
    <3>2. CASE i = in /\ g = f
      <4>1. CASE UNCHANGED <<pfcWire, paused>>
        BY <1>3, <4>1
      <4>2. CASE /\ paused[i][g] = TRUE
                 /\ pfcWire' = [pfcWire EXCEPT ![i][g]
                                  = Append(pfcWire[i][g], [pause |-> FALSE, age |-> 0])]
                 /\ paused' = [paused EXCEPT ![i][g] = FALSE]
        <5>1. /\ pfcWire'[i][g] = Append(pfcWire[i][g], [pause |-> FALSE, age |-> 0])
              /\ paused'[i][g] = FALSE
          BY <1>0, <4>2
        <5>2. paused[i][g] # FALSE /\ FALSE \in BOOLEAN
          BY <4>2
        <5> QED
          BY <1>3, <3>2, <5>1, <5>2
      <4> QED
        BY <3>1, <4>1, <4>2
    <3>3. CASE i # in \/ g # f
      BY <1>0, <1>3, <3>1, <3>3
    <3> QED
      BY <3>2, <3>3
  <2> QED
    BY <1>3, <2>1, <2>2, <2>3
<1>4. ASSUME NEW i \in Port, NEW g \in Fine, SendToDev(i, g)
      PROVE  \E h \in Port, k \in Fine :
               /\ \/ UNCHANGED <<pfcWire, paused>>
                  \/ CheckAndSendPfc(h, k)
               /\ UNCHANGED upstreamPaused
  <2>1. PICK p \in Packet : \/ Drop("headroom") \/ Drop("egress") \/ Admit(p)
    BY <1>4 DEF SendToDev
  <2>2. p.in \in Port /\ FineOf(p) \in Fine
    BY HopTypes
  <2>3. \/ UNCHANGED <<pfcWire, paused>>
        \/ CheckAndSendPfc(p.in, FineOf(p))
    BY <2>1 DEF Drop, Admit
  <2> QED
    BY <1>4, <2>2, <2>3 DEF SendToDev
<1>5. ASSUME NEW o \in Port, NEW q \in Queue, Dequeue(o, q)
      PROVE  \E h \in Port, k \in Fine :
               /\ \/ UNCHANGED <<pfcWire, paused>>
                  \/ CheckAndSendResume(h, k)
               /\ UNCHANGED upstreamPaused
  <2>1. PICK p \in Packet :
          IF Controlled(p) THEN CheckAndSendResume(p.in, FineOf(p))
                           ELSE UNCHANGED <<paused, pfcWire>>
    BY <1>5 DEF Dequeue
  <2>2. p.in \in Port /\ FineOf(p) \in Fine
    BY HopTypes
  <2> QED
    BY <1>5, <2>1, <2>2 DEF Dequeue
<1>6. CASE \E o \in Port, q \in Queue : SwitchReceivePause(o, q) \/ SwitchReceiveResume(o, q)
  BY <1>6 DEF SwitchReceivePause, SwitchReceiveResume
<1>7. CASE UNCHANGED vars
  BY <1>7 DEF vars
<1>8. CASE \E p \in Packet : UpstreamSend(p)
  BY <1>1, <1>8
<1>9. CASE \E i \in Port, g \in Fine : ReceivePfc(i, g)
  BY <1>2, <1>9
<1>10. CASE \E i \in Port, g \in Fine : SendToDev(i, g)
  BY <1>3, <1>4, <1>10
<1>11. CASE \E o \in Port, q \in Queue : Dequeue(o, q)
  BY <1>3, <1>5, <1>11
<1> QED
  BY <1>6, <1>7, <1>8, <1>9, <1>10, <1>11 DEF Next

\* Pause and resume frames reach the upstream device in turn
\* (FramesAlternate), as the assertion of QbbNetDevice::Resume requires.
THEOREM FramesAlternateCorrect == Spec => []FramesAlternate
<1>1. Init => Alternating
  BY DEF Init, MmuInit, Alternating, Alternate
<1>2. TypeOK /\ Alternating /\ [Next]_vars => Alternating'
  <2> SUFFICES ASSUME TypeOK, Alternating, [Next]_vars, NEW in \in Port, NEW f \in Fine
               PROVE  Alternate(pfcWire'[in][f], upstreamPaused'[in][f], paused'[in][f])
    BY DEF Alternating, Alternate
  <2> DEFINE s == pfcWire[in][f]
             u == upstreamPaused[in][f]
             pd == paused[in][f]
  <2>1. s \in Seq(Frame) /\ u \in BOOLEAN /\ pd \in BOOLEAN /\ Alternate(s, u, pd)
    BY DEF TypeOK, Alternating
  <2>2. \/ pfcWire'[in][f] = s /\ upstreamPaused'[in][f] = u /\ paused'[in][f] = pd
        \/ pfcWire'[in][f] = Aged(s) /\ upstreamPaused'[in][f] = u /\ paused'[in][f] = pd
        \/ /\ s # <<>> /\ pfcWire'[in][f] = Tail(s)
           /\ upstreamPaused'[in][f] = Head(s).pause /\ paused'[in][f] = pd
        \/ /\ upstreamPaused'[in][f] = u
           /\ \E b \in BOOLEAN : /\ pfcWire'[in][f] = Append(s, [pause |-> b, age |-> 0])
                                /\ pd # b /\ paused'[in][f] = b
    BY FrameStep
  <2> HIDE DEF s, u, pd
  <2>3. CASE /\ upstreamPaused'[in][f] = u
             /\ \E b \in BOOLEAN : /\ pfcWire'[in][f] = Append(s, [pause |-> b, age |-> 0])
                                  /\ pd # b /\ paused'[in][f] = b
    <3>1. PICK b \in BOOLEAN : /\ pfcWire'[in][f] = Append(s, [pause |-> b, age |-> 0])
                               /\ pd # b /\ paused'[in][f] = b
      BY <2>3
    <3> DEFINE fr == [pause |-> b, age |-> 0]
    <3>2. fr \in Frame /\ fr.pause = b
      BY HopTypes DEF Frame
    <3> HIDE DEF fr
    <3>3. Alternate(Append(s, fr), u, fr.pause)
      BY <2>1, <3>1, <3>2, AlternateAppend
    <3> QED
      BY <2>3, <3>1, <3>2, <3>3 DEF fr
  <2> QED
    BY <2>1, <2>2, <2>3, AlternateTail, AlternateAged
<1>3. TypeOK /\ Alternating => FramesAlternate
  BY AlternatingIs
<1> QED
  BY <1>1, <1>2, <1>3, TypeCorrect, PTL DEF Spec

(***************************************************************************)
(* The headroom.  Once an ingress is paused, every packet that can still   *)
(* reach it is either on the link or is sent before the last frame, which  *)
(* is the pause, arrives; Room counts the latter.  What the headroom holds *)
(* and what can still come never exceed what the link and the delay allow. *)
(***************************************************************************)
Room(s) == IF s = <<>> THEN 0 ELSE FrameDelay - s[Len(s)].age

\* h bytes of headroom, w packets on the link, frames s, packets of at most m bytes.
Fits(m, h, pd, w, s) ==
  /\ w <= WireCap
  /\ ~pd => h = 0
  /\ pd => h + m * (w + Room(s)) <= m * (WireCap + FrameDelay)

HeadroomFits(m) ==
  \A in \in Port, f \in Fine :
    Fits(m, hdrm_bytes[in][f], paused[in][f], Len(wire[in][f]), pfcWire[in][f])

\* A link carries the packets of its own ingress.
OwnWire ==
  \A in \in Port, f \in Fine :
    \A i \in 1 .. Len(wire[in][f]) : wire[in][f][i].in = in /\ FineOf(wire[in][f][i]) = f

LEMMA RoomType == ASSUME NEW s \in Seq(Frame) PROVE Room(s) \in 0 .. FrameDelay
<1>1. CASE s = <<>>
  BY <1>1, HopTypes DEF Room
<1>2. CASE s # <<>>
  <2>1. s[Len(s)] \in Frame
    <3>1. Len(s) \in 1 .. Len(s)
      BY <1>2
    <3> QED
      BY <3>1
  <2> QED
    BY <1>2, <2>1, HopTypes DEF Room, Frame
<1> QED
  BY <1>1, <1>2

LEMMA TimesNext == ASSUME NEW m \in Nat, NEW n \in Int PROVE m * (n + 1) = m * n + m
OBVIOUS

LEMMA TimesLe ==
  ASSUME NEW m \in Nat, NEW a \in Int, NEW b \in Int, a <= b PROVE m * a <= m * b
OBVIOUS

\* The upstream device sends before the last frame reaches it.
LEMMA FitsSend ==
  ASSUME NEW m \in Nat, NEW h \in Nat, NEW pd \in BOOLEAN, NEW w \in Nat,
         NEW s \in Seq(Frame), Fits(m, h, pd, w, s), w < WireCap, pd => s # <<>>
  PROVE  Fits(m, h, pd, w + 1, Aged(s))
<1>1. w + 1 <= WireCap
  BY HopTypes
<1>2. ASSUME pd PROVE (w + 1) + Room(Aged(s)) = w + Room(s)
  <2>1. Len(s) \in Nat /\ DOMAIN s = 1 .. Len(s) /\ Len(s) \in 1 .. Len(s)
    BY <1>2
  <2>2. Aged(s) = [i \in 1 .. Len(s) |-> [pause |-> s[i].pause, age |-> s[i].age + 1]]
    BY <2>1 DEF Aged
  <2>3. Len(Aged(s)) = Len(s) /\ Aged(s) # <<>>
    BY <2>1, <2>2
  <2>4. Aged(s)[Len(s)].age = s[Len(s)].age + 1
    BY <2>1, <2>2
  <2>5. s[Len(s)] \in Frame
    BY <2>1
  <2> DEFINE age == s[Len(s)].age
  <2>6. age \in Int
    BY <2>5, HopTypes DEF Frame
  <2>7. Room(Aged(s)) = FrameDelay - (age + 1)
    BY <2>3, <2>4 DEF Room
  <2>8. Room(s) = FrameDelay - age
    BY <1>2 DEF Room
  <2> HIDE DEF age
  <2> QED
    BY <2>6, <2>7, <2>8, HopTypes
<1> QED
  BY <1>1, <1>2 DEF Fits

\* A frame arrives.
LEMMA FitsReceive ==
  ASSUME NEW m \in Nat, NEW h \in Nat, NEW pd \in BOOLEAN, NEW w \in Nat,
         NEW s \in Seq(Frame), s # <<>>, Fits(m, h, pd, w, s)
  PROVE  Fits(m, h, pd, w, Tail(s))
<1>1. Room(Tail(s)) <= Room(s)
  <2>1. CASE Tail(s) = <<>>
    <3>1. Room(Tail(s)) = 0 /\ Room(s) \in 0 .. FrameDelay
      BY <2>1, RoomType DEF Room
    <3> QED
      BY <3>1, HopTypes
  <2>2. CASE Tail(s) # <<>>
    <3>1. Len(Tail(s)) = Len(s) - 1 /\ Len(s) >= 2
      BY <2>2
    <3>2. Tail(s)[Len(s) - 1] = s[Len(s)]
      BY <3>1
    <3>3. Room(Tail(s)) = Room(s)
      BY <2>2, <3>1, <3>2 DEF Room
    <3> QED
      BY <3>3, RoomType
  <2> QED
    BY <2>1, <2>2
<1>2. Room(s) \in Int /\ Room(Tail(s)) \in Int
  <2>1. Tail(s) \in Seq(Frame)
    OBVIOUS
  <2>2. Room(s) \in 0 .. FrameDelay /\ Room(Tail(s)) \in 0 .. FrameDelay
    BY <2>1, RoomType
  <2> QED
    BY <2>2, HopTypes
<1>3. m * (w + Room(Tail(s))) <= m * (w + Room(s))
  BY <1>1, <1>2, TimesLe
<1>4. m * (w + Room(s)) \in Int /\ m * (w + Room(Tail(s))) \in Int
      /\ m * (WireCap + FrameDelay) \in Int
  BY <1>2, HopTypes
<1> QED
  BY <1>3, <1>4 DEF Fits

\* A packet arrives; the ingress was paused before, or is paused by it.
LEMMA FitsArrive ==
  ASSUME NEW m \in Nat, NEW h \in Nat, NEW h2 \in Nat, NEW pd \in BOOLEAN,
         NEW w \in Nat \ {0}, NEW s \in Seq(Frame), Fits(m, h, pd, w, s), h2 <= h + m
  PROVE  /\ pd => Fits(m, h2, pd, w - 1, s)
         /\ h2 = 0 => Fits(m, h2, FALSE, w - 1, s)
         /\ ~pd => Fits(m, h2, TRUE, w - 1, Append(s, [pause |-> TRUE, age |-> 0]))
<1>1. Room(s) \in Int /\ w \in Int /\ w - 1 \in Nat /\ WireCap + FrameDelay \in Int
  BY RoomType, HopTypes
<1>2. w - 1 <= WireCap
  BY <1>1, HopTypes DEF Fits
<1>3. pd => Fits(m, h2, pd, w - 1, s)
  <2>1. m * ((w - 1 + Room(s)) + 1) = m * (w - 1 + Room(s)) + m
    BY <1>1, TimesNext
  <2>2. (w - 1 + Room(s)) + 1 = w + Room(s)
    BY <1>1
  <2>3. m * (w - 1 + Room(s)) \in Int /\ m * (WireCap + FrameDelay) \in Int
    BY <1>1
  <2> DEFINE x == m * (w - 1 + Room(s))
             y == m * (w + Room(s))
             z == m * (WireCap + FrameDelay)
  <2>4. x \in Int /\ z \in Int /\ y = x + m /\ (pd => h + y <= z)
    BY <2>1, <2>2, <2>3 DEF Fits
  <2>5. pd => h2 + x <= z
    <3> HIDE DEF x, y, z
    <3> QED
      BY <2>4
  <2> QED
    BY <1>2, <2>5 DEF Fits
<1>4. h2 = 0 => Fits(m, h2, FALSE, w - 1, s)
  BY <1>2 DEF Fits
<1>5. ASSUME ~pd PROVE Fits(m, h2, TRUE, w - 1, Append(s, [pause |-> TRUE, age |-> 0]))
  <2> DEFINE t == Append(s, [pause |-> TRUE, age |-> 0])
  <2>1. Room(t) = FrameDelay
    <3>1. t # <<>> /\ t[Len(t)] = [pause |-> TRUE, age |-> 0]
      OBVIOUS
    <3> QED
      BY <3>1, HopTypes DEF Room
  <2>2. h2 <= m
    BY <1>5 DEF Fits
  <2>3. m * (((w - 1) + FrameDelay) + 1) = m * ((w - 1) + FrameDelay) + m
    BY <1>1, HopTypes, TimesNext
  <2>4. m * (((w - 1) + FrameDelay) + 1) <= m * (WireCap + FrameDelay)
    <3>1. ((w - 1) + FrameDelay) + 1 <= WireCap + FrameDelay
      BY <1>1, HopTypes DEF Fits
    <3> QED
      BY <1>1, <3>1, HopTypes, TimesLe
  <2> DEFINE x == m * ((w - 1) + FrameDelay)
             z == m * (WireCap + FrameDelay)
  <2>5. x \in Int /\ z \in Int /\ x + m <= z
    BY <1>1, <2>3, <2>4, HopTypes
  <2>6. h2 + x <= z
    <3> HIDE DEF x, z
    <3> QED
      BY <2>2, <2>5
  <2> HIDE DEF t
  <2>7. Fits(m, h2, TRUE, w - 1, t)
    BY <1>2, <2>1, <2>6 DEF Fits
  <2> QED
    BY <2>7 DEF t
<1> QED
  BY <1>3, <1>4, <1>5

\* A packet leaves.
LEMMA FitsLeave ==
  ASSUME NEW m \in Nat, NEW h \in Nat, NEW h2 \in Nat, NEW pd \in BOOLEAN, NEW w \in Nat,
         NEW s \in Seq(Frame), NEW t, Fits(m, h, pd, w, s), h2 <= h
  PROVE  /\ Fits(m, h2, pd, w, s)
         /\ h2 = 0 => Fits(m, h2, FALSE, w, t)
<1>1. m * (w + Room(s)) \in Int /\ m * (WireCap + FrameDelay) \in Int
  BY RoomType, HopTypes
<1> QED
  BY <1>1 DEF Fits

\* With room for one more, the packet at the head of the link is admitted.
LEMMA FitsAdmit ==
  ASSUME NEW m \in Nat, NEW h \in Nat, NEW pd \in BOOLEAN, NEW w \in Nat \ {0},
         NEW s \in Seq(Frame), Fits(m, h, pd, w, s)
  PROVE  m + h <= m * (WireCap + FrameDelay)
<1>1. Room(s) \in Int /\ 0 <= Room(s)
  BY RoomType
<1>2. w + Room(s) \in Int /\ 1 <= w + Room(s) /\ WireCap + FrameDelay \in Int
      /\ 1 <= WireCap + FrameDelay
  BY <1>1, HopTypes DEF Fits
<1>3. m * 1 <= m * (w + Room(s)) /\ m * 1 <= m * (WireCap + FrameDelay)
  BY <1>2, TimesLe
<1>4. m * 1 = m
  OBVIOUS
<1>5. m * (w + Room(s)) \in Int /\ m * (WireCap + FrameDelay) \in Int
  BY <1>2
<1> QED
  BY <1>3, <1>4, <1>5 DEF Fits

LossInv(m) ==
  TypeOK /\ Alternating /\ OwnWire /\ HeadroomFits(m) /\ NoHeadroomDrop

\* The admission adds at most the packet to the headroom, the release takes away.
LEMMA HeadroomChange ==
  ASSUME TypeOK, NEW p \in Packet, NEW in \in Port, NEW f \in Fine
  PROVE  /\ UpdateIngressAdmission(p.in, FineOf(p), p.size) =>
              IF in = p.in /\ f = FineOf(p)
                THEN hdrm_bytes'[in][f] <= hdrm_bytes[in][f] + p.size
                ELSE hdrm_bytes'[in][f] = hdrm_bytes[in][f]
         /\ RemoveFromIngressAdmission(p.in, FineOf(p), p.size) =>
              IF in = p.in /\ f = FineOf(p)
                THEN hdrm_bytes'[in][f] <= hdrm_bytes[in][f]
                ELSE hdrm_bytes'[in][f] = hdrm_bytes[in][f]
<1>1. /\ hdrm_bytes \in [Port -> [Fine -> Nat]]
      /\ p.in \in Port /\ FineOf(p) \in Fine /\ p.size \in Nat
      /\ hdrm_bytes[in][f] \in Nat
  BY HopTypes DEF TypeOK
<1> DEFINE i == p.in
           g == FineOf(p)
           add == hdrm_bytes[i][g] + p.size
           sub == hdrm_bytes[i][g] - Least(hdrm_bytes[i][g], p.size)
<1>2. i \in Port /\ g \in Fine /\ add \in Nat /\ sub \in Nat /\ sub <= hdrm_bytes[i][g]
  BY <1>1 DEF Least
<1>3. /\ UpdateIngressAdmission(i, g, p.size) =>
            hdrm_bytes' = hdrm_bytes \/ hdrm_bytes' = [hdrm_bytes EXCEPT ![i][g] = add]
      /\ RemoveFromIngressAdmission(i, g, p.size) =>
            hdrm_bytes' = [hdrm_bytes EXCEPT ![i][g] = sub]
  BY DEF UpdateIngressAdmission, RemoveFromIngressAdmission
<1>4. hdrm_bytes[i][g] <= add
  BY <1>1
<1>5. /\ [hdrm_bytes EXCEPT ![i][g] = add][i][g] = add
      /\ [hdrm_bytes EXCEPT ![i][g] = sub][i][g] = sub
      /\ in # i \/ f # g =>
           /\ [hdrm_bytes EXCEPT ![i][g] = add][in][f] = hdrm_bytes[in][f]
           /\ [hdrm_bytes EXCEPT ![i][g] = sub][in][f] = hdrm_bytes[in][f]
  <2> HIDE DEF add, sub, i, g
  <2> QED
    BY <1>1, <1>2
<1>6. CASE in = i /\ f = g
  <2>1. in = p.in /\ f = FineOf(p) /\ add = hdrm_bytes[in][f] + p.size
    BY <1>6
  <2> HIDE DEF add, sub
  <2> QED
    BY <1>1, <1>2, <1>3, <1>4, <1>5, <1>6, <2>1 DEF i, g
<1>7. CASE in # i \/ f # g
  <2> HIDE DEF add, sub
  <2> QED
    BY <1>1, <1>3, <1>5, <1>7 DEF i, g
<1> QED
  BY <1>6, <1>7

\* A packet reaches the switch.
LEMMA ArriveFits ==
  ASSUME NEW m \in Nat, \A p \in Packet : p.size <= m,
         LossInv(m), TypeOK',
         NEW in \in Port, NEW f \in Fine, SendToDev(in, f),
         NEW a \in Port, NEW b \in Fine
  PROVE  Fits(m, hdrm_bytes'[a][b], paused'[a][b], Len(wire'[a][b]), pfcWire'[a][b])
<1> DEFINE h == hdrm_bytes[a][b]
           h2 == hdrm_bytes'[a][b]
           pd == paused[a][b]
           w == Len(wire[a][b])
           s == pfcWire[a][b]
<1>1. /\ h \in Nat /\ h2 \in Nat /\ pd \in BOOLEAN /\ w \in Nat /\ s \in Seq(Frame)
      /\ Fits(m, h, pd, w, s)
  <2>1. wire[a][b] \in Seq(Packet) /\ h \in Nat /\ pd \in BOOLEAN /\ s \in Seq(Frame)
    BY DEF LossInv, TypeOK
  <2>2. h2 \in Nat
    BY DEF TypeOK
  <2> QED
    BY <2>1, <2>2 DEF LossInv, HeadroomFits
<1>2. PICK p \in Packet :
        /\ p = Head(wire[in][f])
        /\ \/ Drop("headroom") \/ Drop("egress")
           \/ Admit(p)
  BY DEF SendToDev
<1>3. wire[in][f] \in Seq(Packet) /\ wire[in][f] # <<>>
  BY DEF SendToDev, LossInv, TypeOK
<1>4. p.in = in /\ FineOf(p) = f
  <2>1. p = wire[in][f][1] /\ 1 \in 1 .. Len(wire[in][f])
    BY <1>2, <1>3
  <2> QED
    BY <2>1 DEF LossInv, OwnWire
<1>5. wire' = [wire EXCEPT ![in][f] = Tail(wire[in][f])]
  BY DEF SendToDev
<1>6. wire \in [Port -> [Fine -> Seq(Packet)]]
  BY DEF LossInv, TypeOK
<1>7. p.size \in Nat /\ p.size <= m
  BY HopTypes
<1>8. CASE a = in /\ b = f
  <2>1. Len(wire'[a][b]) = w - 1 /\ w \in Nat \ {0}
    <3>1. wire'[a][b] = Tail(wire[a][b])
      BY <1>5, <1>6, <1>8
    <3> QED
      BY <1>3, <1>8, <3>1
  <2>2. CASE UNCHANGED <<hdrm_bytes, paused, pfcWire>>
    <3>1. h2 = h /\ paused'[a][b] = pd /\ pfcWire'[a][b] = s /\ h2 <= h + m
      BY <1>1, <2>2
    <3>2. ~pd => h2 = 0
      BY <1>1, <3>1 DEF Fits
    <3>3. pd = TRUE \/ pd = FALSE
      BY <1>1
    <3>4. h2 \in Nat /\ h2 = hdrm_bytes'[a][b]
      BY <1>1
    <3> HIDE DEF h, h2, pd, w, s
    <3>5. /\ pd => Fits(m, h2, pd, w - 1, s)
          /\ h2 = 0 => Fits(m, h2, FALSE, w - 1, s)
          /\ ~pd => Fits(m, h2, TRUE, w - 1, Append(s, [pause |-> TRUE, age |-> 0]))
      BY <1>1, <2>1, <3>1, <3>4, FitsArrive
    <3> HIDE DEF Fits
    <3> QED
      BY <2>1, <3>1, <3>2, <3>3, <3>4, <3>5
  <2>3. CASE /\ UpdateIngressAdmission(p.in, FineOf(p), p.size)
             /\ CheckAndSendPfc(p.in, FineOf(p))
    <3>1. h2 <= h + m
      <4>1. h2 <= h + p.size
        BY <1>4, <1>8, <2>3, HeadroomChange DEF LossInv
      <4> HIDE DEF h, h2
      <4> QED
        BY <1>1, <1>7, <4>1
    <3>2. \/ /\ paused'[a][b] = pd /\ pfcWire'[a][b] = s
             /\ pd \/ h2 = 0
          \/ /\ ~pd /\ paused'[a][b] = TRUE
             /\ pfcWire'[a][b] = Append(s, [pause |-> TRUE, age |-> 0])
      <4>1. CASE ~paused[a][b] /\ OverThreshold(a, b)'
        <5>1. /\ pfcWire' = [pfcWire EXCEPT ![a][b] = Append(s, [pause |-> TRUE, age |-> 0])]
              /\ paused' = [paused EXCEPT ![a][b] = TRUE]
          BY <1>4, <1>8, <2>3, <4>1 DEF CheckAndSendPfc, SendPfc
        <5>2. /\ pfcWire \in [Port -> [Fine -> Seq(Frame)]]
              /\ paused \in [Port -> [Fine -> BOOLEAN]]
          BY DEF LossInv, TypeOK
        <5> HIDE DEF s
        <5> QED
          BY <4>1, <5>1, <5>2
      <4>2. CASE ~(~paused[a][b] /\ OverThreshold(a, b)')
        <5>1. paused'[a][b] = pd /\ pfcWire'[a][b] = s
          BY <1>4, <1>8, <2>3, <4>2 DEF CheckAndSendPfc
        <5>2. pd \/ ~(h2 > 0)
          BY <4>2 DEF OverThreshold
        <5>3. pd \/ h2 = 0
          <6> HIDE DEF h2, pd
          <6> QED
            BY <1>1, <5>2
        <5> QED
          BY <5>1, <5>3
      <4> QED
        BY <4>1, <4>2
    <3>3. pd = TRUE \/ pd = FALSE
      BY <1>1
    <3>4. h2 \in Nat /\ h2 = hdrm_bytes'[a][b]
      BY <1>1
    <3> HIDE DEF h, h2, pd, w, s
    <3>5. /\ pd => Fits(m, h2, pd, w - 1, s)
          /\ h2 = 0 => Fits(m, h2, FALSE, w - 1, s)
          /\ ~pd => Fits(m, h2, TRUE, w - 1, Append(s, [pause |-> TRUE, age |-> 0]))
      BY <1>1, <2>1, <3>1, <3>4, FitsArrive
    <3> HIDE DEF Fits
    <3> QED
      BY <2>1, <3>1, <3>2, <3>3, <3>4, <3>5
  <2> QED
    BY <1>2, <2>2, <2>3 DEF Drop, Admit, mmuVars, ingressVars
<1>9. CASE a # in \/ b # f
  <2>1. wire'[a][b] = wire[a][b]
    BY <1>5, <1>6, <1>9
  <2>2. paused'[a][b] = pd /\ pfcWire'[a][b] = s
    <3>1. CASE UNCHANGED <<paused, pfcWire>>
      BY <3>1
    <3>2. CASE CheckAndSendPfc(in, f)
      <4>1. /\ pfcWire \in [Port -> [Fine -> Seq(Frame)]]
            /\ paused \in [Port -> [Fine -> BOOLEAN]]
        BY DEF LossInv, TypeOK
      <4>2. \/ UNCHANGED <<pfcWire, paused>>
            \/ /\ pfcWire' = [pfcWire EXCEPT ![in][f]
                                = Append(pfcWire[in][f], [pause |-> TRUE, age |-> 0])]
               /\ paused' = [paused EXCEPT ![in][f] = TRUE]
        BY <3>2 DEF CheckAndSendPfc, SendPfc
      <4> QED
        BY <1>9, <4>1, <4>2
    <3> QED
      BY <1>2, <1>4, <3>1, <3>2 DEF Drop, Admit, mmuVars
  <2>3. h2 = h
    <3>1. CASE UNCHANGED hdrm_bytes
      BY <3>1
    <3>2. CASE UpdateIngressAdmission(p.in, FineOf(p), p.size)
      BY <1>4, <1>9, <3>2, HeadroomChange DEF LossInv
    <3> QED
      BY <1>2, <3>1, <3>2 DEF Drop, Admit, mmuVars, ingressVars
  <2> QED
    BY <1>1, <2>1, <2>2, <2>3
<1> QED
  BY <1>8, <1>9

\* A packet leaves the switch.
LEMMA LeaveFits ==
  ASSUME NEW m \in Nat, LossInv(m), TypeOK',
         NEW out \in Port, NEW q \in Queue, Dequeue(out, q),
         NEW a \in Port, NEW b \in Fine
  PROVE  Fits(m, hdrm_bytes'[a][b], paused'[a][b], Len(wire'[a][b]), pfcWire'[a][b])
<1> DEFINE h == hdrm_bytes[a][b]
           h2 == hdrm_bytes'[a][b]
           pd == paused[a][b]
           w == Len(wire[a][b])
           s == pfcWire[a][b]
           t == pfcWire'[a][b]
<1>1. /\ h \in Nat /\ h2 \in Nat /\ pd \in BOOLEAN /\ w \in Nat /\ s \in Seq(Frame)
      /\ Fits(m, h, pd, w, s)
  <2>1. wire[a][b] \in Seq(Packet) /\ h \in Nat /\ pd \in BOOLEAN /\ s \in Seq(Frame)
    BY DEF LossInv, TypeOK
  <2>2. h2 \in Nat
    BY DEF TypeOK
  <2> QED
    BY <2>1, <2>2 DEF LossInv, HeadroomFits
<1>2. PICK p \in Packet :
        \/ UNCHANGED <<ingressVars, paused, pfcWire>>
        \/ /\ RemoveFromIngressAdmission(p.in, FineOf(p), p.size)
           /\ CheckAndSendResume(p.in, FineOf(p))
  BY DEF Dequeue
<1>3. wire' = wire
  BY DEF Dequeue
<1>4. h2 <= h
  <2>1. CASE UNCHANGED hdrm_bytes
    BY <1>1, <2>1
  <2>2. CASE RemoveFromIngressAdmission(p.in, FineOf(p), p.size)
    <3>1. h2 <= h \/ h2 = h
      BY <2>2, HeadroomChange DEF LossInv
    <3> HIDE DEF h, h2
    <3> QED
      BY <1>1, <3>1
  <2> QED
    BY <1>2, <2>1, <2>2 DEF ingressVars
<1>5. \/ paused'[a][b] = pd /\ t = s
      \/ paused'[a][b] = FALSE /\ h2 = 0
  <2>1. CASE UNCHANGED <<paused, pfcWire>>
    BY <2>1
  <2>2. CASE CheckAndSendResume(p.in, FineOf(p))
    <3>1. /\ pfcWire \in [Port -> [Fine -> Seq(Frame)]]
          /\ paused \in [Port -> [Fine -> BOOLEAN]]
      BY DEF LossInv, TypeOK
    <3> DEFINE in == p.in
               f == FineOf(p)
    <3>2. \/ UNCHANGED <<pfcWire, paused>>
          \/ /\ UnderThreshold(in, f)'
             /\ pfcWire' = [pfcWire EXCEPT ![in][f]
                              = Append(pfcWire[in][f], [pause |-> FALSE, age |-> 0])]
             /\ paused' = [paused EXCEPT ![in][f] = FALSE]
      BY <2>2 DEF CheckAndSendResume, SendPfc
    <3>3. UnderThreshold(in, f)' => hdrm_bytes'[in][f] = 0
      BY DEF UnderThreshold
    <3>4. in \in Port /\ f \in Fine
      BY HopTypes
    <3> HIDE DEF in, f
    <3>5. CASE UNCHANGED <<pfcWire, paused>>
      BY <3>5
    <3>6. CASE /\ UnderThreshold(in, f)'
               /\ pfcWire' = [pfcWire EXCEPT ![in][f]
                                = Append(pfcWire[in][f], [pause |-> FALSE, age |-> 0])]
               /\ paused' = [paused EXCEPT ![in][f] = FALSE]
      <4>1. CASE in = a /\ f = b
        <5>1. paused'[a][b] = FALSE
          BY <3>1, <3>6, <4>1
        <5> QED
          BY <3>3, <3>6, <4>1, <5>1
      <4>2. CASE in # a \/ f # b
        BY <3>1, <3>4, <3>6, <4>2
      <4> QED
        BY <4>1, <4>2
    <3> QED
      BY <3>2, <3>5, <3>6
  <2> QED
    BY <1>2, <2>1, <2>2
<1>6. /\ Fits(m, h2, pd, w, s)
      /\ h2 = 0 => Fits(m, h2, FALSE, w, t)
  <2> HIDE DEF h, h2, pd, w, s, t
  <2> QED
    BY <1>1, <1>4, FitsLeave
<1> QED
  BY <1>3, <1>5, <1>6

\* The other steps, on one ingress.
LEMMA LinkFits ==
  ASSUME NEW m \in Nat, LossInv(m),
         \/ \E p \in Packet : UpstreamSend(p)
         \/ \E in \in Port, f \in Fine : ReceivePfc(in, f),
         NEW a \in Port, NEW b \in Fine
  PROVE  Fits(m, hdrm_bytes'[a][b], paused'[a][b], Len(wire'[a][b]), pfcWire'[a][b])
<1> DEFINE h == hdrm_bytes[a][b]
           pd == paused[a][b]
           w == Len(wire[a][b])
           s == pfcWire[a][b]
<1>1. /\ h \in Nat /\ pd \in BOOLEAN /\ w \in Nat /\ s \in Seq(Frame)
      /\ Fits(m, h, pd, w, s)
      /\ Alternate(s, upstreamPaused[a][b], pd)
  <2>1. wire[a][b] \in Seq(Packet) /\ h \in Nat /\ pd \in BOOLEAN /\ s \in Seq(Frame)
    BY DEF LossInv, TypeOK
  <2> QED
    BY <2>1 DEF LossInv, HeadroomFits, Alternating
<1>2. hdrm_bytes' = hdrm_bytes /\ paused' = paused
  BY DEF UpstreamSend, ReceivePfc, mmuVars
<1>3. /\ wire \in [Port -> [Fine -> Seq(Packet)]]
      /\ pfcWire \in [Port -> [Fine -> Seq(Frame)]]
  BY DEF LossInv, TypeOK
<1>4. ASSUME NEW p \in Packet, UpstreamSend(p)
      PROVE  Fits(m, h, pd, Len(wire'[a][b]), pfcWire'[a][b])
  <2> DEFINE in == p.in
             f == FineOf(p)
  <2>1. /\ in \in Port /\ f \in Fine
        /\ ~upstreamPaused[in][f] /\ Len(wire[in][f]) < WireCap
        /\ wire' = [wire EXCEPT ![in][f] = Append(wire[in][f], p)]
        /\ pfcWire' = [pfcWire EXCEPT ![in][f] = Aged(pfcWire[in][f])]
    BY <1>4, HopTypes DEF UpstreamSend
  <2> HIDE DEF in, f
  <2>2. CASE in = a /\ f = b
    <3>1. Len(wire'[a][b]) = w + 1 /\ pfcWire'[a][b] = Aged(s) /\ w < WireCap
      BY <1>3, <2>1, <2>2
    <3>2. pd => s # <<>>
      BY <1>1, <2>1, <2>2 DEF Alternate
    <3> HIDE DEF h, pd, w, s
    <3> QED
      BY <1>1, <3>1, <3>2, FitsSend
  <2>3. CASE in # a \/ f # b
    <3>1. wire'[a][b] = wire[a][b] /\ pfcWire'[a][b] = s
      BY <1>3, <2>1, <2>3
    <3> QED
      BY <1>1, <3>1
  <2> QED
    BY <2>2, <2>3
<1>5. ASSUME NEW in \in Port, NEW f \in Fine, ReceivePfc(in, f)
      PROVE  Fits(m, h, pd, Len(wire'[a][b]), pfcWire'[a][b])
  <2>1. wire' = wire /\ pfcWire' = [pfcWire EXCEPT ![in][f] = Tail(pfcWire[in][f])]
        /\ pfcWire[in][f] # <<>>
    BY <1>5 DEF ReceivePfc
  <2>2. CASE in = a /\ f = b
    <3>1. pfcWire'[a][b] = Tail(s) /\ s # <<>> /\ Len(wire'[a][b]) = w
      BY <1>3, <2>1, <2>2
    <3> HIDE DEF h, pd, w, s
    <3> QED
      BY <1>1, <3>1, FitsReceive
  <2>3. CASE in # a \/ f # b
    <3>1. wire'[a][b] = wire[a][b] /\ pfcWire'[a][b] = s
      BY <1>3, <2>1, <2>3
    <3> QED
      BY <1>1, <3>1
  <2> QED
    BY <2>2, <2>3
<1> QED
  BY <1>2, <1>4, <1>5

\* Packets stay on their own link.
LEMMA OwnWireStep == TypeOK /\ OwnWire /\ [Next]_vars => OwnWire'
<1> SUFFICES ASSUME TypeOK, OwnWire, [Next]_vars, NEW in \in Port, NEW f \in Fine,
                    NEW i \in 1 .. Len(wire'[in][f])
             PROVE  wire'[in][f][i].in = in /\ FineOf(wire'[in][f][i]) = f
  BY DEF OwnWire, FineOf
<1>1. wire \in [Port -> [Fine -> Seq(Packet)]]
  BY DEF TypeOK
<1> DEFINE s == wire[in][f]
<1>2. s \in Seq(Packet) /\ \A j \in 1 .. Len(s) : s[j].in = in /\ FineOf(s[j]) = f
  BY <1>1 DEF OwnWire
<1>3. ASSUME NEW p \in Packet, UpstreamSend(p)
      PROVE  wire'[in][f] = s \/ (wire'[in][f] = Append(s, p) /\ p.in = in /\ FineOf(p) = f)
  BY <1>1, <1>3, HopTypes DEF UpstreamSend
<1>4. ASSUME NEW a \in Port, NEW b \in Fine, SendToDev(a, b)
      PROVE  wire'[in][f] = s \/ (wire'[in][f] = Tail(s) /\ s # <<>>)
  BY <1>1, <1>4 DEF SendToDev
<1>5. CASE wire' = wire
  BY <1>2, <1>5
<1>6. ASSUME NEW p \in Packet, wire'[in][f] = Append(s, p), p.in = in, FineOf(p) = f
      PROVE  wire'[in][f][i].in = in /\ FineOf(wire'[in][f][i]) = f
  <2> DEFINE n == Len(s)
  <2>1. n \in Nat /\ (i \in 1 .. n \/ i = n + 1)
    BY <1>2, <1>6
  <2>2. i \in 1 .. n => wire'[in][f][i] = s[i]
    BY <1>2, <1>6
  <2>3. i = n + 1 => wire'[in][f][i] = p
    BY <1>2, <1>6
  <2> QED
    BY <1>2, <1>6, <2>1, <2>2, <2>3
<1>7. CASE wire'[in][f] = Tail(s) /\ s # <<>>
  <2>1. i + 1 \in 1 .. Len(s) /\ wire'[in][f][i] = s[i + 1]
    BY <1>2, <1>7
  <2> QED
    BY <1>2, <2>1
<1>8. \/ wire' = wire
      \/ \E p \in Packet : UpstreamSend(p)
      \/ \E a \in Port, b \in Fine : SendToDev(a, b)
  BY DEF Next, vars, linkVars, ReceivePfc, Dequeue, SwitchReceivePause, SwitchReceiveResume
<1> QED
  BY <1>2, <1>3, <1>4, <1>5, <1>6, <1>7, <1>8

\* With headroom for what the link holds and what can be sent while a pause
\* travels, CheckIngressAdmission never drops a packet, whatever the sizes,
\* the thresholds and the number of ports (NoHeadroomDrop).
THEOREM Lossless ==
  ASSUME NEW m \in Nat,
         \A p \in Packet : p.size <= m /\ m * (WireCap + FrameDelay) <= Headroom[p.in]
  PROVE  Spec => []NoHeadroomDrop
<1>0. \A p \in Packet : p.size <= m
  OBVIOUS
<1>1. Init => OwnWire /\ HeadroomFits(m) /\ NoHeadroomDrop
  <2> SUFFICES ASSUME Init PROVE OwnWire /\ HeadroomFits(m) /\ NoHeadroomDrop
    OBVIOUS
  <2>1. ASSUME NEW in \in Port, NEW f \in Fine
        PROVE  /\ hdrm_bytes[in][f] = 0 /\ paused[in][f] = FALSE
               /\ wire[in][f] = <<>> /\ pfcWire[in][f] = <<>>
    BY DEF Init, MmuInit
  <2>2. Len(<<>>) = 0 /\ 1 .. 0 = {} /\ 0 <= WireCap
    BY HopTypes
  <2>3. OwnWire
    <3> SUFFICES ASSUME NEW in \in Port, NEW f \in Fine, NEW i \in 1 .. Len(wire[in][f])
                 PROVE  FALSE
      BY DEF OwnWire
    <3> QED
      BY <2>1, <2>2
  <2>4. HeadroomFits(m)
    <3> SUFFICES ASSUME NEW in \in Port, NEW f \in Fine
                 PROVE  Fits(m, hdrm_bytes[in][f], paused[in][f],
                             Len(wire[in][f]), pfcWire[in][f])
      BY DEF HeadroomFits
    <3> QED
      BY <2>1, <2>2 DEF Fits
  <2>5. NoHeadroomDrop
    BY DEF NoHeadroomDrop, Init
  <2> QED
    BY <2>3, <2>4, <2>5
<1>2. TypeOK /\ TypeOK' /\ Alternating /\ OwnWire /\ HeadroomFits(m)
      /\ NoHeadroomDrop /\ [Next]_vars
        => OwnWire' /\ HeadroomFits(m)' /\ NoHeadroomDrop'
  <2> SUFFICES ASSUME TypeOK, TypeOK', Alternating, OwnWire, HeadroomFits(m),
                      NoHeadroomDrop, [Next]_vars
               PROVE  OwnWire' /\ HeadroomFits(m)' /\ NoHeadroomDrop'
    OBVIOUS
  <2>1. LossInv(m)
    BY DEF LossInv
  <2>2. OwnWire'
    BY OwnWireStep
  <2>3. HeadroomFits(m)'
    <3> SUFFICES ASSUME NEW a \in Port, NEW b \in Fine
                 PROVE  Fits(m, hdrm_bytes'[a][b], paused'[a][b],
                             Len(wire'[a][b]), pfcWire'[a][b])
      BY DEF HeadroomFits, Fits, Room
    <3>1. CASE \E p \in Packet : UpstreamSend(p)
      BY <2>1, <3>1, LinkFits
    <3>2. CASE \E in \in Port, f \in Fine : ReceivePfc(in, f)
      BY <2>1, <3>2, LinkFits
    <3>3. CASE \E in \in Port, f \in Fine : SendToDev(in, f)
      BY <1>0, <2>1, <3>3, ArriveFits
    <3>4. CASE \E out \in Port, q \in Queue : Dequeue(out, q)
      BY <2>1, <3>4, LeaveFits
    <3>5. CASE UNCHANGED <<hdrm_bytes, paused, wire, pfcWire>>
      BY <3>5 DEF HeadroomFits
    <3> QED
      BY <3>1, <3>2, <3>3, <3>4, <3>5
      DEF Next, SwitchReceivePause, SwitchReceiveResume, vars, mmuVars, linkVars
  <2>4. NoHeadroomDrop'
    <3>1. ASSUME NEW in \in Port, NEW f \in Fine, SendToDev(in, f) PROVE NoHeadroomDrop'
      <4>1. PICK p \in Packet :
              /\ p = Head(wire[in][f])
              /\ \/ ~IngressAdmits(p) /\ Drop("headroom")
                 \/ Drop("egress")
                 \/ Admit(p)
        BY <3>1 DEF SendToDev
      <4>2. wire[in][f] \in Seq(Packet) /\ wire[in][f] # <<>>
        BY <3>1 DEF SendToDev, TypeOK
      <4>3. p.in = in /\ FineOf(p) = f
        <5>1. p = wire[in][f][1] /\ 1 \in 1 .. Len(wire[in][f])
          BY <4>1, <4>2
        <5> QED
          BY <5>1 DEF OwnWire
      <4>4. IngressAdmits(p)
        <5> DEFINE h == hdrm_bytes[in][f]
                   w == Len(wire[in][f])
                   z == m * (WireCap + FrameDelay)
        <5>1. /\ h \in Nat /\ paused[in][f] \in BOOLEAN /\ pfcWire[in][f] \in Seq(Frame)
              /\ w \in Nat \ {0}
          BY <4>2 DEF TypeOK
        <5>2. Fits(m, h, paused[in][f], w, pfcWire[in][f])
          BY DEF HeadroomFits
        <5> HIDE DEF h, w
        <5>3. m + h <= z
          BY <5>1, <5>2, FitsAdmit
        <5>4. p.size \in Nat /\ p.size <= m /\ z <= Headroom[in]
          BY <4>3, HopTypes
        <5>5. z \in Int /\ Headroom[in] \in Nat
          BY HopTypes, MmuTypes
        <5> HIDE DEF z
        <5>6. p.size + h <= Headroom[in]
          BY <5>1, <5>3, <5>4, <5>5
        <5> QED
          BY <4>3, <5>6 DEF IngressAdmits, CheckIngressAdmission, h
      <4>5. dropped' = dropped \cup {"egress"} \/ dropped' = dropped
        BY <4>1, <4>4 DEF Drop, Admit
      <4>6. "headroom" # "egress"
        OBVIOUS
      <4> QED
        BY <4>5, <4>6 DEF NoHeadroomDrop
    <3>2. CASE UNCHANGED dropped
      BY <3>2 DEF NoHeadroomDrop
    <3> QED
      BY <3>1, <3>2
      DEF Next, UpstreamSend, ReceivePfc, Dequeue, SwitchReceivePause,
          SwitchReceiveResume, vars
  <2> QED
    BY <2>2, <2>3, <2>4
<1>3. Spec => []Alternating
  <2>1. TypeOK /\ FramesAlternate => Alternating
    BY AlternatingIs
  <2> QED
    BY <2>1, TypeCorrect, FramesAlternateCorrect, PTL
<1> QED
  BY <1>1, <1>2, <1>3, TypeCorrect, PTL DEF Spec

-----------------------------------------------------------------------------
(***************************************************************************)
(* The bytes of one queue.                                                 *)
(***************************************************************************)
SizesOf(s, S) == [i \in DOMAIN s |-> IF s[i] \in S THEN s[i].size ELSE 0]
SizeIn(p, S) == IF p \in S THEN p.size ELSE 0

LEMMA SizesType ==
  ASSUME NEW s \in Seq(Packet), NEW S
  PROVE  /\ SizesOf(s, S) \in [1 .. Len(s) -> Nat]
         /\ SizesOf(s, S) \in [1 .. Len(s) -> Int]
         /\ SeqBytes(s, S) = CellSum(SizesOf(s, S))
         /\ SeqBytes(s, S) \in Nat
<1>1. \A i \in 1 .. Len(s) : s[i] \in Packet /\ s[i].size \in Nat
  BY HopTypes
<1>2. DOMAIN s = 1 .. Len(s)
  OBVIOUS
<1>3. SizesOf(s, S) \in [1 .. Len(s) -> Nat] /\ SizesOf(s, S) \in [1 .. Len(s) -> Int]
  BY <1>1, <1>2 DEF SizesOf
<1>4. IsFiniteSet(1 .. Len(s))
  BY FS_Interval
<1>5. CellSum(SizesOf(s, S)) \in Nat
  BY <1>3, <1>4, CellsFinite
<1>6. SeqBytes(s, S) = CellSum(SizesOf(s, S))
  BY DEF SeqBytes, SizesOf
<1> QED
  BY <1>3, <1>5, <1>6

\* The weight of a packet, for the sums over a queue.
LEMMA SizesAre ==
  ASSUME NEW s \in Seq(Packet), NEW S
  PROVE  /\ [p \in Packet |-> SizeIn(p, S)] \in [Packet -> Nat]
         /\ SeqBytes(s, S) = CellSum(Weights(s, [p \in Packet |-> SizeIn(p, S)]))
<1> DEFINE w == [p \in Packet |-> SizeIn(p, S)]
<1>1. w \in [Packet -> Nat]
  BY HopTypes DEF SizeIn
<1>2. \A i \in DOMAIN s : s[i] \in Packet /\ w[s[i]] = IF s[i] \in S THEN s[i].size ELSE 0
  BY DEF SizeIn
<1> HIDE DEF w
<1>3. Weights(s, w) = SizesOf(s, S)
  BY <1>2 DEF Weights, SizesOf
<1> QED
  BY <1>1, <1>3, SizesType DEF w

\* A packet at the end of a queue adds its bytes.
LEMMA BytesAppend ==
  ASSUME NEW s \in Seq(Packet), NEW p \in Packet, NEW S
  PROVE  SeqBytes(Append(s, p), S) = SeqBytes(s, S) + SizeIn(p, S)
<1> DEFINE w == [x \in Packet |-> SizeIn(x, S)]
<1>1. Append(s, p) \in Seq(Packet) /\ w[p] = SizeIn(p, S)
  OBVIOUS
<1>2. w \in [Packet -> Nat] /\ SeqBytes(s, S) = CellSum(Weights(s, w))
      /\ SeqBytes(Append(s, p), S) = CellSum(Weights(Append(s, p), w))
  BY <1>1, SizesAre
<1> HIDE DEF w
<1> QED
  BY <1>1, <1>2, SumAppend

\* The packet at the head of a queue takes its bytes with it.
LEMMA BytesTail ==
  ASSUME NEW s \in Seq(Packet), s # << >>, NEW S
  PROVE  SeqBytes(s, S) = SeqBytes(Tail(s), S) + SizeIn(Head(s), S)
<1> DEFINE w == [x \in Packet |-> SizeIn(x, S)]
<1>1. Tail(s) \in Seq(Packet) /\ w[Head(s)] = SizeIn(Head(s), S)
  OBVIOUS
<1>2. w \in [Packet -> Nat] /\ SeqBytes(s, S) = CellSum(Weights(s, w))
      /\ SeqBytes(Tail(s), S) = CellSum(Weights(Tail(s), w))
  BY <1>1, SizesAre
<1> HIDE DEF w
<1> QED
  BY <1>1, <1>2, SumTail

(***************************************************************************)
(* The bytes of all queues.                                                *)
(***************************************************************************)
BytesOf(queues, S) == [c \in Port \X Queue |-> SeqBytes(queues[c[1]][c[2]], S)]

\* A change of one queue changes the sum by the change of its bytes.
LEMMA QueueChange ==
  ASSUME NEW g \in [Port -> [Queue -> Seq(Packet)]], NEW out \in Port, NEW q \in Queue,
         NEW t \in Seq(Packet), NEW S
  PROVE  /\ CellSum(BytesOf([g EXCEPT ![out][q] = t], S))
              = CellSum(BytesOf(g, S)) + (SeqBytes(t, S) - SeqBytes(g[out][q], S))
         /\ CellSum(BytesOf(g, S)) \in Nat
<1> DEFINE I == Port \X Queue
           h == [g EXCEPT ![out][q] = t]
           b == SeqBytes(t, S)
<1>1. IsFiniteSet(I) /\ <<out, q>> \in I
  BY MmuTypes, FS_Product
<1>2. /\ h \in [Port -> [Queue -> Seq(Packet)]] /\ h[out][q] = t
      /\ \A c \in Port, d \in Queue : c # out \/ d # q => h[c][d] = g[c][d]
  BY Update2
<1>3. b \in Nat
  BY SizesType
<1> HIDE DEF h, b
<1>4. BytesOf(g, S) \in [I -> Nat] /\ BytesOf(h, S) \in [I -> Nat]
  <2>1. ASSUME NEW k \in [Port -> [Queue -> Seq(Packet)]] PROVE BytesOf(k, S) \in [I -> Nat]
    BY SizesType DEF BytesOf
  <2> QED
    BY <1>2, <2>1
<1>5. BytesOf(h, S) = [BytesOf(g, S) EXCEPT ![<<out, q>>] = b]
  <2> DEFINE k == [BytesOf(g, S) EXCEPT ![<<out, q>>] = b]
  <2>1. k \in [I -> Nat]
    BY <1>3, <1>4
  <2>2. ASSUME NEW c \in Port, NEW d \in Queue PROVE BytesOf(h, S)[<<c, d>>] = k[<<c, d>>]
    <3>1. CASE c = out /\ d = q
      BY <1>2, <1>4, <3>1 DEF BytesOf, b
    <3>2. CASE c # out \/ d # q
      <4>1. <<c, d>> # <<out, q>> /\ <<c, d>> \in I
        BY <3>2
      <4> QED
        BY <1>2, <1>4, <3>2, <4>1 DEF BytesOf
    <3> QED
      BY <3>1, <3>2
  <2>3. \A c \in I : BytesOf(h, S)[c] = k[c]
    BY <2>2
  <2> HIDE DEF k, I
  <2> QED
    BY <1>4, <2>1, <2>3 DEF k
<1>6. BytesOf(g, S)[<<out, q>>] = SeqBytes(g[out][q], S)
  BY DEF BytesOf
<1>7. CellSum([BytesOf(g, S) EXCEPT ![<<out, q>>] = b])
        = CellSum(BytesOf(g, S)) + (b - BytesOf(g, S)[<<out, q>>])
  <2> HIDE DEF I
  <2> QED
    BY <1>1, <1>3, <1>4, CellsChange
<1>8. CellSum(BytesOf(g, S)) \in Nat
  <2>1. BytesOf(g, S) \in [I -> Int]
    BY <1>4
  <2> HIDE DEF I
  <2> QED
    BY <1>1, <2>1, CellsFinite
<1> QED
  BY <1>5, <1>6, <1>7, <1>8 DEF h, b

\* What an admission and a dequeue do to the bytes of the packets in S.
LEMMA QueuedAdmit ==
  ASSUME TypeOK, NEW p \in Packet, Admit(p), NEW S
  PROVE  /\ QueuedBytes(S) \in Nat
         /\ CellSum(BytesOf(m_queue', S)) = QueuedBytes(S) + SizeIn(p, S)
<1> DEFINE s == m_queue[p.out][p.q]
           t == Append(s, p)
<1>1. /\ p.out \in Port /\ p.q \in Queue /\ m_queue \in [Port -> [Queue -> Seq(Packet)]]
      /\ s \in Seq(Packet) /\ t \in Seq(Packet)
  BY HopTypes DEF TypeOK
<1>2. m_queue' = [m_queue EXCEPT ![p.out][p.q] = t]
  BY DEF Admit
<1>3. SeqBytes(t, S) = SeqBytes(s, S) + SizeIn(p, S)
  <2> HIDE DEF s
  <2> QED
    BY <1>1, BytesAppend
<1>4. /\ CellSum(BytesOf([m_queue EXCEPT ![p.out][p.q] = t], S))
            = CellSum(BytesOf(m_queue, S)) + (SeqBytes(t, S) - SeqBytes(s, S))
      /\ CellSum(BytesOf(m_queue, S)) \in Nat
  <2> HIDE DEF t
  <2> QED
    BY <1>1, QueueChange
<1>5. QueuedBytes(S) = CellSum(BytesOf(m_queue, S))
  BY DEF QueuedBytes, BytesOf
<1>6. SeqBytes(s, S) \in Nat /\ SizeIn(p, S) \in Nat
  BY <1>1, SizesType, HopTypes DEF SizeIn
<1> HIDE DEF s, t
<1> QED
  BY <1>2, <1>3, <1>4, <1>5, <1>6

LEMMA QueuedDequeue ==
  ASSUME TypeOK, NEW out \in Port, NEW q \in Queue, Dequeue(out, q), NEW S
  PROVE  /\ CellSum(BytesOf(m_queue', S)) \in Nat
         /\ QueuedBytes(S) = CellSum(BytesOf(m_queue', S)) + SizeIn(Head(m_queue[out][q]), S)
<1> DEFINE s == m_queue[out][q]
           t == Tail(s)
<1>1. /\ m_queue \in [Port -> [Queue -> Seq(Packet)]] /\ s # << >>
      /\ s \in Seq(Packet) /\ t \in Seq(Packet) /\ Head(s) \in Packet
  BY DEF TypeOK, Dequeue
<1>2. m_queue' = [m_queue EXCEPT ![out][q] = t]
  BY DEF Dequeue
<1>3. SeqBytes(s, S) = SeqBytes(t, S) + SizeIn(Head(s), S)
  <2> HIDE DEF s
  <2> QED
    BY <1>1, BytesTail
<1>4. /\ CellSum(BytesOf([m_queue EXCEPT ![out][q] = t], S))
            = CellSum(BytesOf(m_queue, S)) + (SeqBytes(t, S) - SeqBytes(s, S))
      /\ CellSum(BytesOf(m_queue, S)) \in Nat
  <2> HIDE DEF t
  <2> QED
    BY <1>1, QueueChange
<1>5. QueuedBytes(S) = CellSum(BytesOf(m_queue, S))
  BY DEF QueuedBytes, BytesOf
<1>6. SeqBytes(s, S) \in Nat /\ SeqBytes(t, S) \in Nat /\ SizeIn(Head(s), S) \in Nat
  BY <1>1, SizesType, HopTypes DEF SizeIn
<1>7. CellSum(BytesOf(m_queue', S)) \in Nat
  <2>1. m_queue' \in [Port -> [Queue -> Seq(Packet)]]
    BY <1>1, <1>2, Update2
  <2>2. m_queue'[out][q] \in Seq(Packet)
    BY <2>1
  <2> QED
    BY <2>1, <2>2, QueueChange
<1> HIDE DEF s, t
<1> QED
  BY <1>2, <1>3, <1>4, <1>5, <1>6, <1>7 DEF s

(***************************************************************************)
(* What is charged to an ingress, to the reserve, the shared buffer or the *)
(* headroom.                                                               *)
(***************************************************************************)
Charged(in, f) == ingress_bytes[in][f] + hdrm_bytes[in][f]

LEMMA ChargedChange ==
  ASSUME TypeOK, NEW p \in Packet, NEW in \in Port, NEW f \in Fine
  PROVE  /\ UpdateIngressAdmission(p.in, FineOf(p), p.size) =>
              Charged(in, f)' = Charged(in, f)
                + (IF in = p.in /\ f = FineOf(p) THEN p.size ELSE 0)
         /\ RemoveFromIngressAdmission(p.in, FineOf(p), p.size) =>
              Charged(in, f)' = Charged(in, f)
                - (IF in = p.in /\ f = FineOf(p) THEN p.size ELSE 0)
<1> DEFINE i == p.in
           g == FineOf(p)
           x == ingress_bytes[i][g]
           h == hdrm_bytes[i][g]
           z == p.size
           least == Least(h, z)
<1>1. /\ ingress_bytes \in [Port -> [Fine -> Int]] /\ hdrm_bytes \in [Port -> [Fine -> Nat]]
      /\ i \in Port /\ g \in Fine /\ z \in Nat /\ x \in Int /\ h \in Nat
      /\ ingress_bytes[in][f] \in Int /\ hdrm_bytes[in][f] \in Nat
  <2>1. i \in Port /\ g \in Fine /\ z \in Nat
    BY HopTypes
  <2>2. ingress_bytes \in [Port -> [Fine -> Int]] /\ hdrm_bytes \in [Port -> [Fine -> Nat]]
    BY DEF TypeOK
  <2> HIDE DEF i, g, z
  <2> QED
    BY <2>1, <2>2
<1>2. least \in Int
  <2> HIDE DEF h, z
  <2> QED
    BY <1>1 DEF Least
<1>3. /\ UpdateIngressAdmission(i, g, z) =>
           \/ hdrm_bytes' = [hdrm_bytes EXCEPT ![i][g] = h + z] /\ ingress_bytes' = ingress_bytes
           \/ ingress_bytes' = [ingress_bytes EXCEPT ![i][g] = x + z] /\ hdrm_bytes' = hdrm_bytes
      /\ RemoveFromIngressAdmission(i, g, z) =>
           /\ hdrm_bytes' = [hdrm_bytes EXCEPT ![i][g] = h - least]
           /\ ingress_bytes' = [ingress_bytes EXCEPT ![i][g] = x - (z - least)]
  BY DEF UpdateIngressAdmission, RemoveFromIngressAdmission
<1>4. ASSUME NEW v, NEW w
      PROVE  /\ [hdrm_bytes EXCEPT ![i][g] = v][in][f] = (IF in = i /\ f = g THEN v ELSE hdrm_bytes[in][f])
             /\ [ingress_bytes EXCEPT ![i][g] = w][in][f] = (IF in = i /\ f = g THEN w ELSE ingress_bytes[in][f])
  <2> HIDE DEF i, g
  <2> QED
    BY <1>1
<1>5. in = i /\ f = g => ingress_bytes[in][f] = x /\ hdrm_bytes[in][f] = h
  OBVIOUS
<1>6. CASE in = i /\ f = g
  <2> HIDE DEF i, g, x, h, z, least
  <2> QED
    BY <1>1, <1>2, <1>3, <1>4, <1>5, <1>6 DEF Charged, i, g, z
<1>7. CASE ~ (in = i /\ f = g)
  <2> HIDE DEF i, g, x, h, z, least
  <2> QED
    BY <1>1, <1>2, <1>3, <1>4, <1>7 DEF Charged, i, g, z
<1> QED
  BY <1>6, <1>7

(***************************************************************************)
(* The counters are exact.                                                 *)
(***************************************************************************)

\* A packet waits in the queue it was switched to.
OwnQueue ==
  \A out \in Port, q \in Queue : \A i \in 1 .. Len(m_queue[out][q]) :
    m_queue[out][q][i].out = out /\ m_queue[out][q][i].q = q

AccountingInv == TypeOK /\ OwnQueue /\ AccountingExact

\* AccountingExact with the queues as a parameter.
ExactFor(queues) ==
  /\ \A in \in Port, f \in Fine : Charged(in, f) = CellSum(BytesOf(queues, ChargedTo(in, f)))
  /\ \A in, out \in Port, q \in Queue :
       m_bytes[in][out][q] = CellSum(BytesOf(queues, Through(in, out, q)))
  /\ \A out \in Port, q \in Queue :
       egress_bytes[out][q] = CellSum(BytesOf(queues, Leaving(out, q)))

LEMMA ExactIs == AccountingExact <=> ExactFor(m_queue)
BY DEF AccountingExact, ExactFor, QueuedBytes, BytesOf, Charged

LEMMA ExactInit == Init => OwnQueue /\ AccountingExact
<1> SUFFICES ASSUME Init PROVE OwnQueue /\ AccountingExact
  OBVIOUS
<1>1. m_queue = [d \in Port |-> [q \in Queue |-> << >>]]
  BY DEF Init
<1>2. OwnQueue
  BY <1>1 DEF OwnQueue
<1>3. ASSUME NEW S PROVE QueuedBytes(S) = 0
  <2> DEFINE n == [c \in Port \X Queue |-> SeqBytes(m_queue[c[1]][c[2]], S)]
  <2>1. ASSUME NEW c \in Port \X Queue PROVE n[c] = 0
    <3>1. m_queue[c[1]][c[2]] = << >>
      BY <1>1
    <3>2. SeqBytes(<< >>, S) = 0
      <4> DEFINE e == [i \in DOMAIN << >> |-> IF << >>[i] \in S THEN << >>[i].size ELSE 0]
      <4>1. DOMAIN e = {}
        OBVIOUS
      <4>2. Cells(e) = {}
        <5> HIDE DEF e
        <5> QED
          BY <4>1 DEF Cells
      <4> QED
        BY <4>2, FS_EmptySet DEF SeqBytes, CellSum
    <3> QED
      BY <3>1, <3>2
  <2>2. Cells(n) = {}
    <3>1. DOMAIN n = Port \X Queue
      OBVIOUS
    <3> HIDE DEF n
    <3>2. ASSUME NEW c \in Cells(n) PROVE FALSE
      <4>1. PICK i \in Port \X Queue : c \in {i} \X (1 .. n[i])
        BY <3>1 DEF Cells
      <4> QED
        BY <2>1, <4>1
    <3> QED
      BY <3>2
  <2>3. CellSum(n) = 0
    <3> HIDE DEF n
    <3> QED
      BY <2>2, FS_EmptySet DEF CellSum
  <2> QED
    BY <2>3 DEF QueuedBytes
<1>4. /\ \A in \in Port, f \in Fine : ingress_bytes[in][f] + hdrm_bytes[in][f] = 0
      /\ \A in, out \in Port, q \in Queue : m_bytes[in][out][q] = 0
      /\ \A out \in Port, q \in Queue : egress_bytes[out][q] = 0
  BY DEF Init, MmuInit
<1> QED
  BY <1>2, <1>3, <1>4 DEF AccountingExact

\* A step that leaves the counters and the queues alone, admits or dequeues.
LEMMA QueueStep ==
  ASSUME [Next]_vars
  PROVE  \/ UNCHANGED <<ingress_bytes, hdrm_bytes, egress_bytes, m_bytes, m_queue, paused>>
         \/ \E p \in Packet : Admit(p)
         \/ \E out \in Port, q \in Queue : Dequeue(out, q)
<1>1. CASE \E p \in Packet : UpstreamSend(p)
  BY <1>1 DEF UpstreamSend, mmuVars
<1>2. CASE \E in \in Port, f \in Fine : ReceivePfc(in, f)
  BY <1>2 DEF ReceivePfc, mmuVars
<1>3. CASE \E in \in Port, f \in Fine : SendToDev(in, f)
  <2>1. PICK p \in Packet : Drop("headroom") \/ Drop("egress") \/ Admit(p)
    BY <1>3 DEF SendToDev
  <2> QED
    BY <2>1 DEF Drop, mmuVars
<1>4. CASE \E out \in Port, q \in Queue :
             SwitchReceivePause(out, q) \/ SwitchReceiveResume(out, q)
  BY <1>4 DEF SwitchReceivePause, SwitchReceiveResume, mmuVars
<1>5. CASE UNCHANGED vars
  BY <1>5 DEF vars, mmuVars
<1> QED
  BY <1>1, <1>2, <1>3, <1>4, <1>5 DEF Next

\* Admission: every counter of the packet, and no other, grows by its size.
LEMMA AdmitExact ==
  ASSUME AccountingInv, NEW p \in Packet, Admit(p)
  PROVE  OwnQueue' /\ ExactFor(m_queue)'
<1>1. /\ TypeOK /\ ExactFor(m_queue)
      /\ p.in \in Port /\ p.out \in Port /\ p.q \in Queue /\ FineOf(p) \in Fine /\ p.size \in Nat
  BY ExactIs, HopTypes DEF AccountingInv
<1>2. ASSUME NEW S
      PROVE  CellSum(BytesOf(m_queue', S)) = CellSum(BytesOf(m_queue, S)) + SizeIn(p, S)
  BY <1>1, QueuedAdmit DEF QueuedBytes, BytesOf
<1>3. ASSUME NEW in \in Port, NEW f \in Fine
      PROVE  Charged(in, f)' = CellSum(BytesOf(m_queue', ChargedTo(in, f)))
  <2>1. Charged(in, f) = CellSum(BytesOf(m_queue, ChargedTo(in, f)))
    BY <1>1 DEF ExactFor
  <2>2. CASE Controlled(p)
    <3>1. Charged(in, f)' = Charged(in, f) + (IF in = p.in /\ f = FineOf(p) THEN p.size ELSE 0)
      BY <1>1, <2>2, ChargedChange DEF Admit
    <3>2. SizeIn(p, ChargedTo(in, f)) = IF in = p.in /\ f = FineOf(p) THEN p.size ELSE 0
      BY <2>2 DEF SizeIn, ChargedTo
    <3> QED
      BY <1>2, <2>1, <3>1, <3>2
  <2>3. CASE ~Controlled(p)
    <3>1. Charged(in, f)' = Charged(in, f)
      BY <2>3 DEF Admit, ingressVars, Charged
    <3>2. SizeIn(p, ChargedTo(in, f)) = 0
      BY <2>3 DEF SizeIn, ChargedTo
    <3>3. Charged(in, f) \in Int
      BY <1>1 DEF Charged, TypeOK
    <3> QED
      BY <1>2, <2>1, <3>1, <3>2, <3>3
  <2> QED
    BY <2>2, <2>3
<1>4. ASSUME NEW in \in Port, NEW out \in Port, NEW q \in Queue
      PROVE  m_bytes'[in][out][q] = CellSum(BytesOf(m_queue', Through(in, out, q)))
  <2>1. m_bytes[in][out][q] = CellSum(BytesOf(m_queue, Through(in, out, q)))
    BY <1>1 DEF ExactFor
  <2>2. m_bytes \in [Port -> [Port -> [Queue -> Int]]] /\ m_bytes[in][out][q] \in Int
    <3>1. m_bytes \in [Port -> [Port -> [Queue -> Int]]]
      BY <1>1 DEF TypeOK
    <3> QED
      BY <3>1
  <2>3. m_bytes'[in][out][q] = m_bytes[in][out][q]
          + (IF in = p.in /\ out = p.out /\ q = p.q THEN p.size ELSE 0)
    <3>1. m_bytes' = [m_bytes EXCEPT ![p.in][p.out][p.q] = m_bytes[p.in][p.out][p.q] + p.size]
      BY DEF Admit
    <3> QED
      BY <1>1, <2>2, <3>1
  <2>4. SizeIn(p, Through(in, out, q)) = IF in = p.in /\ out = p.out /\ q = p.q THEN p.size ELSE 0
    BY DEF SizeIn, Through
  <2> QED
    BY <1>2, <2>1, <2>3, <2>4
<1>5. ASSUME NEW out \in Port, NEW q \in Queue
      PROVE  egress_bytes'[out][q] = CellSum(BytesOf(m_queue', Leaving(out, q)))
  <2>1. egress_bytes[out][q] = CellSum(BytesOf(m_queue, Leaving(out, q)))
    BY <1>1 DEF ExactFor
  <2>2. egress_bytes \in [Port -> [Queue -> Int]] /\ egress_bytes[out][q] \in Int
    BY <1>1 DEF TypeOK
  <2>3. egress_bytes'[out][q] = egress_bytes[out][q]
          + (IF out = p.out /\ q = p.q THEN p.size ELSE 0)
    <3>1. egress_bytes' = [egress_bytes EXCEPT ![p.out][p.q] = egress_bytes[p.out][p.q] + p.size]
      BY DEF Admit, UpdateEgressAdmission
    <3> QED
      BY <1>1, <2>2, <3>1
  <2>4. SizeIn(p, Leaving(out, q)) = IF out = p.out /\ q = p.q THEN p.size ELSE 0
    BY DEF SizeIn, Leaving
  <2> QED
    BY <1>2, <2>1, <2>3, <2>4
<1>6. OwnQueue'
  <2> DEFINE s == m_queue[p.out][p.q]
  <2>1. s \in Seq(Packet) /\ m_queue \in [Port -> [Queue -> Seq(Packet)]]
        /\ m_queue' = [m_queue EXCEPT ![p.out][p.q] = Append(s, p)]
    BY <1>1 DEF TypeOK, Admit
  <2>2. ASSUME NEW out \in Port, NEW q \in Queue, NEW i \in 1 .. Len(m_queue'[out][q])
        PROVE  m_queue'[out][q][i].out = out /\ m_queue'[out][q][i].q = q
    <3>1. CASE out = p.out /\ q = p.q
      <4>1. m_queue'[out][q] = Append(s, p)
        BY <1>1, <2>1, <3>1
      <4> HIDE DEF s
      <4>2. i \in 1 .. Len(s) + 1 /\ Len(s) \in Nat
        <5>1. i \in 1 .. Len(Append(s, p))
          BY <4>1
        <5> QED
          BY <2>1, <5>1
      <4>3. CASE i <= Len(s)
        <5>1. Append(s, p)[i] = s[i] /\ i \in 1 .. Len(s)
          BY <2>1, <4>2, <4>3
        <5> QED
          BY <1>1, <3>1, <4>1, <5>1 DEF AccountingInv, OwnQueue, s
      <4>4. CASE i > Len(s)
        <5>1. i = Len(s) + 1 /\ Append(s, p)[Len(s) + 1] = p
          BY <2>1, <4>2, <4>4
        <5> QED
          BY <3>1, <4>1, <5>1
      <4> QED
        BY <4>2, <4>3, <4>4
    <3>2. CASE out # p.out \/ q # p.q
      <4>1. m_queue'[out][q] = m_queue[out][q]
        BY <1>1, <2>1, <3>2
      <4> QED
        BY <2>2, <4>1 DEF AccountingInv, OwnQueue
    <3> QED
      BY <3>1, <3>2
  <2> QED
    BY <2>2 DEF OwnQueue
<1> QED
  BY <1>3, <1>4, <1>5, <1>6 DEF ExactFor, ChargedTo, Through, Leaving, Controlled, FineOf

\* Dequeue: every counter of the packet, and no other, shrinks by its size.
LEMMA DequeueExact ==
  ASSUME AccountingInv, NEW o \in Port, NEW r \in Queue, Dequeue(o, r)
  PROVE  OwnQueue' /\ ExactFor(m_queue)'
<1> DEFINE s == m_queue[o][r]
<1>1. /\ TypeOK /\ ExactFor(m_queue)
      /\ s \in Seq(Packet) /\ s # << >> /\ m_queue \in [Port -> [Queue -> Seq(Packet)]]
      /\ m_queue' = [m_queue EXCEPT ![o][r] = Tail(s)]
  BY ExactIs DEF AccountingInv, TypeOK, Dequeue
<1>2. PICK p \in Packet :
        /\ p = Head(s)
        /\ RemoveFromEgressAdmission(o, r, p.size)
        /\ m_bytes' = [m_bytes EXCEPT ![p.in][o][r] = m_bytes[p.in][o][r] - p.size]
        /\ IF Controlled(p) THEN RemoveFromIngressAdmission(p.in, FineOf(p), p.size)
                            ELSE UNCHANGED ingressVars
  BY DEF Dequeue
<1>3. p.out = o /\ p.q = r
  <2>1. p = s[1] /\ 1 \in 1 .. Len(s)
    BY <1>1, <1>2
  <2> QED
    BY <2>1 DEF AccountingInv, OwnQueue
<1>4. p.in \in Port /\ FineOf(p) \in Fine /\ p.size \in Nat
  BY HopTypes
<1>5. ASSUME NEW S
      PROVE  /\ CellSum(BytesOf(m_queue, S)) = CellSum(BytesOf(m_queue', S)) + SizeIn(p, S)
             /\ CellSum(BytesOf(m_queue', S)) \in Nat
  <2>1. SizeIn(Head(m_queue[o][r]), S) = SizeIn(p, S)
    BY <1>2
  <2> QED
    BY <1>1, <2>1, QueuedDequeue DEF QueuedBytes, BytesOf
<1>6. ASSUME NEW in \in Port, NEW f \in Fine
      PROVE  Charged(in, f)' = CellSum(BytesOf(m_queue', ChargedTo(in, f)))
  <2>1. Charged(in, f) = CellSum(BytesOf(m_queue, ChargedTo(in, f)))
    BY <1>1 DEF ExactFor
  <2>2. CASE Controlled(p)
    <3>1. Charged(in, f)' = Charged(in, f) - (IF in = p.in /\ f = FineOf(p) THEN p.size ELSE 0)
      BY <1>1, <1>2, <2>2, ChargedChange
    <3>2. SizeIn(p, ChargedTo(in, f)) = IF in = p.in /\ f = FineOf(p) THEN p.size ELSE 0
      BY <2>2 DEF SizeIn, ChargedTo
    <3> QED
      BY <1>4, <1>5, <2>1, <3>1, <3>2
  <2>3. CASE ~Controlled(p)
    <3>1. Charged(in, f)' = Charged(in, f)
      BY <1>2, <2>3 DEF ingressVars, Charged
    <3>2. SizeIn(p, ChargedTo(in, f)) = 0
      BY <2>3 DEF SizeIn, ChargedTo
    <3> QED
      BY <1>5, <2>1, <3>1, <3>2
  <2> QED
    BY <2>2, <2>3
<1>7. ASSUME NEW in \in Port, NEW out \in Port, NEW q \in Queue
      PROVE  m_bytes'[in][out][q] = CellSum(BytesOf(m_queue', Through(in, out, q)))
  <2>1. m_bytes[in][out][q] = CellSum(BytesOf(m_queue, Through(in, out, q)))
    BY <1>1 DEF ExactFor
  <2>2. m_bytes \in [Port -> [Port -> [Queue -> Int]]]
    BY <1>1 DEF TypeOK
  <2>3. m_bytes'[in][out][q] = m_bytes[in][out][q]
          - (IF in = p.in /\ out = o /\ q = r THEN p.size ELSE 0)
    <3>1. m_bytes[in][out][q] \in Int
      BY <2>2
    <3> QED
      BY <1>2, <1>4, <2>2, <3>1
  <2>4. SizeIn(p, Through(in, out, q)) = IF in = p.in /\ out = o /\ q = r THEN p.size ELSE 0
    BY <1>3 DEF SizeIn, Through
  <2> QED
    BY <1>4, <1>5, <2>1, <2>3, <2>4
<1>8. ASSUME NEW out \in Port, NEW q \in Queue
      PROVE  egress_bytes'[out][q] = CellSum(BytesOf(m_queue', Leaving(out, q)))
  <2>1. egress_bytes[out][q] = CellSum(BytesOf(m_queue, Leaving(out, q)))
    BY <1>1 DEF ExactFor
  <2>2. egress_bytes \in [Port -> [Queue -> Int]] /\ egress_bytes[out][q] \in Int
    BY <1>1 DEF TypeOK
  <2>3. egress_bytes'[out][q] = egress_bytes[out][q]
          - (IF out = o /\ q = r THEN p.size ELSE 0)
    BY <1>2, <1>4, <2>2 DEF RemoveFromEgressAdmission
  <2>4. SizeIn(p, Leaving(out, q)) = IF out = o /\ q = r THEN p.size ELSE 0
    BY <1>3 DEF SizeIn, Leaving
  <2> QED
    BY <1>4, <1>5, <2>1, <2>3, <2>4
<1>9. OwnQueue'
  <2>1. ASSUME NEW out \in Port, NEW q \in Queue, NEW i \in 1 .. Len(m_queue'[out][q])
        PROVE  m_queue'[out][q][i].out = out /\ m_queue'[out][q][i].q = q
    <3>1. CASE out = o /\ q = r
      <4>1. m_queue'[out][q] = Tail(s)
        BY <1>1, <3>1
      <4> HIDE DEF s
      <4>2. i \in 1 .. Len(Tail(s))
        BY <4>1
      <4>3. i + 1 \in 1 .. Len(s) /\ Tail(s)[i] = s[i + 1]
        BY <1>1, <4>2
      <4> QED
        BY <1>1, <3>1, <4>1, <4>3 DEF AccountingInv, OwnQueue, s
    <3>2. CASE out # o \/ q # r
      <4>1. m_queue'[out][q] = m_queue[out][q]
        BY <1>1, <3>2
      <4> QED
        BY <2>1, <4>1 DEF AccountingInv, OwnQueue
    <3> QED
      BY <3>1, <3>2
  <2> QED
    BY <2>1 DEF OwnQueue
<1> QED
  BY <1>6, <1>7, <1>8, <1>9 DEF ExactFor, ChargedTo, Through, Leaving, Controlled, FineOf

LEMMA AccountingStep == AccountingInv /\ TypeOK' /\ [Next]_vars => AccountingInv'
<1> SUFFICES ASSUME AccountingInv, TypeOK', [Next]_vars PROVE OwnQueue' /\ AccountingExact'
  BY DEF AccountingInv
<1>1. ASSUME UNCHANGED <<ingress_bytes, hdrm_bytes, egress_bytes, m_bytes, m_queue, paused>>
      PROVE  OwnQueue' /\ ExactFor(m_queue)'
  <2>1. OwnQueue'
    BY <1>1 DEF AccountingInv, OwnQueue
  <2>2. ExactFor(m_queue)
    BY ExactIs DEF AccountingInv
  <2>3. ExactFor(m_queue)'
    BY <1>1, <2>2 DEF ExactFor, Charged, ChargedTo, Through, Leaving, Controlled, FineOf
  <2> QED
    BY <2>1, <2>3
<1>2. ExactFor(m_queue)' => AccountingExact'
  BY ExactIs, PTL
<1>3. OwnQueue' /\ ExactFor(m_queue)'
  BY <1>1, AdmitExact, DequeueExact, QueueStep
<1> QED
  BY <1>2, <1>3

\* Whatever order packets leave in, and wherever the admission put their
\* bytes, every byte counter of the unit and of the switch node is what the
\* egress queues hold (AccountingExact).
THEOREM AccountingCorrect == Spec => []AccountingExact
<1>1. Init => AccountingExact /\ OwnQueue
  BY ExactInit
<1>2. AccountingInv => AccountingExact
  BY DEF AccountingInv
<1>3. TypeOK /\ AccountingExact /\ OwnQueue <=> AccountingInv
  BY DEF AccountingInv
<1> QED
  BY <1>1, <1>2, <1>3, AccountingStep, TypeCorrect, PTL DEF Spec

(***************************************************************************)
(* A paused ingress holds bytes.                                           *)
(***************************************************************************)

\* No release takes more than was charged.
NoNegative == \A in \in Port, f \in Fine : ingress_bytes[in][f] >= 0

PausedInv == AccountingInv /\ NoNegative /\ PausedHoldsBytes

\* An admission leaves the ingress with bytes.
LEMMA PausedAdmit ==
  ASSUME PausedInv, TypeOK', NEW p \in Packet, Admit(p), NEW in \in Port, NEW f \in Fine
  PROVE  /\ ingress_bytes'[in][f] >= 0
         /\ paused'[in][f] => Charged(in, f)' > 0
<1>1. /\ TypeOK
      /\ ingress_bytes \in [Port -> [Fine -> Int]] /\ hdrm_bytes \in [Port -> [Fine -> Nat]]
      /\ ingress_bytes' \in [Port -> [Fine -> Int]]
      /\ paused \in [Port -> [Fine -> BOOLEAN]]
      /\ p.in \in Port /\ FineOf(p) \in Fine /\ p.size \in Nat \ {0}
  BY HopTypes DEF PausedInv, AccountingInv, TypeOK
<1>2. /\ ingress_bytes[in][f] \in Nat /\ hdrm_bytes[in][f] \in Nat /\ Charged(in, f) \in Nat
      /\ ingress_bytes'[in][f] \in Int
      /\ (paused[in][f] => Charged(in, f) > 0)
  BY <1>1 DEF PausedInv, NoNegative, PausedHoldsBytes, Charged
<1>3. CASE ~Controlled(p)
  BY <1>2, <1>3 DEF Admit, ingressVars, Charged
<1>4. CASE Controlled(p)
  <2>1. UpdateIngressAdmission(p.in, FineOf(p), p.size) /\ CheckAndSendPfc(p.in, FineOf(p))
    BY <1>4 DEF Admit
  <2>2. Charged(in, f)' = Charged(in, f) + (IF in = p.in /\ f = FineOf(p) THEN p.size ELSE 0)
    BY <1>1, <2>1, ChargedChange
  <2>3. ingress_bytes'[in][f] >= ingress_bytes[in][f]
    <3> DEFINE v == ingress_bytes[p.in][FineOf(p)] + p.size
    <3>1. \/ ingress_bytes' = ingress_bytes
          \/ ingress_bytes' = [ingress_bytes EXCEPT ![p.in][FineOf(p)] = v]
      BY <2>1 DEF UpdateIngressAdmission
    <3>2. ingress_bytes[p.in][FineOf(p)] \in Int /\ v \in Int /\ v >= ingress_bytes[p.in][FineOf(p)]
      BY <1>1
    <3>3. CASE ingress_bytes' = ingress_bytes
      BY <1>2, <3>3
    <3> HIDE DEF v
    <3>4. CASE ingress_bytes' = [ingress_bytes EXCEPT ![p.in][FineOf(p)] = v]
      <4>1. CASE in = p.in /\ f = FineOf(p)
        <5>1. ingress_bytes'[p.in][FineOf(p)] = v
          BY <1>1, <3>2, <3>4, Update2
        <5> QED
          BY <3>2, <4>1, <5>1
      <4>2. CASE ~ (in = p.in /\ f = FineOf(p))
        <5>1. ingress_bytes'[in][f] = ingress_bytes[in][f]
          BY <1>1, <3>2, <3>4, <4>2, Update2
        <5> QED
          BY <1>2, <5>1
      <4> QED
        BY <4>1, <4>2
    <3> QED
      BY <3>1, <3>3, <3>4
  <2>4. CASE in = p.in /\ f = FineOf(p)
    <3>1. Charged(in, f)' = Charged(in, f) + p.size
      BY <2>2, <2>4
    <3>2. \A x \in Nat, z \in Nat \ {0} : x + z > 0
      OBVIOUS
    <3>3. Charged(in, f) \in Nat /\ p.size \in Nat \ {0}
      BY <1>1, <1>2
    <3>4. Charged(in, f) + p.size > 0
      BY <3>2, <3>3
    <3> QED
      BY <1>2, <2>3, <3>1, <3>4
  <2>5. CASE ~ (in = p.in /\ f = FineOf(p))
    <3>1. \/ paused' = paused
          \/ paused' = [paused EXCEPT ![p.in][FineOf(p)] = TRUE]
      BY <2>1 DEF CheckAndSendPfc
    <3>2. paused'[in][f] = paused[in][f]
      BY <1>1, <2>5, <3>1, Update2
    <3> QED
      BY <1>1, <1>2, <2>2, <2>3, <2>5, <3>2
  <2> QED
    BY <2>4, <2>5
<1> QED
  BY <1>3, <1>4

\* A dequeue that leaves an ingress without bytes resumes it.
LEMMA PausedDequeue ==
  ASSUME PausedInv, AccountingInv', NEW o \in Port, NEW r \in Queue, Dequeue(o, r),
         NEW in \in Port, NEW f \in Fine
  PROVE  /\ ingress_bytes'[in][f] >= 0
         /\ paused'[in][f] => Charged(in, f)' > 0
<1>1. /\ TypeOK /\ TypeOK'
      /\ ingress_bytes \in [Port -> [Fine -> Int]] /\ hdrm_bytes \in [Port -> [Fine -> Nat]]
      /\ ingress_bytes' \in [Port -> [Fine -> Int]] /\ hdrm_bytes' \in [Port -> [Fine -> Nat]]
      /\ paused \in [Port -> [Fine -> BOOLEAN]]
  BY DEF PausedInv, AccountingInv, TypeOK
<1>2. /\ ingress_bytes[in][f] \in Nat /\ hdrm_bytes[in][f] \in Nat
      /\ ingress_bytes'[in][f] \in Int /\ hdrm_bytes'[in][f] \in Nat
      /\ (paused[in][f] => Charged(in, f) > 0)
  BY <1>1 DEF PausedInv, NoNegative, PausedHoldsBytes, Charged
<1>3. PICK p \in Packet :
        IF Controlled(p)
          THEN /\ RemoveFromIngressAdmission(p.in, FineOf(p), p.size)
               /\ CheckAndSendResume(p.in, FineOf(p))
          ELSE UNCHANGED <<ingressVars, paused, pfcWire>>
  BY DEF Dequeue
<1>4. p.in \in Port /\ FineOf(p) \in Fine /\ p.size \in Nat
  BY HopTypes
<1>5. CASE ~Controlled(p)
  BY <1>2, <1>3, <1>5 DEF ingressVars, Charged
<1>6. CASE Controlled(p)
  <2>1. RemoveFromIngressAdmission(p.in, FineOf(p), p.size) /\ CheckAndSendResume(p.in, FineOf(p))
    BY <1>3, <1>6
  <2>2. CASE ~ (in = p.in /\ f = FineOf(p))
    <3>1. /\ ingress_bytes'[in][f] = ingress_bytes[in][f]
          /\ hdrm_bytes'[in][f] = hdrm_bytes[in][f]
      BY <1>1, <2>1, <2>2 DEF RemoveFromIngressAdmission
    <3>2. \/ paused' = paused
          \/ paused' = [paused EXCEPT ![p.in][FineOf(p)] = FALSE]
      BY <2>1 DEF CheckAndSendResume
    <3>3. paused'[in][f] = paused[in][f]
      BY <1>1, <1>4, <2>2, <3>2, Update2
    <3> QED
      BY <1>2, <3>1, <3>3 DEF Charged
  <2>3. CASE in = p.in /\ f = FineOf(p)
    <3> DEFINE h == hdrm_bytes[in][f]
               x == ingress_bytes[in][f]
    <3>1. /\ hdrm_bytes'[in][f] = h - Least(h, p.size)
          /\ ingress_bytes'[in][f] = x - (p.size - Least(h, p.size))
      BY <1>1, <2>1, <2>3 DEF RemoveFromIngressAdmission
    \* What is left is what the queues hold.
    <3>2. Charged(in, f)' \in Nat
      <4>1. m_queue' \in [Port -> [Queue -> Seq(Packet)]] /\ m_queue'[o][r] \in Seq(Packet)
        BY <1>1 DEF TypeOK
      <4>2. CellSum(BytesOf(m_queue', ChargedTo(in, f))) \in Nat
        BY <4>1, QueueChange
      <4>3. ExactFor(m_queue)'
        BY DequeueExact DEF PausedInv
      <4> QED
        BY <4>2, <4>3 DEF ExactFor, ChargedTo, Controlled, FineOf
    <3>3. ingress_bytes'[in][f] >= 0
      <4>1. ingress_bytes'[in][f] + hdrm_bytes'[in][f] >= 0
        BY <3>2 DEF Charged
      <4> HIDE DEF h, x
      <4>2. h \in Nat /\ x \in Nat
        BY <1>2 DEF h, x
      <4> QED
        BY <1>4, <3>1, <4>1, <4>2 DEF Least
    <3>4. Charged(in, f)' = 0 => UnderThreshold(in, f)'
      <4>1. Charged(in, f)' = 0 => ingress_bytes'[in][f] = 0 /\ hdrm_bytes'[in][f] = 0
        BY <1>2, <3>3 DEF Charged
      <4> QED
        BY <4>1, MmuTypes DEF UnderThreshold, GetSharedUsed, Excess
    <3>5. UnderThreshold(in, f)' => ~paused'[in][f]
      <4>1. CheckAndSendResume(in, f)
        BY <2>1, <2>3
      <4>2. CASE paused[in][f]
        <5>1. UnderThreshold(in, f)' => paused' = [paused EXCEPT ![in][f] = FALSE]
          BY <4>1, <4>2 DEF CheckAndSendResume
        <5>2. [paused EXCEPT ![in][f] = FALSE][in][f] = FALSE
          BY <1>1
        <5> QED
          BY <5>1, <5>2
      <4>3. CASE ~paused[in][f]
        BY <4>1, <4>3 DEF CheckAndSendResume
      <4> QED
        BY <4>2, <4>3
    <3> QED
      BY <3>2, <3>3, <3>4, <3>5
  <2> QED
    BY <2>2, <2>3
<1> QED
  BY <1>5, <1>6

\* An ingress that has been told to pause holds bytes, so a dequeue is still
\* to come that looks whether to resume it (PausedHoldsBytes).
THEOREM PausedHolds == Spec => []PausedHoldsBytes
<1>1. Init => PausedInv
  <2> SUFFICES ASSUME Init PROVE PausedInv
    OBVIOUS
  <2>1. TypeOK
    BY HopTypes DEF Init, MmuInit, TypeOK
  <2>2. NoNegative /\ PausedHoldsBytes
    BY DEF Init, MmuInit, NoNegative, PausedHoldsBytes
  <2> QED
    BY <2>1, <2>2, ExactInit DEF PausedInv, AccountingInv
<1>2. PausedInv /\ TypeOK' /\ [Next]_vars => PausedInv'
  <2> SUFFICES ASSUME PausedInv, TypeOK', [Next]_vars PROVE PausedInv'
    OBVIOUS
  <2>1. AccountingInv'
    BY AccountingStep DEF PausedInv
  <2>2. ASSUME NEW in \in Port, NEW f \in Fine
        PROVE  ingress_bytes'[in][f] >= 0 /\ (paused'[in][f] => Charged(in, f)' > 0)
    <3>1. CASE UNCHANGED <<ingress_bytes, hdrm_bytes, egress_bytes, m_bytes, m_queue, paused>>
      BY <3>1 DEF PausedInv, NoNegative, PausedHoldsBytes, Charged
    <3> QED
      BY <2>1, <3>1, PausedAdmit, PausedDequeue, QueueStep
  <2> QED
    BY <2>1, <2>2 DEF PausedInv, NoNegative, PausedHoldsBytes, Charged
<1>3. PausedInv => PausedHoldsBytes
  BY DEF PausedInv
<1> QED
  BY <1>1, <1>2, <1>3, TypeCorrect, PTL DEF Spec

(***************************************************************************)
(* The buffer.                                                             *)
(***************************************************************************)

\* A histogram bounded entry by entry by the sum of two has at most as many
\* cells as both; g names the entry of the second, no two of the first that
\* count have the same one.
LEMMA CellsBelow ==
  ASSUME NEW I, IsFiniteSet(I), NEW J, IsFiniteSet(J),
         NEW n \in [I -> Int], NEW a \in [I -> Nat], NEW b \in [J -> Nat], NEW g \in [I -> J],
         \A c, d \in I : n[c] > 0 /\ n[d] > 0 /\ g[c] = g[d] => c = d,
         \A c \in I : n[c] <= a[c] + b[g[c]]
  PROVE  CellSum(n) <= CellSum(a) + CellSum(b)
<1> DEFINE X == {1} \X Cells(a)
           Y == {2} \X Cells(b)
           F == [c \in Cells(n) |-> IF c[2] <= a[c[1]] THEN <<1, c>>
                                    ELSE <<2, <<g[c[1]], c[2] - a[c[1]]>>>>]
<1>1. /\ IsFiniteSet(Cells(a)) /\ CellSum(a) \in Nat
      /\ IsFiniteSet(Cells(b)) /\ CellSum(b) \in Nat
  <2>1. a \in [I -> Int] /\ b \in [J -> Int]
    OBVIOUS
  <2> QED
    BY <2>1, CellsFinite
<1>2. /\ IsFiniteSet(X) /\ Cardinality(X) = CellSum(a)
      /\ IsFiniteSet(Y) /\ Cardinality(Y) = CellSum(b)
  <2>1. /\ IsFiniteSet({1}) /\ Cardinality({1}) = 1
        /\ IsFiniteSet({2}) /\ Cardinality({2}) = 1
    BY FS_Singleton
  <2>2. /\ Cardinality(X) = 1 * Cardinality(Cells(a))
        /\ Cardinality(Y) = 1 * Cardinality(Cells(b))
        /\ IsFiniteSet(X) /\ IsFiniteSet(Y)
    BY <1>1, <2>1, FS_Product
  <2> HIDE DEF X, Y
  <2> QED
    BY <1>1, <2>2 DEF CellSum
<1>3. IsFiniteSet(X \cup Y) /\ Cardinality(X \cup Y) <= CellSum(a) + CellSum(b)
  <2> HIDE DEF X, Y
  <2>1. /\ IsFiniteSet(X \cup Y)
        /\ Cardinality(X \cup Y) = Cardinality(X) + Cardinality(Y) - Cardinality(X \cap Y)
    BY <1>2, FS_Union
  <2>2. Cardinality(X \cap Y) \in Nat
    BY <1>2, FS_Intersection, FS_CardinalityType
  <2> QED
    BY <1>1, <1>2, <2>1, <2>2
<1>4. ASSUME NEW c \in Cells(n)
      PROVE  /\ c = <<c[1], c[2]>> /\ c[1] \in I /\ c[2] \in 1 .. n[c[1]] /\ n[c[1]] > 0
             /\ F[c] \in X \cup Y
  <2>1. PICK i \in I : c \in {i} \X (1 .. n[i])
    BY DEF Cells
  <2>2. /\ c = <<i, c[2]>> /\ c[1] = i /\ c[2] \in 1 .. n[i]
    BY <2>1
  <2>3. n[i] > 0 /\ c[2] \in Int /\ n[i] \in Int
    BY <2>2
  <2>4. CASE c[2] <= a[i]
    <3>1. c \in {i} \X (1 .. a[i])
      BY <2>2, <2>4
    <3>2. c \in Cells(a)
      BY <3>1 DEF Cells
    <3> QED
      BY <2>2, <2>3, <2>4, <3>2
  <2>5. CASE ~ (c[2] <= a[i])
    <3>1. c[2] - a[i] \in 1 .. b[g[i]]
      <4>1. n[i] <= a[i] + b[g[i]] /\ a[i] \in Nat /\ b[g[i]] \in Nat
        OBVIOUS
      <4>2. c[2] >= 1 /\ c[2] <= n[i]
        BY <2>2, <2>3
      <4> QED
        BY <2>3, <2>5, <4>1, <4>2
    <3>2. <<g[i], c[2] - a[i]>> \in {g[i]} \X (1 .. b[g[i]]) /\ g[i] \in J
      BY <3>1
    <3>3. <<g[i], c[2] - a[i]>> \in Cells(b)
      BY <3>2 DEF Cells
    <3> QED
      BY <2>2, <2>3, <2>5, <3>3
  <2> QED
    BY <2>4, <2>5
<1>5. ASSUME NEW c \in Cells(n), NEW d \in Cells(n), F[c] = F[d]
      PROVE  c = d
  <2>0. ASSUME NEW e \in Cells(n)
        PROVE  e = <<e[1], e[2]>> /\ e[1] \in I /\ e[2] \in Int /\ n[e[1]] > 0 /\ a[e[1]] \in Nat
    <3> HIDE DEF F, X, Y
    <3>1. e = <<e[1], e[2]>> /\ e[1] \in I /\ e[2] \in 1 .. n[e[1]] /\ n[e[1]] > 0
      BY <1>4
    <3>2. n[e[1]] \in Int /\ a[e[1]] \in Nat
      BY <3>1
    <3>3. e[2] \in Int
      BY <3>1, <3>2
    <3> QED
      BY <3>1, <3>2, <3>3
  <2>1. /\ c = <<c[1], c[2]>> /\ c[1] \in I /\ c[2] \in Int /\ n[c[1]] > 0 /\ a[c[1]] \in Nat
        /\ d = <<d[1], d[2]>> /\ d[1] \in I /\ d[2] \in Int /\ n[d[1]] > 0 /\ a[d[1]] \in Nat
    <3> HIDE DEF F
    <3> QED
      BY <2>0
  <2>2. CASE c[2] <= a[c[1]] \/ d[2] <= a[d[1]]
    BY <1>5, <2>2
  <2>3. CASE ~ (c[2] <= a[c[1]] \/ d[2] <= a[d[1]])
    <3>1. g[c[1]] = g[d[1]] /\ c[2] - a[c[1]] = d[2] - a[d[1]]
      BY <1>5, <2>3
    <3>2. c[1] = d[1]
      BY <2>1, <3>1
    <3>3. c[2] = d[2]
      <4> DEFINE x == c[2]
                 y == d[2]
                 k == a[c[1]]
      <4>1. x \in Int /\ y \in Int /\ k \in Int /\ x - k = y - k
        BY <2>1, <3>1, <3>2
      <4> HIDE DEF x, y, k
      <4>2. x = y
        BY <4>1
      <4> QED
        BY <4>2 DEF x, y
    <3> QED
      BY <2>1, <3>2, <3>3
  <2> QED
    BY <2>2, <2>3
<1>6. Cardinality(Cells(n)) <= Cardinality(X \cup Y)
  <2>1. F \in [Cells(n) -> X \cup Y]
    BY <1>4
  <2> HIDE DEF F, X, Y
  <2>2. F \in Injection(Cells(n), X \cup Y)
    BY <1>5, <2>1, Fun_IsInj
  <2> QED
    BY <1>3, <2>2, FS_Injection
<1>7. CellSum(n) \in Nat
  BY CellsFinite
<1>8. Cardinality(X \cup Y) \in Nat
  <2> HIDE DEF X, Y
  <2> QED
    BY <1>3, FS_CardinalityType
<1> HIDE DEF X, Y
<1> QED
  BY <1>1, <1>3, <1>6, <1>7, <1>8 DEF CellSum

\* Every ingress counts its packets under one name, the one own gives it, so
\* only that name ever holds bytes, and none holds more than its headroom there.
RoomInv(own) ==
  \A in \in Port, f \in Fine :
    /\ hdrm_bytes[in][f] <= Headroom[in]
    /\ f # own[in] => ingress_bytes[in][f] <= 0 /\ hdrm_bytes[in][f] = 0

\* CheckIngressAdmission lets a packet into the headroom only if it fits
\* there: one over the threshold fails its other test.
LEMMA HeadroomHasRoom ==
  ASSUME TypeOK, SharedWithinBudget, NEW in \in Port, NEW f \in Fine, NEW size \in Nat,
         StaticTh[in] = 0,
         CheckIngressAdmission(in, f, size), TakesHeadroom(in, f, size)
  PROVE  size + hdrm_bytes[in][f] <= Headroom[in]
<1> DEFINE old == ingress_bytes[in][f]
           th == GetPfcThreshold(in)
<1>1. old \in Int /\ shared_used_bytes \in Int /\ shared_used_bytes <= SharedBudget
  BY DEF TypeOK, SharedWithinBudget
<1>2. th \in Nat
  BY <1>1, ThresholdBound
<1>3. old + size - Reserve > th
  BY <1>1, <1>2, MmuTypes DEF TakesHeadroom
<1>4. Excess(old) \in Int /\ Excess(old) >= old - Reserve
  <2> HIDE DEF old
  <2> QED
    BY <1>1, MmuTypes DEF Excess
<1>5. ~ (size + Excess(old) <= th)
  <2> HIDE DEF old, th
  <2> QED
    BY <1>1, <1>2, <1>3, <1>4, MmuTypes
<1> QED
  BY <1>5 DEF CheckIngressAdmission, GetSharedUsed

LEMMA RoomStep ==
  ASSUME \A port \in Port : StaticTh[port] = 0,
         NEW own \in [Port -> Fine],
         \A p \in Packet : Controlled(p) => FineOf(p) = own[p.in],
         TypeOK, SharedWithinBudget, RoomInv(own), [Next]_vars
  PROVE  RoomInv(own)'
<1>1. /\ ingress_bytes \in [Port -> [Fine -> Int]]
      /\ hdrm_bytes \in [Port -> [Fine -> Nat]]
  BY DEF TypeOK
<1>2. CASE UNCHANGED ingressVars
  BY <1>2 DEF ingressVars, RoomInv
<1>3. ASSUME NEW p \in Packet, Controlled(p), CheckIngressAdmission(p.in, FineOf(p), p.size),
             UpdateIngressAdmission(p.in, FineOf(p), p.size)
      PROVE  RoomInv(own)'
  <2> DEFINE in == p.in
             f == FineOf(p)
             size == p.size
  <2>1. in \in Port /\ f \in Fine /\ size \in Nat /\ f = own[in]
    BY <1>3, HopTypes
  <2>2. CASE TakesHeadroom(in, f, size)
    <3>1. size + hdrm_bytes[in][f] <= Headroom[in]
      <4>1. CheckIngressAdmission(in, f, size) /\ StaticTh[in] = 0
        BY <1>3, <2>1
      <4> HIDE DEF in, f, size
      <4> QED
        BY <2>1, <2>2, <4>1, HeadroomHasRoom
    <3>2. /\ hdrm_bytes' = [hdrm_bytes EXCEPT ![in][f] = hdrm_bytes[in][f] + size]
          /\ ingress_bytes' = ingress_bytes
      BY <1>3, <2>2 DEF UpdateIngressAdmission
    <3> HIDE DEF in, f, size
    <3>3. hdrm_bytes[in][f] + size \in Nat /\ hdrm_bytes[in][f] + size <= Headroom[in]
      <4>1. hdrm_bytes[in][f] \in Nat /\ Headroom[in] \in Nat
        BY <1>1, <2>1, MmuTypes
      <4> QED
        BY <2>1, <3>1, <4>1
    <3>4. /\ hdrm_bytes'[in][f] = hdrm_bytes[in][f] + size
          /\ \A a \in Port, b \in Fine :
               a # in \/ b # f => hdrm_bytes'[a][b] = hdrm_bytes[a][b]
      BY <1>1, <2>1, <3>2, <3>3, Update2
    <3> QED
      BY <2>1, <3>2, <3>3, <3>4 DEF RoomInv
  <2>3. CASE ~TakesHeadroom(in, f, size)
    <3>1. /\ ingress_bytes' = [ingress_bytes EXCEPT ![in][f] = ingress_bytes[in][f] + size]
          /\ hdrm_bytes' = hdrm_bytes
      BY <1>3, <2>3 DEF UpdateIngressAdmission
    <3> HIDE DEF in, f, size
    <3>2. ingress_bytes[in][f] + size \in Int
      BY <1>1, <2>1
    <3>3. \A a \in Port, b \in Fine :
            a # in \/ b # f => ingress_bytes'[a][b] = ingress_bytes[a][b]
      BY <1>1, <2>1, <3>1, <3>2, Update2
    <3> QED
      BY <2>1, <3>1, <3>3 DEF RoomInv
  <2> QED
    BY <2>2, <2>3
<1>4. ASSUME NEW p \in Packet, Controlled(p),
             RemoveFromIngressAdmission(p.in, FineOf(p), p.size)
      PROVE  RoomInv(own)'
  <2> DEFINE in == p.in
             f == FineOf(p)
             size == p.size
             fromHdrm == Least(hdrm_bytes[in][f], size)
  <2>1. in \in Port /\ f \in Fine /\ size \in Nat /\ f = own[in]
    BY <1>4, HopTypes
  <2>2. /\ hdrm_bytes' = [hdrm_bytes EXCEPT ![in][f] = hdrm_bytes[in][f] - fromHdrm]
        /\ ingress_bytes' = [ingress_bytes EXCEPT ![in][f]
                                = ingress_bytes[in][f] - (size - fromHdrm)]
    BY <1>4 DEF RemoveFromIngressAdmission
  <2> HIDE DEF in, f, size
  <2>3. /\ hdrm_bytes[in][f] - fromHdrm \in Nat
        /\ hdrm_bytes[in][f] - fromHdrm <= hdrm_bytes[in][f]
        /\ ingress_bytes[in][f] - (size - fromHdrm) \in Int
    <3>1. hdrm_bytes[in][f] \in Nat /\ ingress_bytes[in][f] \in Int
      BY <1>1, <2>1
    <3> QED
      BY <2>1, <3>1 DEF Least
  <2> HIDE DEF fromHdrm
  <2>4. /\ hdrm_bytes'[in][f] = hdrm_bytes[in][f] - fromHdrm
        /\ \A a \in Port, b \in Fine :
             a # in \/ b # f => /\ hdrm_bytes'[a][b] = hdrm_bytes[a][b]
                               /\ ingress_bytes'[a][b] = ingress_bytes[a][b]
    BY <1>1, <2>1, <2>2, <2>3, Update2
  <2>5. hdrm_bytes'[in][f] <= Headroom[in]
    <3>1. hdrm_bytes[in][f] \in Nat /\ Headroom[in] \in Nat /\ hdrm_bytes[in][f] <= Headroom[in]
      BY <1>1, <2>1, MmuTypes DEF RoomInv
    <3> QED
      BY <2>3, <2>4, <3>1
  <2> QED
    BY <2>1, <2>4, <2>5 DEF RoomInv
<1> QED
  BY <1>2, <1>3, <1>4, MmuStep

\* With bytes under one name only, the bytes of an ingress are its share of
\* the shared buffer, its reserve and its headroom, and these add up to the
\* whole buffer (SharedBudget).
LEMMA RoomIsEnough ==
  ASSUME NEW own \in [Port -> Fine],
         TypeOK, SharedAccounting, SharedWithinBudget, RoomInv(own)
  PROVE  BufferNotExceeded
<1> DEFINE I == Port \X Fine
           R == [p \in Port |-> Reserve]
           b == [p \in Port |-> Headroom[p] + Reserve]
           g == [c \in I |-> c[1]]
           g1 == [p \in Port |-> p]
<1>1. IsFiniteSet(I) /\ IsFiniteSet(Port)
  BY MmuTypes, FS_Product
<1>2. /\ ingress_bytes \in [Port -> [Fine -> Int]]
      /\ hdrm_bytes \in [Port -> [Fine -> Nat]]
      /\ Headroom \in [Port -> Nat] /\ Reserve \in Nat
  BY MmuTypes DEF TypeOK
<1>3. \A x \in Int : Excess(x) \in Nat /\ x <= Excess(x) + Reserve
  BY MmuTypes DEF Excess
<1>4. /\ ChargedOf \in [I -> Int] /\ SharedOf \in [I -> Nat]
      /\ b \in [Port -> Nat] /\ R \in [Port -> Nat]
      /\ g \in [I -> Port] /\ g1 \in [Port -> Port]
  <2>1. \A c \in I : ingress_bytes[c[1]][c[2]] \in Int /\ hdrm_bytes[c[1]][c[2]] \in Int
    BY <1>2
  <2>2. ChargedOf \in [I -> Int]
    BY <2>1 DEF ChargedOf
  <2>3. SharedOf \in [I -> Nat]
    BY <1>3, <2>1 DEF SharedOf, GetSharedUsed
  <2> QED
    BY <1>2, <2>2, <2>3
<1>5. ASSUME NEW c \in I
      PROVE  /\ ChargedOf[c] > 0 => c[2] = own[c[1]]
             /\ ChargedOf[c] <= SharedOf[c] + b[g[c]]
  <2> DEFINE u == ingress_bytes[c[1]][c[2]]
             h == hdrm_bytes[c[1]][c[2]]
  <2>1. /\ c[1] \in Port /\ c[2] \in Fine /\ u \in Int /\ h \in Nat
        /\ Headroom[c[1]] \in Nat /\ Reserve \in Nat
    BY <1>2
  <2>2. h <= Headroom[c[1]] /\ (c[2] # own[c[1]] => u <= 0 /\ h = 0)
    BY <2>1 DEF RoomInv
  <2>3. ChargedOf[c] = u + h /\ SharedOf[c] = Excess(u) /\ b[g[c]] = Headroom[c[1]] + Reserve
    BY <2>1 DEF ChargedOf, SharedOf, GetSharedUsed
  <2> HIDE DEF u, h, b, g
  <2>4. Excess(u) \in Nat /\ u <= Excess(u) + Reserve
    BY <1>3, <2>1
  <2> QED
    BY <2>1, <2>2, <2>3, <2>4
<1>6. ASSUME NEW c \in I, NEW d \in I, ChargedOf[c] > 0, ChargedOf[d] > 0, g[c] = g[d]
      PROVE  c = d
  <2>1. c[1] = d[1] /\ c = <<c[1], c[2]>> /\ d = <<d[1], d[2]>>
    BY <1>6
  <2> HIDE DEF I, b, g
  <2>2. c[2] = own[c[1]]
    BY <1>5, <1>6
  <2>3. d[2] = own[d[1]]
    BY <1>5, <1>6
  <2> QED
    BY <2>1, <2>2, <2>3
<1>7. CellSum(ChargedOf) <= CellSum(SharedOf) + CellSum(b)
  <2> HIDE DEF I, b, g
  <2> QED
    BY <1>1, <1>4, <1>5, <1>6, CellsBelow
<1>8. CellSum(b) <= CellSum(Headroom) + CellSum(R)
  <2>1. \A p \in Port : b[p] <= Headroom[p] + R[g1[p]]
    BY <1>2
  <2>2. \A p, q \in Port : b[p] > 0 /\ b[q] > 0 /\ g1[p] = g1[q] => p = q
    OBVIOUS
  <2>3. /\ b \in [Port -> Int] /\ Headroom \in [Port -> Nat] /\ R \in [Port -> Nat]
        /\ g1 \in [Port -> Port] /\ IsFiniteSet(Port)
    BY <1>1, <1>2
  <2> HIDE DEF b, R, g1
  <2> QED
    BY <2>1, <2>2, <2>3, CellsBelow
<1>9. /\ CellSum(ChargedOf) \in Nat /\ CellSum(SharedOf) \in Nat /\ CellSum(b) \in Nat
      /\ CellSum(Headroom) \in Nat /\ CellSum(R) \in Nat
  <2>1. /\ SharedOf \in [I -> Int] /\ b \in [Port -> Int]
        /\ Headroom \in [Port -> Int] /\ R \in [Port -> Int]
    BY <1>2, <1>4
  <2> HIDE DEF I, b, R
  <2> QED
    BY <1>1, <1>4, <2>1, CellsFinite
<1>10. CellSum(SharedOf) <= BufferSize - CellSum(Headroom) - CellSum(R)
  BY DEF SharedAccounting, SharedWithinBudget, SharedBudget, TotalHeadroom, TotalReserve
<1> HIDE DEF b, R
<1> QED
  BY <1>7, <1>8, <1>9, <1>10, MmuTypes DEF BufferNotExceeded

\* Where every ingress carries one lossless class (a single PFC priority, as
\* in the scenarios) and thresholds are dynamic, what PFC lets into the
\* switch fits into its buffer, for every shift, headroom and packet size,
\* although SendToDev looks at one ingress only (BufferNotExceeded).
THEOREM BufferKept ==
  ASSUME \A port \in Port : StaticTh[port] = 0,
         NEW own \in [Port -> Fine],
         \A p \in Packet : Controlled(p) => FineOf(p) = own[p.in]
  PROVE  Spec => []BufferNotExceeded
<1>1. Init => RoomInv(own)
  BY MmuTypes DEF Init, MmuInit, RoomInv
<1>2. TypeOK /\ SharedWithinBudget /\ RoomInv(own) /\ [Next]_vars => RoomInv(own)'
  BY RoomStep
<1>3. TypeOK /\ SharedAccounting /\ SharedWithinBudget /\ RoomInv(own) => BufferNotExceeded
  BY RoomIsEnough
<1>4. Spec => []SharedWithinBudget
  BY BudgetKept
<1> QED
  BY <1>1, <1>2, <1>3, <1>4, TypeCorrect, SharedAccountingCorrect, PTL DEF Spec
=============================================================================
