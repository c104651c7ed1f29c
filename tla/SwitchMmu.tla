------------------------------ MODULE SwitchMmu ------------------------------
(***************************************************************************)
(* The memory management unit of a switch (switch-mmu.cc): how many bytes  *)
(* each ingress holds, where they are charged (reserve, shared buffer,     *)
(* headroom) and which ingresses have been told to pause.                  *)
(*                                                                         *)
(* The counters are uint32_t in the code.  The subtraction the threshold   *)
(* comes from wraps here as it does there; that it never has to, and that  *)
(* no counter falls below zero, are properties of PfcHop.                  *)
(***************************************************************************)
EXTENDS Sums

CONSTANTS
  Port,          \* the devices of the switch
  Fine,          \* what a PFC frame may name: a priority (PAUSE_PG) or a destination (PAUSE_DST)
  Queue,         \* the egress queues of a device
  BufferSize,    \* buffer_size
  Reserve,       \* reserve: bytes every ingress owns
  ResumeOffset,  \* resume_offset: hysteresis between pause and resume
  Headroom,      \* headroom[port]
  Alpha,         \* 2^pfc_a_shift[port]: a shift is a division by it
  StaticTh,      \* pfc_th_static[port]; 0: the threshold is dynamic
  MaxQlen,       \* Settings::max_qlen[queue]
  UintRange      \* the values of the counters' type: 2^32 in the code

ASSUME MmuTypes ==
  /\ IsFiniteSet(Port) /\ IsFiniteSet(Fine) /\ IsFiniteSet(Queue)
  /\ BufferSize \in Nat /\ Reserve \in Nat /\ ResumeOffset \in Nat
  /\ Headroom \in [Port -> Nat]
  /\ Alpha \in [Port -> Nat \ {0}]
  /\ StaticTh \in [Port -> Nat]
  /\ MaxQlen \in [Queue -> Nat]
  /\ UintRange \in Nat

VARIABLES
  ingress_bytes,      \* [port][fine]: bytes charged to the reserve and to the shared buffer
  hdrm_bytes,         \* [port][fine]: bytes charged to the headroom
  shared_used_bytes,  \* bytes of the shared buffer in use, over all ingresses
  egress_bytes,       \* [port][queue]: bytes waiting in an egress queue
  paused              \* [port][fine]: a pause was the last frame sent for it

ingressVars == <<ingress_bytes, hdrm_bytes, shared_used_bytes>>

Least(a, b) == IF a <= b THEN a ELSE b

\* ConfigNPort: the headroom of every port, and one reserve per port.
TotalHeadroom == CellSum(Headroom)
TotalReserve  == CellSum([p \in Port |-> Reserve])

\* What is left of the buffer for sharing.
SharedBudget == BufferSize - TotalHeadroom - TotalReserve

\* The scenario script gives every switch more buffer than the sum of its
\* headrooms and reserves.
ASSUME BudgetIsPositive == SharedBudget >= 0

\* The value an unsigned subtraction leaves.
Unsigned(x) == IF x < 0 THEN x + UintRange ELSE x

\* Mutant: every ingress may take the whole shared buffer, whatever is in use.
GetPfcThresholdFull(port) ==
  IF StaticTh[port] > 0 THEN StaticTh[port] ELSE SharedBudget

\* pfc_mode PAUSE_OFF, which no scenario sets, is left out.
GetPfcThreshold(port) ==
  IF StaticTh[port] > 0
    THEN StaticTh[port]
    ELSE Unsigned(SharedBudget - shared_used_bytes) \div Alpha[port]

\* Bytes above the reserve, of an ingress that holds used of them.
Excess(used) == IF used > Reserve THEN used - Reserve ELSE 0

GetSharedUsed(port, f) == Excess(ingress_bytes[port][f])

(***************************************************************************)
(* Admission of a packet.                                                  *)
(***************************************************************************)
CheckIngressAdmission(port, f, psize) ==
  \/ psize + hdrm_bytes[port][f] <= Headroom[port]
  \/ psize + GetSharedUsed(port, f) <= GetPfcThreshold(port)

CheckEgressAdmission(port, q, psize) ==
  egress_bytes[port][q] + psize <= MaxQlen[q]

\* The packet would take its ingress above the threshold: it goes to the headroom.
TakesHeadroom(port, f, psize) ==
  LET newBytes == ingress_bytes[port][f] + psize
  IN  newBytes > Reserve /\ newBytes - Reserve > GetPfcThreshold(port)

\* Mutant: the reserve is not used up before the shared buffer.
UpdateIngressNoReserve(port, f, psize) ==
  IF TakesHeadroom(port, f, psize)
    THEN /\ hdrm_bytes' = [hdrm_bytes EXCEPT ![port][f] = @ + psize]
         /\ UNCHANGED <<ingress_bytes, shared_used_bytes>>
    ELSE /\ ingress_bytes' = [ingress_bytes EXCEPT ![port][f] = @ + psize]
         /\ shared_used_bytes' = shared_used_bytes + psize
         /\ UNCHANGED hdrm_bytes

UpdateIngressAdmission(port, f, psize) ==
  LET newBytes == ingress_bytes[port][f] + psize
  IN  IF TakesHeadroom(port, f, psize)
        THEN /\ hdrm_bytes' = [hdrm_bytes EXCEPT ![port][f] = @ + psize]
             /\ UNCHANGED <<ingress_bytes, shared_used_bytes>>
        ELSE /\ ingress_bytes' = [ingress_bytes EXCEPT ![port][f] = newBytes]
             /\ shared_used_bytes' =
                  shared_used_bytes + Least(psize, Excess(newBytes))
             /\ UNCHANGED hdrm_bytes

UpdateEgressAdmission(port, q, psize) ==
  egress_bytes' = [egress_bytes EXCEPT ![port][q] = @ + psize]

(***************************************************************************)
(* Release of a packet: the headroom is given back first, then the shared  *)
(* buffer, then the reserve.                                               *)
(***************************************************************************)
\* Mutants: what the headroom gave back is also taken from the ingress; the
\* headroom gives back more than it holds.
RemoveIngressTwice(port, f, psize) ==
  LET fromHdrm == Least(hdrm_bytes[port][f], psize)
  IN  /\ hdrm_bytes' = [hdrm_bytes EXCEPT ![port][f] = @ - fromHdrm]
      /\ ingress_bytes' = [ingress_bytes EXCEPT ![port][f] = @ - psize]
      /\ shared_used_bytes' =
           shared_used_bytes - Least(psize - fromHdrm, GetSharedUsed(port, f))

RemoveIngressNoLimit(port, f, psize) ==
  LET fromHdrm == IF hdrm_bytes[port][f] > 0 THEN psize ELSE 0
  IN  /\ hdrm_bytes' = [hdrm_bytes EXCEPT ![port][f] = @ - fromHdrm]
      /\ ingress_bytes' = [ingress_bytes EXCEPT ![port][f] = @ - (psize - fromHdrm)]
      /\ shared_used_bytes' =
           shared_used_bytes - Least(psize - fromHdrm, GetSharedUsed(port, f))

RemoveFromIngressAdmission(port, f, psize) ==
  LET fromHdrm   == Least(hdrm_bytes[port][f], psize)
      fromShared == Least(psize - fromHdrm, GetSharedUsed(port, f))
  IN  /\ hdrm_bytes' = [hdrm_bytes EXCEPT ![port][f] = @ - fromHdrm]
      /\ ingress_bytes' = [ingress_bytes EXCEPT ![port][f] = @ - (psize - fromHdrm)]
      /\ shared_used_bytes' = shared_used_bytes - fromShared

RemoveFromEgressAdmission(port, q, psize) ==
  egress_bytes' = [egress_bytes EXCEPT ![port][q] = @ - psize]

(***************************************************************************)
(* The tests behind a pause and a resume frame, without the test of        *)
(* paused that CheckShouldPause and CheckShouldResume start with.          *)
(***************************************************************************)
\* Mutants: a packet in the headroom does not pause; an ingress resumes only
\* below the threshold, also when it is empty.
OverThresholdShared(port, f) == GetSharedUsed(port, f) > GetPfcThreshold(port)

UnderThresholdStrict(port, f) ==
  /\ hdrm_bytes[port][f] = 0
  /\ GetSharedUsed(port, f) + ResumeOffset <= GetPfcThreshold(port)

OverThreshold(port, f) ==
  \/ hdrm_bytes[port][f] > 0
  \/ GetSharedUsed(port, f) >= GetPfcThreshold(port)

UnderThreshold(port, f) ==
  /\ hdrm_bytes[port][f] = 0
  /\ \/ GetSharedUsed(port, f) = 0
     \/ GetSharedUsed(port, f) + ResumeOffset <= GetPfcThreshold(port)

MmuInit ==
  /\ ingress_bytes = [p \in Port |-> [f \in Fine |-> 0]]
  /\ hdrm_bytes = [p \in Port |-> [f \in Fine |-> 0]]
  /\ shared_used_bytes = 0
  /\ egress_bytes = [p \in Port |-> [q \in Queue |-> 0]]
  /\ paused = [p \in Port |-> [f \in Fine |-> FALSE]]
=============================================================================
