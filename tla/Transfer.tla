------------------------------ MODULE Transfer ------------------------------
(***************************************************************************)
(* What the RDMA transport promises its users, whatever the recovery       *)
(* scheme: m_rcvFinishCallback reports a message at the receiver once, and *)
(* only when every packet of it has arrived; m_msgCompleteCallback reports *)
(* it at the sender once, and only after the receiver.                     *)
(***************************************************************************)
EXTENDS Naturals

CONSTANTS
  Msg,    \* the messages
  Size    \* [Msg -> Nat \ {0}]: how many packets a message has

VARIABLES
  got,       \* [Msg -> set of the packets that have arrived]
  complete,  \* [Msg -> BOOLEAN]: reported at the receiver
  finished   \* [Msg -> BOOLEAN]: reported at the sender

Packets(m) == 0 .. Size[m] - 1

Init ==
  /\ got = [m \in Msg |-> {}]
  /\ complete = [m \in Msg |-> FALSE]
  /\ finished = [m \in Msg |-> FALSE]

\* A packet arrives, perhaps again; a message all of which has arrived may
\* be reported then.
Arrive(m, k) ==
  /\ ~complete[m]
  /\ got' = [got EXCEPT ![m] = @ \cup {k}]
  /\ \E c \in BOOLEAN :
       /\ c => got'[m] = Packets(m)
       /\ complete' = [complete EXCEPT ![m] = c]
  /\ UNCHANGED finished

Finish(m) ==
  /\ complete[m]
  /\ ~finished[m]
  /\ finished' = [finished EXCEPT ![m] = TRUE]
  /\ UNCHANGED <<got, complete>>

Next == \E m \in Msg : Finish(m) \/ \E k \in Packets(m) : Arrive(m, k)

Spec == Init /\ [][Next]_<<got, complete, finished>>
=============================================================================
