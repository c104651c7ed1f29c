---------------------------- MODULE MCFloodgate ----------------------------
(* A core K with the ToRs T1, T2 and T3 below it, and an aggregation      *)
(* switch A with the ToR T4.  An incast from the hosts 1 and 2 to 3 and 4  *)
(* crosses the core; the flows between 1 and 5 also cross A, which has one *)
(* of the two destinations above it and one below.                         *)
EXTENDS Floodgate

CONSTANTS K, A, T1, T2, T3, T4

Switches == {K, A, T1, T2, T3, T4}
ToRs == {T1, T2, T3, T4}
Cores == {K}
Hosts == 1 .. 5
Below == [s \in Switches |->
            CASE s = T1 -> {1} [] s = T2 -> {2} [] s = T3 -> {3, 4} [] s \in {T4, A} -> {5}
              [] OTHER -> Hosts]
Route == [s \in Switches |-> [h \in Hosts |->
            CASE s \in ToRs /\ h \in Below[s] -> h
              [] s = A -> IF h = 5 THEN T4 ELSE K
              [] s = T4 -> A
              [] s = K -> IF h = 5 THEN A ELSE CHOOSE t \in {T1, T2, T3} : h \in Below[t]
              [] OTHER -> K]]
Flows == {"f", "g", "h", "up", "down"}
Src == [f |-> 1, g |-> 2, h |-> 2, up |-> 5, down |-> 1]
Dst == [f |-> 3, g |-> 3, h |-> 4, up |-> 1, down |-> 5]
Hash == [d \in Hosts |-> IF d = 4 THEN 1 ELSE 0]

\* The flows that send and the sizes of their packets; the last packets of
\* an incast may be shorter than the others.
NoFlow == [x \in Flows |-> << >>]
Incast == [NoFlow EXCEPT !.f = <<2, 2, 1>>, !.g = <<2>>, !.h = <<2>>]
ShortIncast == [NoFlow EXCEPT !.f = <<2, 2>>, !.g = <<2>>, !.h = <<2>>]
BothWays == [NoFlow EXCEPT !.down = <<1, 1, 1>>, !.up = <<1, 1, 1>>]
OneWay == [NoFlow EXCEPT !.down = <<1, 1>>]

Setting ==
  [switch_ack_mode |-> "dst", switch_absolute_psn |-> FALSE, switch_byte_counter |-> 1,
   switch_credit_timer |-> FALSE, th_ack |-> 0, switch_syn_timer |-> FALSE,
   voq_limit |-> 1, dynamic_hash |-> FALSE, window |-> 1, sizes |-> BothWays,
   ndebug |-> TRUE, burst |-> FALSE, loss |-> {}, maxLoss |-> 0]

\* The incast, with a window of one and a half packets: credits held back to
\* a byte counter with one VOQ for both receivers; one switch ACK for a
\* whole port, delayed, with two hashed VOQs; and what the shipped
\* configuration does: a VOQ per destination, the credit timer alone,
\* delayed ACKs.
Lossless ==
  {[Setting EXCEPT !.switch_byte_counter = 3, !.window = 3, !.dynamic_hash = TRUE, !.sizes = Incast],
   [Setting EXCEPT !.switch_ack_mode = "ingress", !.switch_absolute_psn = TRUE, !.th_ack = 1,
                   !.voq_limit = 2, !.window = 3, !.sizes = Incast, !.burst = TRUE],
   [Setting EXCEPT !.switch_ack_mode = "ingress", !.switch_byte_counter = 100,
                   !.switch_credit_timer = TRUE, !.th_ack = 2,
                   !.voq_limit = 0, !.window = 3, !.sizes = ShortIncast]}

\* Frames lost on the wire and asked for with SYN, or dropped in the switch.
Lossy ==
  {[Setting EXCEPT !.switch_absolute_psn = TRUE, !.switch_syn_timer = TRUE,
                   !.dynamic_hash = TRUE, !.sizes = OneWay, !.loss = {"DATA", "ACK", "SYN"}, !.maxLoss = 2],
   [Setting EXCEPT !.switch_absolute_psn = TRUE, !.window = 2,
                   !.dynamic_hash = TRUE, !.sizes = OneWay, !.loss = {"DATA", "ACK", "ADMISSION"}, !.maxLoss = 2]}

\* And both directions through one VOQ per group: three packets each way are
\* the fewest that would block each other if the groups were one.
Settings == Lossless \cup {[Setting EXCEPT !.burst = TRUE]} \cup Lossy

\* The last switch ACK is lost; built with assertions, or without.
AckLost ==
  {[Setting EXCEPT !.switch_absolute_psn = TRUE, !.switch_syn_timer = TRUE, !.ndebug = b,
                   !.dynamic_hash = TRUE, !.sizes = OneWay, !.loss = {"ACK"}, !.maxLoss = 1] : b \in BOOLEAN}
=============================================================================
