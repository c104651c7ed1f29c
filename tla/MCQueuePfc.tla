----------------------------- MODULE MCQueuePfc -----------------------------
(* Two switches with two hosts each: flows of 1 and 2 cross the link between *)
(* the switches to 3 and 4, and meet one from 4 on their way to 3.           *)
EXTENDS QueuePfc, TLC

CONSTANTS S1, S2

Switches == {S1, S2}
Hosts == 1 .. 4
Route == (S1 :> [h \in Hosts |-> IF h \in {1, 2} THEN h ELSE S2]) @@
         (S2 :> [h \in Hosts |-> IF h \in {3, 4} THEN h ELSE S1])
Flows == {"a", "b", "c", "d"}
Src == [a |-> 1, b |-> 2, c |-> 2, d |-> 4]
DstOf == [a |-> 3, b |-> 3, c |-> 4, d |-> 3]

Packets(a, b, c, d) == [a |-> a, b |-> b, c |-> c, d |-> d]

Setting ==
  [fc_mode |-> "BFC", total |-> Packets(2, 1, 1, 0), fid |-> Packets(1, 2, 3, 4), hostQ |-> Packets(1, 2, 3, 4),
   bdp |-> 1, assign_sticky_q |-> TRUE, assign_paused_q |-> TRUE,
   voq_pauseth_m |-> 1, voq_pause_mode |-> "vqlen", flow_sch_th |-> 0, maxLoss |-> 0]

\* Three flows, two queues.
ThreeFlows == Setting

\* Flow queues are not kept for the sticky time, and paused ones are passed over.
FreshQueues ==
  [Setting EXCEPT !.assign_sticky_q = FALSE, !.assign_paused_q = FALSE, !.total = Packets(2, 1, 0, 0)]

\* Two QPs of a host with one id, so that one pause stops both.
SharedId == [Setting EXCEPT !.hostQ.c = 2, !.total = Packets(0, 2, 1, 2)]

\* Hashes of two flows collide, one QP has the id of the ACK queue, and one
\* packet may be dropped.
Collision == [Setting EXCEPT !.hostQ.a = 0, !.maxLoss = 1, !.fid.b = 1, !.total = Packets(2, 1, 0, 0)]

\* Destination PFC by the length of the queue, by what the switch holds for
\* the destination, and by what the port holds.
Voq(mode) ==
  [Setting EXCEPT !.fc_mode = "VOQ_DSTPFC", !.voq_pause_mode = mode, !.flow_sch_th = 1,
                  !.total = IF mode = "buffer" THEN Packets(2, 1, 0, 1) ELSE Packets(3, 1, 0, 1)]
VoqEgress == [Voq("egress") EXCEPT !.voq_pauseth_m = 2, !.total = Packets(4, 0, 1, 0)]

MCSettings == {ThreeFlows, FreshQueues, SharedId, Collision, Voq("vqlen"), Voq("buffer"), VoqEgress}
=============================================================================
