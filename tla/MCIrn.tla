------------------------------- MODULE MCIrn -------------------------------
(* Two messages of one packet and three.                                   *)
EXTENDS Irn

Two == {1, 2}
OneThree == [m \in Two |-> IF m = 1 THEN 1 ELSE 3]

\* With the timeout of the queue pair and packets that are dropped; without
\* it and answers that are lost, too.
Lossy ==
  {[rto |-> TRUE, loss |-> {"data"}, maxLoss |-> 1],
   [rto |-> FALSE, loss |-> {"data"}, maxLoss |-> 2],
   [rto |-> FALSE, loss |-> {"data", "answer"}, maxLoss |-> 1]}
=============================================================================
