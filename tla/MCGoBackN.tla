------------------------------ MODULE MCGoBackN ------------------------------
(* Two messages of three and two packets, and one message of three.        *)
EXTENDS GoBackN

Two == {1, 2}
One == {1}
ThreeTwo == [m \in Two |-> IF m = 1 THEN 3 ELSE 2]
Three == [m \in One |-> 3]

\* With a window of two packets or none, with every reaction to a loss.
Lossy ==
  [nack_reaction : BOOLEAN, rto : BOOLEAN, win : {0, 2}, loss : {{"data", "answer"}}, maxLoss : {2}]
Lossless ==
  [nack_reaction : BOOLEAN, rto : {FALSE}, win : {0, 1, 2}, loss : {{}}, maxLoss : {0}]
Both == Lossy \cup Lossless

\* One packet is lost; a NACK and the timeout ask for it.
OneDrop == {[nack_reaction |-> TRUE, rto |-> TRUE, win |-> 0, loss |-> {"data"}, maxLoss |-> 1]}
=============================================================================
