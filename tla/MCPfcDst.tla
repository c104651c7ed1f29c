------------------------------- MODULE MCPfcDst -------------------------------
(***************************************************************************)
(* A ToR under srcToR_dst_pfc without dynamic thresholds: port 1 leads to  *)
(* a host, is paused per destination and has a static threshold; port 2    *)
(* leads to the fabric, is paused per priority and keeps its dynamic one.  *)
(* The data of both wait in one queue of port 3.  Tokens go the other way, *)
(* in queue 1, which is not under PFC and has a short max_qlen, and the    *)
(* shared buffer is checked, so packets are dropped at the egress too.     *)
(*                                                                         *)
(* The two destinations of port 1 may take more than the shared budget,    *)
(* which is 1; the threshold of port 2 then wraps.  The downstream device  *)
(* does not pause: a dequeue may be late in any case.                      *)
(***************************************************************************)
EXTENDS PfcHop

MCPort == 1 .. 3
MCQueue == {1, 3}
MCFine == 1 .. 3   \* hosts 1 and 2, queues 1 and 3
MCPacket == {[in |-> 1, out |-> 3, q |-> 3, dst |-> 1, size |-> 2],
             [in |-> 1, out |-> 3, q |-> 3, dst |-> 2, size |-> 2],
             [in |-> 2, out |-> 3, q |-> 3, dst |-> 1, size |-> 2],
             [in |-> 3, out |-> 1, q |-> 1, dst |-> 1, size |-> 1]}

MCHeadroom == <<2, 2, 0>>
MCAlpha == [p \in MCPort |-> 1]
MCStaticTh == <<2, 0, 0>>
MCMaxQlen == [q \in MCQueue |-> IF q = 1 THEN 1 ELSE 100]
MCBufferSize == 4 + 3 * 1 + 1
=============================================================================
