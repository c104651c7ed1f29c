------------------------------ MODULE MCPfcHop ------------------------------
(***************************************************************************)
(* Two ingress ports (1 and 2) that share one egress port (3), one data    *)
(* queue, packets of one and two units.  The shared buffer is smaller than *)
(* what one upstream device can send, so both ingresses reach the          *)
(* threshold, use headroom and pause.                                      *)
(***************************************************************************)
EXTENDS PfcHop

MCPort == 1 .. 3
MCQueue == {3}
MCPacket == [in : {1}, out : {3}, q : {3}, dst : {7}, size : {1, 2}]
            \cup [in : {2}, out : {3}, q : {3}, dst : {7}, size : {2}]

\* Enough for the packets on the link and those sent while the pause travels.
MCHeadroom == [p \in MCPort |-> IF p = 3 THEN 0 ELSE 2 * (WireCap + FrameDelay)]
MCAlpha == [p \in MCPort |-> IF p = 1 THEN 2 ELSE 1]
MCStaticTh == [p \in MCPort |-> 0]
MCMaxQlen == [q \in MCQueue |-> 100]
MCBufferSize == 8 + 3 * 1 + 4
=============================================================================
