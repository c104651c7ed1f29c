------------------------------ MODULE MCCiChain ------------------------------
(***************************************************************************)
(* Paths of a two-tier fabric: source ToR A, spine B, destination ToR C.   *)
(* The ports towards the receiver can be congestion roots, that of A, an   *)
(* up port, only without only_down_port_enable; the trees of two and three *)
(* roots grow over one another and merge.  f2 comes from a second host, so *)
(* that one CIQ of A holds packets of two upstream devices.                *)
(***************************************************************************)
EXTENDS CiRoutes

MCSwitch == {"A", "B", "C"}
MCHost == {"h", "h2", "d"}
MCToR == {"A", "C"}
MCUpPort == {<<"A", "B">>, <<"C", "B">>}
MCPath == [f1 |-> <<"h", "A", "B", "C", "d">>, f2 |-> <<"h2", "A", "B", "C", "d">>]
MCFlow == DOMAIN MCPath
MCTree == TreeOfFlows
MCDist == DistOfFlows

Hol(a) == [n \in MCSwitch |-> IF n = "A" THEN a ELSE 0]

\* The settings of the shipped configurations, with k and l packets.
Shipped(k, l) == [congestion_merge |-> TRUE, dealloc_on |-> TRUE, only_down_port_enable |-> TRUE,
                  packets |-> [f1 |-> k, f2 |-> l], hol |-> {Hol(0)}]
MCTwo == {Shipped(2, 0)}

\* Up ports are roots, too: with either outcome of bytes_up_data where data
\* goes up, and without dealloc or merge.
UpRoots == [Shipped(2, 0) EXCEPT !.only_down_port_enable = FALSE]

MCMany == {Shipped(3, 0), Shipped(1, 1),
           [UpRoots EXCEPT !.hol = {Hol(0), Hol(9)}],
           [UpRoots EXCEPT !.dealloc_on = FALSE],
           [UpRoots EXCEPT !.congestion_merge = FALSE]}
=============================================================================
