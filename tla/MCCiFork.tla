------------------------------- MODULE MCCiFork -------------------------------
(***************************************************************************)
(* Two flows of one host share the link from ToR B to ToR C and part       *)
(* there: a root C to d1 is on the path of one of them only, and the host  *)
(* has to hold back that one alone.                                        *)
(***************************************************************************)
EXTENDS CiRoutes

MCSwitch == {"B", "C"}
MCHost == {"h", "d1", "d2"}
MCToR == {"B", "C"}
MCUpPort == {<<"C", "B">>}
MCPath == [f1 |-> <<"h", "B", "C", "d1">>, f2 |-> <<"h", "B", "C", "d2">>]
MCFlow == DOMAIN MCPath
MCTree == TreeOfFlows
MCDist == DistOfFlows
MCRootD1 == {<<"C", "d1">>}

MCTwoOne == {[congestion_merge |-> TRUE, dealloc_on |-> TRUE, only_down_port_enable |-> TRUE,
              packets |-> [f1 |-> 2, f2 |-> 1], hol |-> {[n \in MCSwitch |-> 0]}]}
=============================================================================
