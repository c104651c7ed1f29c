------------------------------- MODULE CiRoutes -------------------------------
(***************************************************************************)
(* What the routes of a fabric owe congestion isolation.  An entry keeps   *)
(* the hop count of the first signal that named its root, and              *)
(* MatchNextCongestionRoot relies on it to leave a CIQ for a nearer root   *)
(* only; a port that merges takes over children whose packets need not     *)
(* cross the new root.  So all routes from a switch to a root, those that  *)
(* signals of merges took included, must be equally long: ECMP's equal     *)
(* cost, in a fabric that routes up and then down.                         *)
(***************************************************************************)
EXTENDS CongestionIsolation

CONSTANTS
  Tree,   \* <<p, n, r>>: switch n may control its neighbour p for root r
  Dist    \* [switch -> [root -> Nat]]: the hops from a switch to a root

\* A flow on its way to r puts n, and the device before n, into the tree of r;
\* so does a merge: n, a port of it or a switch after it controls p for a root
\* that is not an up port, and n learns there of root r.
ASSUME EqualCost ==
  /\ Tree \subseteq {<<l[1], l[2], r>> : l \in Link, r \in Root}
  /\ \A t \in Tree : t[2] \in Switch
  /\ Dist \in [Switch -> [Root -> Nat]]
  /\ \A f \in Flow : \A i, j \in 2 .. Len(Path[f]) - 1 : i <= j =>
       /\ Dist[Path[f][i]][RootAt(f, j)] = j - i
       /\ <<Path[f][i - 1], Path[f][i], RootAt(f, j)>> \in Tree
  /\ \A t \in Tree : t[1] \in Switch => Dist[t[1]][t[3]] = Dist[t[2]][t[3]] + 1
  /\ \A t, u \in Tree :
       /\ t[2] = u[1] /\ t[3] \notin UpPort
       /\ t[3] = <<u[1], u[2]>> \/ <<u[1], u[2], t[3]>> \in Tree
       => <<t[1], t[2], u[3]>> \in Tree

\* The trees and distances of the flows alone, which do where the flows that
\* share a down port go on to the same places.
Crossing(f) == {h \in (2 .. Len(Path[f]) - 1) \X (2 .. Len(Path[f]) - 1) : h[1] <= h[2]}
TreeOfFlows ==
  UNION {{<<Path[f][h[1] - 1], Path[f][h[1]], RootAt(f, h[2])>> : h \in Crossing(f)} : f \in Flow}
DistOfFlows ==
  [n \in Switch |-> [r \in Root |->
     Max({0} \cup UNION {{h[2] - h[1] : h \in {k \in Crossing(f) :
                            Path[f][k[1]] = n /\ RootAt(f, k[2]) = r}} : f \in Flow})]]
=============================================================================
