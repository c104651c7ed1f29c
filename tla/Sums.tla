-------------------------------- MODULE Sums --------------------------------
(***************************************************************************)
(* The sum of n[i] over a finite domain, as the number of cells of a       *)
(* histogram: a form that the theorems on cardinalities apply to.          *)
(***************************************************************************)
EXTENDS Integers, FiniteSets

Cells(n)   == UNION {{i} \X (1 .. n[i]) : i \in DOMAIN n}
CellSum(n) == Cardinality(Cells(n))
=============================================================================
