------------------------------ MODULE UnitSum ------------------------------
(***************************************************************************)
(* The sum of a finite family of natural numbers, as the cardinality of    *)
(* the disjoint union of its units.  The program keeps running totals      *)
(* (LpVault.total_assets, the share mint's supply) next to the balances    *)
(* they summarise; the invariants of the other modules compare the two.    *)
(* Defining the sum by counting, and not by recursion, keeps it within     *)
(* reach of the proofs of UnitSumLemmas.                                   *)
(***************************************************************************)
EXTENDS Integers, FiniteSets

\* The units that x contributes: n distinct pairs.
UnitsOf(x, n) == {x} \X (1..n)

\* All the units of the family f.
Units(f) == UNION {UnitsOf(x, f[x]) : x \in DOMAIN f}

\* The sum of f.
Total(f) == Cardinality(Units(f))
=============================================================================
