---------------------------- MODULE MCLpShares ----------------------------
(* LpShares on small instances. *)
EXTENDS LpShares, TLC

CONSTANTS u1, u2

MCOwners  == {u1, u2}
MCAmounts == 0..5
Symmetry  == Permutations(MCOwners)
=============================================================================
