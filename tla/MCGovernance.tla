---------------------------- MODULE MCGovernance ----------------------------
(* Instances of Governance for TLC. *)
EXTENDS Governance, TLC

CONSTANTS alice, bob, carol, sol

ThreeWallets == {alice, bob, carol}
OneMint      == {sol}
Alike        == Permutations(ThreeWallets)

SomeMaps == {{"init_vault"}, {"init_pool", "borrow"}}

OneSigns == {{w} : w \in Wallets}

\* The last value allowed, and the first that is not.
EdgeApys == {99999, 100000}
EdgeLeverages == {10000, 10001}
EdgeFees == {0, 5}
SomeBorrows == {7}
=============================================================================
