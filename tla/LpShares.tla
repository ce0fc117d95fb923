----------------------------- MODULE LpShares -----------------------------
(***************************************************************************)
(* The liquidity providers' side of one LP vault: deposits, withdrawals,   *)
(* redemptions and donations against a share mint, while the trading side  *)
(* borrows, repays with interest and now and then loses assets.            *)
(*                                                                         *)
(* Each instruction is one step: an LP's transaction stands alone here.    *)
(* Trading interleaves instructions within a transaction.                  *)
(***************************************************************************)
EXTENDS Integers, FiniteSets, UnitSum

CONSTANTS
  Owners,            \* the wallets that hold shares
  Amounts,           \* what an instruction may ask for
  ProtectionDivisor, \* 1000 in the code
  MaxU64             \* bound: the largest amount a u64 holds

ASSUME SharesAssumption ==
  /\ IsFiniteSet(Owners)
  /\ Amounts \subseteq Nat
  /\ ProtectionDivisor \in Nat \ {0}
  /\ MaxU64 \in Nat

VARIABLES
  vault,        \* balance of the vault's token account
  total_assets, \* LpVault.total_assets
  supply,       \* supply of the shares mint
  shares,       \* each owner's balance of shares
  lent,         \* what positions and strategies owe to the vault
  can_lp        \* GlobalSettings: the LPING_ENABLED bit

vars == <<vault, total_assets, supply, shares, lent, can_lp>>

TypeOK ==
  /\ vault \in Nat
  /\ total_assets \in Nat
  /\ supply \in Nat
  /\ shares \in [Owners -> Nat]
  /\ lent \in Nat
  /\ can_lp \in BOOLEAN

\* init_lp_vault leaves an empty vault.
Init ==
  /\ vault = 0
  /\ total_assets = 0
  /\ supply = 0
  /\ shares = [u \in Owners |-> 0]
  /\ lent = 0
  /\ can_lp \in BOOLEAN
-----------------------------------------------------------------------------
(* Conversions between assets and shares, all of them rounded down *)

LargerOf(a, b) == IF a > b THEN a ELSE b

\* Rounded in the depositor's favour.
SharesForRoundedUp(a) ==
  IF supply = 0 THEN a ELSE (supply * a + total_assets - 1) \div total_assets

\* Shares minted for a deposit of a.
SharesFor(a) == IF supply = 0 THEN a ELSE (supply * a) \div total_assets

\* Rounded in the redeemer's favour.
AssetsForRoundedUp(s) == (s * total_assets + supply - 1) \div supply

\* Assets paid for s redeemed shares.
AssetsFor(s) == (s * total_assets) \div supply

\* "Uses 0.1% (1/1000) of withdrawal amount as protection, minimum of 1"
RoundingProtection(a) == LargerOf(1, a \div ProtectionDivisor)

\* Divides before it multiplies.
BurnForTruncated(a) == a * (supply \div total_assets)

\* Shares burnt for a withdrawal of a.
BurnFor(a) == (a * supply + RoundingProtection(a)) \div total_assets
-----------------------------------------------------------------------------
(* Instructions of the liquidity providers *)

Deposit(u, a) ==
  /\ a > 0 /\ can_lp
  /\ supply = 0 \/ total_assets > 0
  /\ total_assets + a <= MaxU64
  /\ supply + SharesFor(a) <= MaxU64
  /\ vault' = vault + a
  /\ supply' = supply + SharesFor(a)
  /\ shares' = [shares EXCEPT ![u] = @ + SharesFor(a)]
  /\ total_assets' = total_assets + a
  /\ UNCHANGED <<lent, can_lp>>

\* Forgets that part of the assets is lent.
WithdrawOfLent(u, a) ==
  /\ a > 0
  /\ total_assets > 0
  /\ BurnFor(a) <= shares[u]
  /\ supply' = supply - BurnFor(a)
  /\ shares' = [shares EXCEPT ![u] = @ - BurnFor(a)]
  /\ a <= total_assets
  /\ total_assets' = total_assets - a
  /\ vault' = vault - a
  /\ UNCHANGED <<lent, can_lp>>

\* Withdrawing does not consult can_lp: depositors can always leave.
Withdraw(u, a) ==
  /\ a > 0
  /\ total_assets > 0
  /\ BurnFor(a) <= shares[u]
  /\ supply' = supply - BurnFor(a)
  /\ shares' = [shares EXCEPT ![u] = @ - BurnFor(a)]
  /\ a <= total_assets
  /\ total_assets' = total_assets - a
  /\ a <= vault
  /\ vault' = vault - a
  /\ UNCHANGED <<lent, can_lp>>

Redeem(u, s) ==
  /\ s > 0
  /\ supply > 0
  /\ AssetsFor(s) <= vault
  /\ vault' = vault - AssetsFor(s)
  /\ s <= shares[u]
  /\ supply' = supply - s
  /\ shares' = [shares EXCEPT ![u] = @ - s]
  /\ AssetsFor(s) <= total_assets
  /\ total_assets' = total_assets - AssetsFor(s)
  /\ UNCHANGED <<lent, can_lp>>

\* Leaves total_assets behind.
DonateUncounted(a) ==
  /\ a > 0 /\ can_lp
  /\ vault + a <= MaxU64
  /\ vault' = vault + a
  /\ UNCHANGED <<total_assets, supply, shares, lent, can_lp>>

\* The donor holds a permission; nothing is minted.
Donate(a) ==
  /\ a > 0 /\ can_lp
  /\ total_assets + a <= MaxU64
  /\ vault' = vault + a
  /\ total_assets' = total_assets + a
  /\ UNCHANGED <<supply, shares, lent, can_lp>>

SetLpState(allow) == can_lp' = allow /\ UNCHANGED <<vault, total_assets, supply, shares, lent>>
-----------------------------------------------------------------------------
(* What the trading side does to the vault *)

Lend(a) ==
  /\ a <= vault
  /\ vault' = vault - a
  /\ lent' = lent + a
  /\ UNCHANGED <<total_assets, supply, shares, can_lp>>

Repay(a, interest) ==
  /\ a <= lent
  /\ total_assets + interest <= MaxU64
  /\ vault' = vault + a + interest
  /\ lent' = lent - a
  /\ total_assets' = total_assets + interest
  /\ UNCHANGED <<supply, shares, can_lp>>

\* A liquidation that recovers too little.
Lose(loss) ==
  /\ loss > 0 /\ loss <= lent /\ loss <= total_assets
  /\ lent' = lent - loss
  /\ total_assets' = total_assets - loss
  /\ UNCHANGED <<vault, supply, shares, can_lp>>
-----------------------------------------------------------------------------
LpStep ==
  \/ \E u \in Owners, a \in Amounts : Deposit(u, a)
  \/ \E u \in Owners, s \in Amounts : Redeem(u, s)
  \/ \E a \in Amounts : Donate(a)

WithdrawStep == \E u \in Owners, a \in Amounts : Withdraw(u, a)

LossStep == \E a \in Amounts : Lose(a)

Next ==
  \/ LpStep
  \/ WithdrawStep
  \/ LossStep
  \/ \E allow \in BOOLEAN : SetLpState(allow)
  \/ \E a \in Amounts : Lend(a)
  \/ \E a \in Amounts, interest \in Amounts : Repay(a, interest)

Spec == Init /\ [][Next]_vars
-----------------------------------------------------------------------------
(* Properties *)

\* total_assets counts "the tokens that are currently borrowed" too, and the
\* mint's supply is what the owners hold (LpVault; deposit, withdraw, redeem).
BooksBalance ==
  /\ total_assets = vault + lent
  /\ supply = Total(shares)

\* The assets behind one share never fall, except by a loss or a withdrawal by
\* amount: a deposit, a redemption, a donation or interest never takes value
\* from the shares that stay (rounding in deposit.rs and redeem.rs).
SharePriceKept ==
  [][supply > 0 /\ ~LossStep /\ ~WithdrawStep
       => total_assets' * supply >= total_assets * supply']_vars

\* Once shares are backed, only a loss can leave shares with no asset behind
\* them: the state in which deposit divides by zero (deposit.rs) and no
\* liquidity provider can enter.
SharesStayBacked ==
  [][~LossStep /\ (supply > 0 => total_assets > 0)
        => (supply' > 0 => total_assets' > 0)]_vars

\* Depositing and redeeming at once never pays: whatever interest and losses
\* have done to the share price, the round trip returns at most the deposit.
NoInstantProfit ==
  supply > 0 /\ total_assets > 0 =>
    \A a \in Amounts :
      LET minted == SharesFor(a)
      IN (minted * (total_assets + a)) \div (supply + minted) <= a

\* What withdrawing by amount takes is worth less than one share more than the
\* shares it burns (withdraw.rs).
WithdrawWithinOneShare ==
  [][WithdrawStep =>
       (total_assets - total_assets') * supply
         < (supply - supply' + 1) * total_assets]_vars
=============================================================================
