----------------------------- MODULE CloseMath -----------------------------
(***************************************************************************)
(* The arithmetic of opening and closing a position: the limits that       *)
(* DebtController computes, the fees, and the waterfall in which the       *)
(* proceeds of a closing swap pay the vault, the fee wallet, the           *)
(* liquidator and the trader.                                              *)
(*                                                                         *)
(* The code computes products in u128 and casts back with an error, so a   *)
(* natural number stands for a value that passed its checks.               *)
(***************************************************************************)
EXTENDS Integers

CONSTANT InterestDenominator \* 100 * 31 536 000 in the code: per cent and year

ASSUME DenominatorAssumption == InterestDenominator \in Nat \ {0}

ApyDenominator == 100
LeverageDenominator == 100
-----------------------------------------------------------------------------
(* Limits of the debt controller *)

LesserOf(a, b) == IF a < b THEN a ELSE b

\* Falls back on the rate instead of one unit.
MaxInterestOfRate(principal, max_apy, seconds) ==
  LET interest == (principal * max_apy * seconds) \div InterestDenominator
  IN IF interest = 0 THEN max_apy ELSE interest

\* Never below one unit, however short the time.
MaxInterest(principal, max_apy, seconds) ==
  LET interest == (principal * max_apy * seconds) \div InterestDenominator
  IN IF interest = 0 THEN 1 ELSE interest

\* Leaves out the trader's own part of the leverage.
MaxPrincipalOfWhole(down_payment, max_leverage) ==
  (down_payment * max_leverage) \div LeverageDenominator

\* max_leverage counts the down payment too; below 100 the subtraction aborts.
MaxPrincipal(down_payment, max_leverage) ==
  (down_payment * (max_leverage - LeverageDenominator)) \div LeverageDenominator

\* What a short position's swap may return.
MaxProceeds(down_payment, max_leverage) ==
  (down_payment * max_leverage) \div LeverageDenominator

\* No request, or one above the limit, means the limit.
CapInterest(requested, limit) ==
  IF requested = 0 \/ requested > limit THEN limit ELSE requested
-----------------------------------------------------------------------------
(* Splitting an amount *)

\* Takes the claim whole even when the amount is short of it.
DeductUnbounded(amount, claim) == [left |-> IF amount > claim THEN amount - claim ELSE 0,
                                   taken |-> claim]

\* Pays a claim out of an amount, as far as it goes.
Deduct(amount, claim) == [left  |-> IF amount > claim THEN amount - claim ELSE 0,
                          taken |-> LesserOf(amount, claim)]

\* Sees no difference when b is the larger one.
DifferenceSaturated(a, b) == IF a > b THEN a - b ELSE 0

Difference(a, b) == IF a > b THEN a - b ELSE b - a

\* Is other within percentage per cent of value?
WithinPercent(value, other, percentage) ==
  Difference(value, other) * 100 <= value * percentage
-----------------------------------------------------------------------------
(* Fees.  pos is a position: its fields bear the names of Position. *)

\* Leaves the fee out.
CloseFeeBaseWithoutFee(pos, isLong) ==
  IF isLong THEN pos.down_payment + pos.principal ELSE pos.collateral_amount

\* compute_close_fee divides by this; zero aborts the instruction.
CloseFeeBase(pos, isLong) ==
  pos.fees_to_be_paid
    + (IF isLong THEN pos.down_payment + pos.principal ELSE pos.collateral_amount)

CloseFee(pos, netValue, isLong) ==
  (((IF isLong THEN pos.principal ELSE pos.collateral_amount) + netValue)
     * pos.fees_to_be_paid) \div CloseFeeBase(pos, isLong)

LiquidationFee(down_payment, percentage) == (down_payment * percentage) \div 100
-----------------------------------------------------------------------------
(* The waterfall *)

\* Skips the vault's interest.
VaultShareWithoutInterest(pos, isLong, received, interest) ==
  LET principal == Deduct(received, pos.principal)
  IN [principal_repaid |-> principal.taken, interest_paid |-> 0, left |-> principal.left]

\* What the vault gets out of the currency received, principal first.  A short
\* position leaves the whole remainder to the vault.
VaultShare(pos, isLong, received, interest) ==
  LET principal == Deduct(received, pos.principal)
      charged   == Deduct(principal.left, interest)
  IN [principal_repaid |-> principal.taken,
      interest_paid    |-> IF isLong THEN charged.taken ELSE principal.left,
      left             |-> IF isLong THEN charged.left ELSE 0]

\* A short position's remainder is accepted only near the interest due.
InterestAccepted(isLong, interest, paid) ==
  isLong \/ paid = 0 \/ WithinPercent(interest, paid, 3)

\* CloseAmounts: spent collateral bought received currency.
CloseAmounts(pos, isLong, spent, received, interest, execution_fee, liquidationClaim) ==
  LET share    == VaultShare(pos, isLong, received, interest)
      net      == IF isLong THEN share.left
                  ELSE Deduct(pos.collateral_amount, spent).left
      fee      == Deduct(net, CloseFee(pos, net, isLong) + execution_fee)
      liquidation == Deduct(fee.left, liquidationClaim)
  IN [principal_repaid |-> share.principal_repaid,
      interest_paid    |-> share.interest_paid,
      collateral_spent |-> spent,
      close_fee        |-> fee.taken,
      liquidation_fee  |-> liquidation.taken,
      payout           |-> liquidation.left]

\* Is what is left to the trader small enough to liquidate: 5 % of the
\* principal (long) or of the collateral (short)?
Liquidatable(pos, isLong, amounts) ==
  amounts.payout + amounts.liquidation_fee
    <= ((IF isLong THEN pos.principal ELSE pos.collateral_amount) * 5) \div 100
-----------------------------------------------------------------------------
(* Exit orders *)

\* Leaves the interest out.
ToVaultPrincipalOnly(amounts) == amounts.principal_repaid

\* What the pool returns to the vault.
ToVault(amounts) == amounts.principal_repaid + amounts.interest_paid

\* The proceeds of a long leave out the fee.
ProceedsWithoutFee(amounts) ==
  amounts.payout + amounts.interest_paid + amounts.principal_repaid

\* "actualTakerAmount": what a long's collateral fetched.
Proceeds(amounts) ==
  amounts.payout + amounts.close_fee + amounts.interest_paid + amounts.principal_repaid

\* A long sells at the target or above; a short pays at most the target price
\* maker_amount / taker_amount.
TargetReached(order, isLong, amounts) ==
  IF isLong THEN Proceeds(amounts) >= order.taker_amount
  ELSE ToVault(amounts) * order.maker_amount >= amounts.collateral_spent * order.taker_amount

\* The opposite side of the same prices.
StopReached(order, isLong, amounts) ==
  IF isLong THEN order.taker_amount >= Proceeds(amounts)
  ELSE amounts.collateral_spent * order.taker_amount >= ToVault(amounts) * order.maker_amount
=============================================================================
