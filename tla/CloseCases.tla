---------------------------- MODULE CloseCases ----------------------------
(***************************************************************************)
(* Every way one position can be closed, for the properties of CloseMath:  *)
(* a state is one closing with its position, its swap and its outcome.     *)
(***************************************************************************)
EXTENDS CloseMath

CONSTANT
  Scales  \* the sets the inputs are taken from, together, at one scale of amounts

Inputs ==
  [down_payments : SUBSET Nat, principals : SUBSET Nat, collaterals : SUBSET Nat,
   fees : SUBSET Nat,                      \* the position
   seconds : SUBSET Nat, max_apys : SUBSET Nat, \* its age and its limit
   swapped : SUBSET Nat, interest_args : SUBSET Nat,
   execution_fees : SUBSET Nat,            \* the closing swap and its arguments
   percents : SUBSET Nat,                  \* 0: not a liquidation
   prices : SUBSET (Nat \X Nat)]           \* of exit orders: maker and taker amount

ASSUME ScalesAssumption == Scales \subseteq Inputs

VARIABLES
  scale, isLong, pos, seconds, max_apy, spent, received, interestArg, execution_fee, percent

closing == <<scale, isLong, pos, max_apy, spent, received, interestArg, execution_fee, percent>>
vars    == <<closing, seconds>>

Position == [down_payment : scale.down_payments, principal : scale.principals,
             collateral_amount : scale.collaterals, fees_to_be_paid : scale.fees]

Limit    == MaxInterest(pos.principal, max_apy, seconds)
Interest == CapInterest(interestArg, Limit)
Amounts  == CloseAmounts(pos, isLong, spent, received, Interest, execution_fee,
                         LiquidationFee(pos.down_payment, percent))

\* The closings that pass the checks of close_position_cleanup.
Accepted ==
  /\ spent <= pos.collateral_amount
  /\ CloseFeeBase(pos, isLong) > 0
  /\ InterestAccepted(isLong, Interest, Amounts.interest_paid)
  /\ Amounts.principal_repaid < pos.principal => percent > 0

Init ==
  /\ scale \in Scales
  /\ isLong \in BOOLEAN
  /\ pos \in Position
  /\ seconds \in scale.seconds
  /\ max_apy \in scale.max_apys
  /\ spent \in scale.swapped
  /\ received \in scale.swapped
  /\ interestArg \in scale.interest_args
  /\ execution_fee \in scale.execution_fees
  /\ percent \in scale.percents
  /\ Accepted

\* Time passes and the same closing is tried again.
Age ==
  /\ seconds' \in scale.seconds
  /\ seconds' > seconds
  /\ UNCHANGED closing
  /\ Accepted'

Next == Age
Spec == Init /\ [][Next]_vars
-----------------------------------------------------------------------------
(* Properties *)

\* Whatever the swap brought in is handed out, to the last unit: the currency
\* of a long, the unsold collateral and the currency of a short
\* (close_position_cleanup).
NothingLost ==
  LET out == Amounts.close_fee + Amounts.liquidation_fee + Amounts.payout
      lent == Amounts.principal_repaid + Amounts.interest_paid
  IN IF isLong THEN lent + out = received
     ELSE lent = received /\ out = pos.collateral_amount - spent

\* Claims are served in order: the trader is paid only when the fees, and for a
\* long the vault's principal and interest, have been paid in full; a vault
\* short of its principal means that a long has nothing for anyone else.
SeniorFirst ==
  /\ Amounts.payout > 0 =>
       /\ isLong => /\ Amounts.principal_repaid = pos.principal
                    /\ Amounts.interest_paid = Interest
       /\ Amounts.close_fee >= execution_fee
       /\ Amounts.liquidation_fee = LiquidationFee(pos.down_payment, percent)
  /\ isLong /\ Amounts.principal_repaid < pos.principal =>
       Amounts.close_fee + Amounts.liquidation_fee + Amounts.payout = 0

\* A long position never pays more interest than the debt controller allows;
\* a short one at most three per cent more.
InterestBounded ==
  IF isLong THEN Amounts.interest_paid <= Limit
  ELSE Amounts.interest_paid * 100 <= Limit * 103

\* An exit order holds for what the swap really exchanged, not only for the sum
\* of the amounts paid out of it: a long sells for at least (take profit) or at
\* most (stop loss) the order's taker_amount, a short buys back at no more or no
\* less than maker_amount per taker_amount.
PriceMet ==
  percent = 0 =>
    \A price \in scale.prices :
      LET order == [maker_amount |-> price[1], taker_amount |-> price[2]] IN
      /\ TargetReached(order, isLong, Amounts) =>
           IF isLong THEN received >= order.taker_amount
           ELSE spent * order.taker_amount <= received * order.maker_amount
      /\ StopReached(order, isLong, Amounts) =>
           IF isLong THEN received <= order.taker_amount
           ELSE spent * order.taker_amount >= received * order.maker_amount

\* Waiting never makes closing cheaper for a long: the same swap pays the
\* vault no less later when the vault's limit is charged.
LaterCostsMore ==
  [][isLong /\ interestArg = 0 => Amounts'.interest_paid >= Amounts.interest_paid
                                  /\ Amounts'.payout <= Amounts.payout]_vars
=============================================================================
