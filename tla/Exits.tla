------------------------------- MODULE Exits -------------------------------
(***************************************************************************)
(* Whether the positions of Trading come to an end.  Opening and closing   *)
(* need a cosigner, so a trader may be left alone with a position; the     *)
(* claim needs nobody else, and the market, if it wants the collateral,    *)
(* and the liquidator close what cannot be claimed.                        *)
(*                                                                         *)
(* The chain gives no schedule.  What is assumed is that somebody goes on  *)
(* submitting a transaction and that one which can run to its end is not   *)
(* aborted each time: strong fairness, as every other transaction may come *)
(* in between and every try may fail.                                      *)
(***************************************************************************)
EXTENDS Trading

CONSTANTS
  ClaimPlan, ClosePlan, LiquidatePlan, \* the transactions that end each position
  Helper, Keeper                       \* who cosigns, and who liquidates

ASSUME ExitsAssumption ==
  /\ ClaimPlan \in [Positions -> Plans] /\ ClosePlan \in [Positions -> Plans]
  /\ LiquidatePlan \in [Positions -> Plans]
  /\ Helper \in CanCosign /\ Keeper \in CanLiquidate
  /\ \A p \in Positions : {{TraderOf[p]}, {TraderOf[p], Helper}, {Keeper}} \subseteq Signings

Submitted(plan, signers) == SF_vars(Begin(plan, signers))

Within(plan) == tx.ixs = plan

\* A transaction that was started ends one way or the other.
TransactionsEnd == WF_vars(Instruction \/ Commit \/ Abort)

\* The trader has the currency and goes on claiming.
Claims(p) ==
  /\ Submitted(ClaimPlan[p], {TraderOf[p]})
  /\ SF_vars(Within(ClaimPlan[p]) /\ ClaimPosition)
  /\ SF_vars(Within(ClaimPlan[p]) /\ Commit)

\* A swap that sells the whole collateral for the debt, if there is any.
SoldForDebt(p) ==
  LET position == acc.position[p] IN
  /\ position.collateral_amount > 0 \/ position.principal = 0
  /\ \E bought, sold \in SwapAmounts :
       /\ bought = position.principal /\ sold = position.collateral_amount
       /\ Other(bought, sold)

\* Trader and cosigner go on closing with such a swap.
Closings(p) ==
  /\ Submitted(ClosePlan[p], {TraderOf[p], Helper})
  /\ SF_vars(Within(ClosePlan[p]) /\ CloseSetup)
  /\ SF_vars(Within(ClosePlan[p]) /\ SoldForDebt(p))
  /\ SF_vars(Within(ClosePlan[p]) /\ CloseCleanup)
  /\ SF_vars(Within(ClosePlan[p]) /\ Commit)

\* The liquidator writes off what has no collateral to sell.
Worthless(p) == acc.position[p].collateral_amount = 0 /\ Other(0, 0)

Liquidations(p) ==
  /\ Submitted(LiquidatePlan[p], {Keeper})
  /\ SF_vars(Within(LiquidatePlan[p]) /\ CloseSetup)
  /\ SF_vars(Within(LiquidatePlan[p]) /\ Worthless(p))
  /\ SF_vars(Within(LiquidatePlan[p]) /\ CloseCleanup)
  /\ SF_vars(Within(LiquidatePlan[p]) /\ Commit)

ClaimSpec == Spec /\ TransactionsEnd /\ \A p \in Positions : Claims(p)

OthersHelp == \A p \in Positions : Closings(p) /\ Liquidations(p)
-----------------------------------------------------------------------------
(* Properties *)

Ended(p) == ~saved.position[p].open

\* The counter total_assets has room for the interest (MaxBalance bounds it).
RoomFor(p) ==
  saved.total_assets + MaxInterest(saved.position[p].principal, settings.max_apy,
                         now - saved.position[p].last_funding_timestamp) <= MaxBalance

\* A claim of a short pays the fee out of the collateral.
Claimable(p) ==
  /\ saved.position[p].open
  /\ PoolOf[p] \notin LongPools =>
       saved.position[p].fees_to_be_paid <= saved.position[p].collateral_amount

\* A trader with the currency gets the collateral out with nobody's help, though
\* trading may be switched off, and whatever providers, cosigners and liquidators
\* do meanwhile.
ClaimsComeThrough ==
  \A p \in Positions : Claimable(p) ~> (Ended(p) \/ ~RoomFor(p))

\* With a cosigner and a liquidator at hand no position is stuck for good.  A
\* claim fails when the fee exceeds the collateral of a short, a closing when
\* fee, down payment and principal are all zero (compute_close_fee divides by
\* them) or when nobody buys the collateral; no position falls through all.
EveryPositionExits ==
  OthersHelp =>
    \A p \in Positions : saved.position[p].open ~> (Ended(p) \/ ~RoomFor(p))
=============================================================================
