----------------------------- MODULE MCTrading -----------------------------
(* Instances of Trading for TLC: who trades what, and which transactions    *)
(* are submitted.                                                           *)
EXTENDS Trading

CONSTANTS o1, o2, cos, liq, q, pa, pb

OneOwner == {o1}
TwoOwners == {o1, o2}
BothAuthorities == {cos, liq}
Cosigner == {cos}
Liquidator == {liq}
OnePool == {q}
NoPool == {}
TwoPositions == {pa, pb}
OnePosition == {pa}
Trader2 == [p \in TwoPositions |-> o1]
EachTheirs == [p \in TwoPositions |-> IF p = pa THEN o1 ELSE o2]
Pool2 == [p \in TwoPositions |-> q]
Trader1 == [p \in OnePosition |-> o1]
Pool1 == [p \in OnePosition |-> q]

By(authority, op, pos) ==
  [op |-> op, pos |-> pos, pool |-> q, owner |-> TraderOf[pos], authority |-> authority,
   top |-> TRUE]
On(op, pos) == By(cos, op, pos)
\* Invoked by the other program's instruction before it.
Inner(op, pos) == [On(op, pos) EXCEPT !.top = FALSE]
Swap == On("other", pa)
Trade(setup, pos, between) ==
  <<On(setup, pos), Swap>> \o between \o <<On(CleanupOf[setup], pos)>>

OneTraderSigns == {{o1}, {cos}, {liq}, {o1, cos}}
TwoTradersSign == {{o1}, {o2}, {liq}, {o1, cos}, {o2, cos}, {o1, o2, cos}}

\* Liquidations, and the transactions that only move assets.
Liquidation == <<By(liq, "liquidate_position_setup", pa), Swap,
                 By(liq, "liquidate_position_cleanup", pa)>>

\* Honest trades on two positions, every way to pair a setup with something else
\* than its own cleanup, and instructions that the swap's program invokes.
TradePlans(open, close, other) ==
  {Trade(open, pa, <<>>), Trade(open, pb, <<>>), Trade(close, pa, <<>>), Liquidation,
   <<On("claim_position", pa)>>, <<On("deposit", pa)>>, <<On("withdraw", pa)>>,
   <<Swap>>,
   Trade(close, pa, <<On("liquidate_position_cleanup", pa)>>),
   Trade(close, pa, <<On("claim_position", pb)>>),
   Trade(close, pa, <<On("withdraw", pa)>>),
   Trade(open, pa, <<On(CleanupOf[close], pb)>>),
   <<On(open, pa), On(open, pb), Swap, On(CleanupOf[open], pa), On(CleanupOf[open], pb)>>,
   <<On(open, pa), Swap, On(CleanupOf[open], pb)>>,
   <<On(open, pa), Swap, On(CleanupOf[other], pa)>>,
   <<On(open, pa), Swap, [On(CleanupOf[open], pa) EXCEPT !.owner = TraderOf[pb]]>>,
   <<On(close, pa), Swap>>,
   <<On(close, pa), Swap, On("liquidate_position_cleanup", pa)>>,
   <<Swap, Inner("deposit", pa)>> \o Trade(open, pa, <<>>),
   <<Swap, Inner("claim_position", pb)>> \o Trade(close, pa, <<>>),
   Trade(close, pa, <<Inner("claim_position", pb)>>),
   Trade(open, pa, <<Inner(CleanupOf[open], pa)>>),
   <<On(close, pa), Swap, Inner(CleanupOf[close], pa)>>}

LongPlans == TradePlans("open_long_position_setup", "close_long_position_setup",
                        "open_short_position_setup")
ShortPlans == TradePlans("open_short_position_setup", "close_short_position_setup",
                         "open_long_position_setup")

\* Exit orders: placed, replaced, taken back, executed in their own and in the
\* other order's trade, and placed while a closing is under way.
OrderPlans ==
  {Trade("open_long_position_setup", pa, <<>>), Liquidation,
   <<On("init_or_update_take_profit_order", pa)>>,
   <<On("init_or_update_stop_loss_order", pa)>>,
   <<On("close_take_profit_order", pa)>>,
   <<By(liq, "close_stop_loss_order", pa)>>,
   Trade("take_profit_setup", pa, <<>>), Trade("stop_loss_setup", pa, <<>>),
   <<On("close_stop_loss_order", pa)>> \o Trade("take_profit_setup", pa, <<>>),
   Trade("take_profit_setup", pa, <<On("init_or_update_take_profit_order", pa)>>),
   <<On("take_profit_setup", pa), Swap, On("stop_loss_cleanup", pa)>>,
   <<On("take_profit_setup", pa), Swap, On("liquidate_position_cleanup", pa)>>,
   <<On("claim_position", pa)>>,
   Trade("close_long_position_setup", pa, <<>>)}

\* The assumption of the properties and theorems: no setup is an inner one.
ASSUME PlansSetUpOnTop ==
  \A plan \in Plans : \A i \in 1..Len(plan) :
    plan[i].op \in DOMAIN CleanupOf => plan[i].top

SomePrices == {<<2, 3>>, <<1, 6>>}
=============================================================================
