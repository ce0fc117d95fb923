------------------------------ MODULE MCExits ------------------------------
(* An instance of Exits for TLC: a short position of every kind there is. *)
EXTENDS Exits

CONSTANTS o1, cos, liq, q, pa

Single == {pa}
SingleOwner == {o1}
Authority2 == {cos, liq}
Cosigner == {cos}
Liquidator == {liq}
OnePool == {q}
NoPool == {}
SingleTrader == [p \in Single |-> o1]
SinglePool == [p \in Single |-> q]

By(authority, op, pos) ==
  [op |-> op, pos |-> pos, pool |-> q, owner |-> TraderOf[pos], authority |-> authority,
   top |-> TRUE]

Trade(authority, setup, p) ==
  <<By(authority, setup, p), By(authority, "other", p), By(authority, CleanupOf[setup], p)>>

Claim == [p \in Positions |-> <<By(cos, "claim_position", p)>>]
ShortClose == [p \in Positions |-> Trade(cos, "close_short_position_setup", p)]
Liquidate == [p \in Positions |-> Trade(liq, "liquidate_position_setup", p)]

ShortExitPlans ==
  {Trade(cos, "open_short_position_setup", pa), Claim[pa], ShortClose[pa], Liquidate[pa],
   <<By(cos, "deposit", pa)>>, <<By(cos, "withdraw", pa)>>}

SingleSignings == {{o1}, {o1, cos}, {liq}}
=============================================================================
