---------------------------- MODULE MCStrategies ----------------------------
(* Instances of Strategies for TLC: which transactions are submitted.      *)
EXTENDS Strategies

CONSTANTS s1, s2, borrower, anybody

OneStrategy == {s1}
TwoStrategies == {s1, s2}
Wallets == {borrower, anybody}
Borrower == {borrower}
BorrowerSigns == {{borrower}}
EitherSigns == {{borrower}, {anybody}}

By(authority, op, id) ==
  [op |-> op, strategy |-> id, authority |-> authority, top |-> TRUE]
On(op, id) == By(borrower, op, id)
\* Invoked by the other program's instruction before it.
Inner(op, id) == [On(op, id) EXCEPT !.top = FALSE]
Exchange == On("other", s1)

Invest(between) == <<On("strategy_deposit_setup", s1), Exchange>> \o between
                      \o <<On("strategy_deposit_cleanup", s1)>>
Divest(between) == <<On("strategy_withdraw_setup", s1), Exchange>> \o between
                      \o <<On("strategy_withdraw_cleanup", s1)>>

\* What a borrower does from one day to the next.
Ordinary ==
  {<<On("init_strategy", s1)>>, <<On("close_strategy", s1)>>, Invest(<<>>), Divest(<<>>),
   <<On("strategy_claim_yield", s1)>>,
   Divest(<<>>) \o <<On("close_strategy", s1)>>}

\* The other users of the vault, on their own.
Others == {<<On("deposit", s1)>>, <<On("withdraw", s1)>>, <<On("open_position", s1)>>,
           <<On("close_position", s1)>>, <<On("claim_position", s1)>>}

\* Anybody pays into the collateral vault.
Surplus == {<<Exchange>>}

\* Setups and cleanups that do not fit, yield reported in between, and
\* instructions that the exchange invokes.
Mispaired ==
  {<<On("init_strategy", s2)>>,
   <<On("strategy_deposit_setup", s1), Exchange>>,
   <<On("strategy_deposit_setup", s1), Exchange, On("strategy_withdraw_cleanup", s1)>>,
   <<On("strategy_withdraw_setup", s1), Exchange, On("strategy_deposit_cleanup", s1)>>,
   <<On("strategy_deposit_setup", s1), Exchange, On("strategy_deposit_cleanup", s2)>>,
   <<On("strategy_deposit_setup", s1), Exchange, By(anybody, "strategy_deposit_cleanup", s1)>>,
   <<By(anybody, "strategy_withdraw_setup", s1), Exchange,
     By(anybody, "strategy_withdraw_cleanup", s1)>>,
   Invest(<<On("strategy_claim_yield", s1)>>),
   Divest(<<On("close_strategy", s1), On("init_strategy", s1)>>),
   <<Exchange, Inner("strategy_claim_yield", s1)>> \o Divest(<<>>),
   Invest(<<Inner("strategy_deposit_cleanup", s1)>>),
   <<On("strategy_withdraw_setup", s1), Exchange, Inner("strategy_withdraw_cleanup", s1)>>}

\* Liquidity and claims between setup and cleanup.
Interleaved ==
  {Invest(<<On("withdraw", s1)>>), Divest(<<On("deposit", s1)>>),
   Divest(<<On("claim_position", s1)>>)}

\* One setup and both cleanups: once one has settled, the other must fail.
TwoCleanups ==
  {Invest(<<On("strategy_withdraw_cleanup", s1)>>),
   Divest(<<On("strategy_deposit_cleanup", s1)>>)}

UndisturbedPlans == Ordinary \cup Others \cup Interleaved \cup TwoCleanups
InterleavedPlans == Ordinary \cup Interleaved
MixedPlans == Ordinary \cup Mispaired \cup TwoCleanups \cup Interleaved \cup Surplus
                \cup {<<On("open_position", s1)>>, <<On("close_position", s1)>>}

\* The assumption of the properties and theorems: no setup is an inner one.
ASSUME PlansSetUpOnTop ==
  \A plan \in Plans : \A i \in 1..Len(plan) :
    plan[i].op \in SetupOps \cup {"open_position", "close_position"} => plan[i].top
=============================================================================
