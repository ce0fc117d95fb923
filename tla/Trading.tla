------------------------------ MODULE Trading ------------------------------
(***************************************************************************)
(* Margin trading against one LP vault, at the granularity of the chain:   *)
(* a transaction is a sequence of instructions that runs to its end or     *)
(* leaves no trace, and a trade is a setup instruction, instructions of    *)
(* other programs (the swap), and a cleanup instruction.  Between setup    *)
(* and cleanup the pool's tokens are delegated to the cosigner, the        *)
(* request account remembers the balances of before, and instructions the  *)
(* program does not control run.                                           *)
(*                                                                         *)
(* Such an instruction may itself invoke this program.  What it invokes is *)
(* an instruction that is not on top: it runs behind the invoking one with *)
(* the same accounts and signatures, but the list of instructions that     *)
(* setups look at does not show it.                                        *)
(*                                                                         *)
(* acc holds the accounts a transaction may write, saved their values as   *)
(* of the last committed transaction.                                      *)
(***************************************************************************)
EXTENDS CloseMath, Sequences, FiniteSets, UnitSum

CONSTANTS
  Owners, Authorities,        \* wallets of traders, wallets that hold a permission
  CanCosign, CanLiquidate,    \* the authorities with COSIGN_SWAPS, with LIQUIDATE
  Pools, LongPools,           \* pools, the long ones among them
  Positions, TraderOf, PoolOf \* position addresses, and the seeds they derive from

CONSTANTS
  Plans,                      \* the transactions that may be submitted
  Signings,                   \* the sets of wallets that may sign one
  DownPayments, Principals, Fees, MinTargets, InterestArgs, ExecutionFees,
  SwapAmounts, LpAmounts, OrderPrices,
  MaxApys, MaxLeverages, LiquidationFees,
  InitialAssets,
  MaxBalance,                 \* bound: balance of a token account
  MaxNow                      \* bound: the clock

\* The owner and the pool are seeds of a position's address.
ASSUME TradingAssumption ==
  /\ IsFiniteSet(Positions) /\ Positions # {} /\ Pools # {} /\ Authorities # {}
  /\ CanCosign \subseteq Authorities /\ CanLiquidate \subseteq Authorities
  /\ LongPools \subseteq Pools
  /\ TraderOf \in [Positions -> Owners] /\ PoolOf \in [Positions -> Pools]
  /\ DownPayments \subseteq Nat /\ Principals \subseteq Nat /\ Fees \subseteq Nat
  /\ MinTargets \subseteq Nat /\ InterestArgs \subseteq Nat /\ ExecutionFees \subseteq Nat
  /\ SwapAmounts \subseteq Nat /\ LpAmounts \subseteq Nat
  /\ OrderPrices \subseteq Nat \X Nat
  /\ MaxApys \subseteq Nat /\ LiquidationFees \subseteq Nat
  /\ MaxLeverages \subseteq Nat
  /\ InitialAssets \subseteq 0..MaxBalance
  /\ MaxBalance \in Nat /\ MaxNow \in Nat

VARIABLES
  acc,     \* accounts as the running transaction has left them
  saved,   \* accounts as of the last commit
  tx,      \* the transaction: its instructions, the next one, its signers
  now,     \* the clock
  settings \* GlobalSettings and DebtController

vars == <<acc, saved, tx, now, settings>>
-----------------------------------------------------------------------------
(* Instructions and accounts *)

CloseSetups == {"close_long_position_setup", "close_short_position_setup",
                "liquidate_position_setup", "take_profit_setup", "stop_loss_setup"}

CleanupOf ==
  [open_long_position_setup   |-> "open_long_position_cleanup",
   open_short_position_setup  |-> "open_short_position_cleanup",
   close_long_position_setup  |-> "close_long_position_cleanup",
   close_short_position_setup |-> "close_short_position_cleanup",
   liquidate_position_setup   |-> "liquidate_position_cleanup",
   take_profit_setup          |-> "take_profit_cleanup",
   stop_loss_setup            |-> "stop_loss_cleanup"]

OrderClosings == {"close_take_profit_order", "close_stop_loss_order"}

Ops == DOMAIN CleanupOf \cup {CleanupOf[s] : s \in DOMAIN CleanupOf} \cup OrderClosings
         \cup {"init_or_update_take_profit_order", "init_or_update_stop_loss_order",
               "claim_position", "deposit", "withdraw",
               "other"} \* an instruction of another program: the swap

\* An instruction names its accounts; nothing but the handlers' own checks
\* makes pos, pool and owner of one instruction fit those of another.  It is on
\* top if it is one of the transaction's own instructions, not one that another
\* program invokes.
Instructions == [op : Ops, pos : Positions, pool : Pools, owner : Owners,
                 authority : Authorities, top : BOOLEAN]

ASSUME PlansAssumption ==
  /\ Plans \subseteq Seq(Instructions)
  /\ Signings \subseteq SUBSET (Owners \cup Authorities)

NoPosition == [open |-> FALSE, down_payment |-> 0, principal |-> 0, collateral_amount |-> 0,
               fees_to_be_paid |-> 0, last_funding_timestamp |-> 0]

NoOrder == [set |-> FALSE, maker_amount |-> 0, taker_amount |-> 0]

\* A request account; open requests leave the last three fields alone.
Requests == [pending : BOOLEAN, pos : Positions, pool : Pools, authority : Authorities,
             min_target_amount : Nat, max_amount_in : Nat,
             maker_bal_before : Nat, taker_bal_before : Nat,
             interest : Nat, execution_fee : Nat]

NoRequest == [pending |-> FALSE, pos |-> CHOOSE p \in Positions : TRUE,
              pool |-> CHOOSE q \in Pools : TRUE, authority |-> CHOOSE a \in Authorities : TRUE,
              min_target_amount |-> 0, max_amount_in |-> 0,
              maker_bal_before |-> 0, taker_bal_before |-> 0,
              interest |-> 0, execution_fee |-> 0]

PositionRecords == [open : BOOLEAN, down_payment : Nat, principal : Nat,
                    collateral_amount : Nat, fees_to_be_paid : Nat,
                    last_funding_timestamp : Nat]

OrderRecords == [set : BOOLEAN, maker_amount : Nat, taker_amount : Nat]

Accounts ==
  [vault : Nat, total_assets : Nat,
   currency_vault : [Pools -> Nat], collateral_vault : [Pools -> Nat],
   currency_allowance : [Pools -> Nat], collateral_allowance : [Pools -> Nat],
   position : [Positions -> PositionRecords],
   open_request : [Owners -> Requests], close_request : [Owners -> Requests],
   take_profit_order : [Positions -> OrderRecords],
   stop_loss_order : [Positions -> OrderRecords]]

Transactions == [running : BOOLEAN, ixs : Seq(Instructions), pc : Nat \ {0},
                 signers : SUBSET (Owners \cup Authorities)]

Idle == [running |-> FALSE, ixs |-> <<>>, pc |-> 1, signers |-> {}]

TypeOK ==
  /\ acc \in Accounts
  /\ saved \in Accounts
  /\ tx \in Transactions
  /\ now \in Nat
  /\ settings \in [can_trade : BOOLEAN, max_apy : Nat,
                   max_leverage : Nat, liquidation_fee : Nat]

Init ==
  /\ \E assets \in InitialAssets :
       acc = [vault |-> assets, total_assets |-> assets,
              currency_vault |-> [q \in Pools |-> 0], collateral_vault |-> [q \in Pools |-> 0],
              currency_allowance |-> [q \in Pools |-> 0],
              collateral_allowance |-> [q \in Pools |-> 0],
              position |-> [p \in Positions |-> NoPosition],
              open_request |-> [o \in Owners |-> NoRequest],
              close_request |-> [o \in Owners |-> NoRequest],
              take_profit_order |-> [p \in Positions |-> NoOrder],
              stop_loss_order |-> [p \in Positions |-> NoOrder]]
  /\ saved = acc
  /\ tx = Idle
  /\ now = 0
  /\ settings \in [can_trade : BOOLEAN, max_apy : MaxApys, max_leverage : MaxLeverages,
                   liquidation_fee : LiquidationFees]
-----------------------------------------------------------------------------
(* Transactions *)

Ix == tx.ixs[tx.pc]

Begin(plan, signers) ==
  /\ ~tx.running
  /\ tx' = [running |-> TRUE, ixs |-> plan, pc |-> 1, signers |-> signers]
  /\ UNCHANGED <<acc, saved, now, settings>>

Commit ==
  /\ tx.running /\ tx.pc > Len(tx.ixs)
  /\ saved' = acc
  /\ tx' = Idle
  /\ UNCHANGED <<acc, now, settings>>

\* An instruction fails, or the transaction runs out of its compute budget.
Abort ==
  /\ tx.running
  /\ acc' = saved
  /\ tx' = Idle
  /\ UNCHANGED <<saved, now, settings>>

\* The transaction has come to an instruction op ...
At(op) == tx.running /\ tx.pc <= Len(tx.ixs) /\ Ix.op = op

\* ... and leaves it behind.
Advance == tx' = [tx EXCEPT !.pc = @ + 1] /\ UNCHANGED <<saved, now, settings>>

\* Looks at the instructions before the current one only.
IntrospectedBackwards(cleanup) ==
  \A i \in 1..(tx.pc - 1) : tx.ixs[i].top => tx.ixs[i].op \in {"other"} \cup OrderClosings

\* setup_transaction_introspection_validation: no instruction of the program
\* before this one, except the closing of orders, and the cleanup after it.
\* What else comes after is not looked at, nor is what is not on top: the sysvar
\* lists the transaction's own instructions and the index of the one that runs.
Introspected(cleanup) ==
  /\ \A i \in 1..(tx.pc - 1) : tx.ixs[i].top => tx.ixs[i].op \in {"other"} \cup OrderClosings
  /\ \E i \in (tx.pc + 1)..Len(tx.ixs) : tx.ixs[i].top /\ tx.ixs[i].op = cleanup

\* The delegate moves what the pool's token account approved and whoever runs
\* the swap pays into the pool's other account.  What the swap's program invokes
\* of this one are instructions of their own, not on top.
Other(bought, sold) ==
  LET pool == Ix.pool IN
  /\ At("other")
  /\ \/ /\ sold <= acc.currency_allowance[pool] /\ sold <= acc.currency_vault[pool]
        /\ acc.collateral_vault[pool] + bought <= MaxBalance
        /\ acc' = [acc EXCEPT !.currency_vault[pool] = @ - sold,
                              !.currency_allowance[pool] = @ - sold,
                              !.collateral_vault[pool] = @ + bought]
     \/ /\ sold <= acc.collateral_allowance[pool] /\ sold <= acc.collateral_vault[pool]
        /\ acc.currency_vault[pool] + bought <= MaxBalance
        /\ acc' = [acc EXCEPT !.collateral_vault[pool] = @ - sold,
                              !.collateral_allowance[pool] = @ - sold,
                              !.currency_vault[pool] = @ + bought]
  /\ Advance

\* Liquidity providers; their shares are the subject of LpShares.
Deposit(amount) ==
  /\ At("deposit")
  /\ acc.total_assets + amount <= MaxBalance
  /\ acc' = [acc EXCEPT !.vault = @ + amount, !.total_assets = @ + amount]
  /\ Advance

\* Pays out whatever is asked for.
WithdrawUnchecked(amount) ==
  /\ At("withdraw")
  /\ acc' = [acc EXCEPT !.vault = @ - amount, !.total_assets = @ - amount]
  /\ Advance

Withdraw(amount) ==
  /\ At("withdraw")
  /\ amount <= acc.vault /\ amount <= acc.total_assets
  /\ acc' = [acc EXCEPT !.vault = @ - amount, !.total_assets = @ - amount]
  /\ Advance
-----------------------------------------------------------------------------
(* Opening a position *)

\* What the two setups share: signatures, permission, switch, introspection,
\* and the two accounts that init creates, the position at its address.
MayOpen(ix) ==
  /\ {ix.owner, ix.authority} \subseteq tx.signers
  /\ ix.authority \in CanCosign
  /\ settings.can_trade
  /\ Introspected(CleanupOf[ix.op])
  /\ TraderOf[ix.pos] = ix.owner /\ PoolOf[ix.pos] = ix.pool
  /\ ~acc.open_request[ix.owner].pending
  /\ ~acc.position[ix.pos].open

NewPosition(down_payment, principal, fee) ==
  [open |-> TRUE, down_payment |-> down_payment, principal |-> principal,
   collateral_amount |-> 0, fees_to_be_paid |-> fee, last_funding_timestamp |-> now]

OpenRequest(ix, minTarget, maxIn, makerBefore, takerBefore) ==
  [NoRequest EXCEPT !.pending = TRUE, !.pos = ix.pos, !.pool = ix.pool,
     !.authority = ix.authority, !.min_target_amount = minTarget, !.max_amount_in = maxIn,
     !.maker_bal_before = makerBefore, !.taker_bal_before = takerBefore]

\* The vault lends the principal, the trader adds the down payment, and the
\* cosigner may swap both.
OpenLongPositionSetup(minTarget, down_payment, principal, fee) ==
  LET ix == Ix
      swapped == principal + down_payment
      balance == acc.currency_vault[ix.pool] + swapped
  IN
  /\ At("open_long_position_setup")
  /\ MayOpen(ix)
  /\ ix.pool \in LongPools
  /\ principal <= acc.vault
  /\ balance <= MaxBalance
  /\ settings.max_leverage >= LeverageDenominator
  /\ principal <= MaxPrincipal(down_payment, settings.max_leverage)
  /\ acc' = [acc EXCEPT
       !.vault = @ - principal,
       !.currency_vault[ix.pool] = balance,
       !.currency_allowance[ix.pool] = swapped,
       !.open_request[ix.owner] =
          OpenRequest(ix, minTarget, swapped, balance, acc.collateral_vault[ix.pool]),
       !.position[ix.pos] = NewPosition(down_payment, principal, fee)]
  /\ Advance

\* The down payment goes straight to the collateral; the principal is swapped.
OpenShortPositionSetup(minTarget, down_payment, principal, fee) ==
  LET ix == Ix
      maker == acc.currency_vault[ix.pool] + principal
      taker == acc.collateral_vault[ix.pool] + down_payment
  IN
  /\ At("open_short_position_setup")
  /\ MayOpen(ix)
  /\ ix.pool \notin LongPools
  /\ principal <= acc.vault
  /\ maker <= MaxBalance /\ taker <= MaxBalance
  /\ acc' = [acc EXCEPT
       !.vault = @ - principal,
       !.currency_vault[ix.pool] = maker,
       !.collateral_vault[ix.pool] = taker,
       !.currency_allowance[ix.pool] = principal,
       !.open_request[ix.owner] = OpenRequest(ix, minTarget, 0, maker, taker),
       !.position[ix.pos] = NewPosition(down_payment, principal, fee)]
  /\ Advance

\* Takes the whole vault for what the swap bought.
BoughtWhole(ix) == acc.collateral_vault[ix.pool]

\* What the swap bought: the pool's other positions share the vault.
Bought(ix) == acc.collateral_vault[ix.pool] - acc.open_request[ix.owner].taker_bal_before

\* What it cost, and the request's share of the checks of both cleanups.
Used(ix) == acc.open_request[ix.owner].maker_bal_before - acc.currency_vault[ix.pool]

MatchesOpenRequest(ix) ==
  LET request == acc.open_request[ix.owner] IN
  /\ ix.owner \in tx.signers
  /\ request.pending
  /\ acc.position[ix.pos].open
  /\ ix.pos = request.pos /\ ix.pool = request.pool
  /\ Bought(ix) >= request.min_target_amount
  /\ Bought(ix) >= 0 /\ Used(ix) >= 0

OpenLongPositionCleanup ==
  LET ix == Ix IN
  /\ At("open_long_position_cleanup")
  /\ MatchesOpenRequest(ix)
  /\ ix.pool \in LongPools
  /\ Used(ix) <= acc.open_request[ix.owner].max_amount_in
  /\ acc' = [acc EXCEPT
       !.currency_allowance[ix.pool] = 0,
       !.position[ix.pos].collateral_amount = Bought(ix),
       !.open_request[ix.owner] = NoRequest]
  /\ Advance

\* Returns the whole principal.
UnusedWhole(principal, used) == principal

\* The principal that the swap left over.
Unused(principal, used) == principal - used

\* The principal not swapped goes back to the vault and is not owed.
OpenShortPositionCleanup ==
  LET ix == Ix
      position == acc.position[ix.pos]
      unused   == Unused(position.principal, Used(ix))
  IN
  /\ At("open_short_position_cleanup")
  /\ MatchesOpenRequest(ix)
  /\ ix.pool \notin LongPools
  /\ Bought(ix) <= MaxProceeds(position.down_payment, settings.max_leverage)
  /\ Used(ix) <= position.principal
  /\ unused <= acc.currency_vault[ix.pool]
  /\ acc' = [acc EXCEPT
       !.currency_allowance[ix.pool] = 0,
       !.currency_vault[ix.pool] = @ - unused,
       !.vault = @ + unused,
       !.position[ix.pos] = [@ EXCEPT !.principal = Used(ix),
                                      !.collateral_amount = Bought(ix) + position.down_payment],
       !.open_request[ix.owner] = NoRequest]
  /\ Advance
-----------------------------------------------------------------------------
(* Closing a position: setups *)

\* What the five setups share.  The pool follows from the collateral vault that
\* position and pool both name; max_amount_in is never read again.
ClosePositionSetup(minTarget, interest, executionFee) ==
  LET ix == Ix
      position == acc.position[ix.pos]
  IN
  /\ ix.authority \in tx.signers
  /\ position.open
  /\ PoolOf[ix.pos] = ix.pool
  /\ Introspected(CleanupOf[ix.op])
  /\ ix.owner = TraderOf[ix.pos]
  /\ ~acc.close_request[ix.owner].pending
  /\ acc' = [acc EXCEPT
       !.collateral_allowance[ix.pool] = position.collateral_amount,
       !.close_request[ix.owner] =
          [pending |-> TRUE, pos |-> ix.pos, pool |-> ix.pool, authority |-> ix.authority,
           min_target_amount |-> minTarget, max_amount_in |-> position.collateral_amount,
           maker_bal_before |-> acc.collateral_vault[ix.pool],
           taker_bal_before |-> acc.currency_vault[ix.pool],
           interest |-> interest, execution_fee |-> executionFee]]
  /\ Advance

CloseLongPositionSetup(minTarget, interest, executionFee) ==
  /\ At("close_long_position_setup")
  /\ Ix.owner \in tx.signers
  /\ Ix.authority \in CanCosign
  /\ Ix.pool \in LongPools
  /\ ClosePositionSetup(minTarget, interest, executionFee)

CloseShortPositionSetup(minTarget, interest, executionFee) ==
  /\ At("close_short_position_setup")
  /\ Ix.owner \in tx.signers
  /\ Ix.authority \in CanCosign
  /\ Ix.pool \notin LongPools
  /\ ClosePositionSetup(minTarget, interest, executionFee)

LiquidatePositionSetup(minTarget, interest, executionFee) ==
  /\ At("liquidate_position_setup")
  /\ Ix.authority \in CanLiquidate
  /\ ClosePositionSetup(minTarget, interest, executionFee)

TakeProfitSetup(minTarget, interest, executionFee) ==
  /\ At("take_profit_setup")
  /\ Ix.authority \in CanCosign
  /\ ClosePositionSetup(minTarget, interest, executionFee)

StopLossSetup(minTarget, interest, executionFee) ==
  /\ At("stop_loss_setup")
  /\ Ix.authority \in CanCosign
  /\ ClosePositionSetup(minTarget, interest, executionFee)
-----------------------------------------------------------------------------
(* Closing a position: cleanups *)

Spent(ix)    == acc.close_request[ix.owner].maker_bal_before - acc.collateral_vault[ix.pool]
Received(ix) == acc.currency_vault[ix.pool] - acc.close_request[ix.owner].taker_bal_before

InterestDue(pos) ==
  MaxInterest(acc.position[pos].principal, settings.max_apy,
              now - acc.position[pos].last_funding_timestamp)

\* ClosePositionCleanup::validate.
MatchesCloseRequest(ix) ==
  LET request == acc.close_request[ix.owner] IN
  /\ ix.authority \in tx.signers
  /\ request.pending
  /\ acc.position[ix.pos].open
  /\ ix.pos = request.pos /\ ix.pool = request.pool
  /\ PoolOf[ix.pos] = ix.pool
  /\ Received(ix) >= request.min_target_amount
  /\ Spent(ix) >= 0
  /\ Spent(ix) <= acc.position[ix.pos].collateral_amount
  /\ request.authority = ix.authority

\* Where the amounts of the closing ix go; liquidationFee is zero unless the
\* action is a liquidation.
AmountsOf(ix, liquidationFee) ==
  LET request == acc.close_request[ix.owner]
      position == acc.position[ix.pos]
  IN CloseAmounts(position, ix.pool \in LongPools, Spent(ix), Received(ix),
                  CapInterest(request.interest, InterestDue(ix.pos)),
                  request.execution_fee, liquidationFee)

\* Forgets to write off what was not repaid.
TotalAssetsKept(principal, amounts) == acc.total_assets + amounts.interest_paid

\* update_total_assets: a principal not repaid is a loss.
TotalAssetsAfter(principal, amounts) ==
  IF amounts.principal_repaid < principal
  THEN acc.total_assets - (principal - amounts.principal_repaid)
  ELSE acc.total_assets + amounts.interest_paid

\* Lets any closing leave bad debt.
BadDebtIgnored(isLiquidation, principal, amounts) == TRUE

\* Only a liquidation may leave bad debt.
BadDebtAllowed(isLiquidation, principal, amounts) ==
  isLiquidation \/ amounts.principal_repaid >= principal

\* What the pool pays from the currency and from the collateral.
PaidOut(amounts) == amounts.close_fee + amounts.liquidation_fee + amounts.payout

ClosePositionCleanup(isLiquidation, amounts) ==
  LET ix == Ix
      isLong == ix.pool \in LongPools
      position == acc.position[ix.pos]
      total == TotalAssetsAfter(position.principal, amounts)
      currencyOut == ToVault(amounts) + (IF isLong THEN PaidOut(amounts) ELSE 0)
      collateralOut == IF isLong THEN 0 ELSE PaidOut(amounts)
  IN
  /\ MatchesCloseRequest(ix)
  /\ CloseFeeBase(position, isLong) > 0
  /\ InterestAccepted(isLong,
       CapInterest(acc.close_request[ix.owner].interest, InterestDue(ix.pos)),
       amounts.interest_paid)
  /\ BadDebtAllowed(isLiquidation, position.principal, amounts)
  /\ total \in 0..MaxBalance
  /\ currencyOut <= acc.currency_vault[ix.pool]
  /\ collateralOut <= acc.collateral_vault[ix.pool]
  /\ acc' = [acc EXCEPT
       !.collateral_allowance[ix.pool] = 0,
       !.total_assets = total,
       !.vault = @ + ToVault(amounts),
       !.currency_vault[ix.pool] = @ - currencyOut,
       !.collateral_vault[ix.pool] = @ - collateralOut,
       !.position[ix.pos] = NoPosition,
       !.close_request[ix.owner] = NoRequest,
       !.take_profit_order[ix.pos] = IF ix.op = "take_profit_cleanup" THEN NoOrder ELSE @,
       !.stop_loss_order[ix.pos] = IF ix.op = "stop_loss_cleanup" THEN NoOrder ELSE @]
  /\ Advance

\* An owner signs beside the authority, but any wallet will do: nothing ties it
\* to the owner the request belongs to.
CloseLongPositionCleanup ==
  /\ At("close_long_position_cleanup")
  /\ ClosePositionCleanup(FALSE, AmountsOf(Ix, 0))

CloseShortPositionCleanup ==
  /\ At("close_short_position_cleanup")
  /\ ClosePositionCleanup(FALSE, AmountsOf(Ix, 0))

LiquidatePositionCleanup ==
  LET position == acc.position[Ix.pos]
      amounts  == AmountsOf(Ix, LiquidationFee(position.down_payment, settings.liquidation_fee))
  IN
  /\ At("liquidate_position_cleanup")
  /\ ClosePositionCleanup(TRUE, amounts)
  /\ Liquidatable(position, Ix.pool \in LongPools, amounts)

TakeProfitCleanup ==
  LET order == acc.take_profit_order[Ix.pos]
      amounts == AmountsOf(Ix, 0)
  IN
  /\ At("take_profit_cleanup")
  /\ order.set
  /\ ClosePositionCleanup(FALSE, amounts)
  /\ TargetReached(order, Ix.pool \in LongPools, amounts)

StopLossCleanup ==
  LET order == acc.stop_loss_order[Ix.pos]
      amounts == AmountsOf(Ix, 0)
  IN
  /\ At("stop_loss_cleanup")
  /\ order.set
  /\ ClosePositionCleanup(FALSE, amounts)
  /\ StopReached(order, Ix.pool \in LongPools, amounts)
-----------------------------------------------------------------------------
(* Claiming: the trader pays the debt and takes the collateral, no swap *)

\* Refuses while trading is switched off, as openings do.
ClaimWhileTrading ==
  LET ix == Ix
      position == acc.position[ix.pos]
      interest == InterestDue(ix.pos)
  IN
  /\ At("claim_position")
  /\ settings.can_trade
  /\ ix.owner \in tx.signers /\ ix.owner = TraderOf[ix.pos]
  /\ position.open /\ PoolOf[ix.pos] = ix.pool
  /\ acc.total_assets + interest <= MaxBalance
  /\ ix.pool \notin LongPools => position.fees_to_be_paid <= position.collateral_amount
  /\ position.collateral_amount <= acc.collateral_vault[ix.pool]
  /\ acc' = [acc EXCEPT
       !.vault = @ + position.principal + interest,
       !.total_assets = @ + interest,
       !.collateral_vault[ix.pool] = @ - position.collateral_amount,
       !.position[ix.pos] = NoPosition]
  /\ Advance

ClaimPosition ==
  LET ix == Ix
      position == acc.position[ix.pos]
      interest == InterestDue(ix.pos)
  IN
  /\ At("claim_position")
  /\ ix.owner \in tx.signers /\ ix.owner = TraderOf[ix.pos]
  /\ position.open /\ PoolOf[ix.pos] = ix.pool
  /\ acc.total_assets + interest <= MaxBalance
  /\ ix.pool \notin LongPools => position.fees_to_be_paid <= position.collateral_amount
  /\ position.collateral_amount <= acc.collateral_vault[ix.pool]
  /\ acc' = [acc EXCEPT
       !.vault = @ + position.principal + interest,
       !.total_assets = @ + interest,
       !.collateral_vault[ix.pool] = @ - position.collateral_amount,
       !.position[ix.pos] = NoPosition]
  /\ Advance
-----------------------------------------------------------------------------
(* Exit orders *)

NewOrder(price) == [set |-> TRUE, maker_amount |-> price[1], taker_amount |-> price[2]]

\* The position's trader places the order, or replaces it.
MayOrder(ix) ==
  ix.owner \in tx.signers /\ ix.owner = TraderOf[ix.pos] /\ acc.position[ix.pos].open

InitOrUpdateTakeProfitOrder(price) ==
  /\ At("init_or_update_take_profit_order")
  /\ MayOrder(Ix)
  /\ acc' = [acc EXCEPT !.take_profit_order[Ix.pos] = NewOrder(price)]
  /\ Advance

InitOrUpdateStopLossOrder(price) ==
  /\ At("init_or_update_stop_loss_order")
  /\ MayOrder(Ix)
  /\ acc' = [acc EXCEPT !.stop_loss_order[Ix.pos] = NewOrder(price)]
  /\ Advance

\* The trader or a liquidator takes the order of an open position back.
MayCancel(ix) ==
  /\ acc.position[ix.pos].open
  /\ \/ ix.owner \in tx.signers /\ ix.owner = TraderOf[ix.pos]
     \/ ix.authority \in tx.signers \cap CanLiquidate

CloseTakeProfitOrder ==
  /\ At("close_take_profit_order")
  /\ MayCancel(Ix) /\ acc.take_profit_order[Ix.pos].set
  /\ acc' = [acc EXCEPT !.take_profit_order[Ix.pos] = NoOrder]
  /\ Advance

CloseStopLossOrder ==
  /\ At("close_stop_loss_order")
  /\ MayCancel(Ix) /\ acc.stop_loss_order[Ix.pos].set
  /\ acc' = [acc EXCEPT !.stop_loss_order[Ix.pos] = NoOrder]
  /\ Advance
-----------------------------------------------------------------------------
(* Between transactions *)

Tick ==
  /\ ~tx.running
  /\ now < MaxNow
  /\ now' = now + 1
  /\ UNCHANGED <<acc, saved, tx, settings>>

Configure(changed) ==
  /\ ~tx.running
  /\ settings' = changed
  /\ UNCHANGED <<acc, saved, tx, now>>

SetTradingState(allow) == Configure([settings EXCEPT !.can_trade = allow])

SetMaxApy(apy) ==
  /\ apy # 0 /\ apy < 1000 * ApyDenominator
  /\ Configure([settings EXCEPT !.max_apy = apy])

SetMaxLeverage(leverage) ==
  /\ leverage # 0 /\ leverage <= 100 * LeverageDenominator
  /\ Configure([settings EXCEPT !.max_leverage = leverage])

SetLiquidationFee(fee) ==
  /\ fee # 0 /\ fee < 256
  /\ Configure([settings EXCEPT !.liquidation_fee = fee])
-----------------------------------------------------------------------------
OpenSetup ==
  \E minTarget \in MinTargets, down_payment \in DownPayments,
     principal \in Principals, fee \in Fees :
    \/ OpenLongPositionSetup(minTarget, down_payment, principal, fee)
    \/ OpenShortPositionSetup(minTarget, down_payment, principal, fee)

CloseSetup ==
  \E minTarget \in MinTargets, interest \in InterestArgs, fee \in ExecutionFees :
    \/ CloseLongPositionSetup(minTarget, interest, fee)
    \/ CloseShortPositionSetup(minTarget, interest, fee)
    \/ LiquidatePositionSetup(minTarget, interest, fee)
    \/ TakeProfitSetup(minTarget, interest, fee)
    \/ StopLossSetup(minTarget, interest, fee)

CloseCleanup ==
  \/ CloseLongPositionCleanup
  \/ CloseShortPositionCleanup
  \/ LiquidatePositionCleanup
  \/ TakeProfitCleanup
  \/ StopLossCleanup

OrderStep ==
  \/ \E price \in OrderPrices : InitOrUpdateTakeProfitOrder(price)
  \/ \E price \in OrderPrices : InitOrUpdateStopLossOrder(price)
  \/ CloseTakeProfitOrder
  \/ CloseStopLossOrder

Instruction ==
  \/ OpenSetup
  \/ OpenLongPositionCleanup
  \/ OpenShortPositionCleanup
  \/ CloseSetup
  \/ CloseCleanup
  \/ ClaimPosition
  \/ OrderStep
  \/ \E bought, sold \in SwapAmounts : Other(bought, sold)
  \/ \E amount \in LpAmounts : Deposit(amount) \/ Withdraw(amount)

Administration ==
  \/ \E allow \in BOOLEAN : SetTradingState(allow)
  \/ \E apy \in MaxApys : SetMaxApy(apy)
  \/ \E leverage \in MaxLeverages : SetMaxLeverage(leverage)
  \/ \E fee \in LiquidationFees : SetLiquidationFee(fee)

Next ==
  \/ \E plan \in Plans, signers \in Signings : Begin(plan, signers)
  \/ Instruction
  \/ Commit
  \/ Abort
  \/ Tick
  \/ Administration

Spec == Init /\ [][Next]_vars
-----------------------------------------------------------------------------
(* Properties *)

\* What the program relies on and does not enforce: setups are instructions of
\* the transaction itself.  Introspection does not see one that another program
\* invokes, and such a setup finds the cleanup meant for another one.  The
\* properties below that name this assumption are claimed only under it.
SetupsOnTop ==
  tx.running => \A i \in 1..Len(tx.ixs) : tx.ixs[i].op \in DOMAIN CleanupOf => tx.ixs[i].top

\* Under SetupsOnTop: what a transaction opens for itself it also closes.  Between
\* transactions no request account is left for a later cleanup and nobody may
\* spend a pool's tokens.  Setups only look for a cleanup among the instructions
\* to come (setup_transaction_introspection_validation); that it runs, on the same
\* position and not after another one took its request, is what is at stake.
NothingOutlivesTx ==
  ~tx.running =>
    /\ \A o \in Owners : ~acc.open_request[o].pending /\ ~acc.close_request[o].pending
    /\ \A q \in Pools : acc.currency_allowance[q] = 0 /\ acc.collateral_allowance[q] = 0

Backed(accounts, pool) ==
  LET claimed == [p \in {x \in Positions : PoolOf[x] = pool} |->
                    accounts.position[p].collateral_amount]
  IN Total(claimed) <= accounts.collateral_vault[pool]

\* Under SetupsOnTop: the positions of a pool share one collateral vault and every
\* cleanup measures its own part as a difference of balances: the vault still holds what all the
\* pool's open positions have recorded as their collateral.
PoolBacked == ~tx.running => \A q \in Pools : Backed(acc, q)

\* Under SetupsOnTop: a transaction never leaves a pool with less currency than it
\* found: a swap's leftovers and its proceeds are split among vault, fees and trader to the last
\* unit, and no unit comes out of what earlier trades left in the account.
CurrencyKept ==
  [][Commit => \A q \in Pools : acc.currency_vault[q] >= saved.currency_vault[q]]_vars

Includes(op) == \E i \in DOMAIN tx.ixs : tx.ixs[i].op = op

\* Under SetupsOnTop: of trading's own instructions none but withdrawals lets the
\* vault's assets shrink, unless a liquidator signed the transaction.
\* liquidate_position_cleanup itself asks for no permission and may stand behind
\* any setup.  (A strategy's loss is booked on BORROW_FROM_VAULTS alone: Strategies.)
BadDebtOnlyByLiquidator ==
  [][Commit /\ acc.total_assets < saved.total_assets /\ ~Includes("withdraw")
       => tx.signers \cap CanLiquidate # {}]_vars

\* Under SetupsOnTop: a position disappears only if its trader signed, a liquidator
\* signed, or a cosigner signed and used up an exit order the trader had placed
\* before.  No cleanup asks for the trader's signature: only the setup does.
OwnerConsent ==
  [][Commit => \A p \in Positions :
       saved.position[p].open /\ ~acc.position[p].open =>
         \/ TraderOf[p] \in tx.signers
         \/ tx.signers \cap CanLiquidate # {}
         \/ /\ tx.signers \cap CanCosign # {}
            /\ \/ saved.take_profit_order[p].set /\ ~acc.take_profit_order[p].set
               \/ saved.stop_loss_order[p].set /\ ~acc.stop_loss_order[p].set]_vars

\* An exit order holds for what the swap really exchanged, not only for the sum
\* of the amounts paid out of it: a long sells for at least (take profit) or at
\* most (stop loss) the order's taker_amount, a short buys back at no more or no
\* less than maker_amount per taker_amount.
OrderPriceMet ==
  [][/\ TakeProfitCleanup =>
          LET order == acc.take_profit_order[Ix.pos] IN
          IF Ix.pool \in LongPools THEN Received(Ix) >= order.taker_amount
          ELSE Spent(Ix) * order.taker_amount <= Received(Ix) * order.maker_amount
     /\ StopLossCleanup =>
          LET order == acc.stop_loss_order[Ix.pos] IN
          IF Ix.pool \in LongPools THEN Received(Ix) <= order.taker_amount
          ELSE Spent(Ix) * order.taker_amount >= Received(Ix) * order.maker_amount]_vars

Owed(accounts) == [p \in Positions |-> accounts.position[p].principal]

\* total_assets is the "count of the total assets owned by the vault, including
\* tokens that are currently borrowed" (LpVault.total_assets): after every
\* instruction, setups and cleanups in any order, it is the idle assets and what
\* the open positions owe.
TotalAssetsCounted == acc.total_assets = acc.vault + Total(Owed(acc))

\* An exit order has a position: "Position this Stop Loss Order corresponds to"
\* (StopLossOrder.position).  But claims, liquidations and market closings close
\* the position and do not touch its order accounts.  An order left behind stays
\* at an address that the next position of the same seeds takes over.
OrdersHavePosition ==
  ~tx.running => \A p \in Positions :
    acc.take_profit_order[p].set \/ acc.stop_loss_order[p].set => acc.position[p].open

Ledger == INSTANCE VaultLedger WITH
  Borrowers <- Positions, Amounts <- 0..MaxBalance, MaxAssets <- MaxBalance,
  idle <- acc.vault, totalAssets <- acc.total_assets, owed <- Owed(acc),
  running <- tx.running,
  saved <- [idle |-> saved.vault, totalAssets |-> saved.total_assets, owed |-> Owed(saved)]

\* To its LP vault the trading program is a ledger: every instruction funds,
\* draws, lends, takes back, settles or writes off, each position owes its
\* principal, and what a failed transaction did never happened.
LedgerImplemented == Ledger!Spec
=============================================================================
