----------------------------- MODULE Strategies -----------------------------
(***************************************************************************)
(* Strategies put idle assets of the LP vault to work elsewhere.  A wallet *)
(* with BORROW_FROM_VAULTS exchanges assets for a collateral token the     *)
(* vault keeps, or back, by the same pattern as a trade: a setup that      *)
(* delegates tokens and caches balances, instructions the program does not *)
(* control, and a cleanup that settles on differences of balances.  What   *)
(* the collateral is worth is reported from time to time and booked as the *)
(* strategy's debt.                                                        *)
(*                                                                         *)
(* The rest of the program is present as far as it moves the same          *)
(* accounts: providers deposit and withdraw, all positions together owe    *)
(* lent.  As in Trading, an instruction that another program invokes is    *)
(* not on top, and setups do not see it.                                   *)
(***************************************************************************)
EXTENDS CloseMath, Sequences, FiniteSets, UnitSum

CONSTANTS
  StrategyIds,         \* addresses: one per collateral token
  Authorities,         \* wallets that sign
  CanBorrow,           \* those with BORROW_FROM_VAULTS
  Plans, Signings,     \* the transactions that may be submitted, and by whom
  AmountsIn, MinTargets, SwapAmounts, Quotes,
  LpAmounts, PositionAmounts, InterestAmounts,
  MaxBorrows, InitialAssets,
  MaxBalance,          \* bound: balance of a token account
  MaxNow               \* bound: the clock

ASSUME StrategiesAssumption ==
  /\ IsFiniteSet(StrategyIds) /\ CanBorrow \subseteq Authorities
  /\ AmountsIn \subseteq Nat /\ MinTargets \subseteq Nat /\ SwapAmounts \subseteq Nat
  /\ Quotes \subseteq Nat /\ LpAmounts \subseteq Nat /\ PositionAmounts \subseteq Nat
  /\ InterestAmounts \subseteq Nat /\ MaxBorrows \subseteq Nat
  /\ MaxBalance \in Nat /\ MaxNow \in Nat /\ InitialAssets \subseteq 0..MaxBalance

VARIABLES
  vault,                \* balance of the LP vault's token account
  vault_allowance,      \* what the borrower may take from it
  total_assets, total_borrowed, max_borrow, \* LpVault
  lent,                 \* what positions owe
  strategy,             \* the strategy accounts
  collateral_vault,     \* balances of the strategies' token accounts
  collateral_allowance, \* what the borrower may take from them
  strategy_request,     \* the request accounts
  saved,                \* all of the above as of the last commit
  tx,                   \* the transaction: its instructions, the next one, its signers
  now                   \* the clock

lpVault  == <<total_assets, total_borrowed>>
tokens   == <<vault, vault_allowance, collateral_vault, collateral_allowance>>
accounts == <<tokens, lpVault, lent, strategy, strategy_request>>
vars     == <<accounts, max_borrow, saved, tx, now>>
-----------------------------------------------------------------------------
(* Accounts *)

StrategyRecords == [open : BOOLEAN, collateral_amount : Nat,
                    total_borrowed_amount : Nat, last_updated : Nat]

Requests == [pending : BOOLEAN, src_bal_before : Nat, dst_bal_before : Nat,
             min_target_amount : Nat, max_amount_in : Nat]

NoStrategy == [open |-> FALSE, collateral_amount |-> 0,
               total_borrowed_amount |-> 0, last_updated |-> 0]

NoRequest == [pending |-> FALSE, src_bal_before |-> 0, dst_bal_before |-> 0,
              min_target_amount |-> 0, max_amount_in |-> 0]

Ops == {"init_strategy", "close_strategy",
        "strategy_deposit_setup", "strategy_deposit_cleanup",
        "strategy_withdraw_setup", "strategy_withdraw_cleanup", "strategy_claim_yield",
        "deposit", "withdraw", "open_position", "close_position", "claim_position",
        "other"} \* an instruction of another program: the exchange

Instructions == [op : Ops, strategy : StrategyIds, authority : Authorities, top : BOOLEAN]

ASSUME PlansAssumption ==
  Plans \subseteq Seq(Instructions) /\ Signings \subseteq SUBSET Authorities

Working ==
  [vault |-> vault, vault_allowance |-> vault_allowance, total_assets |-> total_assets,
   total_borrowed |-> total_borrowed, lent |-> lent, strategy |-> strategy,
   collateral_vault |-> collateral_vault, collateral_allowance |-> collateral_allowance,
   strategy_request |-> strategy_request]

Accounts ==
  [vault : Nat, vault_allowance : Nat, total_assets : Nat, total_borrowed : Nat, lent : Nat,
   strategy : [StrategyIds -> StrategyRecords],
   collateral_vault : [StrategyIds -> Nat], collateral_allowance : [StrategyIds -> Nat],
   strategy_request : [StrategyIds -> Requests]]

Transactions == [running : BOOLEAN, ixs : Seq(Instructions), pc : Nat \ {0},
                 signers : SUBSET Authorities]

Idle == [running |-> FALSE, ixs |-> <<>>, pc |-> 1, signers |-> {}]

TypeOK ==
  /\ Working \in Accounts
  /\ saved \in Accounts
  /\ max_borrow \in Nat
  /\ tx \in Transactions
  /\ now \in Nat

Init ==
  /\ vault \in InitialAssets /\ total_assets = vault
  /\ total_borrowed = 0 /\ max_borrow = 0 /\ lent = 0
  /\ vault_allowance = 0
  /\ strategy = [s \in StrategyIds |-> NoStrategy]
  /\ collateral_vault = [s \in StrategyIds |-> 0]
  /\ collateral_allowance = [s \in StrategyIds |-> 0]
  /\ strategy_request = [s \in StrategyIds |-> NoRequest]
  /\ saved = Working
  /\ tx = Idle
  /\ now = 0
-----------------------------------------------------------------------------
(* Transactions *)

Begin(plan, signers) ==
  /\ ~tx.running
  /\ tx' = [running |-> TRUE, ixs |-> plan, pc |-> 1, signers |-> signers]
  /\ UNCHANGED <<accounts, max_borrow, saved, now>>

Commit ==
  /\ tx.running /\ tx.pc > Len(tx.ixs)
  /\ saved' = Working
  /\ tx' = Idle
  /\ UNCHANGED <<accounts, max_borrow, now>>

\* An instruction fails, or the transaction runs out of its compute budget.
Abort ==
  /\ tx.running
  /\ vault' = saved.vault /\ vault_allowance' = saved.vault_allowance
  /\ total_assets' = saved.total_assets /\ total_borrowed' = saved.total_borrowed
  /\ lent' = saved.lent
  /\ strategy' = saved.strategy
  /\ collateral_vault' = saved.collateral_vault
  /\ collateral_allowance' = saved.collateral_allowance
  /\ strategy_request' = saved.strategy_request
  /\ tx' = Idle
  /\ UNCHANGED <<max_borrow, saved, now>>

Ix == tx.ixs[tx.pc]

At(op) == tx.running /\ tx.pc <= Len(tx.ixs) /\ Ix.op = op

Advance == tx' = [tx EXCEPT !.pc = @ + 1] /\ UNCHANGED <<max_borrow, saved, now>>

Signed(ix) == ix.authority \in tx.signers

\* Takes any signature.
PermittedUnchecked(ix) == Signed(ix)

Permitted(ix) == Signed(ix) /\ ix.authority \in CanBorrow

\* No instruction of the program came before the current one, as far as the list
\* of the transaction's own instructions tells.
NothingBefore == \A i \in 1..(tx.pc - 1) : tx.ixs[i].top => tx.ixs[i].op = "other"

\* Looks at the instructions before the current one only.
IntrospectedBackwards(cleanup) == NothingBefore

\* setup_transaction_introspection_validation, without the exception for orders.
Introspected(cleanup) ==
  /\ NothingBefore
  /\ \E i \in (tx.pc + 1)..Len(tx.ixs) : tx.ixs[i].top /\ tx.ixs[i].op = cleanup
-----------------------------------------------------------------------------
(* The exchange, providers, positions *)

\* The delegate spends what it was allowed to, whoever exchanges it pays the
\* other side.  Anybody may add to a collateral vault at any time; what somebody
\* transfers to the LP vault while nothing is asked for is left out.
Other(bought, sold) ==
  LET s == Ix.strategy IN
  /\ At("other")
  /\ \/ /\ sold <= vault_allowance /\ sold <= vault
        /\ collateral_vault[s] + bought <= MaxBalance
        /\ vault' = vault - sold /\ vault_allowance' = vault_allowance - sold
        /\ collateral_vault' = [collateral_vault EXCEPT ![s] = @ + bought]
        /\ UNCHANGED collateral_allowance
     \/ /\ sold <= collateral_allowance[s] /\ sold <= collateral_vault[s]
        /\ bought = 0 \/ strategy_request[s].pending
        /\ vault + bought <= MaxBalance
        /\ vault' = vault + bought
        /\ collateral_vault' = [collateral_vault EXCEPT ![s] = @ - sold]
        /\ collateral_allowance' = [collateral_allowance EXCEPT ![s] = @ - sold]
        /\ UNCHANGED vault_allowance
  /\ Advance
  /\ UNCHANGED <<lpVault, lent, strategy, strategy_request>>

Deposit(amount) ==
  /\ At("deposit")
  /\ total_assets + amount <= MaxBalance
  /\ vault' = vault + amount /\ total_assets' = total_assets + amount
  /\ Advance
  /\ UNCHANGED <<vault_allowance, total_borrowed, lent, strategy, collateral_vault,
                 collateral_allowance, strategy_request>>

Withdraw(amount) ==
  /\ At("withdraw")
  /\ amount <= vault /\ amount <= total_assets
  /\ vault' = vault - amount /\ total_assets' = total_assets - amount
  /\ Advance
  /\ UNCHANGED <<vault_allowance, total_borrowed, lent, strategy, collateral_vault,
                 collateral_allowance, strategy_request>>

\* A whole opening trade, from setup to cleanup.
OpenPosition(principal) ==
  /\ At("open_position") /\ NothingBefore
  /\ principal <= vault
  /\ vault' = vault - principal /\ lent' = lent + principal
  /\ Advance
  /\ UNCHANGED <<vault_allowance, lpVault, strategy, collateral_vault,
                 collateral_allowance, strategy_request>>

\* A debt of principal is repaid with interest.
Repaid(principal, interest) ==
  /\ principal <= lent
  /\ total_assets + interest <= MaxBalance
  /\ vault' = vault + principal + interest
  /\ total_assets' = total_assets + interest
  /\ lent' = lent - principal

\* A whole closing trade: repaid, or liquidated at a loss.
ClosePosition(principal, amount) ==
  /\ At("close_position") /\ NothingBefore
  /\ \/ Repaid(principal, amount)
     \/ /\ principal <= lent /\ amount < principal /\ principal - amount <= total_assets
        /\ vault' = vault + amount
        /\ total_assets' = total_assets - (principal - amount)
        /\ lent' = lent - principal
  /\ Advance
  /\ UNCHANGED <<vault_allowance, total_borrowed, strategy, collateral_vault,
                 collateral_allowance, strategy_request>>

\* The only instruction of positions that may stand behind a strategy's setup.
ClaimPosition(principal, interest) ==
  /\ At("claim_position")
  /\ Repaid(principal, interest)
  /\ Advance
  /\ UNCHANGED <<vault_allowance, total_borrowed, strategy, collateral_vault,
                 collateral_allowance, strategy_request>>
-----------------------------------------------------------------------------
(* Strategies come and go *)

InitStrategy ==
  LET s == Ix.strategy IN
  /\ At("init_strategy")
  /\ Permitted(Ix)
  /\ ~strategy[s].open
  /\ strategy' = [strategy EXCEPT ![s] = [NoStrategy EXCEPT !.open = TRUE, !.last_updated = now]]
  /\ Advance
  /\ UNCHANGED <<tokens, lpVault, lent, strategy_request>>

MayClose(s) == collateral_vault[s] = 0

\* Whatever the strategy still owes is forgotten with it; total_borrowed stays.
CloseStrategy ==
  LET s == Ix.strategy IN
  /\ At("close_strategy")
  /\ Permitted(Ix)
  /\ strategy[s].open
  /\ MayClose(s)
  /\ strategy' = [strategy EXCEPT ![s] = NoStrategy]
  /\ collateral_allowance' = [collateral_allowance EXCEPT ![s] = 0]
  /\ Advance
  /\ UNCHANGED <<vault, vault_allowance, collateral_vault, lpVault, lent, strategy_request>>
-----------------------------------------------------------------------------
(* Setups *)

\* What the two share; init creates the request account.
MaySetup(ix, amount_in, cleanup) ==
  /\ amount_in > 0
  /\ Permitted(ix)
  /\ Introspected(cleanup)
  /\ strategy[ix.strategy].open
  /\ ~strategy_request[ix.strategy].pending

Request(amount_in, minTarget, src, dst) ==
  [pending |-> TRUE, src_bal_before |-> src, dst_bal_before |-> dst,
   min_target_amount |-> minTarget, max_amount_in |-> amount_in]

StrategyDepositSetup(amount_in, minTarget) ==
  LET s == Ix.strategy IN
  /\ At("strategy_deposit_setup")
  /\ MaySetup(Ix, amount_in, "strategy_deposit_cleanup")
  /\ vault_allowance' = amount_in
  /\ strategy_request' =
       [strategy_request EXCEPT ![s] = Request(amount_in, minTarget, vault, collateral_vault[s])]
  /\ Advance
  /\ UNCHANGED <<vault, collateral_vault, collateral_allowance, lpVault, lent, strategy>>

StrategyWithdrawSetup(amount_in, minTarget) ==
  LET s == Ix.strategy IN
  /\ At("strategy_withdraw_setup")
  /\ MaySetup(Ix, amount_in, "strategy_withdraw_cleanup")
  /\ collateral_allowance' = [collateral_allowance EXCEPT ![s] = amount_in]
  /\ strategy_request' =
       [strategy_request EXCEPT ![s] = Request(amount_in, minTarget, collateral_vault[s], vault)]
  /\ Advance
  /\ UNCHANGED <<vault, vault_allowance, collateral_vault, lpVault, lent, strategy>>
-----------------------------------------------------------------------------
(* Cleanups and yield *)

\* Takes a balance that grew for one that fell.
WithinRequestUnchecked(request, spent, received) ==
  /\ request.pending
  /\ received >= request.min_target_amount
  /\ spent <= request.max_amount_in

\* The deltas are within the request's limits; checked_sub fails below zero.
WithinRequest(request, spent, received) ==
  /\ request.pending
  /\ spent >= 0 /\ received >= 0
  /\ received >= request.min_target_amount
  /\ spent <= request.max_amount_in

\* Takes the whole vault for what this deposit fetched.
FetchedWhole(s) == collateral_vault[s]

Fetched(s) == collateral_vault[s] - strategy_request[s].dst_bal_before

\* Any wallet may sign: the permission was checked at setup.
StrategyDepositCleanup ==
  LET s == Ix.strategy
      request  == strategy_request[s]
      spent    == request.src_bal_before - vault
  IN
  /\ At("strategy_deposit_cleanup")
  /\ Signed(Ix)
  /\ strategy[s].open
  /\ WithinRequest(request, spent, Fetched(s))
  /\ vault_allowance' = 0
  /\ strategy' = [strategy EXCEPT ![s].total_borrowed_amount = @ + spent,
                                  ![s].collateral_amount = @ + Fetched(s),
                                  ![s].last_updated = now]
  /\ total_borrowed' = total_borrowed + spent
  /\ strategy_request' = [strategy_request EXCEPT ![s] = NoRequest]
  /\ Advance
  /\ UNCHANGED <<vault, collateral_vault, collateral_allowance, total_assets, lent>>

\* Books the yield in the strategy only.
AssetsUnclaimed(s, quote) == total_assets

AssetsAfterClaim(s, quote) ==
  total_assets + quote - strategy[s].total_borrowed_amount

\* Leaves the yield out of the borrowed total.
BorrowedUnclaimed(s, quote) == total_borrowed

\* Takes the strategy for the only one that borrows.
BorrowedOfOne(s, quote) == quote

BorrowedAfterClaim(s, quote) ==
  total_borrowed + quote - strategy[s].total_borrowed_amount

\* The debt may be quoted anew within one per cent, up or down.
MayClaim(ix, quote) ==
  /\ Permitted(ix)
  /\ strategy[ix.strategy].open
  /\ WithinPercent(strategy[ix.strategy].total_borrowed_amount, quote, 1)
  /\ AssetsAfterClaim(ix.strategy, quote) \in 0..MaxBalance
  /\ BorrowedAfterClaim(ix.strategy, quote) >= 0

StrategyClaimYield(quote) ==
  LET s == Ix.strategy IN
  /\ At("strategy_claim_yield")
  /\ MayClaim(Ix, quote)
  /\ strategy' = [strategy EXCEPT ![s].total_borrowed_amount = quote]
  /\ total_assets' = AssetsAfterClaim(s, quote)
  /\ total_borrowed' = BorrowedAfterClaim(s, quote)
  /\ Advance
  /\ UNCHANGED <<tokens, lent, strategy_request>>

\* What the debt is worth, judged by this withdrawal: what came in and, of a
\* partial one, the part of the debt whose collateral was not sold.
NewQuote(debt, before, spent, received) ==
  IF spent = before THEN received
  ELSE (debt * (before - spent)) \div before + received

\* Revalues the debt through strategy_claim_yield, then takes off what came in:
\* what is left of the debt is the quote for the collateral that was not sold.
StrategyWithdrawCleanup ==
  LET s == Ix.strategy
      request  == strategy_request[s]
      spent    == request.src_bal_before - collateral_vault[s]
      received == vault - request.dst_bal_before
      debt     == strategy[s].total_borrowed_amount
      quote    == NewQuote(debt, request.src_bal_before, spent, received)
  IN
  /\ At("strategy_withdraw_cleanup")
  /\ WithinRequest(request, spent, received)
  /\ MayClaim(Ix, quote)
  /\ spent <= strategy[s].collateral_amount
  /\ received <= quote
  /\ received <= BorrowedAfterClaim(s, quote)
  /\ collateral_allowance' = [collateral_allowance EXCEPT ![s] = 0]
  /\ strategy' = [strategy EXCEPT ![s].collateral_amount = @ - spent,
                                  ![s].total_borrowed_amount = quote - received,
                                  ![s].last_updated = now]
  /\ total_assets' = AssetsAfterClaim(s, quote)
  /\ total_borrowed' = BorrowedAfterClaim(s, quote) - received
  /\ strategy_request' = [strategy_request EXCEPT ![s] = NoRequest]
  /\ Advance
  /\ UNCHANGED <<vault, vault_allowance, collateral_vault, lent>>
-----------------------------------------------------------------------------
UpdateVaultMaxBorrow(amount) ==
  /\ ~tx.running
  /\ max_borrow' = amount
  /\ UNCHANGED <<accounts, saved, tx, now>>

Tick ==
  /\ ~tx.running
  /\ now < MaxNow
  /\ now' = now + 1
  /\ UNCHANGED <<accounts, max_borrow, saved, tx>>

StrategyStep ==
  \/ InitStrategy
  \/ CloseStrategy
  \/ \E amount_in \in AmountsIn, minTarget \in MinTargets :
       StrategyDepositSetup(amount_in, minTarget) \/ StrategyWithdrawSetup(amount_in, minTarget)
  \/ StrategyDepositCleanup
  \/ StrategyWithdrawCleanup
  \/ \E quote \in Quotes : StrategyClaimYield(quote)

RestStep ==
  \/ \E bought, sold \in SwapAmounts : Other(bought, sold)
  \/ \E amount \in LpAmounts : Deposit(amount) \/ Withdraw(amount)
  \/ \E principal \in PositionAmounts : OpenPosition(principal)
  \/ \E principal \in PositionAmounts, amount \in InterestAmounts :
       ClosePosition(principal, amount) \/ ClaimPosition(principal, amount)

Next ==
  \/ \E plan \in Plans, signers \in Signings : Begin(plan, signers)
  \/ StrategyStep
  \/ RestStep
  \/ Commit
  \/ Abort
  \/ Tick
  \/ \E amount \in MaxBorrows : UpdateVaultMaxBorrow(amount)

Spec == Init /\ [][Next]_vars
-----------------------------------------------------------------------------
(* Properties *)

Debts == [s \in StrategyIds |-> strategy[s].total_borrowed_amount]

SetupOps == {"strategy_deposit_setup", "strategy_withdraw_setup"}

\* What the program relies on and does not enforce: setups, those of the trades
\* included, are instructions of the transaction itself.  Introspection does not
\* see one that another program invokes.  The properties below that name this
\* assumption are claimed only under it.
SetupsOnTop ==
  tx.running => \A i \in 1..Len(tx.ixs) :
    tx.ixs[i].op \in SetupOps \cup {"open_position", "close_position"} => tx.ixs[i].top

\* Under SetupsOnTop: neither a request nor a delegation of the vault's or a
\* strategy's tokens survives the transaction that made it, whatever else the
\* transaction holds.
NothingOutlivesTx ==
  ~tx.running =>
    /\ vault_allowance = 0
    /\ \A s \in StrategyIds : ~strategy_request[s].pending /\ collateral_allowance[s] = 0

\* The vault's total never falls short of the strategies' debts, so that no
\* repayment or reported loss of one strategy fails for lack of it.
DebtsCovered == Total(Debts) <= total_borrowed

\* LpVault.total_borrowed is the "total amount currently borrowed from the vault
\* that is to be paid back by the admin": the sum of what the strategies owe.  But
\* a deposit may ask for nothing in return, and close_strategy asks only for an
\* empty collateral vault: the debt goes with the account and stays in the total.
BorrowedIsSum == ~tx.running => total_borrowed = Total(Debts)

Unaccounted == total_borrowed - Total(Debts)

\* What the vault counts as borrowed beyond the strategies' debts comes from
\* close_strategy and is what the closed strategy owed, to the unit: quotes,
\* partial withdrawals and their rounding move debt and total by the same amount.
\* Only the failure of a whole transaction takes it back.
OnlyClosingForgets ==
  [][ /\ CloseStrategy =>
           Unaccounted' = Unaccounted + strategy[Ix.strategy].total_borrowed_amount
      /\ ~CloseStrategy /\ ~Abort => Unaccounted' = Unaccounted ]_vars

\* Under SetupsOnTop: a strategy's token account holds what its account says it
\* holds, though every cleanup only measures differences and anybody may have
\* paid in.
CollateralBacked ==
  ~tx.running => \A s \in StrategyIds : strategy[s].collateral_amount <= collateral_vault[s]

\* Under SetupsOnTop: collateral leaves, and debt arises or vanishes, only in
\* transactions that a wallet with the permission signed, although
\* strategy_deposit_cleanup asks for no permission and requests do not name who
\* made them.
BorrowerSigned ==
  [][Commit /\ tx.signers \cap CanBorrow = {} =>
       \A s \in StrategyIds : /\ collateral_vault[s] >= saved.collateral_vault[s]
                              /\ strategy[s] = saved.strategy[s]]_vars

\* total_assets is the "count of the total assets owned by the vault, including
\* tokens that are currently borrowed": the idle assets and all debts.
TotalAssetsCounted ==
  ~tx.running => total_assets = vault + lent + Total(Debts)
-----------------------------------------------------------------------------
(* Strategies as borrowers of the ledger *)

NoneAsked == \A s \in StrategyIds : ~strategy_request[s].pending

\* A cleanup is to come that will find no request, since no setup runs any more:
\* the transaction cannot be committed.
Doomed ==
  /\ tx.running /\ ~NothingBefore /\ NoneAsked
  /\ \E i \in tx.pc..Len(tx.ixs) :
       tx.ixs[i].op \in {"strategy_deposit_cleanup", "strategy_withdraw_cleanup"}

\* What books on total_assets at once and may run while a request is pending.
Booking ==
  \/ \E amount \in LpAmounts : Deposit(amount) \/ Withdraw(amount)
  \/ \E principal \in PositionAmounts, interest \in InterestAmounts :
       ClaimPosition(principal, interest)

\* The two steps that spoil the books, and that no code prevents: a provider or a
\* claimant between a setup and its cleanup, which takes their tokens for its own,
\* and the closing of a strategy that still owes.
Undisturbed ==
  /\ Booking => NoneAsked
  /\ CloseStrategy => strategy[Ix.strategy].total_borrowed_amount = 0

UndisturbedSpec == Init /\ [][Next /\ Undisturbed]_vars

\* What moves inside a transaction between setup and cleanup: the ledger sees the
\* idle assets as they were at setup until the cleanup has settled the difference.
IdleOf(balance) ==
  LET pending == {s \in StrategyIds : strategy_request[s].pending} IN
  IF pending = {} THEN balance
  ELSE LET request == strategy_request[CHOOSE s \in pending : TRUE] IN
       IF \E i \in 1..(tx.pc - 1) : tx.ixs[i].op = "strategy_deposit_setup"
       THEN request.src_bal_before ELSE request.dst_bal_before

Positions == "positions"

ASSUME PositionsAssumption == Positions \notin StrategyIds

Owed(debts, positions) ==
  [b \in StrategyIds \cup {Positions} |->
     IF b = Positions THEN positions ELSE debts[b].total_borrowed_amount]

SavedLedger == [idle |-> saved.vault, totalAssets |-> saved.total_assets,
                owed |-> Owed(saved.strategy, saved.lent)]

\* To the ledger a doomed transaction has failed already.
SeenLedger ==
  IF Doomed THEN SavedLedger
  ELSE [idle |-> IdleOf(vault), totalAssets |-> total_assets, owed |-> Owed(strategy, lent)]

Ledger == INSTANCE VaultLedger WITH
  Borrowers <- StrategyIds \cup {Positions}, Amounts <- 0..MaxBalance, MaxAssets <- MaxBalance,
  idle <- SeenLedger.idle, totalAssets <- SeenLedger.totalAssets, owed <- SeenLedger.owed,
  running <- tx.running /\ ~Doomed, saved <- SavedLedger

\* Under SetupsOnTop and Undisturbed: to its LP vault, strategies and positions
\* together are a ledger.  A deposit into a strategy lends, reported yield
\* revalues a debt, a withdrawal revalues it and pays some of it off.
LedgerImplemented == Ledger!Spec
=============================================================================
