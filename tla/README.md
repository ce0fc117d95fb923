# Verification of the Wasabi Solana program

TLA+ models of the on-chain program `programs/wasabi-solana` (Rust, Anchor), the TLC
configurations that check them, and TLAPS proofs of what they promise for every size of the
system. Paths below are relative to `src/programs/wasabi-solana/src/`.

Wasabi is a leveraged trading protocol. Liquidity providers (LPs) put tokens into a vault and get
shares. A trader adds a down payment to a principal borrowed from the vault, swaps both (long) or
only the principal (short) through a third-party exchange, and owns a *position* whose collateral
the program keeps in a pool. The position is closed by the opposite swap (by its trader, by a
liquidator, or by an exit order the trader left), or claimed by paying the debt directly.

## 1. Inventory

### Components, their state and operations

| Component | State | Operations | Where |
|---|---|---|---|
| LP vault | `LpVault.total_assets`, vault token account, share mint | `deposit`, `withdraw`, `redeem`, `donate` | `instructions/{deposit,withdraw,redeem,donate}.rs` |
| Opening | `Position`, `OpenPositionRequest`, pool token accounts and their delegation | `open_{long,short}_position_{setup,cleanup}` | `instructions/open_*` |
| Closing | the same, `ClosePositionRequest` | `close_{long,short}_position_*`, `liquidate_position_*`, `claim_position` | `instructions/close_position_*`, `liquidate_*`, `claim_position.rs` |
| Exit orders | `TakeProfitOrder`, `StopLossOrder` | `init_or_update_*_order`, `close_*_order`, `take_profit_*`, `stop_loss_*` | `instructions/*take_profit*`, `*stop_loss*` |
| Introspection | the transaction's instruction list (sysvar) | `setup_transaction_introspection_validation` | `utils.rs` |
| Limits and fees | `DebtController` | `compute_max_interest`, `compute_max_principal`, `compute_close_fee`, `deduct`, `validate_difference` | `state/debt_controller.rs`, `state/position.rs`, `utils.rs` |
| Settings | `GlobalSettings`, `DebtController` | `set_trading_state`, `set_lp_state`, `set_max_apy`, `set_max_leverage`, `set_liquidation_fee`, wallets | `instructions/set_*` |
| Permissions | `Permission` (a bit mask per wallet), the super admin | `init_or_update_permission`, `remove_permission`, `set_super_admin` | `instructions/*permission*`, `set_super_admin.rs` |
| Strategies | `Strategy`, `StrategyRequest`, `LpVault.total_borrowed` | `init_strategy`, `strategy_{deposit,withdraw}_{setup,cleanup}`, `strategy_claim_yield`, `close_strategy` | `instructions/*strategy*` |
| Creation | vaults, pools | `init_lp_vault`, `init_long_pool`, `init_short_pool` | `instructions/init_*` |

### How they interact

There are no threads and no messages. A Solana transaction is a list of instructions, possibly of
several programs, that run one after the other and take effect together or not at all.
Components meet in three ways:

* **shared accounts** within and across transactions: all positions of a pool keep their
  collateral in one token account; positions, strategies and LPs share the vault;
* **setup, swap, cleanup** within a transaction: the setup lends, delegates the pool's tokens to the
  cosigner and caches balances in a request account; the swap is somebody else's instruction; the
  cleanup measures what the swap did as a difference of balances, settles, revokes the
  delegation and closes the request;
* **signatures**: the trader signs openings, market closings and claims; a wallet with a
  permission co-signs every swap, and alone starts liquidations and exit orders.

### What is hard, and what makes each component correct

* *Instructions nobody planned for between a setup and its cleanup.* `utils.rs` looks for a cleanup
  of the right kind ahead and forbids the program's own instructions before the setup; whatever
  else follows is free (the comment `TODO: Check against whitelisted programs`). Requests and
  delegations must not survive a transaction; the collateral that positions have recorded must be
  there; no transaction may pay itself out of what earlier trades left in a pool.
* *Instructions that another program invokes.* Introspection reads the list of the transaction's own
  instructions. What another program's instruction invokes of this program is not in it, so the program
  relies on setups being instructions of the transaction itself, and does not check it (`SetupsOnTop`,
  below).
* *The two-phase close has five setups and five cleanups, and the request does not say which setup
  made it.* A closing must have the consent of somebody entitled to it, and only a liquidator's
  transaction may make a loss.
* *Redundant totals.* `total_assets` is maintained next to the balances and debts it summarises, by
  seven handlers, with partial repayments, write-offs and interest.
* *Rounding.* Shares, fees and interest are integer divisions; none may favour the one who
  chooses the moment or the amount.
* *Orders outlive positions.*
* *Ways out.* A market closing needs a cosigner, a claim needs the currency and can fail on its fee,
  a liquidation needs a worthless position. Every position should have one of them.
* *Strategies* repeat the trade's pattern on the vault's own token account, which providers use
  as well; three totals (`total_assets`, `total_borrowed`, the strategy's debt) follow one rounded quote.
* *Authority.* Some instructions find the super admin's permission at a fixed address, others
  take any account with the flag; `GlobalSettings.super_admin` is a copy that goes stale.

`PROJECT.json` lists these as hazards, each at its line, with the properties that cover it.

## 2. Modules

| Module | Models | Used by |
|---|---|---|
| `UnitSum`, `UnitSumLemmas` | sums of finite families as cardinalities, with the lemmas proofs need | all ledgers |
| `VaultLedger` | *abstract*: what an LP vault promises its owners under all-or-nothing transactions | implemented by `Trading` and by `Strategies` |
| `LpShares` | LP instructions and share arithmetic; trading reduced to `Lend`, `Repay`, `Lose` | |
| `CloseMath` | limits, fees, the waterfall of a closing, as operators | `Trading`, `CloseCases` |
| `CloseCases` | one closing as a state, for properties of `CloseMath` over bounded inputs | |
| `Trading` | every trading and order instruction, transactions, foreign instructions, time, settings | `Exits` |
| `Exits` | `Trading` with the fairness of those who want positions to end | |
| `Strategies` | every strategy instruction, with providers and positions on the same vault | |
| `AccessControl` | *abstract*: one administrator, powers used by those who hold them | implemented by `Governance` |
| `Governance` | permissions, super admin, settings, debt controller, creation of vaults and pools | |
| `*_proofs` | theorems | |
| `MC*` | instances for TLC | |

### Correspondence with the code

`Trading` has one action per instruction, named after its handler. The record `acc` holds the
accounts under the code's names (`position`, `open_request` for `OpenPositionRequest`, ...);
balances of token accounts are fields (`vault`, `currency_vault[pool]`, `collateral_vault[pool]`),
delegations are `currency_allowance` and `collateral_allowance`. An account closed by Anchor's
`close =` becomes `NoPosition`, `NoRequest` or `NoOrder`. `saved` holds the accounts of the last
commit; `Abort` restores them and is enabled at every instruction, so that an action needs guards
only for what the code checks, and for what the token program refuses on its behalf (a transfer of more
than the account holds, as in a withdrawal of lent assets). `tx` is the transaction: its instructions,
the next one, its signers.
An instruction names the accounts it is given (`pos`, `pool`, `owner`, `authority`), and nothing but
the handlers' checks makes those of a cleanup fit those of its setup. `Other` is the instruction of
another program: it moves at most what the pool has delegated, and pays any amount in, which stands
for a swap at any price.

**Instructions invoked by other programs, and the assumption `SetupsOnTop`.** An instruction carries a
flag `top`. One that is not on top is invoked by the instruction of another program before it; it runs with
the same accounts, signatures and handlers, in the place where it is listed. `Introspected`
looks at instructions on top only, as `utils.rs:32-75` does: what is invoked neither counts as an earlier
instruction nor as the cleanup ahead. The models put no restriction on what may be invoked, and type
correctness, `LedgerImplemented`, `TotalAssetsCounted` and `OrderPriceMet` of `Trading`, and `DebtsCovered`
and `OnlyClosingForgets` of `Strategies` hold with none. The other
properties of the two modules are claimed only for transactions in which no other program invokes a
*setup*: a setup that introspection of the other instructions does not see
has no claim to the one cleanup that it and another setup both found ahead. The code does not
enforce this (it does not compare stack heights), so it is an assumption about the transactions, stated
as the state predicate `SetupsOnTop`: the comment of each property that needs it says so, the theorems have
`[]SetupsOnTop` as a hypothesis, and TLC evaluates it of the plans of `MCTrading` and `MCStrategies` (`PlansSetUpOnTop`).
Cleanups, claims, liquidity and order instructions may be invoked by others under this assumption; the
plans of `MCTrading` and `MCStrategies` contain such transactions.

`Strategies` is built alike: one action per strategy instruction, `tx` and `saved` as above, a
delegation of the vault (`vault_allowance`) or of a strategy's token account
(`collateral_allowance`). Each strategy has a collateral account of its own, all share one LP vault and its
`total_borrowed`. `strategy_withdraw_cleanup` calls `strategy_claim_yield` by a cross-program
invocation in the middle of its own work; the action contains both (`MayClaim`,
`AssetsAfterClaim`, `BorrowedAfterClaim` are shared with `StrategyClaimYield`). The rest of the program appears
only as far as it moves the vault: `Deposit`, `Withdraw`, `ClaimPosition`, and whole trades
(`OpenPosition`, `ClosePosition`), whose setups refuse to stand behind a strategy's. All positions
together owe `lent`. `open_position` and `close_position` stand for whole trades, setup included, and
fall under `SetupsOnTop` too.

`Governance` has no transactions of several instructions, since each of its instructions is complete in
itself; `signers` stands for the signatures of the transaction being executed. A permission
account is found at its address: `Root` is the one at the seeds `"super_admin"`, the others are those of
the wallets. An instruction that takes any permission account takes it as a parameter
(`RemovePermission(super, a)`), one with fixed seeds uses `permission[Root]`. The map of powers is a
set. Powers to cosign, to liquidate and to borrow are used by `Trading` and `Strategies`, where they
are the constant sets `CanCosign`, `CanLiquidate`, `CanBorrow`.

Arithmetic: the code multiplies in `u128` and casts back with an error (overflow checks are also on
in release builds, `Cargo.toml`), so a failed check is an abort and a natural number stands for
a value that passed. `MaxBalance` and `MaxU64` bound balances as the token's supply does.

`Deposit` and `Withdraw` in `Trading` are the liquidity side as trading sees it (idle assets and
`total_assets`); the shares are in `LpShares`, where an LP's transaction is one step because LP
instructions neither look at requests nor leave anything pending.

Abstractions: token mints and programs, bumps and address derivation (an address is a model
value, `TraderOf` and `PoolOf` are the seeds it was derived from), `expiration` (a failed check is an
`Abort`, and the clock moves on only between transactions), token accounts that only
receive (fee wallet, liquidation wallet, the trader's wallet, which is assumed to hold enough;
else `Abort`), events and messages. There is one LP vault, and several pools borrow from it. Nobody
sends tokens to the LP vault's token account outside the program, except as the exchange of a pending
withdrawal; such a transfer would only raise `idle` above what `TotalAssetsCounted` says.

## 3. Runs

All runs are in `PROJECT.json`.

| Run | Shows | Bounds |
|---|---|---|
| `lp_shares` | `BooksBalance`, `SharePriceKept`, `NoInstantProfit`, `SharesStayBacked`, `WithdrawWithinOneShare` | 2 owners, amounts 0..5, balances to 12: share prices above and below one, fractions that round, zero shares minted |
| `close_cases` | `NothingLost`, `SeniorFirst`, `InterestBounded`, `PriceMet`, `LaterCostsMore` | two scales: `Small`, amounts around each threshold of the waterfall, long and short, with and without liquidation fee, order prices on both sides of every swap; `Wide`, principal 100, so that three per cent is a whole unit |
| `trading_long` | `NothingOutlivesTx`, `PoolBacked`, `TotalAssetsCounted`, `LedgerImplemented`, `BadDebtOnlyByLiquidator` | one trader with two positions in a long pool; swaps of 0, 1, 4 against principal 2: bad, break-even and good closings; 802,857 states |
| `trading_short` | `PoolBacked`, `LedgerImplemented`, `CurrencyKept` | two traders, two positions in a short pool, swaps of 0, 1, 3: partial swaps; 2,302,248 states |
| `orders` | `OwnerConsent`, `OrderPriceMet` | one long position, two order prices on either side of what the swaps fetch, time passes, `max_leverage` below 100 (no long can be opened) and above; market closings, claims and liquidations end the position as well; 1,162,752 states |
| `orders_stale` | violation of `OrdersHavePosition` | same plans, without time; the trace opens a position, places a take-profit order and claims the position |
| `strategies` | `NothingOutlivesTx`, `CollateralBacked`, `BorrowerSigned`, `OnlyClosingForgets` | two strategies, a permitted and another wallet, amounts 0, 50, 100, minima of zero; mispaired, nested, invoked and interleaved plans; the assets at hand can all be lent, time passes; 963,702 states |
| `strategies_yield` | `DebtsCovered`, `LedgerImplemented` | one strategy, debts around 100, quotes one per cent below and above, partial withdrawals, minima of zero, one setup with cleanups of both kinds, other users of the vault; behaviours of `UndisturbedSpec`; 1,152,678 states |
| `strategies_forgotten` | violation of `BorrowedIsSum` | one strategy, minima of zero; the trace deposits for nothing and closes the strategy |
| `strategies_assets` | violation of `TotalAssetsCounted` | one strategy, a provider or a claim between setup and cleanup |
| `governance` | `OneSuper`, `WithinBounds`, `AccessControlled` | three interchangeable wallets, two maps of powers, one signer; for each limit the last value allowed and the first refused |
| `exits` | `ClaimsComeThrough`, `EveryPositionExits` | one short position; fee 0 or 3, down payment and principal 0 or 2, swaps of 0 and 2: the eight kinds of position, one after the other; one value of each limit; the trading switch moves freely |

**Plans.** `MCTrading` lists the transactions that may be submitted: honest trades, liquidations,
claims, LP instructions, and the transactions that pair a setup with something else than its own
cleanup (another position's, another owner's, another kind's, a second cleanup, two setups, a
claim or a withdrawal in between, no cleanup, a cleanup that another program invokes). Under `SetupsOnTop`
a setup fails unless its cleanup follows on top and no other instruction of the program precedes it on top,
so that of several setups at most the first succeeds, and longer lists add no pending request. The
theorems remove the bound on plans, and keep the assumption.

**Why the other bounds are enough.** Positions interact only through the pool's and the vault's
balances, as differences; two positions show any interference. All amounts enter by comparison,
sum and one division, and the chosen ones lie on both sides of every comparison (leverage limit,
bad debt, liquidation threshold, order price, cap). `MaxNow` is 0 or 1: a position's age matters
only through the interest due, whose size `close_cases` varies. `PriceMet` of `close_cases` is about
exit orders of shorts too; `OrderPriceMet` follows an order of a long from its placement to its
execution.

**Governance.** The signature an instruction checks is that of one wallet, so one signer per transaction
loses nothing. Three wallets are an administrator, a former one and somebody else. An address is
created once, and one mint is enough for each creation to be refused and to succeed.

**Strategies.** Amounts are around 100 because quotes are compared within one per cent, and the
bound must have a unit in between: 101 is accepted for 100, 102 is not. Larger debts make the
same comparison with more units. A strategy's setup also fails without its cleanup ahead or with an
instruction of the program behind, so the remark on plans applies. Minima are zero wherever debts matter:
a deposit may then fetch nothing, and `close_strategy`, which looks only at the empty token account,
forgets its debt. `strategies_forgotten` shows that `total_borrowed` is then not the sum of the debts;
`OnlyClosingForgets` says that this is the only way they part, and by how much. `strategies_assets` has
a minimum of one, so that its shortest trace is the interleaving and not the forgotten debt.

**`LedgerImplemented`** is refinement: under the mapping written at the end of `Trading` and of
`Strategies`, every step is a step of `VaultLedger` or leaves it unchanged. What the
ledger conserves, proved of it for all constants (`Conserved`), is checked and proved of the concrete
counters as `TotalAssetsCounted`: of `Trading` without a condition, of `Strategies` under
`SetupsOnTop` and the two conditions below. For `Strategies` a cleanup is the ledger's `Lend`, or a
`Revalue` of the debt together with a repayment, and the mapping hides what the exchange does to the
balance until then. Two steps spoil it, and the code prevents neither: a provider's or a claimant's booking while
a request is pending (`strategies_assets`), and the closing of a strategy that still owes
(`strategies_forgotten`). `Undisturbed` excludes these two steps and no others, and `UndisturbedSpec` is
`Spec` without them: the run `strategies_yield` and the theorem are about it. A deposit that fetches
nothing, mispaired setups and cleanups and all interleaved instructions that do not book are within it. A
transaction in which a cleanup is still to come that can find no request (`Doomed`) cannot be committed;
to the ledger it has failed already.

**`AccessControlled`** is refinement too. `AccessControl` knows one administrator; `Governance` has the
flag, the fixed address and the stale copy, and implements it with
`permission[Root].authority` as the administrator.

### Fairness

The chain schedules nothing and any transaction may fail, so `Trading`, `Strategies` and `Governance`
have no fairness, and without it nothing must happen. `Exits` states what somebody who wants out
contributes, and asks whether the program then lets him:

* `TransactionsEnd`: weak fairness of executing, committing or aborting the running transaction. The runtime
  bounds every transaction.
* `Claims(p)`: strong fairness of submitting the claim, of its instruction and of its commit. A client
  can submit again for ever; strong because others' transactions come in between, and because an
  attempt may fail for reasons outside the program (a blockhash expired, fees), but not every one.
  Nothing is assumed that the program's checks refuse: a step that is not enabled owes
  nothing.
* `OthersHelp`, the hypothesis of `EveryPositionExits`: the same (`Closings(p)`, `Liquidations(p)`) for trader
  and cosigner closing with a swap that pays the debt, and for a liquidator of a position that
  holds nothing.

Openings, time and settings have no fairness. `ClaimSpec` has the first two only, and
`ClaimsComeThrough` needs no more: with trading switched off, and providers, cosigner and liquidator
doing what they like, a trader with the currency gets out of every position that can be claimed.
The run has one position at a time and one value of each limit. It does not show what positions of one
pool do to each other's exits (`PoolBacked` says that the collateral is there), nor what a changed
`max_leverage` does (no exit reads it).
Both properties speak of committed accounts (`saved`), since a closing inside a transaction that
aborts ends nothing. Both stop short where the interest due would take `total_assets` past
`MaxBalance` (`RoomFor`), which stands for the width of that field. The eight kinds of position
include those that no single way out serves: no fee, no down payment and no principal
(claim only), a fee above the collateral (closing, or liquidation when there is none).

### Where the code and what is said of it disagree

Shown by runs:

1. `stop_loss_order.rs:5` and `take_profit_order.rs:5` tie an order to its position. Claims (the trace of
   the run), liquidations and market closings leave the order behind; the next position at that address
   inherits it (`OrdersHavePosition`).
2. `lp_vault.rs:13` counts in `total_assets` all assets of the vault including lent ones. What providers or
   claims do to the vault between a strategy's setup and cleanup is booked twice (`TotalAssetsCounted`).
3. `lp_vault.rs:17`: `total_borrowed` is what is to be paid back. `close_strategy` closes an indebted strategy
   whose token account is empty, and the total keeps a debt nobody owes (`BorrowedIsSum`).

Seen while modelling; the models do what the code does:

* `withdraw.rs:18-20` calls the `0.1% ... minimum of 1` term rounding protection, but adds it before
  dividing by `total_assets`. It has no effect once `total_assets` is a few units, and the burn is
  rounded down in the withdrawer's favour, by less than one share (`WithdrawWithinOneShare`, proved).
* `close_position_cleanup.rs:390` says interest is capped by the debt controller. A short pays what is
  left of its swap, within three per cent of the capped interest (`InterestBounded`).
* `lp_vault.rs:15` calls `max_borrow` the maximum that can be borrowed. Nothing reads it.
* `strategy.rs:18`: `last_updated` is when the debt was updated. `strategy_claim_yield` updates the debt only.
* `strategy_withdraw_cleanup.rs:133` records the full amount when everything is withdrawn, and
  recognises everything by the balance of the token account. With a surplus in it the strategy's
  whole collateral is a part, and a debt without collateral stays.
* `base_pool.rs:21` wants a vault for the pool's currency. `init_long_pool` does not look for one.
* An `Inactive` permission (`permission.rs:6`) keeps its powers; only the super admin's status is
  compared.
* `src/README.md:196` says creating a market takes the permission to init vaults; the pools ask for
  the permission to init pools.

## 4. Proofs

TLAPS checks all of these for every value of the constants that satisfies the named assumptions of
the modules (`SharesAssumption`, `DenominatorAssumption`, `TradingAssumption`,
`PlansAssumption`, `StrategiesAssumption`, `PositionsAssumption`, `GovernanceAssumption`,
`ScalesAssumption`); a theorem that needs more states it as its hypothesis. Two hypotheses occur:
`[]SetupsOnTop` (section 2) in `NothingOutlivesTxCorrect`, `OwnerConsentCorrect`,
`BadDebtOnlyByLiquidatorCorrect`, `PoolBackedCorrect`, `CurrencyKeptCorrect`, `CollateralBackedCorrect` and
`BorrowerSignedCorrect`; the same with `UndisturbedSpec` (section 3) in the theorems on the ledger and
on `total_assets` of `Strategies`.

* **`VaultLedger_proofs`.** `TypeCorrect` and `ConservedCorrect`, from `LedgerAssumption` (finitely many
  borrowers, natural amounts), which follows from the assumptions of the modules that implement the ledger. `Conserved` as defined covers `saved`
  too, and must: an `Abort` is safe only because the balances it returns to were conserved. The
  sum over borrowers is the cardinality of the disjoint union of its units (`UnitSum`), so that
  raising one summand is a fact about adding a finite set; `UnitSumLemmas` proves it without
  induction over data. What an instruction does is a lemma each (`InstructionTyped`,
  `InstructionConserves`); the theorems add beginning, committing and aborting.
* **`LpShares_proofs`.** `TypeCorrect` needs `BooksBalance` (a withdrawal leaves `total_assets`
  non-negative because the idle assets are part of it). `SharePriceCorrect`,
  `NoInstantProfitCorrect`, `WithdrawWithinOneShareCorrect` and `SharesStayBackedCorrect` come down
  to inequalities between products and integer quotients, isolated in lemmas about division.
* **`Trading_proofs`.**
  `TypeCorrect`. `TypeOK` is not inductive: the interest due is a natural number only because
  `last_funding_timestamp <= now` in working and in committed accounts. The invariant is `TypeInv`; each action has its lemma
  (`...Good`), in which the record update is done one field at a time.
  `NothingOutlivesTxCorrect`. The invariant is `PairInv`: committed accounts are `Safe` (no request,
  no delegation); a running transaction is `Safe` too, or exactly one request is pending, the only
  delegation is the one its setup made, an instruction of the program on top lies behind, and a
  cleanup of the request's side lies ahead. The last two conjuncts are what makes it inductive: no
  second setup, itself on top, passes the introspection, every cleanup that succeeds must find and consume the
  one pending request, and a transaction with a request pending has not reached its end, so it
  cannot commit. (A cleanup with other accounts fails, and with it the transaction.)
  `OwnerConsentCorrect` and `BadDebtOnlyByLiquidatorCorrect` ask who must have signed. A cleanup does not know
  whose setup made the request; the market cleanups take the signature of any owner, since the outer `owner` is not
  compared with the request's (`close_long_position_cleanup.rs:10-12`), and `liquidate_position_cleanup` asks for
  no permission. `ConsentInv` therefore says of a running transaction: a position is gone, or assets were
  lost, only with the signatures asked for, *or* the transaction is doomed: a cleanup took a request that
  another kind of setup had made, the cleanup that setup found ahead will find no request, and nothing is
  committed. The consent to a market closing is the one given at its setup. `BadDebtOnlyByLiquidator` is about
  the instructions of providers and traders; a strategy's reported loss lowers `total_assets` on the
  permission to borrow alone.

* **`TradingAssets_proofs`.** Builds on the invariants of `Trading_proofs`.
  `LedgerImplementedCorrect` is the refinement of `VaultLedger`. The mapping is the identity on the
  vault's balances; setups lend, the cleanup of a short gives back what was not swapped, a closing
  settles or writes off, everything else stutters. It needs that nobody owes without a position and
  that debts stay within `MaxBalance` (`DebtInv`), and that interest is paid only out of what the
  principal leaves: a closing that does not repay the principal pays no interest, so it is exactly
  one `WriteOff`. `TotalAssetsCountedCorrect` follows from the same lemmas: each movement of the ledger
  changes `total_assets` by what it changes the idle assets and the sum of the debts (`MovementCounts`).
  `PoolBackedCorrect`. `PoolBacked` is false in the middle of a transaction, when the swap has sold
  collateral of a position still recorded. `CoverInv` says what holds then: for the pool in use the
  *cached* balance covers what the positions claim (for a new short together with the down payment it
  will record), for every other pool the vault does. Claims in between lower both sides by the same
  amount; swaps move the vault and not the cached balance. That only one pool is in use, and that no
  other pool's collateral may be spent, comes from `PairInv`.
  `OrderPriceMetCorrect`: outside liquidations what a closing swap received is handed out to the last unit
  (`HandedOut`), so that the order, which looks at the amounts paid out, compares the differences of balances.
  `CurrencyKeptCorrect`: what the swap may still spend lies on top of what the transaction found in the
  pool's currency vault, in the balance and in the one cached by the setup (`Kept`); a closing splits
  only what came in between.
* **`Strategies_proofs`.** `TypeCorrect`, `NothingOutlivesTxCorrect`, `CollateralBackedCorrect`,
  `DebtsCoveredCorrect`, `OnlyClosingForgetsCorrect`, `BorrowerSignedCorrect`. The invariant `PairInv` says
  that committed accounts have no request, no delegation and their collateral, and that the working
  accounts are the same (`Quiet` and `Held`) or a setup lies behind and its kind of cleanup ahead
  (`Between`). A deposit and a withdrawal have separate cases (`Depositing`, `Withdrawing`), because a
  withdrawal's cleanup may consume a deposit's request and the other way round; the cleanup still ahead then
  finds none, and the transaction cannot end well. While a request is pending, the strategy's recorded
  collateral is bounded by the balance cached in it, and the exchange alone takes from the account;
  that gives `CollateralBacked`. `DebtsCovered` needs that the committed totals cover the committed debts
  (`CoverInv`; an `Abort` goes back to them) and the lemmas on sums of `UnitSumLemmas`; it is an
  inequality because closing a strategy forgets its debt. `OnlyClosingForgets` needs that an address without
  an account owes nothing (`ClosedInv`), so that an account created there adds no debt; the rest is that
  every handler moves debt and total by the same amount. Neither needs `SetupsOnTop`. `BorrowerSigned` rests
  on `UnsignedInv`: in a transaction that no holder of the permission signed nothing is requested or
  delegated, no strategy changes, and collateral only comes in.
  `LedgerImplementedCorrect` is the refinement of `VaultLedger` from `UndisturbedSpec`, for all plans and minima.
  The ledger sees the balance the setup cached until the cleanup; `LedgerInv` says that this balance, what
  positions owe and the debts add up to `total_assets`, and which setup the pending request belongs to.
  It can be lost inside a transaction that is `Doomed`: a cleanup of the other kind took
  the request, and what came in is booked wrongly or not at all. Such a transaction stays doomed, because no setup
  can make a new request in it, and is aborted; so the invariant is `MapInv`: committed accounts are
  balanced (`SavedBalanced`), and the transaction is doomed or `LedgerInv` holds. Where the mapping leaves a
  doomed transaction the ledger aborts. `TotalAssetsCountedCorrect` follows, since nothing is
  doomed between transactions.
* **`Governance_proofs`.** `TypeCorrect`, `OneSuperCorrect`, `WithinBoundsCorrect`. `OneSuper` needs both that
  the account at a wallet's address never has the flag and that the one at `Root` is never
  removable: the removal names any account with the flag, and there is one.
  `AccessControlledCorrect` is the refinement of `AccessControl`: a step maps to the use of a power by
  the account whose owner signed. It rests on `OneSuper` (the account that passes the flag's check is
  the one at `Root`, whoever names it) and on `Unclaimed` (before the creation no account has a power,
  so that the first administrator takes nobody's place).
* **`CloseCases_proofs`.** `NothingLostCorrect`, `SeniorFirstCorrect`, `InterestBoundedCorrect`,
  `PriceMetCorrect`, `LaterCostsMoreCorrect`, for all amounts, limits and ages. The invariant says that
  the closing that was accepted passed its checks on well-typed amounts. `DeductSplits` (deducting a
  claim splits the amount without loss, and leaves something only if the claim was met) carries the
  first two through the waterfall. `LaterCostsMore` compares two closings and comes down to
  `FeeBelowGain`: one more unit of proceeds raises the close fee by less than a unit, although the fee is a
  quotient of a product.

Every invariant, action property and refinement of the runs that pass is proved.
Only model-checked: the liveness properties of `Exits`, which with `ENABLED` are out of the prover's reach.
Of the three properties that are violated, `TotalAssetsCounted` is proved under the hypotheses above and
`OnlyClosingForgets` is what remains of `BorrowedIsSum`; nothing the program checks would give
`OrdersHavePosition`.

## 5. Not modelled, and why

`lib.rs`, `error.rs`, `events.rs`, `macros.rs`, `constants.rs`: no state; `lib.rs` decides which `validate`
guards which handler and was read for that. Scripts and tests: clients. Token mints, metadata and
address derivation at the creation of vaults and pools. The width of the `u64` products in
`validate_difference` and in the liquidation fee, which fail for amounts beyond 2^64/100.
What setups do that another program invokes is not stated by any property: introspection does not see
them, and the models, which contain them, are checked and proved under `SetupsOnTop` where it matters.
The status `Inactive` has no effect on `Trading` and `Strategies`, as in the code.

## 6. Plan

Done: `UnitSum`, `VaultLedger`, `LpShares`, `CloseMath`, `CloseCases`, `Trading`, `Strategies`, `AccessControl`,
`Governance`, `Exits`, with their runs and the theorems above, in that order.

1. Trading and strategies composed on one vault at the level of single instructions, for trades whose
   cleanup stands behind a strategy's setup (a setup of either refuses to follow the other's).
2. `CanCosign`, `CanLiquidate` and `CanBorrow` as state of `Governance`, for powers taken away
   between two transactions.
3. `CloseCases` with a scaled-down word width.
