-------------------------- MODULE Strategies_proofs --------------------------
(* What holds of Strategies for every set of strategies, wallets and         *)
(* submitted transactions.                                                   *)
EXTENDS Strategies, UnitSumLemmas, TLAPS
-----------------------------------------------------------------------------
(* Types *)

Shape ==
  /\ vault \in Nat /\ vault_allowance \in Nat
  /\ total_assets \in Nat /\ total_borrowed \in Nat /\ lent \in Nat
  /\ strategy \in [StrategyIds -> StrategyRecords]
  /\ collateral_vault \in [StrategyIds -> Nat]
  /\ collateral_allowance \in [StrategyIds -> Nat]
  /\ strategy_request \in [StrategyIds -> Requests]

LEMMA ShapeOfType ==
  ASSUME TypeOK
  PROVE  Shape /\ saved \in Accounts /\ tx \in Transactions /\ now \in Nat /\ max_borrow \in Nat
  BY DEF TypeOK, Shape, Working, Accounts

LEMMA IxType ==
  ASSUME TypeOK, NEW op, At(op)
  PROVE  /\ Ix \in Instructions /\ Ix.strategy \in StrategyIds /\ Ix.op = op
         /\ tx.running /\ tx.pc \in 1..Len(tx.ixs)
<1>1. tx.ixs \in Seq(Instructions) /\ tx.pc \in 1..Len(tx.ixs) /\ Ix.op = op /\ tx.running
  BY DEF TypeOK, Transactions, At
<1>2. Ix \in Instructions
  BY <1>1 DEF Ix
<1> QED
  BY <1>1, <1>2 DEF Instructions

\* An instruction that leaves the accounts well shaped leaves everything so.
LEMMA AdvanceType ==
  ASSUME TypeOK, Advance, Shape' PROVE TypeOK'
<1>1. tx' \in Transactions
  BY DEF TypeOK, Transactions, Advance
<1> QED
  BY <1>1 DEF TypeOK, Shape, Working, Accounts, Advance

LEMMA ProductType == ASSUME NEW a \in Nat, NEW b \in Nat PROVE a * b \in Nat
  OBVIOUS

LEMMA QuotientType == ASSUME NEW a \in Nat, NEW d \in Nat \ {0} PROVE a \div d \in Nat
  OBVIOUS

LEMMA NewQuoteType ==
  ASSUME NEW debt \in Nat, NEW before \in Nat, NEW spent \in 0..before, NEW received \in Nat
  PROVE  NewQuote(debt, before, spent, received) \in Nat
<1>1. CASE spent = before
  BY <1>1 DEF NewQuote
<1>2. CASE spent # before
  <2>1. before \in Nat \ {0} /\ before - spent \in Nat
    BY <1>2
  <2>2. debt * (before - spent) \in Nat
    BY <2>1, ProductType
  <2>3. (debt * (before - spent)) \div before \in Nat
    BY <2>1, <2>2, QuotientType
  <2> QED
    BY <1>2, <2>3 DEF NewQuote
<1> QED
  BY <1>1, <1>2

LEMMA RestType == ASSUME TypeOK, RestStep PROVE TypeOK'
<1> USE StrategiesAssumption
<1>0. Shape
  BY ShapeOfType
<1>1. ASSUME NEW bought \in SwapAmounts, NEW sold \in SwapAmounts, Other(bought, sold)
      PROVE  TypeOK'
  <2>1. Ix.strategy \in StrategyIds
    BY <1>1, IxType DEF Other
  <2>2. Advance
    BY <1>1 DEF Other
  <2>3. bought \in Nat /\ sold \in Nat
    OBVIOUS
  <2>4. /\ UNCHANGED <<total_assets, total_borrowed, lent, strategy, strategy_request>>
        /\ vault' \in Nat /\ vault_allowance' \in Nat
        /\ collateral_vault' \in [StrategyIds -> Nat]
        /\ collateral_allowance' \in [StrategyIds -> Nat]
    BY <1>0, <1>1, <2>1, <2>3 DEF Other, Shape, lpVault
  <2> QED
    BY <1>0, <2>2, <2>4, AdvanceType DEF Shape
<1>2. ASSUME NEW amount \in LpAmounts, Deposit(amount) \/ Withdraw(amount) PROVE TypeOK'
  BY <1>0, <1>2, AdvanceType DEF Deposit, Withdraw, Shape
<1>3. ASSUME NEW principal \in PositionAmounts, OpenPosition(principal) PROVE TypeOK'
  BY <1>0, <1>3, AdvanceType DEF OpenPosition, Shape, lpVault
<1>4. ASSUME NEW principal \in PositionAmounts, NEW amount \in InterestAmounts,
             ClosePosition(principal, amount) \/ ClaimPosition(principal, amount)
      PROVE  TypeOK'
  BY <1>0, <1>4, AdvanceType DEF ClosePosition, ClaimPosition, Repaid, Shape
<1> QED
  BY <1>1, <1>2, <1>3, <1>4 DEF RestStep

LEMMA NoRecordsType == NoStrategy \in StrategyRecords /\ NoRequest \in Requests
  BY DEF NoStrategy, StrategyRecords, NoRequest, Requests

LEMMA SetupType ==
  ASSUME TypeOK, NEW amount_in \in AmountsIn, NEW minTarget \in MinTargets,
         \/ StrategyDepositSetup(amount_in, minTarget)
         \/ StrategyWithdrawSetup(amount_in, minTarget)
  PROVE  TypeOK'
<1>1. Shape /\ amount_in \in Nat /\ minTarget \in Nat
  BY ShapeOfType, StrategiesAssumption
<1>2. \A src, dst \in Nat : Request(amount_in, minTarget, src, dst) \in Requests
  BY <1>1 DEF Request, Requests
<1>3. CASE StrategyDepositSetup(amount_in, minTarget)
  <2>1. Ix.strategy \in StrategyIds
    BY <1>3, IxType DEF StrategyDepositSetup
  <2>2. Request(amount_in, minTarget, vault, collateral_vault[Ix.strategy]) \in Requests
    BY <1>1, <1>2, <2>1 DEF Shape
  <2> QED
    BY <1>1, <1>3, <2>1, <2>2, AdvanceType DEF StrategyDepositSetup, Shape, lpVault
<1>4. CASE StrategyWithdrawSetup(amount_in, minTarget)
  <2>1. Ix.strategy \in StrategyIds
    BY <1>4, IxType DEF StrategyWithdrawSetup
  <2>2. Request(amount_in, minTarget, collateral_vault[Ix.strategy], vault) \in Requests
    BY <1>1, <1>2, <2>1 DEF Shape
  <2> QED
    BY <1>1, <1>4, <2>1, <2>2, AdvanceType DEF StrategyWithdrawSetup, Shape, lpVault
<1> QED
  BY <1>3, <1>4

\* A strategy's account changes, and no other.
OnlyOf(s) ==
  /\ strategy' \in [StrategyIds -> StrategyRecords]
  /\ \A q \in StrategyIds \ {s} : strategy'[q] = strategy[q]

\* What the cleanup of a deposit does to the strategy.
LEMMA DepositCleanupFields ==
  ASSUME TypeOK, StrategyDepositCleanup, NEW s \in StrategyIds, s = Ix.strategy
  PROVE  /\ strategy_request[s].pending /\ Fetched(s) \in Nat
         /\ OnlyOf(s)
         /\ strategy_request[s].src_bal_before - vault \in Nat
         /\ strategy'[s].total_borrowed_amount = strategy[s].total_borrowed_amount
              + (strategy_request[s].src_bal_before - vault)
         /\ strategy'[s].total_borrowed_amount >= strategy[s].total_borrowed_amount
         /\ total_borrowed' = total_borrowed + strategy'[s].total_borrowed_amount
                                - strategy[s].total_borrowed_amount
         /\ strategy'[s].collateral_amount = strategy[s].collateral_amount + Fetched(s)
<1> DEFINE spent == strategy_request[s].src_bal_before - vault
<1>1. Shape /\ now \in Nat
  BY ShapeOfType
<1>2. strategy_request[s] \in Requests /\ collateral_vault[s] \in Nat
      /\ vault \in Nat /\ strategy[s] \in StrategyRecords
  BY <1>1 DEF Shape
<1>3. WithinRequest(strategy_request[s], spent, Fetched(s))
  BY Zenon DEF StrategyDepositCleanup
<1>4. strategy_request[s].pending /\ Fetched(s) \in Nat /\ spent \in Nat
  BY <1>2, <1>3 DEF WithinRequest, Fetched, Requests
<1>5. /\ strategy' = [strategy EXCEPT
           ![s].total_borrowed_amount = strategy[s].total_borrowed_amount + spent,
           ![s].collateral_amount = strategy[s].collateral_amount + Fetched(s),
           ![s].last_updated = now]
      /\ total_borrowed' = total_borrowed + spent
  BY DEF StrategyDepositCleanup
<1> HIDE DEF spent
<1>6. /\ strategy[s].total_borrowed_amount \in Nat /\ strategy[s].collateral_amount \in Nat
      /\ total_borrowed \in Nat
  BY <1>1, <1>2 DEF StrategyRecords, Shape
<1>7. /\ OnlyOf(s)
      /\ strategy'[s].total_borrowed_amount = strategy[s].total_borrowed_amount + spent
      /\ strategy'[s].collateral_amount = strategy[s].collateral_amount + Fetched(s)
  <2> DEFINE debt   == strategy[s].total_borrowed_amount + spent
             amount == strategy[s].collateral_amount + Fetched(s)
  <2>1. debt \in Nat /\ amount \in Nat
    BY <1>4, <1>6
  <2>2. strategy' = [strategy EXCEPT ![s].total_borrowed_amount = debt,
                                     ![s].collateral_amount = amount,
                                     ![s].last_updated = now]
    BY <1>5
  <2> HIDE DEF debt, amount
  <2>3. /\ OnlyOf(s)
        /\ strategy'[s].total_borrowed_amount = debt
        /\ strategy'[s].collateral_amount = amount
    BY <1>1, <2>1, <2>2 DEF Shape, OnlyOf, StrategyRecords
  <2> QED
    BY <2>3 DEF debt, amount
<1>8. /\ strategy'[s].total_borrowed_amount >= strategy[s].total_borrowed_amount
      /\ total_borrowed' = total_borrowed + strategy'[s].total_borrowed_amount
                             - strategy[s].total_borrowed_amount
  BY <1>4, <1>5, <1>6, <1>7
<1> QED
  BY <1>4, <1>7, <1>8 DEF spent

LEMMA DepositCleanupType == ASSUME TypeOK, StrategyDepositCleanup PROVE TypeOK'
<1>1. Shape /\ NoRequest \in Requests
  BY ShapeOfType, NoRecordsType
<1>2. PICK s \in StrategyIds : s = Ix.strategy
  BY IxType DEF StrategyDepositCleanup
<1>3. /\ OnlyOf(s)
      /\ strategy'[s].total_borrowed_amount >= strategy[s].total_borrowed_amount
      /\ total_borrowed' = total_borrowed + strategy'[s].total_borrowed_amount
                             - strategy[s].total_borrowed_amount
  BY <1>2, DepositCleanupFields
<1>4. strategy' \in [StrategyIds -> StrategyRecords]
  BY <1>3 DEF OnlyOf
<1>5. total_borrowed' \in Nat
  BY <1>1, <1>3, <1>4 DEF Shape, StrategyRecords
<1>6. /\ UNCHANGED <<vault, collateral_vault, collateral_allowance, total_assets, lent>>
      /\ vault_allowance' = 0
      /\ strategy_request' = [strategy_request EXCEPT ![s] = NoRequest]
      /\ Advance
  BY <1>2, Zenon DEF StrategyDepositCleanup
<1>7. Shape'
  BY <1>1, <1>4, <1>5, <1>6 DEF Shape
<1> QED
  BY <1>6, <1>7, AdvanceType

\* What the cleanup of a withdrawal does to the strategy.
LEMMA WithdrawCleanupFields ==
  ASSUME TypeOK, StrategyWithdrawCleanup, NEW s \in StrategyIds, s = Ix.strategy
  PROVE  /\ strategy_request[s].pending
         /\ Permitted(Ix)
         /\ total_assets' \in Nat /\ total_borrowed' \in Nat
         /\ OnlyOf(s)
         /\ strategy[s].collateral_amount - strategy'[s].collateral_amount
              = strategy_request[s].src_bal_before - collateral_vault[s]
         /\ total_borrowed' = total_borrowed + strategy'[s].total_borrowed_amount
                                - strategy[s].total_borrowed_amount
<1> DEFINE request  == strategy_request[s]
           spent    == request.src_bal_before - collateral_vault[s]
           received == vault - request.dst_bal_before
           debt     == strategy[s].total_borrowed_amount
           quote    == NewQuote(debt, request.src_bal_before, spent, received)
<1>1. Shape /\ now \in Nat
  BY ShapeOfType
<1>2. /\ WithinRequest(request, spent, received)
      /\ MayClaim(Ix, quote)
      /\ spent <= strategy[s].collateral_amount
      /\ received <= quote
      /\ received <= BorrowedAfterClaim(s, quote)
      /\ total_assets' = AssetsAfterClaim(s, quote)
      /\ total_borrowed' = BorrowedAfterClaim(s, quote) - received
  BY Zenon DEF StrategyWithdrawCleanup
<1>3. /\ strategy' = [strategy EXCEPT
           ![s].collateral_amount = strategy[s].collateral_amount - spent,
           ![s].total_borrowed_amount = quote - received,
           ![s].last_updated = now]
  BY DEF StrategyWithdrawCleanup
<1>4. /\ request \in Requests /\ collateral_vault[s] \in Nat /\ vault \in Nat
      /\ debt \in Nat /\ strategy[s].collateral_amount \in Nat
      /\ total_assets \in Nat /\ total_borrowed \in Nat
  BY <1>1 DEF Shape, StrategyRecords
<1>5. request.pending /\ received \in Nat /\ spent \in 0..request.src_bal_before
      /\ request.src_bal_before \in Nat
  BY <1>2, <1>4 DEF WithinRequest, Requests
<1>6. quote \in Nat
  BY <1>4, <1>5, NewQuoteType
<1> HIDE DEF quote, received, spent, debt
<1>7. total_assets' \in Nat /\ Permitted(Ix)
  BY <1>2, StrategiesAssumption DEF MayClaim
<1>8. /\ quote - received \in Nat
      /\ total_borrowed' = total_borrowed + (quote - received) - debt
      /\ total_borrowed' \in Nat
      /\ strategy[s].collateral_amount - spent \in Nat
  BY <1>2, <1>4, <1>5, <1>6 DEF BorrowedAfterClaim, debt
<1>9. /\ OnlyOf(s)
      /\ strategy'[s].total_borrowed_amount = quote - received
      /\ strategy'[s].collateral_amount = strategy[s].collateral_amount - spent
  BY <1>1, <1>3, <1>8 DEF Shape, OnlyOf, StrategyRecords
<1>10. strategy[s].collateral_amount - strategy'[s].collateral_amount = spent
  BY <1>4, <1>5, <1>9
<1> QED
  BY <1>5, <1>7, <1>8, <1>9, <1>10 DEF debt, spent

LEMMA WithdrawCleanupType == ASSUME TypeOK, StrategyWithdrawCleanup PROVE TypeOK'
<1>1. Shape /\ NoRequest \in Requests
  BY ShapeOfType, NoRecordsType
<1>2. PICK s \in StrategyIds : s = Ix.strategy
  BY IxType DEF StrategyWithdrawCleanup
<1>3. OnlyOf(s) /\ total_borrowed' \in Nat /\ total_assets' \in Nat
  BY <1>2, WithdrawCleanupFields
<1>4. strategy' \in [StrategyIds -> StrategyRecords]
  BY <1>3 DEF OnlyOf
<1>5. /\ UNCHANGED <<vault, vault_allowance, collateral_vault, lent>>
      /\ collateral_allowance' = [collateral_allowance EXCEPT ![s] = 0]
      /\ strategy_request' = [strategy_request EXCEPT ![s] = NoRequest]
      /\ Advance
  BY <1>2, Zenon DEF StrategyWithdrawCleanup
<1>6. Shape'
  BY <1>1, <1>3, <1>4, <1>5 DEF Shape
<1> QED
  BY <1>5, <1>6, AdvanceType

LEMMA ComeAndGoType == ASSUME TypeOK, InitStrategy \/ CloseStrategy PROVE TypeOK'
<1>1. Shape /\ now \in Nat /\ NoStrategy \in StrategyRecords
  BY ShapeOfType, NoRecordsType
<1>2. CASE InitStrategy
  <2>1. [NoStrategy EXCEPT !.open = TRUE, !.last_updated = now] \in StrategyRecords
    BY <1>1 DEF NoStrategy, StrategyRecords
  <2> QED
    BY <1>1, <1>2, <2>1, IxType, AdvanceType DEF InitStrategy, Shape, tokens, lpVault
<1>3. CASE CloseStrategy
  BY <1>1, <1>3, IxType, AdvanceType DEF CloseStrategy, Shape, lpVault
<1> QED
  BY <1>2, <1>3

LEMMA ClaimType ==
  ASSUME TypeOK, NEW quote \in Quotes, StrategyClaimYield(quote) PROVE TypeOK'
<1>1. Shape /\ Ix.strategy \in StrategyIds /\ quote \in Nat
  BY ShapeOfType, IxType, StrategiesAssumption DEF StrategyClaimYield
<1>2. total_assets' \in Nat /\ total_borrowed' \in Nat
  <2>1. total_assets' \in 0..MaxBalance /\ total_borrowed' >= 0
        /\ total_borrowed' = total_borrowed + quote - strategy[Ix.strategy].total_borrowed_amount
    BY DEF StrategyClaimYield, MayClaim, BorrowedAfterClaim
  <2>2. strategy[Ix.strategy].total_borrowed_amount \in Nat /\ total_borrowed \in Nat
    BY <1>1 DEF Shape, StrategyRecords
  <2> QED
    BY <1>1, <2>1, <2>2, StrategiesAssumption
<1>3. strategy' \in [StrategyIds -> StrategyRecords]
  BY <1>1 DEF StrategyClaimYield, Shape, StrategyRecords
<1> QED
  BY <1>1, <1>2, <1>3, AdvanceType DEF StrategyClaimYield, Shape, tokens

LEMMA StepType == ASSUME TypeOK, [Next]_vars PROVE TypeOK'
<1>1. ASSUME NEW plan \in Plans, NEW signers \in Signings, Begin(plan, signers) PROVE TypeOK'
  BY <1>1, PlansAssumption DEF Begin, TypeOK, Transactions, Working, accounts, tokens, lpVault
<1>2. ASSUME StrategyStep PROVE TypeOK'
  BY <1>2, ComeAndGoType, SetupType, DepositCleanupType, WithdrawCleanupType, ClaimType
  DEF StrategyStep
<1>3. CASE RestStep
  BY <1>3, RestType
<1>4. CASE Commit
  BY <1>4 DEF Commit, TypeOK, Transactions, Idle, Working, accounts, tokens, lpVault
<1>5. CASE Abort
  <2>1. saved \in Accounts /\ Working' = saved
    BY <1>5 DEF Abort, TypeOK, Working, Accounts
  <2>2. Idle \in Transactions
    BY DEF Idle, Transactions
  <2> QED
    BY <1>5, <2>1, <2>2 DEF Abort, TypeOK
<1>6. CASE Tick
  BY <1>6 DEF Tick, TypeOK, Working, accounts, tokens, lpVault
<1>7. ASSUME NEW amount \in MaxBorrows, UpdateVaultMaxBorrow(amount) PROVE TypeOK'
  BY <1>7, StrategiesAssumption
  DEF UpdateVaultMaxBorrow, TypeOK, Working, accounts, tokens, lpVault
<1>8. CASE UNCHANGED vars
  BY <1>8 DEF vars, TypeOK, Working, accounts, tokens, lpVault
<1> QED
  BY <1>1, <1>2, <1>3, <1>4, <1>5, <1>6, <1>7, <1>8 DEF Next

\* No instruction of any transaction takes a token account, a debt or a total of
\* the vault below zero, nor leaves an account of the wrong shape.
THEOREM TypeCorrect == Spec => []TypeOK
<1>1. Init => TypeOK
  <2> SUFFICES ASSUME Init PROVE TypeOK
    OBVIOUS
  <2>1. vault \in Nat
    BY StrategiesAssumption DEF Init
  <2> QED
    BY <2>1, NoRecordsType DEF Init, TypeOK, Working, Accounts, Idle, Transactions
<1>2. TypeOK /\ [Next]_vars => TypeOK'
  BY StepType
<1> QED
  BY <1>1, <1>2, PTL DEF Spec
-----------------------------------------------------------------------------
(* Setups, cleanups and what lies between them *)

\* No request, no delegation.
Quiet ==
  /\ vault_allowance = 0
  /\ \A s \in StrategyIds : ~strategy_request[s].pending /\ collateral_allowance[s] = 0

\* Every token account holds what its strategy has recorded.
Held == \A s \in StrategyIds : strategy[s].collateral_amount <= collateral_vault[s]

SavedWell ==
  /\ saved.vault_allowance = 0
  /\ \A s \in StrategyIds : /\ ~saved.strategy_request[s].pending
                            /\ saved.collateral_allowance[s] = 0
                            /\ saved.strategy[s].collateral_amount <= saved.collateral_vault[s]

Ahead(op) == \E i \in tx.pc..Len(tx.ixs) : tx.ixs[i].op = op

\* The strategies the pending setup did not name.
OthersApart(s) ==
  \A r \in StrategyIds \ {s} :
    /\ ~strategy_request[r].pending
    /\ collateral_allowance[r] = 0
    /\ strategy[r].collateral_amount <= collateral_vault[r]

\* A deposit setup has run for s.  Its request is still there, or a withdrawal's
\* cleanup took it and the transaction cannot end well any more: the cleanup
\* ahead will find no request.
Depositing(s) ==
  /\ Ahead("strategy_deposit_cleanup")
  /\ OthersApart(s)
  /\ collateral_allowance[s] = 0
  /\ strategy_request[s].pending =>
       strategy[s].collateral_amount <= strategy_request[s].dst_bal_before

\* A withdrawal setup has run for s, and likewise.
Withdrawing(s) ==
  /\ Ahead("strategy_withdraw_cleanup")
  /\ OthersApart(s)
  /\ vault_allowance = 0
  /\ strategy_request[s].pending =>
       strategy[s].collateral_amount <= strategy_request[s].src_bal_before

Between == tx.running /\ ~NothingBefore /\ \E s \in StrategyIds : Depositing(s) \/ Withdrawing(s)

PairInv ==
  /\ SavedWell
  /\ (Quiet /\ Held) \/ Between

LEMMA AdvanceFields ==
  ASSUME TypeOK, Advance
  PROVE  tx'.running = tx.running /\ tx'.ixs = tx.ixs /\ tx'.pc = tx.pc + 1
         /\ tx.pc \in Nat \ {0} /\ Len(tx.ixs) \in Nat /\ saved' = saved
<1>1. tx.ixs \in Seq(Instructions) /\ tx.pc \in Nat \ {0}
  BY DEF TypeOK, Transactions
<1>2. Len(tx.ixs) \in Nat
  BY <1>1
<1> QED
  BY <1>1, <1>2 DEF TypeOK, Transactions, Advance

LEMMA AheadKept ==
  ASSUME TypeOK, Advance, NEW here, At(here), NEW op, op # here, Ahead(op)
  PROVE  Ahead(op)'
<1>1. PICK i \in tx.pc..Len(tx.ixs) : tx.ixs[i].op = op
  BY DEF Ahead
<1>2. tx.ixs[tx.pc].op = here
  BY DEF At, Ix
<1>3. i # tx.pc
  BY <1>1, <1>2
<1>4. i \in tx'.pc..Len(tx'.ixs) /\ tx'.ixs[i].op = op
  BY <1>1, <1>3, AdvanceFields
<1> QED
  BY <1>4 DEF Ahead

LEMMA BehindKept ==
  ASSUME TypeOK, Advance, NEW here, At(here), ~NothingBefore \/ (here # "other" /\ Ix.top)
  PROVE  ~NothingBefore' /\ tx'.running
<1>1. tx.running /\ tx.pc \in 1..Len(tx.ixs) /\ tx.ixs[tx.pc].op = here
  BY AdvanceFields DEF At, Ix
<1>2. \E i \in 1..(tx'.pc - 1) : tx'.ixs[i].top /\ tx'.ixs[i].op # "other"
  <2>1. CASE ~NothingBefore
    BY <2>1, AdvanceFields DEF NothingBefore
  <2>2. CASE here # "other" /\ Ix.top
    BY <1>1, <2>2, AdvanceFields DEF Ix
  <2> QED
    BY <2>1, <2>2
<1> QED
  BY <1>1, <1>2, AdvanceFields DEF NothingBefore

\* An instruction that leaves requests, delegations and collateral alone, but for
\* the strategy it may close.
LEMMA ApartPair ==
  ASSUME TypeOK, PairInv, Advance, NEW here, At(here),
         here \notin {"strategy_deposit_cleanup", "strategy_withdraw_cleanup"},
         UNCHANGED <<vault_allowance, collateral_vault, strategy_request>>,
         \A s \in StrategyIds : collateral_allowance'[s] \in {0, collateral_allowance[s]},
         \A s \in StrategyIds : strategy'[s].collateral_amount <= strategy[s].collateral_amount,
         \A s \in StrategyIds : strategy[s].collateral_amount \in Nat
                                  /\ strategy'[s].collateral_amount \in Nat
  PROVE  PairInv'
<1>0. Shape
  BY ShapeOfType
<1>1. SavedWell'
  BY AdvanceFields DEF PairInv, SavedWell
<1>2. CASE Quiet /\ Held
  <2>1. Quiet' /\ Held'
    BY <1>0, <1>2 DEF Quiet, Held, Shape
  <2> QED
    BY <1>1, <2>1 DEF PairInv
<1>3. CASE Between
  <2>1. PICK s \in StrategyIds : Depositing(s) \/ Withdrawing(s)
    BY <1>3 DEF Between
  <2>2. ~NothingBefore' /\ tx'.running
    BY <1>3, BehindKept DEF Between
  <2>3. OthersApart(s)'
    BY <1>0, <2>1 DEF Depositing, Withdrawing, OthersApart, Shape
  <2>4. CASE Depositing(s)
    <3>1. Ahead("strategy_deposit_cleanup")'
      BY <2>4, AheadKept DEF Depositing
    <3>2. strategy_request[s].dst_bal_before \in Nat
      BY <1>0 DEF Shape, Requests
    <3> QED
      BY <1>1, <2>2, <2>3, <2>4, <3>1, <3>2 DEF PairInv, Between, Depositing
  <2>5. CASE Withdrawing(s)
    <3>1. Ahead("strategy_withdraw_cleanup")'
      BY <2>5, AheadKept DEF Withdrawing
    <3>2. strategy_request[s].src_bal_before \in Nat
      BY <1>0 DEF Shape, Requests
    <3> QED
      BY <1>1, <2>2, <2>3, <2>5, <3>1, <3>2 DEF PairInv, Between, Withdrawing
  <2> QED
    BY <2>1, <2>4, <2>5
<1> QED
  BY <1>2, <1>3 DEF PairInv

LEMMA OtherPair ==
  ASSUME TypeOK, PairInv, NEW bought \in SwapAmounts, NEW sold \in SwapAmounts,
         Other(bought, sold)
  PROVE  PairInv'
<1>1. Shape /\ Ix.strategy \in StrategyIds /\ bought \in Nat /\ sold \in Nat
  BY ShapeOfType, IxType, StrategiesAssumption DEF Other
<1>2. Advance /\ At("other") /\ UNCHANGED <<strategy, strategy_request>>
  BY DEF Other
<1>3. SavedWell'
  BY <1>2, AdvanceFields DEF PairInv, SavedWell
<1>4. \/ /\ sold <= vault_allowance /\ vault_allowance' = vault_allowance - sold
         /\ collateral_vault'
              = [collateral_vault EXCEPT ![Ix.strategy] = collateral_vault[Ix.strategy] + bought]
         /\ UNCHANGED collateral_allowance
      \/ /\ sold <= collateral_allowance[Ix.strategy]
         /\ collateral_vault'
              = [collateral_vault EXCEPT ![Ix.strategy] = collateral_vault[Ix.strategy] - sold]
         /\ collateral_allowance' = [collateral_allowance EXCEPT
              ![Ix.strategy] = collateral_allowance[Ix.strategy] - sold]
         /\ UNCHANGED vault_allowance
  BY DEF Other
<1>5. CASE Quiet /\ Held
  <2>1. Quiet' /\ Held'
    BY <1>1, <1>2, <1>4, <1>5 DEF Quiet, Held, Shape, StrategyRecords
  <2> QED
    BY <1>3, <2>1 DEF PairInv
<1>6. CASE Between
  <2>1. PICK s \in StrategyIds : Depositing(s) \/ Withdrawing(s)
    BY <1>6 DEF Between
  <2>2. ~NothingBefore' /\ tx'.running
    BY <1>2, <1>6, BehindKept DEF Between
  <2>3. OthersApart(s)
    BY <2>1 DEF Depositing, Withdrawing
  <2>4. OthersApart(s)'
    BY <1>1, <1>2, <1>4, <2>3 DEF OthersApart, Shape, StrategyRecords
  <2>5. CASE Depositing(s)
    <3>1. Ahead("strategy_deposit_cleanup")'
      BY <1>2, <2>5, AheadKept DEF Depositing
    <3>2. collateral_allowance'[s] = 0
      BY <1>1, <1>4, <2>5 DEF Depositing, Shape
    <3> QED
      BY <1>2, <1>3, <2>2, <2>4, <2>5, <3>1, <3>2 DEF PairInv, Between, Depositing
  <2>6. CASE Withdrawing(s)
    <3>1. Ahead("strategy_withdraw_cleanup")'
      BY <1>2, <2>6, AheadKept DEF Withdrawing
    <3>2. vault_allowance' = 0
      BY <1>1, <1>4, <2>6 DEF Withdrawing, Shape
    <3> QED
      BY <1>2, <1>3, <2>2, <2>4, <2>6, <3>1, <3>2 DEF PairInv, Between, Withdrawing
  <2> QED
    BY <2>1, <2>5, <2>6
<1> QED
  BY <1>5, <1>6 DEF PairInv

\* The introspection admits no second setup on top, and finds the cleanup ahead.
LEMMA SetupPair ==
  ASSUME TypeOK, PairInv, SetupsOnTop, NEW amount_in \in AmountsIn, NEW minTarget \in MinTargets,
         \/ StrategyDepositSetup(amount_in, minTarget)
         \/ StrategyWithdrawSetup(amount_in, minTarget)
  PROVE  PairInv'
<1>1. Shape
  BY ShapeOfType
<1>2. Advance /\ NothingBefore
  BY Zenon DEF StrategyDepositSetup, StrategyWithdrawSetup, MaySetup, Introspected
<1>top. Ix.top
  BY DEF StrategyDepositSetup, StrategyWithdrawSetup, At, Ix, SetupsOnTop, SetupOps,
    TypeOK, Transactions
<1>3. SavedWell' /\ Quiet /\ Held
  BY <1>2, AdvanceFields DEF PairInv, SavedWell, Between
<1>4. CASE StrategyDepositSetup(amount_in, minTarget)
  <2>0. PICK s \in StrategyIds : s = Ix.strategy
    BY <1>4, IxType DEF StrategyDepositSetup
  <2>1. /\ At("strategy_deposit_setup")
        /\ Introspected("strategy_deposit_cleanup")
        /\ strategy_request' = [strategy_request EXCEPT ![s] =
             Request(amount_in, minTarget, vault, collateral_vault[s])]
        /\ UNCHANGED <<collateral_vault, collateral_allowance, strategy>>
    BY <1>4, <2>0 DEF StrategyDepositSetup, MaySetup
  <2>3. ~NothingBefore' /\ tx'.running
    BY <1>2, <1>top, <2>1, BehindKept
  <2>4. Ahead("strategy_deposit_cleanup")'
    BY <1>2, <2>1, AdvanceFields DEF Introspected, Ahead
  <2>5. strategy_request'[s].dst_bal_before = collateral_vault[s]
    BY <1>1, <2>1 DEF Shape, Request
  <2>6. OthersApart(s)'
    BY <1>1, <1>3, <2>1 DEF OthersApart, Quiet, Held, Shape
  <2>7. Depositing(s)'
    BY <1>3, <2>1, <2>4, <2>5, <2>6 DEF Depositing, Quiet, Held
  <2> QED
    BY <1>3, <2>3, <2>7 DEF PairInv, Between
<1>5. CASE StrategyWithdrawSetup(amount_in, minTarget)
  <2>0. PICK s \in StrategyIds : s = Ix.strategy
    BY <1>5, IxType DEF StrategyWithdrawSetup
  <2>1. /\ At("strategy_withdraw_setup")
        /\ Introspected("strategy_withdraw_cleanup")
        /\ collateral_allowance' = [collateral_allowance EXCEPT ![s] = amount_in]
        /\ strategy_request' = [strategy_request EXCEPT ![s] =
             Request(amount_in, minTarget, collateral_vault[s], vault)]
        /\ UNCHANGED <<collateral_vault, vault_allowance, strategy>>
    BY <1>5, <2>0 DEF StrategyWithdrawSetup, MaySetup
  <2>3. ~NothingBefore' /\ tx'.running
    BY <1>2, <1>top, <2>1, BehindKept
  <2>4. Ahead("strategy_withdraw_cleanup")'
    BY <1>2, <2>1, AdvanceFields DEF Introspected, Ahead
  <2>5. strategy_request'[s].src_bal_before = collateral_vault[s]
    BY <1>1, <2>1 DEF Shape, Request
  <2>6. OthersApart(s)'
    BY <1>1, <1>3, <2>1 DEF OthersApart, Quiet, Held, Shape
  <2>7. Withdrawing(s)'
    BY <1>3, <2>1, <2>4, <2>5, <2>6 DEF Withdrawing, Quiet, Held
  <2> QED
    BY <1>3, <2>3, <2>7 DEF PairInv, Between
<1> QED
  BY <1>4, <1>5

LEMMA DepositCleanupPair == ASSUME TypeOK, PairInv, StrategyDepositCleanup PROVE PairInv'
<1>0. PICK s \in StrategyIds : s = Ix.strategy
  BY IxType DEF StrategyDepositCleanup
<1>1. Shape /\ strategy_request[s].pending /\ Fetched(s) \in Nat
  BY <1>0, ShapeOfType, DepositCleanupFields
<1>2. /\ OnlyOf(s)
      /\ strategy'[s].collateral_amount = strategy[s].collateral_amount + Fetched(s)
  BY <1>0, DepositCleanupFields
<1>3. /\ At("strategy_deposit_cleanup") /\ Advance
      /\ vault_allowance' = 0
      /\ strategy_request' = [strategy_request EXCEPT ![s] = NoRequest]
      /\ UNCHANGED <<collateral_vault, collateral_allowance>>
  BY <1>0, Zenon DEF StrategyDepositCleanup
<1>4. SavedWell'
  BY <1>3, AdvanceFields DEF PairInv, SavedWell
<1>5. PICK r \in StrategyIds : tx.running /\ ~NothingBefore /\ (Depositing(r) \/ Withdrawing(r))
  BY <1>1 DEF PairInv, Quiet, Between
<1>6. r = s
  BY <1>1, <1>5 DEF Depositing, Withdrawing, OthersApart
<1>7. \A q \in StrategyIds : strategy_request'[q].pending => q # s /\ strategy_request[q].pending
  BY <1>1, <1>3 DEF Shape, NoRequest
<1>8. \A q \in StrategyIds \ {s} : strategy'[q] = strategy[q]
  BY <1>2 DEF OnlyOf
<1>9. CASE Depositing(s)
  <2>2. strategy'[s].collateral_amount <= collateral_vault[s]
    BY <1>1, <1>2, <1>9 DEF Depositing, Fetched, Shape, StrategyRecords, Requests
  <2>3. Held'
    BY <1>3, <1>8, <1>9, <2>2 DEF Held, Depositing, OthersApart
  <2>4. Quiet'
    BY <1>3, <1>7, <1>9 DEF Quiet, Depositing, OthersApart
  <2> QED
    BY <1>4, <2>3, <2>4 DEF PairInv
<1>10. CASE Withdrawing(s)
  <2>1. Ahead("strategy_withdraw_cleanup")'
    BY <1>3, <1>10, AheadKept DEF Withdrawing
  <2>2. ~NothingBefore' /\ tx'.running
    BY <1>3, <1>5, BehindKept
  <2>3. OthersApart(s)'
    BY <1>3, <1>7, <1>8, <1>10 DEF Withdrawing, OthersApart
  <2>4. Withdrawing(s)'
    BY <1>1, <1>3, <1>7, <2>1, <2>3 DEF Withdrawing
  <2> QED
    BY <1>1, <1>4, <2>2, <2>4 DEF PairInv, Between
<1> QED
  BY <1>5, <1>6, <1>9, <1>10

LEMMA WithdrawCleanupPair == ASSUME TypeOK, PairInv, StrategyWithdrawCleanup PROVE PairInv'
<1>0. PICK s \in StrategyIds : s = Ix.strategy
  BY IxType DEF StrategyWithdrawCleanup
<1>1. Shape /\ strategy_request[s].pending
  BY <1>0, ShapeOfType, WithdrawCleanupFields
<1>2. /\ OnlyOf(s)
      /\ strategy[s].collateral_amount - strategy'[s].collateral_amount
           = strategy_request[s].src_bal_before - collateral_vault[s]
  BY <1>0, WithdrawCleanupFields
<1>3. /\ At("strategy_withdraw_cleanup") /\ Advance
      /\ collateral_allowance' = [collateral_allowance EXCEPT ![s] = 0]
      /\ strategy_request' = [strategy_request EXCEPT ![s] = NoRequest]
      /\ UNCHANGED <<collateral_vault, vault_allowance>>
  BY <1>0, Zenon DEF StrategyWithdrawCleanup
<1>4. SavedWell'
  BY <1>3, AdvanceFields DEF PairInv, SavedWell
<1>5. PICK r \in StrategyIds : tx.running /\ ~NothingBefore /\ (Depositing(r) \/ Withdrawing(r))
  BY <1>1 DEF PairInv, Quiet, Between
<1>6. r = s
  BY <1>1, <1>5 DEF Depositing, Withdrawing, OthersApart
<1>7. \A q \in StrategyIds : strategy_request'[q].pending => q # s /\ strategy_request[q].pending
  BY <1>1, <1>3 DEF Shape, NoRequest
<1>8. /\ \A q \in StrategyIds \ {s} : strategy'[q] = strategy[q]
      /\ \A q \in StrategyIds \ {s} : collateral_allowance'[q] = collateral_allowance[q]
      /\ collateral_allowance'[s] = 0
  BY <1>1, <1>2, <1>3 DEF Shape, OnlyOf
<1>9. CASE Withdrawing(s)
  <2>2. strategy'[s].collateral_amount <= collateral_vault[s]
    BY <1>1, <1>2, <1>9 DEF Withdrawing, Shape, StrategyRecords, Requests, OnlyOf
  <2>3. Held'
    BY <1>3, <1>8, <1>9, <2>2 DEF Held, Withdrawing, OthersApart
  <2>4. Quiet'
    BY <1>3, <1>7, <1>8, <1>9 DEF Quiet, Withdrawing, OthersApart
  <2> QED
    BY <1>4, <2>3, <2>4 DEF PairInv
<1>10. CASE Depositing(s)
  <2>1. Ahead("strategy_deposit_cleanup")'
    BY <1>3, <1>10, AheadKept DEF Depositing
  <2>2. ~NothingBefore' /\ tx'.running
    BY <1>3, <1>5, BehindKept
  <2>3. OthersApart(s)'
    BY <1>3, <1>7, <1>8, <1>10 DEF Depositing, OthersApart
  <2>4. Depositing(s)'
    BY <1>1, <1>7, <1>8, <2>1, <2>3 DEF Depositing
  <2> QED
    BY <1>1, <1>4, <2>2, <2>4 DEF PairInv, Between
<1> QED
  BY <1>5, <1>6, <1>9, <1>10

LEMMA StrategyPair == ASSUME TypeOK, PairInv, SetupsOnTop, StrategyStep PROVE PairInv'
<1>1. Shape
  BY ShapeOfType
<1>2. CASE InitStrategy
  <2>1. PICK s \in StrategyIds : s = Ix.strategy
    BY <1>2, IxType DEF InitStrategy
  <2>2. /\ At("init_strategy") /\ Advance
        /\ UNCHANGED <<vault_allowance, collateral_vault, collateral_allowance, strategy_request>>
        /\ strategy' = [strategy EXCEPT ![s] =
             [NoStrategy EXCEPT !.open = TRUE, !.last_updated = now]]
    BY <1>2, <2>1 DEF InitStrategy, tokens
  <2>3. \A q \in StrategyIds : strategy[q].collateral_amount \in Nat
    BY <1>1 DEF Shape, StrategyRecords
  <2>4. \A q \in StrategyIds : strategy'[q].collateral_amount \in {0, strategy[q].collateral_amount}
    BY <1>1, <2>2 DEF Shape, NoStrategy
  <2>5. \A q \in StrategyIds : /\ strategy'[q].collateral_amount <= strategy[q].collateral_amount
                               /\ strategy'[q].collateral_amount \in Nat
    BY <2>3, <2>4
  <2> QED
    BY <2>2, <2>3, <2>5, ApartPair
<1>3. CASE CloseStrategy
  <2>1. PICK s \in StrategyIds : s = Ix.strategy
    BY <1>3, IxType DEF CloseStrategy
  <2>2. /\ At("close_strategy") /\ Advance
        /\ UNCHANGED <<vault_allowance, collateral_vault, strategy_request>>
        /\ collateral_allowance' = [collateral_allowance EXCEPT ![s] = 0]
        /\ strategy' = [strategy EXCEPT ![s] = NoStrategy]
    BY <1>3, <2>1 DEF CloseStrategy
  <2>3. /\ \A q \in StrategyIds : strategy[q].collateral_amount \in Nat
        /\ \A q \in StrategyIds : collateral_allowance'[q] \in {0, collateral_allowance[q]}
    BY <1>1, <2>2 DEF Shape, StrategyRecords
  <2>4. \A q \in StrategyIds : strategy'[q].collateral_amount \in {0, strategy[q].collateral_amount}
    BY <1>1, <2>2 DEF Shape, NoStrategy
  <2>5. \A q \in StrategyIds : /\ strategy'[q].collateral_amount <= strategy[q].collateral_amount
                               /\ strategy'[q].collateral_amount \in Nat
    BY <2>3, <2>4
  <2> QED
    BY <2>2, <2>3, <2>5, ApartPair
<1>4. ASSUME NEW quote \in Quotes, StrategyClaimYield(quote) PROVE PairInv'
  <2>1. PICK s \in StrategyIds : s = Ix.strategy
    BY <1>4, IxType DEF StrategyClaimYield
  <2>2. /\ At("strategy_claim_yield") /\ Advance
        /\ UNCHANGED <<vault_allowance, collateral_vault, collateral_allowance, strategy_request>>
        /\ strategy' = [strategy EXCEPT ![s].total_borrowed_amount = quote]
    BY <1>4, <2>1 DEF StrategyClaimYield, tokens
  <2>3. \A q \in StrategyIds : /\ strategy'[q].collateral_amount = strategy[q].collateral_amount
                               /\ strategy[q].collateral_amount \in Nat
    BY <1>1, <2>2 DEF Shape, StrategyRecords
  <2> QED
    BY <2>2, <2>3, ApartPair
<1> QED
  BY <1>2, <1>3, <1>4, SetupPair, DepositCleanupPair, WithdrawCleanupPair DEF StrategyStep

LEMMA RestPair == ASSUME TypeOK, PairInv, RestStep PROVE PairInv'
<1>1. \A q \in StrategyIds : strategy[q].collateral_amount \in Nat
  BY ShapeOfType DEF Shape, StrategyRecords
<1>2. ASSUME NEW here, At(here), Advance,
             here \notin {"strategy_deposit_cleanup", "strategy_withdraw_cleanup"},
             UNCHANGED <<vault_allowance, strategy, collateral_vault, collateral_allowance,
                         strategy_request>>
      PROVE  PairInv'
  BY <1>1, <1>2, ApartPair
<1>3. ASSUME NEW amount \in LpAmounts, Deposit(amount) \/ Withdraw(amount) PROVE PairInv'
  BY <1>2, <1>3 DEF Deposit, Withdraw
<1>4. ASSUME NEW principal \in PositionAmounts, OpenPosition(principal) PROVE PairInv'
  BY <1>2, <1>4 DEF OpenPosition
<1>5. ASSUME NEW principal \in PositionAmounts, NEW amount \in InterestAmounts,
             ClosePosition(principal, amount) \/ ClaimPosition(principal, amount)
      PROVE  PairInv'
  BY <1>2, <1>5 DEF ClosePosition, ClaimPosition
<1> QED
  BY <1>3, <1>4, <1>5, OtherPair DEF RestStep

\* Between two transactions everything is quiet: a transaction cannot end with a
\* cleanup still ahead.
LEMMA QuietAtEnd == ASSUME TypeOK, PairInv, ~tx.running \/ tx.pc > Len(tx.ixs) PROVE Quiet /\ Held
<1>1. ~Between
  <2> SUFFICES ASSUME Between PROVE FALSE
    OBVIOUS
  <2>1. \E op : Ahead(op)
    BY DEF Between, Depositing, Withdrawing
  <2>2. tx.pc \in Nat /\ Len(tx.ixs) \in Nat /\ tx.running
    BY DEF TypeOK, Transactions, Between
  <2> QED
    BY <2>1, <2>2 DEF Ahead
<1> QED
  BY <1>1 DEF PairInv

LEMMA StepPair == ASSUME TypeOK, PairInv, SetupsOnTop, [Next]_vars PROVE PairInv'
<1>1. SavedWell
  BY DEF PairInv
<1>2. ASSUME NEW plan \in Plans, NEW signers \in Signings, Begin(plan, signers) PROVE PairInv'
  <2>1. Quiet /\ Held /\ UNCHANGED <<accounts, saved>>
    BY <1>2, QuietAtEnd DEF Begin
  <2> QED
    BY <1>1, <2>1 DEF PairInv, Quiet, Held, SavedWell, accounts, tokens
<1>3. CASE Commit
  <2>1. Quiet /\ Held
    BY <1>3, QuietAtEnd DEF Commit
  <2>2. saved' = Working /\ UNCHANGED accounts
    BY <1>3 DEF Commit
  <2> QED
    BY <2>1, <2>2 DEF PairInv, Quiet, Held, SavedWell, accounts, tokens, Working
<1>4. CASE Abort
  BY <1>1, <1>4 DEF PairInv, Quiet, Held, SavedWell, Abort
<1>5. ASSUME UNCHANGED <<accounts, saved, tx>> PROVE PairInv'
  <2>1. SavedWell'
    BY <1>1, <1>5 DEF SavedWell
  <2>2. CASE Quiet /\ Held
    BY <1>5, <2>1, <2>2 DEF PairInv, Quiet, Held, accounts, tokens
  <2>3. CASE Between
    <3>1. PICK s \in StrategyIds : Depositing(s) \/ Withdrawing(s)
      BY <2>3 DEF Between
    <3>2. (Depositing(s) \/ Withdrawing(s))'
      BY <1>5, <3>1
      DEF Depositing, Withdrawing, Ahead, OthersApart, accounts, tokens
    <3>3. tx'.running /\ ~NothingBefore'
      BY <1>5, <2>3 DEF Between, NothingBefore
    <3> QED
      BY <2>1, <3>2, <3>3 DEF PairInv, Between
  <2> QED
    BY <2>2, <2>3 DEF PairInv
<1>6. CASE Tick
  BY <1>5, <1>6 DEF Tick
<1>7. ASSUME NEW amount \in MaxBorrows, UpdateVaultMaxBorrow(amount) PROVE PairInv'
  BY <1>5, <1>7 DEF UpdateVaultMaxBorrow
<1>8. CASE UNCHANGED vars
  BY <1>5, <1>8 DEF vars
<1> QED
  BY <1>2, <1>3, <1>4, <1>6, <1>7, <1>8, StrategyPair, RestPair DEF Next

LEMMA PairCorrect == Spec /\ []SetupsOnTop => [](TypeOK /\ PairInv)
<1>1. Init => PairInv
  <2> SUFFICES ASSUME Init PROVE PairInv
    OBVIOUS
  <2>1. Quiet /\ Held
    BY DEF Init, Quiet, Held, NoStrategy, NoRequest
  <2> QED
    BY <2>1 DEF Init, PairInv, SavedWell, Quiet, Held, Working
<1>2. PairInv /\ TypeOK /\ SetupsOnTop /\ [Next]_vars => PairInv'
  BY StepPair
<1> QED
  BY <1>1, <1>2, TypeCorrect, PTL DEF Spec

\* If setups are instructions of the transaction itself, no request and no
\* delegation survives the transaction that made it.  The setup
\* only looks for a cleanup of its kind, and a cleanup only for a request, so the
\* invariant carries the case of the mismatched pair: one kind of cleanup may take
\* the request of the other kind of setup, but then the cleanup the setup found
\* ahead of it fails, and with it the transaction.
THEOREM NothingOutlivesTxCorrect == Spec /\ []SetupsOnTop => []NothingOutlivesTx
<1>1. TypeOK /\ PairInv => NothingOutlivesTx
  BY QuietAtEnd DEF NothingOutlivesTx, Quiet
<1> QED
  BY <1>1, PairCorrect, PTL

\* If setups are instructions of the transaction itself, a strategy's token account
\* holds what its account says: a delegation ends with the cleanup that takes what
\* was sold off the record.
THEOREM CollateralBackedCorrect == Spec /\ []SetupsOnTop => []CollateralBacked
<1>1. TypeOK /\ PairInv => CollateralBacked
  BY QuietAtEnd DEF CollateralBacked, Held
<1> QED
  BY <1>1, PairCorrect, PTL
-----------------------------------------------------------------------------
(* Debts *)

DebtOf(account) == [s \in StrategyIds |-> account[s].total_borrowed_amount]

CoverInv == DebtsCovered /\ Total(DebtOf(saved.strategy)) <= saved.total_borrowed

LEMMA DebtsType == ASSUME TypeOK PROVE Debts \in [StrategyIds -> Nat] /\ Total(Debts) \in Nat
<1>1. Debts \in [StrategyIds -> Nat]
  BY ShapeOfType DEF Shape, Debts, StrategyRecords
<1> QED
  BY <1>1, StrategiesAssumption, TotalType

\* The sum of the debts moves as the debt of the one strategy does.
LEMMA DebtMove ==
  ASSUME TypeOK, NEW s \in StrategyIds, OnlyOf(s)
  PROVE  Total(Debts)' = Total(Debts) + strategy'[s].total_borrowed_amount
                           - strategy[s].total_borrowed_amount
<1> DEFINE n == strategy'[s].total_borrowed_amount
<1>1. n \in Nat /\ Debts' = [Debts EXCEPT ![s] = n]
  BY ShapeOfType DEF OnlyOf, Debts, Shape, StrategyRecords
<1>2. Debts[s] = strategy[s].total_borrowed_amount /\ Debts[s] \in Nat
  BY DebtsType DEF Debts
<1> HIDE DEF n
<1>3. Total([Debts EXCEPT ![s] = n]) = Total(Debts) - Debts[s] + n
  BY <1>1, DebtsType, StrategiesAssumption, TotalUpdate, Zenon
<1>4. Total(Debts)' = Total(Debts) - strategy[s].total_borrowed_amount + n
  BY <1>1, <1>2, <1>3
<1> QED
  BY <1>1, <1>2, <1>4, DebtsType DEF n

\* What a strategy's instruction does to the books: nothing, or it changes one
\* strategy, which is empty before or after, or open before and after, and then its
\* debt and the vault's total move together.
LEMMA StrategyMoves ==
  ASSUME TypeOK, StrategyStep
  PROVE  \/ /\ ~InitStrategy /\ ~CloseStrategy
            /\ UNCHANGED <<strategy, total_borrowed>>
         \/ \E s \in StrategyIds :
              /\ OnlyOf(s) /\ s = Ix.strategy /\ total_borrowed' \in Nat
              /\ \/ /\ \/ InitStrategy /\ ~strategy[s].open
                       \/ CloseStrategy
                    /\ strategy'[s].total_borrowed_amount = 0
                    /\ total_borrowed' = total_borrowed
                 \/ /\ strategy[s].open /\ strategy'[s].open
                    /\ total_borrowed' = total_borrowed + strategy'[s].total_borrowed_amount
                                           - strategy[s].total_borrowed_amount
<1>1. Shape /\ total_borrowed \in Nat
  BY ShapeOfType DEF Shape
<1>2. CASE InitStrategy \/ CloseStrategy
  <2>1. PICK s \in StrategyIds : s = Ix.strategy
    BY <1>2, IxType DEF InitStrategy, CloseStrategy
  <2>2. OnlyOf(s)
    <3>1. TypeOK'
      BY <1>2, ComeAndGoType
    <3>2. strategy' \in [StrategyIds -> StrategyRecords]
      BY <3>1 DEF TypeOK, Working, Accounts
    <3>3. \A q \in StrategyIds \ {s} : strategy'[q] = strategy[q]
      BY <1>1, <1>2, <2>1 DEF InitStrategy, CloseStrategy, Shape
    <3> QED
      BY <3>2, <3>3 DEF OnlyOf
  <2>3. total_borrowed' = total_borrowed
    BY <1>2 DEF InitStrategy, CloseStrategy, lpVault
  <2>4. PICK r : strategy' = [strategy EXCEPT ![s] = r] /\ r.total_borrowed_amount = 0
    <3>1. /\ NoStrategy.total_borrowed_amount = 0
          /\ [NoStrategy EXCEPT !.open = TRUE, !.last_updated = now].total_borrowed_amount = 0
      BY DEF NoStrategy
    <3> QED
      BY <1>2, <2>1, <3>1 DEF InitStrategy, CloseStrategy
  <2>5. strategy'[s].total_borrowed_amount = 0
    BY <1>1, <2>4 DEF Shape
  <2>6. InitStrategy => ~strategy[s].open
    BY <2>1 DEF InitStrategy
  <2> QED
    BY <1>1, <1>2, <2>1, <2>2, <2>3, <2>5, <2>6
<1>3. ASSUME NEW s \in StrategyIds, strategy[s].open, OnlyOf(s),
             NEW debt, NEW amount, NEW updated,
               \/ strategy' = [strategy EXCEPT ![s].total_borrowed_amount = debt,
                                               ![s].collateral_amount = amount,
                                               ![s].last_updated = updated]
               \/ strategy' = [strategy EXCEPT ![s].collateral_amount = amount,
                                               ![s].total_borrowed_amount = debt,
                                               ![s].last_updated = updated]
               \/ strategy' = [strategy EXCEPT ![s].total_borrowed_amount = debt]
      PROVE  strategy'[s].open
  BY <1>1, <1>3 DEF Shape, StrategyRecords
<1>4. CASE StrategyDepositCleanup
  <2>1. PICK s \in StrategyIds : s = Ix.strategy
    BY <1>4, IxType DEF StrategyDepositCleanup
  <2>2. total_borrowed' \in Nat
    BY <1>4, DepositCleanupType DEF TypeOK, Working, Accounts
  <2>3. strategy[s].open /\ OnlyOf(s)
    BY <1>4, <2>1, DepositCleanupFields DEF StrategyDepositCleanup
  <2>4. PICK debt, amount, updated :
          strategy' = [strategy EXCEPT ![s].total_borrowed_amount = debt,
                                       ![s].collateral_amount = amount,
                                       ![s].last_updated = updated]
    BY <1>4, <2>1 DEF StrategyDepositCleanup
  <2>5. strategy'[s].open
    BY <1>3, <2>3, <2>4
  <2> QED
    BY <1>4, <2>1, <2>2, <2>3, <2>5, DepositCleanupFields
<1>5. CASE StrategyWithdrawCleanup
  <2>1. PICK s \in StrategyIds : s = Ix.strategy
    BY <1>5, IxType DEF StrategyWithdrawCleanup
  <2>2. strategy[s].open /\ OnlyOf(s)
    BY <1>5, <2>1, WithdrawCleanupFields DEF StrategyWithdrawCleanup, MayClaim
  <2>3. PICK debt, amount, updated :
          strategy' = [strategy EXCEPT ![s].collateral_amount = amount,
                                       ![s].total_borrowed_amount = debt,
                                       ![s].last_updated = updated]
    BY <1>5, <2>1 DEF StrategyWithdrawCleanup
  <2>4. strategy'[s].open
    BY <1>3, <2>2, <2>3
  <2> QED
    BY <1>5, <2>1, <2>2, <2>4, WithdrawCleanupFields
<1>6. ASSUME NEW quote \in Quotes, StrategyClaimYield(quote)
      PROVE  \E s \in StrategyIds :
               /\ OnlyOf(s) /\ s = Ix.strategy /\ total_borrowed' \in Nat
               /\ strategy[s].open /\ strategy'[s].open
               /\ total_borrowed' = total_borrowed + strategy'[s].total_borrowed_amount
                                      - strategy[s].total_borrowed_amount
  <2>1. PICK s \in StrategyIds : s = Ix.strategy
    BY <1>6, IxType DEF StrategyClaimYield
  <2>2. quote \in Nat /\ TypeOK'
    BY <1>6, StrategiesAssumption, ClaimType
  <2>3. /\ strategy' = [strategy EXCEPT ![s].total_borrowed_amount = quote]
        /\ strategy[s].open
        /\ total_borrowed' = total_borrowed + quote - strategy[s].total_borrowed_amount
    BY <1>6, <2>1 DEF StrategyClaimYield, BorrowedAfterClaim, MayClaim
  <2>4. OnlyOf(s) /\ strategy'[s].total_borrowed_amount = quote
    BY <1>1, <2>2, <2>3 DEF OnlyOf, Shape, StrategyRecords
  <2>5. total_borrowed' \in Nat
    BY <2>2 DEF TypeOK, Working, Accounts
  <2>6. strategy'[s].open
    BY <1>3, <2>3, <2>4
  <2> QED
    BY <2>1, <2>3, <2>4, <2>5, <2>6
<1>7. ASSUME NEW amount_in \in AmountsIn, NEW minTarget \in MinTargets,
             \/ StrategyDepositSetup(amount_in, minTarget)
             \/ StrategyWithdrawSetup(amount_in, minTarget)
      PROVE  ~InitStrategy /\ ~CloseStrategy /\ UNCHANGED <<strategy, total_borrowed>>
  BY <1>7 DEF StrategyDepositSetup, StrategyWithdrawSetup, InitStrategy, CloseStrategy, At, lpVault
<1> QED
  BY <1>2, <1>4, <1>5, <1>6, <1>7 DEF StrategyStep

LEMMA StrategyCover == ASSUME TypeOK, CoverInv, StrategyStep PROVE DebtsCovered'
<1>1. Total(Debts) \in Nat /\ Total(Debts) <= total_borrowed /\ total_borrowed \in Nat
  BY ShapeOfType, DebtsType DEF CoverInv, DebtsCovered, Shape
<1>2. CASE UNCHANGED <<strategy, total_borrowed>>
  BY <1>1, <1>2 DEF DebtsCovered, Debts
<1>3. ASSUME NEW s \in StrategyIds, OnlyOf(s), total_borrowed' \in Nat,
             total_borrowed' >= total_borrowed + strategy'[s].total_borrowed_amount
                                  - strategy[s].total_borrowed_amount
      PROVE  DebtsCovered'
  <2>1. Total(Debts)' = Total(Debts) + strategy'[s].total_borrowed_amount
                          - strategy[s].total_borrowed_amount
    BY <1>3, DebtMove
  <2>2. strategy'[s].total_borrowed_amount \in Nat /\ strategy[s].total_borrowed_amount \in Nat
    BY <1>3, ShapeOfType DEF OnlyOf, StrategyRecords, Shape
  <2> QED
    BY <1>1, <1>3, <2>1, <2>2 DEF DebtsCovered
<1>4. \A s \in StrategyIds : strategy[s].total_borrowed_amount \in Nat
  BY ShapeOfType DEF Shape, StrategyRecords
<1>5. ASSUME NEW s \in StrategyIds, OnlyOf(s), total_borrowed' \in Nat,
             \/ /\ strategy'[s].total_borrowed_amount = 0
                /\ total_borrowed' = total_borrowed
             \/ total_borrowed' = total_borrowed + strategy'[s].total_borrowed_amount
                                    - strategy[s].total_borrowed_amount
      PROVE  DebtsCovered'
  <2>1. strategy'[s].total_borrowed_amount \in Nat
    BY <1>5 DEF OnlyOf, StrategyRecords
  <2>2. total_borrowed' >= total_borrowed + strategy'[s].total_borrowed_amount
                             - strategy[s].total_borrowed_amount
    BY <1>1, <1>4, <1>5, <2>1
  <2> QED
    BY <1>3, <1>5, <2>2
<1> QED
  BY <1>2, <1>5, StrategyMoves

\* LpVault.total_borrowed covers the sum of the strategies' debts: the repayment
\* or the reported loss of one strategy never fails for want of it.  Closing a
\* strategy forgets its debt only, so the two may differ, in this direction.
THEOREM DebtsCoveredCorrect == Spec => []DebtsCovered
<1>1. Init => CoverInv
  <2> SUFFICES ASSUME Init PROVE CoverInv
    OBVIOUS
  <2>1. Debts \in [StrategyIds -> Nat] /\ \A s \in StrategyIds : Debts[s] = 0
    BY DEF Init, Debts, NoStrategy
  <2>2. Total(Debts) = 0
    BY <2>1, TotalZero, Zenon
  <2>3. DebtOf(saved.strategy) = Debts /\ saved.total_borrowed = 0 /\ total_borrowed = 0
    BY DEF Init, DebtOf, Debts, Working
  <2> QED
    BY <2>2, <2>3 DEF CoverInv, DebtsCovered
<1>2. TypeOK /\ CoverInv /\ [Next]_vars => CoverInv'
  <2> SUFFICES ASSUME TypeOK, CoverInv, [Next]_vars PROVE CoverInv'
    OBVIOUS
  <2>1. ASSUME UNCHANGED <<strategy, total_borrowed, saved>> PROVE CoverInv'
    BY <2>1 DEF CoverInv, DebtsCovered, Debts, DebtOf
  <2>2. CASE StrategyStep
    <3>1. saved' = saved
      BY <2>2 DEF StrategyStep, InitStrategy, CloseStrategy, StrategyDepositSetup,
        StrategyWithdrawSetup, StrategyDepositCleanup, StrategyWithdrawCleanup,
        StrategyClaimYield, Advance
    <3> QED
      BY <2>2, <3>1, StrategyCover DEF CoverInv, DebtOf
  <2>3. CASE RestStep
    BY <2>1, <2>3 DEF RestStep, Other, Deposit, Withdraw, OpenPosition, ClosePosition,
      ClaimPosition, Advance, lpVault
  <2>4. CASE Commit
    BY <2>4 DEF Commit, CoverInv, DebtsCovered, Debts, DebtOf, Working, accounts, lpVault
  <2>5. CASE Abort
    BY <2>5 DEF Abort, CoverInv, DebtsCovered, Debts, DebtOf
  <2>6. CASE Tick \/ (\E amount \in MaxBorrows : UpdateVaultMaxBorrow(amount))
             \/ (\E plan \in Plans, signers \in Signings : Begin(plan, signers)) \/ UNCHANGED vars
    BY <2>1, <2>6 DEF Tick, UpdateVaultMaxBorrow, Begin, vars, accounts, lpVault
  <2> QED
    BY <2>2, <2>3, <2>4, <2>5, <2>6 DEF Next
<1>3. CoverInv => DebtsCovered
  BY DEF CoverInv
<1> QED
  BY <1>1, <1>2, <1>3, TypeCorrect, PTL DEF Spec

\* A strategy that does not exist owes nothing.
Closed(account) ==
  \A s \in StrategyIds : ~account[s].open => account[s].total_borrowed_amount = 0

ClosedInv == Closed(strategy) /\ Closed(saved.strategy)

LEMMA StepClosed == ASSUME TypeOK, ClosedInv, [Next]_vars PROVE ClosedInv'
<1>1. ASSUME UNCHANGED <<strategy, saved>> PROVE ClosedInv'
  BY <1>1 DEF ClosedInv, Closed
<1>2. CASE StrategyStep
  <2>1. saved' = saved
    BY <1>2 DEF StrategyStep, InitStrategy, CloseStrategy, StrategyDepositSetup,
      StrategyWithdrawSetup, StrategyDepositCleanup, StrategyWithdrawCleanup,
      StrategyClaimYield, Advance
  <2>2. Closed(strategy)'
    <3>1. CASE UNCHANGED strategy
      BY <3>1 DEF ClosedInv, Closed
    <3>2. ASSUME NEW s \in StrategyIds, OnlyOf(s),
                 strategy'[s].total_borrowed_amount = 0 \/ strategy'[s].open
          PROVE  Closed(strategy)'
      BY <3>2 DEF ClosedInv, Closed, OnlyOf
    <3> QED
      BY <1>2, <3>1, <3>2, StrategyMoves
  <2> QED
    BY <2>1, <2>2 DEF ClosedInv, Closed
<1>3. CASE RestStep
  BY <1>1, <1>3 DEF RestStep, Other, Deposit, Withdraw, OpenPosition, ClosePosition,
    ClaimPosition, Advance, lpVault
<1>4. CASE Commit
  BY <1>4 DEF Commit, ClosedInv, Closed, Working, accounts
<1>5. CASE Abort
  BY <1>5 DEF Abort, ClosedInv, Closed
<1>6. CASE Tick \/ (\E amount \in MaxBorrows : UpdateVaultMaxBorrow(amount))
           \/ (\E plan \in Plans, signers \in Signings : Begin(plan, signers)) \/ UNCHANGED vars
  BY <1>1, <1>6 DEF Tick, UpdateVaultMaxBorrow, Begin, vars, accounts
<1> QED
  BY <1>2, <1>3, <1>4, <1>5, <1>6 DEF Next

LEMMA AlwaysClosed == Spec => []ClosedInv
<1>1. Init => ClosedInv
  BY DEF Init, ClosedInv, Closed, NoStrategy, Working
<1>2. TypeOK /\ ClosedInv /\ [Next]_vars => ClosedInv'
  BY StepClosed
<1> QED
  BY <1>1, <1>2, TypeCorrect, PTL DEF Spec

\* What LpVault.total_borrowed counts beyond the strategies' debts is what the
\* strategies owed that close_strategy closed: no other step moves the two apart.
THEOREM OnlyClosingForgetsCorrect == Spec => OnlyClosingForgets
<1> DEFINE Step ==
  /\ CloseStrategy =>
       Unaccounted' = Unaccounted + strategy[Ix.strategy].total_borrowed_amount
  /\ ~CloseStrategy /\ ~Abort => Unaccounted' = Unaccounted
<1>1. TypeOK /\ ClosedInv /\ [Next]_vars => Step
  <2> SUFFICES ASSUME TypeOK, ClosedInv, [Next]_vars PROVE Step
    OBVIOUS
  <2>1. Total(Debts) \in Nat /\ total_borrowed \in Nat
        /\ \A s \in StrategyIds : strategy[s].total_borrowed_amount \in Nat
    BY ShapeOfType, DebtsType DEF Shape, StrategyRecords
  <2>2. ASSUME UNCHANGED <<strategy, total_borrowed>> PROVE Unaccounted' = Unaccounted
    BY <2>2 DEF Unaccounted, Debts
  <2>3. ASSUME NEW s \in StrategyIds, OnlyOf(s), total_borrowed' \in Nat
        PROVE  /\ strategy'[s].total_borrowed_amount \in Nat
               /\ Unaccounted' = Unaccounted + (total_borrowed' - total_borrowed)
                    + strategy[s].total_borrowed_amount - strategy'[s].total_borrowed_amount
    <3>1. strategy'[s].total_borrowed_amount \in Nat
      BY <2>3 DEF OnlyOf, StrategyRecords
    <3>2. Total(Debts)' = Total(Debts) + strategy'[s].total_borrowed_amount
                            - strategy[s].total_borrowed_amount
      BY <2>3, DebtMove
    <3> QED
      BY <2>1, <2>3, <3>1, <3>2 DEF Unaccounted
  <2>4. Unaccounted \in Int
    BY <2>1 DEF Unaccounted
  <2>5. CASE StrategyStep
    <3>1. CASE UNCHANGED <<strategy, total_borrowed>> /\ ~CloseStrategy
      BY <2>2, <3>1
    <3>2. ASSUME NEW s \in StrategyIds, OnlyOf(s), s = Ix.strategy,
                 (InitStrategy /\ ~strategy[s].open) \/ CloseStrategy,
                 strategy'[s].total_borrowed_amount = 0, total_borrowed' = total_borrowed
          PROVE  Step
      <4>1. Unaccounted' = Unaccounted + strategy[s].total_borrowed_amount
        BY <2>1, <2>3, <2>4, <3>2
      <4>2. ~CloseStrategy => strategy[s].total_borrowed_amount = 0
        BY <3>2 DEF ClosedInv, Closed
      <4> QED
        BY <2>4, <3>2, <4>1, <4>2
    <3>3. ASSUME NEW s \in StrategyIds, OnlyOf(s), s = Ix.strategy, strategy'[s].open,
                 total_borrowed' \in Nat,
                 total_borrowed' = total_borrowed + strategy'[s].total_borrowed_amount
                                     - strategy[s].total_borrowed_amount
          PROVE  Step
      <4>1. Unaccounted' = Unaccounted
        BY <2>1, <2>3, <2>4, <3>3
      <4>2. ~CloseStrategy
        <5>1. CloseStrategy => strategy' = [strategy EXCEPT ![s] = NoStrategy]
          BY <3>3 DEF CloseStrategy
        <5> QED
          BY <3>3, <5>1, ShapeOfType DEF Shape, NoStrategy
      <4> QED
        BY <4>1, <4>2
    <3> QED
      BY <2>5, <3>1, <3>2, <3>3, StrategyMoves
  <2>6. ASSUME ~StrategyStep, ~Abort PROVE Unaccounted' = Unaccounted
    <3>1. CASE RestStep
      BY <2>2, <3>1 DEF RestStep, Other, Deposit, Withdraw, OpenPosition, ClosePosition,
        ClaimPosition, lpVault
    <3>2. CASE ~RestStep
      BY <2>2, <2>6, <3>2 DEF Next, Commit, Tick, UpdateVaultMaxBorrow, Begin, vars, accounts,
        lpVault
    <3> QED
      BY <3>1, <3>2
  <2> QED
    BY <2>5, <2>6 DEF StrategyStep
<1> QED
  BY <1>1, TypeCorrect, AlwaysClosed, PTL DEF Spec, OnlyClosingForgets
-----------------------------------------------------------------------------
(* Who may move collateral *)

\* Within a transaction no holder of the permission signed, nothing is requested
\* or delegated, no strategy changes and collateral only comes in.
UnsignedInv ==
  /\ ~tx.running => strategy = saved.strategy /\ collateral_vault = saved.collateral_vault
  /\ tx.running /\ tx.signers \cap CanBorrow = {} =>
       /\ Quiet
       /\ \A s \in StrategyIds : /\ collateral_vault[s] >= saved.collateral_vault[s]
                                 /\ strategy[s] = saved.strategy[s]

LEMMA StepUnsigned ==
  ASSUME TypeOK, PairInv, UnsignedInv, [Next]_vars PROVE UnsignedInv'
<1> USE DEF UnsignedInv
<1>1. ASSUME NEW plan \in Plans, NEW signers \in Signings, Begin(plan, signers)
      PROVE  UnsignedInv'
  <2>1. Quiet /\ UNCHANGED <<accounts, saved>> /\ ~tx.running /\ tx'.running
    BY <1>1, QuietAtEnd DEF Begin
  <2>2. \A s \in StrategyIds : collateral_vault[s] \in Nat
    BY ShapeOfType DEF Shape
  <2> QED
    BY <2>1, <2>2 DEF Quiet, accounts, tokens
<1>2. CASE Commit
  BY <1>2 DEF Commit, Working, Idle, accounts, tokens
<1>3. CASE Abort
  BY <1>3 DEF Abort, Idle
<1>4. ASSUME UNCHANGED <<accounts, saved, tx>> PROVE UnsignedInv'
  BY <1>4 DEF Quiet, accounts, tokens
<1>5. ASSUME Advance, tx.running PROVE tx'.running /\ tx'.signers = tx.signers /\ saved' = saved
  BY <1>5 DEF Advance, TypeOK, Transactions
<1>6. CASE StrategyStep
  <2>1. Advance /\ tx.running
    BY <1>6 DEF StrategyStep, InitStrategy, CloseStrategy, StrategyDepositSetup,
      StrategyWithdrawSetup, StrategyDepositCleanup, StrategyWithdrawCleanup,
      StrategyClaimYield, At
  <2>2. CASE StrategyDepositCleanup
    <3>1. \E s \in StrategyIds : strategy_request[s].pending
      BY <2>2, IxType, DepositCleanupFields DEF StrategyDepositCleanup
    <3> QED
      BY <1>5, <2>1, <3>1 DEF Quiet
  <2>3. ASSUME Permitted(Ix) PROVE UnsignedInv'
    BY <1>5, <2>1, <2>3 DEF Permitted, Signed
  <2>4. CASE StrategyWithdrawCleanup
    BY <2>3, <2>4, IxType, WithdrawCleanupFields DEF StrategyWithdrawCleanup
  <2>5. \/ InitStrategy \/ CloseStrategy
        \/ \E amount_in \in AmountsIn, minTarget \in MinTargets :
             StrategyDepositSetup(amount_in, minTarget)
               \/ StrategyWithdrawSetup(amount_in, minTarget)
        \/ \E quote \in Quotes : StrategyClaimYield(quote)
        => Permitted(Ix)
    BY DEF InitStrategy, CloseStrategy, StrategyDepositSetup, StrategyWithdrawSetup,
      StrategyClaimYield, MaySetup, MayClaim
  <2> QED
    BY <1>6, <2>2, <2>3, <2>4, <2>5 DEF StrategyStep
<1>7. CASE RestStep
  <2>1. Advance /\ tx.running
    BY <1>7 DEF RestStep, Other, Deposit, Withdraw, OpenPosition, ClosePosition,
      ClaimPosition, At
  <2>2. ASSUME UNCHANGED <<vault_allowance, strategy, collateral_vault, collateral_allowance,
                           strategy_request>>
        PROVE  UnsignedInv'
    BY <1>5, <2>1, <2>2 DEF Quiet
  <2>3. ASSUME NEW bought \in SwapAmounts, NEW sold \in SwapAmounts, Other(bought, sold),
               tx.signers \cap CanBorrow = {}
        PROVE  UnsignedInv'
    <3>1. PICK s \in StrategyIds : s = Ix.strategy
      BY <2>3, IxType DEF Other
    <3>2. Quiet /\ Shape /\ bought \in Nat /\ sold \in Nat
      BY <2>1, <2>3, ShapeOfType, StrategiesAssumption
    <3>3. /\ UNCHANGED <<strategy, strategy_request>>
          /\ \/ /\ sold <= vault_allowance /\ vault_allowance' = vault_allowance - sold
                /\ collateral_vault' = [collateral_vault EXCEPT ![s] = collateral_vault[s] + bought]
                /\ UNCHANGED collateral_allowance
             \/ /\ sold <= collateral_allowance[s] /\ UNCHANGED vault_allowance
                /\ collateral_vault' = [collateral_vault EXCEPT ![s] = collateral_vault[s] - sold]
                /\ collateral_allowance'
                     = [collateral_allowance EXCEPT ![s] = collateral_allowance[s] - sold]
      BY <2>3, <3>1 DEF Other
    <3>none. collateral_allowance[s] = 0
      BY <3>2 DEF Quiet
    <3>4. /\ UNCHANGED <<strategy, strategy_request>>
          /\ sold <= vault_allowance \/ sold = 0
          /\ vault_allowance' \in {vault_allowance, vault_allowance - sold}
          /\ \E gained \in Nat :
               collateral_vault' = [collateral_vault EXCEPT ![s] = collateral_vault[s] + gained]
          /\ UNCHANGED collateral_allowance
      BY <3>2, <3>3, <3>none DEF Shape
    <3>5. Quiet'
      BY <3>2, <3>4 DEF Quiet
    <3>6. \A q \in StrategyIds : collateral_vault'[q] >= collateral_vault[q]
      BY <3>2, <3>4 DEF Shape
    <3>7. \A q \in StrategyIds : /\ collateral_vault'[q] \in Nat /\ collateral_vault[q] \in Nat
                                 /\ saved.collateral_vault[q] \in Nat
      BY <3>2, <3>4 DEF Shape, TypeOK, Accounts
    <3>8. \A q \in StrategyIds : collateral_vault'[q] >= saved.collateral_vault[q]
      BY <2>1, <2>3, <3>6, <3>7
    <3> QED
      BY <1>5, <2>1, <2>3, <3>4, <3>5, <3>8
  <2>4. ASSUME tx.signers \cap CanBorrow # {} PROVE UnsignedInv'
    BY <1>5, <2>1, <2>4
  <2> QED
    BY <1>7, <2>2, <2>3, <2>4 DEF RestStep, Deposit, Withdraw, OpenPosition, ClosePosition,
      ClaimPosition
<1> QED
  BY <1>1, <1>2, <1>3, <1>4, <1>6, <1>7 DEF Next, Tick, UpdateVaultMaxBorrow, vars

\* If setups are instructions of the transaction itself, one that no holder of
\* BORROW_FROM_VAULTS signed takes no collateral
\* and changes no strategy, though a deposit's cleanup checks no permission: there
\* is nothing for it to clean up.
THEOREM BorrowerSignedCorrect == Spec /\ []SetupsOnTop => BorrowerSigned
<1>1. Init => UnsignedInv
  BY DEF Init, UnsignedInv, Working, Idle
<1>2. /\ UnsignedInv /\ TypeOK /\ PairInv /\ [Next]_vars => UnsignedInv'
  BY StepUnsigned
<1>3. UnsignedInv /\ [Next]_vars =>
        [Commit /\ tx.signers \cap CanBorrow = {} =>
           \A s \in StrategyIds : /\ collateral_vault[s] >= saved.collateral_vault[s]
                                  /\ strategy[s] = saved.strategy[s]]_vars
  BY DEF UnsignedInv, Commit
<1> QED
  BY <1>1, <1>2, <1>3, PairCorrect, PTL DEF Spec, BorrowerSigned
-----------------------------------------------------------------------------
(* The ledger *)

SetupBehind == tx.running /\ ~NothingBefore

CleanupOf(setup) ==
  IF setup = "strategy_deposit_setup" THEN "strategy_deposit_cleanup"
  ELSE "strategy_withdraw_cleanup"

CleanupOps == {"strategy_deposit_cleanup", "strategy_withdraw_cleanup"}

LEMMA OneRequest ==
  ASSUME TypeOK, PairInv, NEW s \in StrategyIds, strategy_request[s].pending
  PROVE  SetupBehind /\ \A r \in StrategyIds \ {s} : ~strategy_request[r].pending
<1>1. Between
  BY DEF PairInv, Quiet
<1>2. PICK r \in StrategyIds : Depositing(r) \/ Withdrawing(r)
  BY <1>1 DEF Between
<1>3. r = s
  BY <1>2 DEF Depositing, Withdrawing, OthersApart
<1> QED
  BY <1>1, <1>2, <1>3 DEF Between, SetupBehind, Depositing, Withdrawing, OthersApart

\* Leaves the requests alone.
Aside ==
  /\ At(Ix.op) /\ Advance /\ UNCHANGED strategy_request
  /\ Ix.op \notin CleanupOps

LEMMA DoomedAhead == Doomed <=> /\ SetupBehind /\ NoneAsked
                               /\ \E op \in CleanupOps : Ahead(op)
  BY DEF Doomed, SetupBehind, CleanupOps, Ahead

\* The setup has run, no other, and its cleanup is still ahead.
Half(setup) ==
  /\ tx.running /\ ~NoneAsked /\ Ahead(CleanupOf(setup))
  /\ \E k \in 1..(tx.pc - 1) :
       /\ tx.ixs[k].op = setup
       /\ \A i \in 1..(tx.pc - 1) : tx.ixs[i].op \in SetupOps => i = k

Asked ==
  \/ NoneAsked /\ vault_allowance = 0
  \/ Half("strategy_deposit_setup")
  \/ Half("strategy_withdraw_setup") /\ vault_allowance = 0

\* Total assets are what the ledger sees of them, even between setup and cleanup.
Balanced ==
  /\ total_assets <= MaxBalance
  /\ total_assets = IdleOf(vault) + lent + Total(Debts)

SavedBalanced ==
  /\ saved.total_assets <= MaxBalance
  /\ saved.total_assets = saved.vault + saved.lent + Total(DebtOf(saved.strategy))

\* What holds while the transaction may still be committed.
LedgerInv == Asked /\ Balanced /\ SavedBalanced

LEMMA IdleUnasked == ASSUME NoneAsked PROVE IdleOf(vault) = vault
  BY DEF NoneAsked, IdleOf

LEMMA IdleHalf ==
  ASSUME TypeOK, PairInv, NEW s \in StrategyIds, strategy_request[s].pending
  PROVE  /\ Half("strategy_deposit_setup") => IdleOf(vault) = strategy_request[s].src_bal_before
         /\ Half("strategy_withdraw_setup") => IdleOf(vault) = strategy_request[s].dst_bal_before
<1> DEFINE pending == {r \in StrategyIds : strategy_request[r].pending}
           deposit == \E i \in 1..(tx.pc - 1) : tx.ixs[i].op = "strategy_deposit_setup"
<1>1. pending = {s}
  BY OneRequest
<1>2. (CHOOSE r \in pending : TRUE) = s /\ pending # {}
  BY <1>1
<1>3. IdleOf(vault) = IF deposit THEN strategy_request[s].src_bal_before
                                 ELSE strategy_request[s].dst_bal_before
  BY <1>2 DEF IdleOf
<1>4. Half("strategy_deposit_setup") => deposit
  BY DEF Half
<1>5. Half("strategy_withdraw_setup") => ~deposit
  BY DEF Half, SetupOps
<1> QED
  BY <1>3, <1>4, <1>5

\* Neither setup nor cleanup, nor the beginning of a transaction.
LEMMA HalfKept ==
  ASSUME TypeOK, Advance, UNCHANGED strategy_request, NEW here, At(here),
         NEW setup, here \notin SetupOps \cup CleanupOps, Half(setup)
  PROVE  Half(setup)'
<1>1. PICK k \in 1..(tx.pc - 1) :
        /\ tx.ixs[k].op = setup
        /\ \A i \in 1..(tx.pc - 1) : tx.ixs[i].op \in SetupOps => i = k
  BY DEF Half
<1>2. tx.ixs[tx.pc].op = here
  BY DEF At, Ix
<1>3. k \in 1..(tx'.pc - 1)
  BY AdvanceFields
<1>4. ASSUME NEW i \in 1..(tx'.pc - 1), tx'.ixs[i].op \in SetupOps
      PROVE  i = k
  <2>1. i \in 1..(tx.pc - 1) \/ i = tx.pc
    BY AdvanceFields
  <2> QED
    BY <1>1, <1>2, <1>4, <2>1, AdvanceFields
<1>5. tx'.running /\ ~NoneAsked'
  BY AdvanceFields DEF Half, NoneAsked
<1>6. Ahead(CleanupOf(setup))'
  BY AheadKept DEF Half, CleanupOf, CleanupOps
<1> QED
  BY <1>1, <1>3, <1>4, <1>5, <1>6, AdvanceFields DEF Half

\* What is done while nothing is asked for, and what comes before every setup.
LEMMA Alone ==
  ASSUME TypeOK, SetupsOnTop, LedgerInv, tx.running, tx.pc <= Len(tx.ixs),
         NoneAsked \/ NothingBefore
  PROVE  NoneAsked /\ vault_allowance = 0 /\ IdleOf(vault) = vault
<1>1. tx.pc \in Nat /\ Len(tx.ixs) \in Nat
  BY DEF TypeOK, Transactions
<1>2. NothingBefore => \A setup \in SetupOps : ~Half(setup)
  BY <1>1 DEF NothingBefore, Half, SetupOps, SetupsOnTop
<1>3. NoneAsked => \A setup \in SetupOps : ~Half(setup)
  BY DEF Half
<1> QED
  BY <1>2, <1>3, IdleUnasked DEF LedgerInv, Asked, SetupOps

\* Requests stay as they are, and so does what was asked for.
LEMMA AskedKept ==
  ASSUME TypeOK, LedgerInv, Aside, Ix.op \notin SetupOps,
         vault_allowance = 0 => vault_allowance' = 0
  PROVE  /\ Asked'
         /\ IF NoneAsked THEN IdleOf(vault)' = vault' ELSE IdleOf(vault)' = IdleOf(vault)
<1>1. /\ At(Ix.op) /\ Advance /\ UNCHANGED strategy_request
      /\ Ix.op \notin CleanupOps
  BY DEF Aside
<1>2. NoneAsked => NoneAsked' /\ IdleOf(vault)' = vault'
  BY <1>1, IdleUnasked DEF NoneAsked, IdleOf
<1>3. \A setup \in SetupOps : Half(setup) => Half(setup)'
  BY <1>1, HalfKept
<1>4. Asked'
  BY <1>2, <1>3 DEF LedgerInv, Asked, SetupOps
<1>5. ASSUME ~NoneAsked PROVE IdleOf(vault)' = IdleOf(vault)
  <2>1. {s \in StrategyIds : strategy_request[s].pending} # {}
    BY <1>5 DEF NoneAsked
  <2>2. (\E i \in 1..(tx'.pc - 1) : tx'.ixs[i].op = "strategy_deposit_setup")
          <=> (\E i \in 1..(tx.pc - 1) : tx.ixs[i].op = "strategy_deposit_setup")
    <3>1. tx.ixs[tx.pc].op # "strategy_deposit_setup"
      BY <1>1 DEF Ix, SetupOps
    <3>2. 1..(tx'.pc - 1) = 1..(tx.pc - 1) \cup {tx.pc} /\ tx'.ixs = tx.ixs
      BY <1>1, AdvanceFields
    <3> QED
      BY <3>1, <3>2
  <2> QED
    BY <1>1, <2>1, <2>2 DEF IdleOf
<1> QED
  BY <1>2, <1>4, <1>5

\* The ledger of a transaction that may still be committed.
Open == INSTANCE VaultLedger WITH
  Borrowers <- StrategyIds \cup {Positions}, Amounts <- 0..MaxBalance, MaxAssets <- MaxBalance,
  idle <- IdleOf(vault), totalAssets <- total_assets, owed <- Owed(strategy, lent),
  running <- tx.running, saved <- SavedLedger

\* A step of the program is a step of the ledger, or the ledger sees nothing.
Maps == LedgerInv' /\ [Open!Next]_(Open!vars)

LEMMA IdleType == ASSUME TypeOK PROVE IdleOf(vault) \in Nat
<1> DEFINE pending == {s \in StrategyIds : strategy_request[s].pending}
<1>1. Shape
  BY ShapeOfType
<1>2. CASE pending = {}
  BY <1>1, <1>2 DEF IdleOf, Shape
<1>3. CASE pending # {}
  <2>1. PICK s \in StrategyIds : s = CHOOSE r \in pending : TRUE
    BY <1>3
  <2>2. strategy_request[s].src_bal_before \in Nat /\ strategy_request[s].dst_bal_before \in Nat
    BY <1>1 DEF Shape, Requests
  <2>3. IdleOf(vault) \in {strategy_request[s].src_bal_before, strategy_request[s].dst_bal_before}
    BY <1>3, <2>1 DEF IdleOf
  <2> QED
    BY <2>2, <2>3
<1> QED
  BY <1>2, <1>3

\* No balance the ledger sees passes the bound.
LEMMA Bounds ==
  ASSUME TypeOK, LedgerInv
  PROVE  /\ IdleOf(vault) \in 0..MaxBalance /\ total_assets \in 0..MaxBalance
         /\ lent \in 0..total_assets /\ Total(Debts) \in Nat
         /\ \A s \in StrategyIds : strategy[s].total_borrowed_amount \in 0..total_assets
<1>1. Shape /\ IdleOf(vault) \in Nat /\ Total(Debts) \in Nat /\ MaxBalance \in Nat
  BY ShapeOfType, IdleType, DebtsType, StrategiesAssumption
<1>2. total_assets <= MaxBalance /\ total_assets = IdleOf(vault) + lent + Total(Debts)
  BY DEF LedgerInv, Balanced
<1>3. ASSUME NEW s \in StrategyIds PROVE strategy[s].total_borrowed_amount \in 0..Total(Debts)
  <2>1. Debts[s] = strategy[s].total_borrowed_amount /\ Debts[s] \in Nat
    BY DebtsType DEF Debts
  <2>2. Debts[s] <= Total(Debts)
    BY DebtsType, StrategiesAssumption, TotalAbove, Zenon
  <2> QED
    BY <1>1, <2>1, <2>2
<1> QED
  BY <1>1, <1>2, <1>3 DEF Shape

LEMMA OwedOfStrategy ==
  ASSUME TypeOK, NEW s \in StrategyIds, OnlyOf(s), UNCHANGED lent
  PROVE  /\ Owed(strategy, lent)[s] = strategy[s].total_borrowed_amount
         /\ Owed(strategy, lent)' = [Owed(strategy, lent) EXCEPT
                                       ![s] = strategy'[s].total_borrowed_amount]
  BY PositionsAssumption DEF Owed, OnlyOf

LEMMA OwedOfPositions ==
  ASSUME UNCHANGED strategy
  PROVE  /\ Owed(strategy, lent)[Positions] = lent
         /\ Owed(strategy, lent)' = [Owed(strategy, lent) EXCEPT ![Positions] = lent']
  BY DEF Owed

LEMMA InvKept ==
  ASSUME TypeOK, LedgerInv, Advance, tx.running, Asked', Balanced'
  PROVE  LedgerInv' /\ saved' = saved /\ tx'.running /\ tx.running = tx'.running
  BY AdvanceFields DEF LedgerInv, SavedBalanced, DebtOf

\* Nothing the ledger sees changes.
LEMMA Unseen ==
  ASSUME TypeOK, LedgerInv, Advance, tx.running, Asked', IdleOf(vault)' = IdleOf(vault),
         UNCHANGED <<total_assets, lent>>,
         \A s \in StrategyIds :
           strategy'[s].total_borrowed_amount = strategy[s].total_borrowed_amount
  PROVE  Maps
<1>1. Debts' = Debts /\ Owed(strategy, lent)' = Owed(strategy, lent)
  BY DEF Debts, Owed
<1>2. Balanced'
  BY <1>1 DEF LedgerInv, Balanced
<1>3. LedgerInv' /\ saved' = saved /\ tx.running = tx'.running
  BY <1>2, InvKept
<1> QED
  BY <1>1, <1>3 DEF Maps, Open!vars, SavedLedger

\* The books stay balanced when one debt moves, a strategy's or the positions'.
LEMMA BalancedMove ==
  ASSUME TypeOK, TypeOK', LedgerInv, total_assets' <= MaxBalance, IdleOf(vault)' \in Nat,
         \/ \E s \in StrategyIds :
              /\ OnlyOf(s) /\ UNCHANGED lent
              /\ total_assets' - total_assets = IdleOf(vault)' - IdleOf(vault)
                   + strategy'[s].total_borrowed_amount - strategy[s].total_borrowed_amount
         \/ /\ UNCHANGED strategy
            /\ total_assets' - total_assets = IdleOf(vault)' - IdleOf(vault) + lent' - lent
  PROVE  Balanced'
<1>1. Shape /\ IdleOf(vault) \in Nat /\ Total(Debts) \in Nat
  BY ShapeOfType, IdleType, DebtsType
<1>2. total_assets' \in Nat /\ lent' \in Nat
  BY DEF TypeOK, Working, Accounts
<1>3. total_assets = IdleOf(vault) + lent + Total(Debts)
  BY DEF LedgerInv, Balanced
<1>4. ASSUME NEW s \in StrategyIds, OnlyOf(s), UNCHANGED lent,
             total_assets' - total_assets = IdleOf(vault)' - IdleOf(vault)
               + strategy'[s].total_borrowed_amount - strategy[s].total_borrowed_amount
      PROVE  Balanced'
  <2>1. strategy'[s].total_borrowed_amount \in Nat /\ strategy[s].total_borrowed_amount \in Nat
    BY <1>1, <1>4 DEF OnlyOf, Shape, StrategyRecords
  <2>2. Total(Debts)' = Total(Debts) + strategy'[s].total_borrowed_amount
                          - strategy[s].total_borrowed_amount
    BY <1>4, DebtMove
  <2>3. total_assets' = IdleOf(vault)' + lent' + Total(Debts)'
    BY <1>1, <1>2, <1>3, <1>4, <2>1, <2>2 DEF Shape
  <2> QED
    BY <2>3 DEF Balanced
<1>5. ASSUME UNCHANGED strategy,
             total_assets' - total_assets = IdleOf(vault)' - IdleOf(vault) + lent' - lent
      PROVE  Balanced'
  <2>1. Total(Debts)' = Total(Debts)
    BY <1>5 DEF Debts
  <2>2. total_assets' = IdleOf(vault)' + lent' + Total(Debts)'
    BY <1>1, <1>2, <1>3, <1>5, <2>1 DEF Shape
  <2> QED
    BY <2>2 DEF Balanced
<1> QED
  BY <1>4, <1>5

\* One debt is quoted anew and partly paid off.
LEMMA Revalued ==
  ASSUME TypeOK, LedgerInv, NEW b \in StrategyIds \cup {Positions},
         NEW received \in Nat, NEW quote \in Nat, received <= quote,
         Owed(strategy, lent)[b] \in 0..total_assets,
         IdleOf(vault)' = IdleOf(vault) + received,
         total_assets' = total_assets + quote - Owed(strategy, lent)[b],
         total_assets' \in 0..MaxBalance,
         Owed(strategy, lent)' = [Owed(strategy, lent) EXCEPT ![b] = quote - received],
         tx.running, tx'.running = tx.running, saved' = saved
  PROVE  Open!Instruction
<1>1. total_assets \in Nat /\ MaxBalance \in Nat
  BY Bounds, StrategiesAssumption
<1>2. quote \in 0..MaxBalance /\ received \in 0..MaxBalance
  BY <1>1
<1>3. Open!Revalue(b, received)
  BY <1>2 DEF Open!Revalue
<1> QED
  BY <1>2, <1>3 DEF Open!Instruction, SavedLedger

\* An instruction that moves the vault and what positions owe, while no strategy
\* asks for anything.
LEMMA AloneKeeps ==
  ASSUME TypeOK, TypeOK', LedgerInv, Aside, Ix.op \notin SetupOps, NoneAsked,
         UNCHANGED <<vault_allowance, strategy>>, total_assets' <= MaxBalance,
         total_assets' - total_assets = vault' - vault + lent' - lent
  PROVE  /\ LedgerInv' /\ IdleOf(vault) = vault /\ IdleOf(vault)' = vault'
         /\ tx.running /\ tx'.running = tx.running /\ saved' = saved
         /\ Owed(strategy, lent)[Positions] = lent
         /\ Owed(strategy, lent)' = [Owed(strategy, lent) EXCEPT ![Positions] = lent']
<1>1. Asked' /\ IdleOf(vault) = vault /\ IdleOf(vault)' = vault'
  BY AskedKept, IdleUnasked
<1>2. vault' \in Nat
  BY DEF TypeOK, Working, Accounts
<1>3. Balanced'
  BY <1>1, <1>2, BalancedMove
<1>4. Advance /\ tx.running
  BY DEF Aside, At
<1> QED
  BY <1>1, <1>3, <1>4, InvKept, OwedOfPositions

LEMMA RepaidMaps ==
  ASSUME TypeOK, TypeOK', LedgerInv, Aside, Ix.op \notin SetupOps, NoneAsked,
         UNCHANGED <<vault_allowance, strategy>>,
         NEW principal \in Nat, NEW interest \in Nat, Repaid(principal, interest)
  PROVE  Maps
<1>1. Shape /\ MaxBalance \in Nat
  BY ShapeOfType, StrategiesAssumption
<1>2. /\ principal <= lent /\ total_assets + interest <= MaxBalance
      /\ vault' = vault + principal + interest
      /\ total_assets' = total_assets + interest
      /\ lent' = lent - principal
  BY DEF Repaid
<1>3. /\ total_assets' <= MaxBalance
      /\ total_assets' - total_assets = vault' - vault + lent' - lent
  BY <1>1, <1>2 DEF Shape
<1>4. /\ LedgerInv' /\ IdleOf(vault) = vault /\ IdleOf(vault)' = vault'
      /\ tx.running /\ tx'.running = tx.running /\ saved' = saved
      /\ Owed(strategy, lent)[Positions] = lent
      /\ Owed(strategy, lent)' = [Owed(strategy, lent) EXCEPT ![Positions] = lent']
  BY <1>3, AloneKeeps
<1> DEFINE quote == lent + interest
           received == principal + interest
<1>5. /\ quote \in Nat /\ received \in Nat /\ received <= quote
      /\ lent' = quote - received /\ vault' = vault + received
      /\ total_assets' = total_assets + quote - lent /\ total_assets' \in 0..MaxBalance
      /\ lent \in 0..total_assets
  BY <1>1, <1>2, Bounds DEF Shape
<1> HIDE DEF quote, received
<1>6. Open!Instruction
  BY <1>4, <1>5, Revalued
<1> QED
  BY <1>4, <1>6 DEF Maps, Open!Next

LEMMA LossMaps ==
  ASSUME TypeOK, TypeOK', LedgerInv, Aside, Ix.op \notin SetupOps, NoneAsked,
         UNCHANGED <<vault_allowance, strategy>>,
         NEW principal \in Nat, NEW amount \in Nat,
         principal <= lent, amount < principal, principal - amount <= total_assets,
         vault' = vault + amount, total_assets' = total_assets - (principal - amount),
         lent' = lent - principal
  PROVE  Maps
<1>1. Shape /\ MaxBalance \in Nat
  BY ShapeOfType, StrategiesAssumption
<1>2. total_assets \in 0..MaxBalance /\ lent \in 0..total_assets
  BY Bounds
<1>3. /\ total_assets' <= MaxBalance
      /\ total_assets' - total_assets = vault' - vault + lent' - lent
  BY <1>1, <1>2 DEF Shape
<1>4. /\ LedgerInv' /\ IdleOf(vault) = vault /\ IdleOf(vault)' = vault'
      /\ tx.running /\ tx'.running = tx.running /\ saved' = saved
      /\ Owed(strategy, lent)[Positions] = lent
      /\ Owed(strategy, lent)' = [Owed(strategy, lent) EXCEPT ![Positions] = lent']
  BY <1>3, AloneKeeps
<1> DEFINE quote == lent - (principal - amount)
<1>5. /\ quote \in Nat /\ amount <= quote /\ lent' = quote - amount
      /\ total_assets' = total_assets + quote - lent /\ total_assets' \in 0..MaxBalance
  BY <1>1, <1>2 DEF Shape
<1> HIDE DEF quote
<1>6. Open!Instruction
  BY <1>2, <1>4, <1>5, Revalued
<1> QED
  BY <1>4, <1>6 DEF Maps, Open!Next

LEMMA RestMaps ==
  ASSUME TypeOK, SetupsOnTop, LedgerInv, Undisturbed, RestStep PROVE Maps
<1> USE StrategiesAssumption
<1>1. Shape /\ TypeOK'
  BY ShapeOfType, RestType
<1>2. total_assets \in 0..MaxBalance
  BY Bounds
<1>3. ASSUME NEW here, At(here), Advance, UNCHANGED strategy_request,
             here \notin CleanupOps, here \notin SetupOps
      PROVE  Aside /\ Ix.op \notin SetupOps /\ tx.running /\ tx.pc <= Len(tx.ixs)
  BY <1>3 DEF Aside, At
<1>4. ASSUME NEW bought \in SwapAmounts, NEW sold \in SwapAmounts, Other(bought, sold)
      PROVE  Maps
  <2>1. /\ Aside /\ Ix.op \notin SetupOps /\ Advance /\ tx.running
        /\ UNCHANGED <<total_assets, lent, strategy>>
    BY <1>3, <1>4 DEF Other, SetupOps, CleanupOps, lpVault
  <2>2. bought \in Nat /\ sold \in Nat
    OBVIOUS
  <2>3. /\ vault_allowance = 0 => vault_allowance' = 0
        /\ NoneAsked /\ vault_allowance = 0 => vault' = vault
    <3>1. PICK s \in StrategyIds : s = Ix.strategy
      BY <1>1, <1>4, IxType DEF Other
    <3>2. \/ /\ sold <= vault_allowance
             /\ vault' = vault - sold /\ vault_allowance' = vault_allowance - sold
          \/ /\ bought = 0 \/ strategy_request[s].pending
             /\ vault' = vault + bought
             /\ UNCHANGED vault_allowance
      BY <1>4, <3>1 DEF Other
    <3> QED
      BY <1>1, <2>2, <3>2 DEF Shape, NoneAsked
  <2>4. Asked' /\ IF NoneAsked THEN IdleOf(vault)' = vault' ELSE IdleOf(vault)' = IdleOf(vault)
    BY <2>1, <2>3, AskedKept
  <2>5. NoneAsked => vault_allowance = 0 /\ IdleOf(vault) = vault
    BY IdleUnasked DEF LedgerInv, Asked, Half
  <2> QED
    BY <2>1, <2>3, <2>4, <2>5, Unseen
<1>5. ASSUME NEW amount \in LpAmounts, Deposit(amount) PROVE Maps
  <2>1. Aside /\ Ix.op \notin SetupOps /\ tx.running /\ tx.pc <= Len(tx.ixs)
    BY <1>3, <1>5 DEF Deposit, SetupOps, CleanupOps
  <2>2. NoneAsked
    BY <1>5 DEF Undisturbed, Booking
  <2>3. /\ UNCHANGED <<vault_allowance, strategy, lent>>
        /\ total_assets + amount <= MaxBalance /\ amount \in Nat
        /\ vault' = vault + amount /\ total_assets' = total_assets + amount
    BY <1>5 DEF Deposit
  <2>4. /\ LedgerInv' /\ IdleOf(vault) = vault /\ IdleOf(vault)' = vault'
        /\ tx.running /\ tx'.running = tx.running /\ saved' = saved
    <3>1. /\ total_assets' <= MaxBalance
          /\ total_assets' - total_assets = vault' - vault + lent' - lent
      BY <1>1, <1>2, <2>2, <2>3 DEF Shape
    <3> QED
      BY <1>1, <2>1, <2>2, <2>3, <3>1, AloneKeeps
  <2>5. Open!Fund(amount) /\ amount \in 0..MaxBalance
    BY <1>2, <2>3, <2>4 DEF Open!Fund, Owed
  <2> QED
    BY <2>4, <2>5 DEF Maps, Open!Next, Open!Instruction, SavedLedger
<1>6. ASSUME NEW amount \in LpAmounts, Withdraw(amount) PROVE Maps
  <2>1. Aside /\ Ix.op \notin SetupOps /\ tx.running /\ tx.pc <= Len(tx.ixs)
    BY <1>3, <1>6 DEF Withdraw, SetupOps, CleanupOps
  <2>2. NoneAsked
    BY <1>6 DEF Undisturbed, Booking
  <2>3. /\ UNCHANGED <<vault_allowance, strategy, lent>>
        /\ amount <= vault /\ amount <= total_assets /\ amount \in Nat
        /\ vault' = vault - amount /\ total_assets' = total_assets - amount
    BY <1>6 DEF Withdraw
  <2>4. /\ LedgerInv' /\ IdleOf(vault) = vault /\ IdleOf(vault)' = vault'
        /\ tx.running /\ tx'.running = tx.running /\ saved' = saved
    <3>1. /\ total_assets' <= MaxBalance
          /\ total_assets' - total_assets = vault' - vault + lent' - lent
      BY <1>1, <1>2, <2>2, <2>3 DEF Shape
    <3> QED
      BY <1>1, <2>1, <2>2, <2>3, <3>1, AloneKeeps
  <2>5. Open!Draw(amount) /\ amount \in 0..MaxBalance
    BY <1>2, <2>3, <2>4 DEF Open!Draw, Owed
  <2> QED
    BY <2>4, <2>5 DEF Maps, Open!Next, Open!Instruction, SavedLedger
<1>7. ASSUME NEW principal \in PositionAmounts, OpenPosition(principal) PROVE Maps
  <2>1. Aside /\ Ix.op \notin SetupOps /\ tx.running /\ tx.pc <= Len(tx.ixs)
    BY <1>3, <1>7 DEF OpenPosition, SetupOps, CleanupOps
  <2>2. NoneAsked /\ IdleOf(vault) = vault
    BY <1>7, <2>1, Alone DEF OpenPosition
  <2>3. /\ UNCHANGED <<vault_allowance, strategy, total_assets>>
        /\ principal <= vault /\ principal \in Nat
        /\ vault' = vault - principal /\ lent' = lent + principal
    BY <1>7 DEF OpenPosition, lpVault
  <2>4. /\ LedgerInv' /\ IdleOf(vault)' = vault'
        /\ tx.running /\ tx'.running = tx.running /\ saved' = saved
        /\ Owed(strategy, lent)[Positions] = lent
        /\ Owed(strategy, lent)' = [Owed(strategy, lent) EXCEPT ![Positions] = lent']
    <3>1. /\ total_assets' <= MaxBalance
          /\ total_assets' - total_assets = vault' - vault + lent' - lent
      BY <1>1, <1>2, <2>2, <2>3 DEF Shape
    <3> QED
      BY <1>1, <2>1, <2>2, <2>3, <3>1, AloneKeeps
  <2>5. Open!Lend(Positions, principal) /\ principal \in 0..MaxBalance
    BY <1>1, <2>2, <2>3, <2>4, Bounds DEF Open!Lend, Shape
  <2> QED
    BY <2>4, <2>5 DEF Maps, Open!Next, Open!Instruction, SavedLedger
<1>8. ASSUME NEW principal \in PositionAmounts, NEW interest \in InterestAmounts,
             ClaimPosition(principal, interest)
      PROVE  Maps
  <2>1. Aside /\ Ix.op \notin SetupOps /\ tx.running /\ tx.pc <= Len(tx.ixs)
    BY <1>3, <1>8 DEF ClaimPosition, SetupOps, CleanupOps
  <2>2. NoneAsked
    BY <1>8 DEF Undisturbed, Booking
  <2> QED
    BY <1>1, <1>8, <2>1, <2>2, RepaidMaps DEF ClaimPosition
<1>9. ASSUME NEW principal \in PositionAmounts, NEW amount \in InterestAmounts,
             ClosePosition(principal, amount)
      PROVE  Maps
  <2>1. Aside /\ Ix.op \notin SetupOps /\ tx.running /\ tx.pc <= Len(tx.ixs)
    BY <1>3, <1>9 DEF ClosePosition, SetupOps, CleanupOps
  <2>2. NoneAsked /\ UNCHANGED <<vault_allowance, strategy>>
    BY <1>9, <2>1, Alone DEF ClosePosition
  <2>3. CASE Repaid(principal, amount)
    BY <1>1, <2>1, <2>2, <2>3, RepaidMaps
  <2>4. CASE ~Repaid(principal, amount)
    BY <1>1, <1>9, <2>1, <2>2, <2>4, LossMaps DEF ClosePosition
  <2> QED
    BY <2>3, <2>4
<1> QED
  BY <1>4, <1>5, <1>6, <1>7, <1>8, <1>9 DEF RestStep

LEMMA ComeAndGoMaps ==
  ASSUME TypeOK, ClosedInv, LedgerInv, Undisturbed, InitStrategy \/ CloseStrategy PROVE Maps
<1>1. PICK s \in StrategyIds : s = Ix.strategy
  BY IxType DEF InitStrategy, CloseStrategy
<1>2. Shape
  BY ShapeOfType
<1>3. /\ Aside /\ Ix.op \notin SetupOps /\ Advance /\ tx.running
      /\ UNCHANGED <<vault, vault_allowance, total_assets, lent>>
  BY DEF InitStrategy, CloseStrategy, At, Aside, tokens, lpVault, SetupOps, CleanupOps
<1>4. strategy[s].total_borrowed_amount = 0
  BY <1>1 DEF InitStrategy, ClosedInv, Closed, Undisturbed
<1>5. PICK r : strategy' = [strategy EXCEPT ![s] = r] /\ r.total_borrowed_amount = 0
  <2>1. /\ NoStrategy.total_borrowed_amount = 0
        /\ [NoStrategy EXCEPT !.open = TRUE, !.last_updated = now].total_borrowed_amount = 0
    BY DEF NoStrategy
  <2> QED
    BY <1>1, <2>1 DEF InitStrategy, CloseStrategy
<1>6. \A q \in StrategyIds :
        strategy'[q].total_borrowed_amount = strategy[q].total_borrowed_amount
  BY <1>2, <1>4, <1>5 DEF Shape
<1>7. Asked' /\ IdleOf(vault)' = IdleOf(vault)
  BY <1>3, AskedKept, IdleUnasked
<1> QED
  BY <1>3, <1>6, <1>7, Unseen

LEMMA ClaimMaps ==
  ASSUME TypeOK, LedgerInv, NEW quote \in Quotes, StrategyClaimYield(quote) PROVE Maps
<1>1. PICK s \in StrategyIds : s = Ix.strategy
  BY IxType DEF StrategyClaimYield
<1>2. Shape /\ quote \in Nat /\ TypeOK'
  BY ShapeOfType, StrategiesAssumption, ClaimType
<1>3. /\ Aside /\ Ix.op \notin SetupOps /\ Advance /\ tx.running
      /\ UNCHANGED <<vault, vault_allowance, lent>>
      /\ strategy' = [strategy EXCEPT ![s].total_borrowed_amount = quote]
      /\ total_assets' = total_assets + quote - strategy[s].total_borrowed_amount
      /\ total_assets' \in 0..MaxBalance
  BY <1>1 DEF StrategyClaimYield, MayClaim, AssetsAfterClaim, At, Aside, tokens, SetupOps,
    CleanupOps
<1>4. OnlyOf(s) /\ strategy'[s].total_borrowed_amount = quote
  BY <1>2, <1>3 DEF OnlyOf, Shape, StrategyRecords
<1>5. Asked' /\ IdleOf(vault)' = IdleOf(vault) /\ IdleOf(vault) \in Nat
  BY <1>3, AskedKept, IdleUnasked, IdleType
<1>6. strategy[s].total_borrowed_amount \in 0..total_assets /\ total_assets \in 0..MaxBalance
  BY Bounds
<1>7. Balanced'
  <2>1. total_assets' <= MaxBalance
    BY <1>3, StrategiesAssumption
  <2>2. total_assets' - total_assets = IdleOf(vault)' - IdleOf(vault)
          + strategy'[s].total_borrowed_amount - strategy[s].total_borrowed_amount
    BY <1>2, <1>3, <1>4, <1>5, <1>6
  <2> QED
    BY <1>2, <1>3, <1>4, <1>5, <2>1, <2>2, BalancedMove
<1>8. LedgerInv' /\ saved' = saved /\ tx.running = tx'.running
  BY <1>3, <1>5, <1>7, InvKept
<1>9. PICK received \in Nat : received = 0
  OBVIOUS
<1>10. quote - received = quote /\ received <= quote
  BY <1>2, <1>9
<1>11. /\ Owed(strategy, lent)[s] = strategy[s].total_borrowed_amount
       /\ Owed(strategy, lent)' = [Owed(strategy, lent) EXCEPT ![s] = quote - received]
  <2>1. Owed(strategy, lent)' = [Owed(strategy, lent) EXCEPT ![s] = quote]
    BY <1>3, <1>4, OwedOfStrategy
  <2> QED
    BY <1>3, <1>4, <1>10, <2>1, OwedOfStrategy
<1>12. IdleOf(vault)' = IdleOf(vault) + received
  BY <1>5, <1>9
<1>13. Open!Instruction
  BY <1>2, <1>3, <1>6, <1>8, <1>10, <1>11, <1>12, Revalued
<1> QED
  BY <1>8, <1>13 DEF Maps, Open!Next

\* What the vault holds when the setup runs is what the ledger goes on seeing.
LEMMA SetupMaps ==
  ASSUME TypeOK, SetupsOnTop, LedgerInv, NEW amount_in \in AmountsIn, NEW minTarget \in MinTargets,
         \/ StrategyDepositSetup(amount_in, minTarget)
         \/ StrategyWithdrawSetup(amount_in, minTarget)
  PROVE  Maps
<1>1. PICK s \in StrategyIds : s = Ix.strategy
  BY IxType DEF StrategyDepositSetup, StrategyWithdrawSetup
<1>2. Shape
  BY ShapeOfType
<1>3. PICK setup \in SetupOps : At(setup) /\ Ix.op = setup
  BY DEF StrategyDepositSetup, StrategyWithdrawSetup, SetupOps, At
<1>4. /\ NothingBefore /\ Advance /\ tx.running /\ tx.pc <= Len(tx.ixs)
      /\ UNCHANGED <<vault, total_assets, lent, strategy>>
  BY Zenon DEF StrategyDepositSetup, StrategyWithdrawSetup, MaySetup, Introspected, At, lpVault
<1>5. NoneAsked /\ vault_allowance = 0 /\ IdleOf(vault) = vault
  BY <1>4, Alone
<1>6. IF setup = "strategy_deposit_setup"
      THEN strategy_request' = [strategy_request EXCEPT ![s] =
             Request(amount_in, minTarget, vault, collateral_vault[s])]
      ELSE /\ strategy_request' = [strategy_request EXCEPT ![s] =
                Request(amount_in, minTarget, collateral_vault[s], vault)]
           /\ vault_allowance' = 0
  BY <1>1, <1>3, <1>5 DEF StrategyDepositSetup, StrategyWithdrawSetup, SetupOps, At
<1>7. /\ strategy_request'[s].pending
      /\ \A r \in StrategyIds \ {s} : ~strategy_request'[r].pending
      /\ IF setup = "strategy_deposit_setup" THEN strategy_request'[s].src_bal_before = vault
                                             ELSE strategy_request'[s].dst_bal_before = vault
  BY <1>2, <1>5, <1>6 DEF Shape, NoneAsked, Request
<1>8. /\ tx.pc \in 1..(tx'.pc - 1) /\ tx'.ixs[tx.pc].op = setup
      /\ \A i \in 1..(tx'.pc - 1) : i # tx.pc => tx'.ixs[i].op \notin SetupOps
  <2>1. 1..(tx'.pc - 1) = 1..(tx.pc - 1) \cup {tx.pc} /\ tx'.ixs = tx.ixs
    BY <1>4, AdvanceFields
  <2>2. \A i \in 1..(tx.pc - 1) : tx.ixs[i].op \notin SetupOps
    <3>1. tx.pc \in Nat /\ Len(tx.ixs) \in Nat
      BY DEF TypeOK, Transactions
    <3> QED
      BY <1>4, <3>1 DEF NothingBefore, SetupsOnTop, SetupOps
  <2> QED
    BY <1>3, <1>4, <2>1, <2>2 DEF Ix
<1>9. Half(setup)'
  <2>1. tx'.running /\ ~NoneAsked'
    BY <1>4, <1>7, AdvanceFields DEF NoneAsked
  <2>2. Introspected(CleanupOf(setup))
    BY <1>3, Zenon DEF StrategyDepositSetup, StrategyWithdrawSetup, MaySetup, CleanupOf, At,
      SetupOps
  <2>3. Ahead(CleanupOf(setup))'
    BY <1>4, <2>2, AdvanceFields DEF Introspected, Ahead
  <2> QED
    BY <1>8, <2>1, <2>3 DEF Half
<1>10. Asked'
  BY <1>6, <1>9 DEF Asked, SetupOps
<1>11. IdleOf(vault)' = vault
  <2> DEFINE pending == {r \in StrategyIds : strategy_request'[r].pending}
  <2>1. pending = {s}
    BY <1>7
  <2>2. (CHOOSE r \in pending : TRUE) = s /\ pending # {}
    BY <2>1
  <2>3. (\E i \in 1..(tx'.pc - 1) : tx'.ixs[i].op = "strategy_deposit_setup")
          <=> setup = "strategy_deposit_setup"
    BY <1>8 DEF SetupOps
  <2>4. IdleOf(vault)' = IF setup = "strategy_deposit_setup"
                         THEN strategy_request'[s].src_bal_before
                         ELSE strategy_request'[s].dst_bal_before
    BY <2>2, <2>3 DEF IdleOf
  <2> QED
    BY <1>7, <2>4
<1> QED
  BY <1>4, <1>5, <1>10, <1>11, Unseen

\* A cleanup finds its kind of setup behind it, or takes the other's request, and
\* then the cleanup of the other kind will find none.
LEMMA OwnCleanup ==
  ASSUME TypeOK, PairInv, LedgerInv, NEW setup \in SetupOps, At(CleanupOf(setup)), Advance,
         NEW s \in StrategyIds, strategy_request[s].pending,
         strategy_request' = [strategy_request EXCEPT ![s] = NoRequest],
         vault' = vault, setup = "strategy_deposit_setup" => vault_allowance' = 0,
         setup = "strategy_withdraw_setup" => vault_allowance' = vault_allowance
  PROVE  \/ /\ IdleOf(vault) = IF setup = "strategy_deposit_setup"
                               THEN strategy_request[s].src_bal_before
                               ELSE strategy_request[s].dst_bal_before
            /\ Asked' /\ IdleOf(vault)' = vault
         \/ Doomed'
<1>1. ~NoneAsked
  BY DEF NoneAsked
<1>2. \A r \in StrategyIds : ~strategy_request'[r].pending
  BY ShapeOfType, OneRequest DEF Shape, NoRequest
<1>3. ASSUME NEW other \in SetupOps, other # setup, Half(other) PROVE Doomed'
  <2>1. CleanupOf(other) # CleanupOf(setup) /\ CleanupOf(other) \in CleanupOps
    BY <1>3 DEF SetupOps, CleanupOf, CleanupOps
  <2>2. Ahead(CleanupOf(other))'
    BY <1>3, <2>1, AheadKept DEF Half
  <2>3. SetupBehind'
    BY OneRequest, BehindKept DEF SetupBehind
  <2>4. /\ tx'.running /\ ~NothingBefore'
        /\ \E i \in tx'.pc..Len(tx'.ixs) : tx'.ixs[i].op = CleanupOf(other)
    BY <2>2, <2>3 DEF SetupBehind, Ahead
  <2> QED
    BY <1>2, <2>1, <2>4 DEF Doomed, NoneAsked, CleanupOps
<1>4. CASE Half(setup) /\ (setup = "strategy_withdraw_setup" => vault_allowance = 0)
  <2>1. IdleOf(vault)' = vault
    BY <1>2 DEF IdleOf
  <2>2. Asked'
    BY <1>2, <1>4 DEF Asked, NoneAsked, SetupOps
  <2> QED
    BY <1>4, <2>1, <2>2, IdleHalf DEF SetupOps
<1> QED
  BY <1>1, <1>3, <1>4 DEF LedgerInv, Asked, SetupOps

LEMMA DepositCleanupMaps ==
  ASSUME TypeOK, PairInv, LedgerInv, StrategyDepositCleanup, ~Doomed' PROVE Maps
<1>1. PICK s \in StrategyIds : s = Ix.strategy
  BY IxType DEF StrategyDepositCleanup
<1>2. Shape /\ TypeOK' /\ strategy_request[s] \in Requests
  BY ShapeOfType, DepositCleanupType DEF Shape
<1>3. /\ At("strategy_deposit_cleanup") /\ Advance /\ tx.running
      /\ vault_allowance' = 0 /\ strategy[s].open
      /\ strategy_request' = [strategy_request EXCEPT ![s] = NoRequest]
      /\ UNCHANGED <<vault, total_assets, lent>>
  BY <1>1, Zenon DEF StrategyDepositCleanup, At
<1>4. PICK spent : spent = strategy_request[s].src_bal_before - vault
  OBVIOUS
<1>5. /\ strategy_request[s].pending /\ OnlyOf(s) /\ spent \in Nat
      /\ strategy'[s].total_borrowed_amount = strategy[s].total_borrowed_amount + spent
  BY <1>1, <1>4, DepositCleanupFields
<1>6. IdleOf(vault) = strategy_request[s].src_bal_before /\ Asked' /\ IdleOf(vault)' = vault
  <2>1. CleanupOf("strategy_deposit_setup") = "strategy_deposit_cleanup"
    BY DEF CleanupOf
  <2> QED
    BY <1>3, <1>5, <2>1, OwnCleanup DEF SetupOps
<1>7. /\ IdleOf(vault) \in 0..MaxBalance /\ total_assets \in 0..MaxBalance /\ MaxBalance \in Nat
      /\ strategy[s].total_borrowed_amount \in Nat
  BY <1>2, Bounds, StrategiesAssumption DEF Shape, StrategyRecords
<1>8. /\ spent \in 0..MaxBalance /\ spent <= IdleOf(vault)
      /\ IdleOf(vault)' = IdleOf(vault) - spent
  BY <1>2, <1>4, <1>5, <1>6, <1>7 DEF Shape
<1>9. Balanced'
  <2>1. /\ total_assets' <= MaxBalance /\ IdleOf(vault)' \in Nat
        /\ total_assets' - total_assets = IdleOf(vault)' - IdleOf(vault)
             + strategy'[s].total_borrowed_amount - strategy[s].total_borrowed_amount
    BY <1>3, <1>5, <1>7, <1>8
  <2> QED
    BY <1>2, <1>3, <1>5, <2>1, BalancedMove
<1>10. LedgerInv' /\ saved' = saved /\ tx.running = tx'.running
  BY <1>3, <1>6, <1>9, InvKept
<1>11. Open!Lend(s, spent)
  BY <1>3, <1>5, <1>8, OwedOfStrategy DEF Open!Lend
<1> QED
  BY <1>3, <1>8, <1>10, <1>11 DEF Maps, Open!Next, Open!Instruction, SavedLedger

\* What the cleanup of a withdrawal books.
LEMMA WithdrawBooks ==
  ASSUME TypeOK, StrategyWithdrawCleanup, NEW s \in StrategyIds, s = Ix.strategy
  PROVE  \E quote, received \in Nat :
           /\ received = vault - strategy_request[s].dst_bal_before /\ received <= quote
           /\ total_assets' = total_assets + quote - strategy[s].total_borrowed_amount
           /\ total_assets' \in 0..MaxBalance
           /\ strategy'[s].total_borrowed_amount = quote - received
<1> DEFINE request  == strategy_request[s]
           spent    == request.src_bal_before - collateral_vault[s]
           received == vault - request.dst_bal_before
           debt     == strategy[s].total_borrowed_amount
           quote    == NewQuote(debt, request.src_bal_before, spent, received)
<1>1. Shape
  BY ShapeOfType
<1>2. /\ WithinRequest(request, spent, received)
      /\ MayClaim(Ix, quote)
      /\ received <= quote
      /\ total_assets' = AssetsAfterClaim(s, quote)
  BY Zenon DEF StrategyWithdrawCleanup
<1>3. total_assets' = total_assets + quote - debt /\ total_assets' \in 0..MaxBalance
  BY <1>2 DEF MayClaim, AssetsAfterClaim
<1>4. strategy' = [strategy EXCEPT
        ![s].collateral_amount = strategy[s].collateral_amount - spent,
        ![s].total_borrowed_amount = quote - received,
        ![s].last_updated = now]
  BY DEF StrategyWithdrawCleanup
<1>5. /\ request \in Requests /\ collateral_vault[s] \in Nat /\ vault \in Nat /\ debt \in Nat
  BY <1>1 DEF Shape, StrategyRecords
<1>6. /\ received \in Nat /\ spent \in 0..request.src_bal_before
      /\ request.src_bal_before \in Nat
  BY <1>2, <1>5 DEF WithinRequest, Requests
<1>7. quote \in Nat
  BY <1>5, <1>6, NewQuoteType
<1> HIDE DEF quote, spent
<1>8. strategy'[s].total_borrowed_amount = quote - received
  BY <1>1, <1>4 DEF Shape, StrategyRecords
<1> QED
  BY <1>2, <1>3, <1>6, <1>7, <1>8

LEMMA WithdrawCleanupMaps ==
  ASSUME TypeOK, PairInv, LedgerInv, StrategyWithdrawCleanup, ~Doomed' PROVE Maps
<1>1. PICK s \in StrategyIds : s = Ix.strategy
  BY IxType DEF StrategyWithdrawCleanup
<1>2. Shape /\ TypeOK' /\ strategy_request[s] \in Requests
  BY ShapeOfType, WithdrawCleanupType DEF Shape
<1>3. /\ At("strategy_withdraw_cleanup") /\ Advance /\ tx.running
      /\ strategy_request' = [strategy_request EXCEPT ![s] = NoRequest]
      /\ UNCHANGED <<vault, vault_allowance, lent>>
  BY <1>1, Zenon DEF StrategyWithdrawCleanup, At
<1>4. strategy_request[s].pending /\ OnlyOf(s)
  BY <1>1, WithdrawCleanupFields
<1>5. PICK quote \in Nat, received \in Nat :
        /\ received = vault - strategy_request[s].dst_bal_before /\ received <= quote
        /\ total_assets' = total_assets + quote - strategy[s].total_borrowed_amount
        /\ total_assets' \in 0..MaxBalance
        /\ strategy'[s].total_borrowed_amount = quote - received
  BY <1>1, WithdrawBooks
<1>6. IdleOf(vault) = strategy_request[s].dst_bal_before /\ Asked' /\ IdleOf(vault)' = vault
  <2>1. CleanupOf("strategy_withdraw_setup") = "strategy_withdraw_cleanup"
    BY DEF CleanupOf
  <2> QED
    BY <1>3, <1>4, <2>1, OwnCleanup DEF SetupOps
<1>7. /\ strategy[s].total_borrowed_amount \in 0..total_assets /\ MaxBalance \in Nat
      /\ total_assets \in Nat
  BY Bounds, StrategiesAssumption
<1>8. IdleOf(vault)' = IdleOf(vault) + received /\ IdleOf(vault)' \in Nat
  BY <1>2, <1>5, <1>6 DEF Shape, Requests
<1>9. Balanced'
  <2>1. /\ total_assets' <= MaxBalance
        /\ total_assets' - total_assets = IdleOf(vault)' - IdleOf(vault)
             + strategy'[s].total_borrowed_amount - strategy[s].total_borrowed_amount
    BY <1>2, <1>5, <1>6, <1>7, <1>8 DEF Requests
  <2> QED
    BY <1>2, <1>3, <1>4, <1>8, <2>1, BalancedMove
<1>10. LedgerInv' /\ saved' = saved /\ tx.running = tx'.running
  BY <1>3, <1>6, <1>9, InvKept
<1>11. /\ Owed(strategy, lent)[s] = strategy[s].total_borrowed_amount
       /\ Owed(strategy, lent)' = [Owed(strategy, lent) EXCEPT ![s] = quote - received]
  BY <1>3, <1>4, <1>5, OwedOfStrategy
<1>12. Open!Instruction
  BY <1>3, <1>5, <1>7, <1>8, <1>10, <1>11, Revalued
<1> QED
  BY <1>10, <1>12 DEF Maps, Open!Next

\* What holds at every step: once a transaction is doomed, only what its failure
\* returns to counts.
MapInv == SavedBalanced /\ (Doomed \/ LedgerInv)

\* A step that leaves an open transaction open.
LEMMA OpenMaps ==
  ASSUME TypeOK, PairInv, ClosedInv, SetupsOnTop, LedgerInv, Undisturbed, Next, ~Doomed'
  PROVE  Maps
<1>1. ASSUME Quiet, UNCHANGED <<accounts, saved>>
      PROVE  /\ LedgerInv' /\ IdleOf(vault)' = IdleOf(vault)
             /\ UNCHANGED <<total_assets, strategy, lent>>
  <2>1. UNCHANGED <<vault, vault_allowance, total_assets, strategy, lent, strategy_request>>
    BY <1>1 DEF accounts, tokens, lpVault
  <2>2. NoneAsked /\ NoneAsked' /\ vault_allowance' = 0
    BY <1>1, <2>1 DEF Quiet, NoneAsked
  <2>3. IdleOf(vault)' = IdleOf(vault)
    BY <2>1, <2>2 DEF IdleOf, NoneAsked
  <2>4. Balanced'
    BY <2>1, <2>3 DEF LedgerInv, Balanced, Debts
  <2> QED
    BY <1>1, <2>1, <2>2, <2>3, <2>4 DEF LedgerInv, SavedBalanced, Asked, DebtOf
<1>2. ASSUME NEW plan \in Plans, NEW signers \in Signings, Begin(plan, signers) PROVE Maps
  <2>1. /\ Quiet /\ UNCHANGED <<accounts, saved>>
        /\ ~tx.running /\ tx'.running = TRUE
    BY <1>2, QuietAtEnd DEF Begin
  <2>2. Open!Begin
    BY <1>1, <2>1 DEF Open!Begin, Open!balances, SavedLedger
  <2> QED
    BY <1>1, <2>1, <2>2 DEF Maps, Open!Next
<1>3. CASE Commit
  <2>1. /\ Quiet /\ UNCHANGED accounts /\ saved' = Working /\ tx.running /\ tx'.running = FALSE
    BY <1>3, QuietAtEnd DEF Commit, Idle
  <2>2. NoneAsked /\ IdleOf(vault) = vault
    BY <2>1, IdleUnasked DEF Quiet, NoneAsked
  <2>3. /\ UNCHANGED <<vault, vault_allowance, total_assets, strategy, lent, strategy_request>>
        /\ saved'.vault = vault /\ saved'.total_assets = total_assets
        /\ saved'.strategy = strategy /\ saved'.lent = lent
    BY <2>1 DEF accounts, tokens, lpVault, Working
  <2>4. NoneAsked' /\ IdleOf(vault)' = vault /\ vault_allowance' = 0
    BY <2>1, <2>2, <2>3 DEF NoneAsked, IdleOf, Quiet
  <2>5. Balanced'
    BY <2>2, <2>3, <2>4 DEF LedgerInv, Balanced, Debts
  <2>6. LedgerInv'
    BY <2>1, <2>2, <2>3, <2>4, <2>5
    DEF LedgerInv, SavedBalanced, Asked, Balanced, Debts, DebtOf
  <2>7. Open!Commit
    BY <2>1, <2>2, <2>3, <2>4 DEF Open!Commit, Open!Working, Open!balances, SavedLedger
  <2> QED
    BY <2>6, <2>7 DEF Maps, Open!Next
<1>4. CASE Abort
  <2>1. /\ tx.running /\ tx'.running = FALSE /\ saved' = saved
        /\ vault' = saved.vault /\ vault_allowance' = saved.vault_allowance
        /\ total_assets' = saved.total_assets /\ strategy' = saved.strategy
        /\ lent' = saved.lent /\ strategy_request' = saved.strategy_request
    BY <1>4 DEF Abort, Idle
  <2>2. NoneAsked' /\ vault_allowance' = 0
    BY <2>1 DEF PairInv, SavedWell, NoneAsked
  <2>3. IdleOf(vault)' = saved.vault
    BY <2>1, <2>2 DEF IdleOf, NoneAsked
  <2>4. Balanced'
    BY <2>1, <2>3 DEF LedgerInv, SavedBalanced, Balanced, Debts, DebtOf
  <2>5. LedgerInv'
    BY <2>1, <2>2, <2>4 DEF LedgerInv, SavedBalanced, Asked, DebtOf
  <2>6. Open!Abort
    BY <2>1, <2>3 DEF Open!Abort, SavedLedger
  <2> QED
    BY <2>5, <2>6 DEF Maps, Open!Next
<1>5. ASSUME UNCHANGED <<accounts, saved, tx>> PROVE Maps
  <2>1. UNCHANGED <<vault, vault_allowance, total_assets, strategy, lent, strategy_request,
                    saved, tx>>
    BY <1>5 DEF accounts, tokens, lpVault
  <2>2. IdleOf(vault)' = IdleOf(vault)
    BY <2>1 DEF IdleOf
  <2>3. Asked'
    BY <2>1 DEF LedgerInv, Asked, NoneAsked, Half, Ahead
  <2>4. Balanced'
    BY <2>1, <2>2 DEF LedgerInv, Balanced, Debts
  <2> QED
    BY <2>1, <2>2, <2>3, <2>4 DEF Maps, LedgerInv, SavedBalanced, DebtOf, Open!vars, SavedLedger
<1>6. ASSUME StrategyStep PROVE Maps
  BY <1>6, ComeAndGoMaps, SetupMaps, DepositCleanupMaps, WithdrawCleanupMaps, ClaimMaps
  DEF StrategyStep
<1>7. CASE RestStep
  BY <1>7, RestMaps
<1> QED
  BY <1>2, <1>3, <1>4, <1>5, <1>6, <1>7 DEF Next, Tick, UpdateVaultMaxBorrow

\* No cleanup and no setup of a doomed transaction succeeds, and it never ends well.
LEMMA DoomedStays ==
  ASSUME TypeOK, Doomed, Next, ~Abort
  PROVE  Doomed' /\ saved' = saved
<1>1. SetupBehind /\ NoneAsked
  BY DoomedAhead
<1>2. PICK op \in CleanupOps : Ahead(op)
  BY DoomedAhead
<1>3. tx.running /\ ~(tx.pc > Len(tx.ixs))
  <2>1. tx.pc \in Nat /\ Len(tx.ixs) \in Nat
    BY DEF TypeOK, Transactions
  <2> QED
    BY <1>1, <1>2, <2>1 DEF Ahead, SetupBehind
<1>4. Aside
  <2>1. CASE InitStrategy \/ CloseStrategy \/ (\E quote \in Quotes : StrategyClaimYield(quote))
    BY <2>1 DEF InitStrategy, CloseStrategy, StrategyClaimYield, Aside, At, CleanupOps, tokens
  <2>2. ~StrategyDepositCleanup
    BY <1>1, IxType, DepositCleanupFields DEF NoneAsked, StrategyDepositCleanup
  <2>3. ~StrategyWithdrawCleanup
    BY <1>1, IxType, WithdrawCleanupFields DEF NoneAsked, StrategyWithdrawCleanup
  <2>4. \A amount_in \in AmountsIn, minTarget \in MinTargets :
          /\ ~StrategyDepositSetup(amount_in, minTarget)
          /\ ~StrategyWithdrawSetup(amount_in, minTarget)
    BY <1>1 DEF SetupBehind, StrategyDepositSetup, StrategyWithdrawSetup, MaySetup, Introspected
  <2>5. CASE RestStep
    BY <2>5 DEF RestStep, Other, Deposit, Withdraw, OpenPosition, ClosePosition,
      ClaimPosition, Aside, At, CleanupOps
  <2>6. StrategyStep \/ RestStep
    BY <1>3 DEF Next, Begin, Commit, Tick, UpdateVaultMaxBorrow
  <2> QED
    BY <2>1, <2>2, <2>3, <2>4, <2>5, <2>6 DEF StrategyStep
<1>5. Ahead(op)'
  BY <1>2, <1>4, AheadKept DEF Aside
<1>6. SetupBehind' /\ saved' = saved
  BY <1>1, <1>4, BehindKept, AdvanceFields DEF Aside, SetupBehind
<1>7. NoneAsked'
  BY <1>1, <1>4 DEF Aside, NoneAsked
<1>8. /\ tx'.running /\ ~NothingBefore'
      /\ \E i \in tx'.pc..Len(tx'.ixs) : tx'.ixs[i].op = op
  BY <1>5, <1>6 DEF SetupBehind, Ahead
<1> QED
  BY <1>6, <1>7, <1>8 DEF Doomed, CleanupOps

\* Only an instruction can doom a transaction.
LEMMA DoomedByInstruction ==
  ASSUME TypeOK, Next, ~Doomed, Doomed' PROVE tx.running /\ saved' = saved
<1>1. CASE StrategyStep
  BY <1>1 DEF StrategyStep, InitStrategy, CloseStrategy, StrategyDepositSetup,
    StrategyWithdrawSetup, StrategyDepositCleanup, StrategyWithdrawCleanup,
    StrategyClaimYield, Advance, At
<1>2. CASE RestStep
  BY <1>2 DEF RestStep, Other, Deposit, Withdraw, OpenPosition, ClosePosition,
    ClaimPosition, Advance, At
<1>3. ASSUME NEW plan \in Plans, NEW signers \in Signings, Begin(plan, signers) PROVE FALSE
  <2>1. tx'.pc = 1
    BY <1>3 DEF Begin
  <2>2. NothingBefore'
    BY <2>1 DEF NothingBefore
  <2> QED
    BY <2>2 DEF Doomed
<1>4. CASE Commit \/ Abort
  BY <1>4 DEF Commit, Abort, Idle, Doomed
<1>5. CASE Tick \/ \E amount \in MaxBorrows : UpdateVaultMaxBorrow(amount)
  BY <1>5 DEF Tick, UpdateVaultMaxBorrow, accounts, Doomed, NothingBefore, NoneAsked
<1> QED
  BY <1>1, <1>2, <1>3, <1>4, <1>5 DEF Next

\* While a transaction is open, what the ledger sees is the working books.
LEMMA SeenOpen ==
  ASSUME ~Doomed
  PROVE  /\ SeenLedger.idle = IdleOf(vault) /\ SeenLedger.totalAssets = total_assets
         /\ SeenLedger.owed = Owed(strategy, lent)
         /\ (tx.running /\ ~Doomed) <=> tx.running
  BY DEF SeenLedger

LEMMA StepMaps ==
  ASSUME TypeOK, PairInv, ClosedInv, SetupsOnTop, MapInv, [Next /\ Undisturbed]_vars
  PROVE  MapInv' /\ [Ledger!Next]_(Ledger!vars)
<1>1. ASSUME UNCHANGED vars PROVE MapInv' /\ [Ledger!Next]_(Ledger!vars)
  <2>1. UNCHANGED <<vault, vault_allowance, total_assets, strategy, lent, strategy_request,
                    saved, tx>>
    BY <1>1 DEF vars, accounts, tokens, lpVault
  <2>2. Doomed' = Doomed /\ IdleOf(vault)' = IdleOf(vault)
    BY <2>1 DEF Doomed, NothingBefore, NoneAsked, IdleOf
  <2>3. UNCHANGED Ledger!vars
    BY <2>1, <2>2 DEF Ledger!vars, SeenLedger, SavedLedger
  <2>4. SavedBalanced' = SavedBalanced /\ Balanced' = Balanced /\ Asked' = Asked
    BY <2>1, <2>2
    DEF SavedBalanced, Balanced, Asked, NoneAsked, Half, Ahead, Debts, DebtOf
  <2> QED
    BY <2>2, <2>3, <2>4 DEF MapInv, LedgerInv
<1>2. ASSUME Next, Undisturbed, ~Doomed, ~Doomed' PROVE MapInv' /\ [Ledger!Next]_(Ledger!vars)
  <2>1. LedgerInv' /\ [Open!Next]_(Open!vars)
    BY <1>2, OpenMaps DEF MapInv, Maps
  <2>2. /\ SeenLedger.idle = IdleOf(vault) /\ SeenLedger.totalAssets = total_assets
        /\ SeenLedger.owed = Owed(strategy, lent)
        /\ (tx.running /\ ~Doomed) <=> tx.running
    BY <1>2, SeenOpen
  <2>3. /\ SeenLedger.idle' = IdleOf(vault)' /\ SeenLedger.totalAssets' = total_assets'
        /\ SeenLedger.owed' = Owed(strategy, lent)'
        /\ (tx.running /\ ~Doomed)' <=> tx'.running
    BY <1>2 DEF SeenLedger
  <2>4. tx.running \in BOOLEAN /\ tx'.running \in BOOLEAN
    BY <1>2, StepType DEF TypeOK, Transactions
  <2>5. [Ledger!Next]_(Ledger!vars)
    <3>1. CASE UNCHANGED Open!vars
      BY <2>2, <2>3, <2>4, <3>1 DEF Open!vars, Ledger!vars
    <3>2. CASE Open!Begin
      BY <2>2, <2>3, <2>4, <3>2
      DEF Open!Begin, Open!balances, Ledger!Begin, Ledger!balances, Ledger!Next
    <3>3. CASE Open!Commit
      BY <2>2, <2>3, <2>4, <3>3
      DEF Open!Commit, Open!balances, Open!Working, Ledger!Commit, Ledger!balances,
        Ledger!Working, Ledger!Next
    <3>4. CASE Open!Abort
      BY <2>2, <2>3, <2>4, <3>4 DEF Open!Abort, Ledger!Abort, Ledger!Next
    <3>5. CASE Open!Instruction
      <4>1. Ledger!Instruction
        BY <2>2, <2>3, <2>4, <3>5
        DEF Open!Instruction, Open!Fund, Open!Draw, Open!Lend, Open!GiveBack, Open!Settle,
          Open!WriteOff, Open!Revalue, Ledger!Instruction, Ledger!Fund, Ledger!Draw,
          Ledger!Lend, Ledger!GiveBack, Ledger!Settle, Ledger!WriteOff, Ledger!Revalue
      <4> QED
        BY <4>1 DEF Ledger!Next
    <3> QED
      BY <2>1, <3>1, <3>2, <3>3, <3>4, <3>5 DEF Open!Next
  <2> QED
    BY <2>1, <2>5 DEF MapInv, LedgerInv
<1>3. ASSUME Next, ~Doomed, Doomed' PROVE MapInv' /\ [Ledger!Next]_(Ledger!vars)
  <2>1. tx.running /\ saved' = saved
    BY <1>3, DoomedByInstruction
  <2>2. SeenLedger' = SavedLedger' /\ SavedLedger' = SavedLedger /\ ~(tx.running /\ ~Doomed)'
    BY <1>3, <2>1 DEF SeenLedger, SavedLedger
  <2>3. Ledger!Abort
    BY <1>3, <2>1, <2>2 DEF Ledger!Abort, SavedLedger
  <2>4. MapInv'
    BY <1>3, <2>1 DEF MapInv, SavedBalanced, DebtOf
  <2> QED
    BY <2>3, <2>4 DEF Ledger!Next
<1>4. ASSUME Doomed, Doomed', saved' = saved PROVE MapInv' /\ [Ledger!Next]_(Ledger!vars)
  <2>1. /\ SeenLedger = SavedLedger /\ SeenLedger' = SavedLedger' /\ SavedLedger' = SavedLedger
        /\ (tx.running /\ ~Doomed)' = (tx.running /\ ~Doomed)
    BY <1>4 DEF SeenLedger, SavedLedger
  <2>2. UNCHANGED Ledger!vars
    BY <2>1 DEF Ledger!vars
  <2>3. MapInv'
    BY <1>4 DEF MapInv, SavedBalanced, DebtOf
  <2> QED
    BY <2>2, <2>3
<1>5. ASSUME Doomed, Abort PROVE MapInv' /\ [Ledger!Next]_(Ledger!vars)
  <2>1. /\ tx.running /\ tx'.running = FALSE /\ saved' = saved
        /\ vault' = saved.vault /\ vault_allowance' = saved.vault_allowance
        /\ total_assets' = saved.total_assets /\ strategy' = saved.strategy
        /\ lent' = saved.lent /\ strategy_request' = saved.strategy_request
    BY <1>5 DEF Abort, Idle
  <2>2. NoneAsked' /\ vault_allowance' = 0
    BY <2>1 DEF PairInv, SavedWell, NoneAsked
  <2>3. IdleOf(vault)' = saved.vault
    BY <2>1, <2>2 DEF IdleOf, NoneAsked
  <2>4. SavedBalanced'
    BY <2>1 DEF MapInv, SavedBalanced, DebtOf
  <2>5. Balanced'
    BY <2>1, <2>3 DEF MapInv, SavedBalanced, Balanced, Debts, DebtOf
  <2>6. MapInv'
    BY <2>2, <2>4, <2>5 DEF MapInv, LedgerInv, Asked
  <2>7. ~Doomed'
    BY <2>1 DEF Doomed
  <2>8. SeenLedger' = SavedLedger' /\ SavedLedger' = SavedLedger
    BY <2>1, <2>3, <2>7 DEF SeenLedger, SavedLedger
  <2>9. SeenLedger = SavedLedger /\ (tx.running /\ ~Doomed)' = (tx.running /\ ~Doomed)
    BY <1>5, <2>1 DEF SeenLedger
  <2>10. UNCHANGED Ledger!vars
    BY <2>8, <2>9 DEF Ledger!vars
  <2> QED
    BY <2>6, <2>10
<1> QED
  BY <1>1, <1>2, <1>3, <1>4, <1>5, DoomedStays

LEMMA InitMaps == ASSUME Init PROVE MapInv /\ Ledger!Init
<1>1. /\ NoneAsked /\ vault \in 0..MaxBalance /\ total_assets = vault /\ lent = 0
      /\ vault_allowance = 0 /\ tx.running = FALSE
      /\ \A s \in StrategyIds : strategy[s].total_borrowed_amount = 0
      /\ saved.vault = vault /\ saved.total_assets = total_assets /\ saved.lent = lent
      /\ saved.strategy = strategy
  BY StrategiesAssumption DEF Init, NoneAsked, NoRequest, NoStrategy, Working, Idle
<1>2. IdleOf(vault) = vault
  BY <1>1, IdleUnasked
<1>3. Debts \in [StrategyIds -> Nat] /\ \A s \in StrategyIds : Debts[s] = 0
  BY <1>1 DEF Debts
<1>4. Total(Debts) = 0
  BY <1>3, TotalZero, Zenon
<1>5. DebtOf(saved.strategy) = Debts
  BY <1>1 DEF DebtOf, Debts
<1>6. MaxBalance \in Nat
  BY StrategiesAssumption
<1>7. MapInv
  BY <1>1, <1>2, <1>4, <1>5, <1>6 DEF MapInv, LedgerInv, SavedBalanced, Asked, Balanced
<1>8. Owed(strategy, lent) = [b \in StrategyIds \cup {Positions} |-> 0]
  BY <1>1 DEF Owed
<1>9. ~Doomed
  BY <1>1 DEF Doomed
<1>10. /\ SeenLedger.idle = vault /\ SeenLedger.totalAssets = total_assets
       /\ SeenLedger.owed = Owed(strategy, lent)
  BY <1>2, <1>9, SeenOpen
<1>11. SavedLedger = [idle |-> vault, totalAssets |-> total_assets, owed |-> Owed(strategy, lent)]
  BY <1>1 DEF SavedLedger
<1>12. Ledger!Init
  BY <1>1, <1>8, <1>10, <1>11 DEF Ledger!Init, Ledger!NoDebt, Ledger!Working
<1> QED
  BY <1>7, <1>12

LEMMA UndisturbedIsSpec == UndisturbedSpec => Spec
<1>1. [Next /\ Undisturbed]_vars => [Next]_vars
  OBVIOUS
<1> QED
  BY <1>1, PTL DEF UndisturbedSpec, Spec

LEMMA AlwaysMapped ==
  UndisturbedSpec /\ []SetupsOnTop =>
    [](TypeOK /\ PairInv /\ MapInv) /\ LedgerImplemented
<1>1. Init => MapInv /\ Ledger!Init
  BY InitMaps
<1>2. TypeOK /\ PairInv /\ ClosedInv /\ SetupsOnTop /\ MapInv /\ [Next /\ Undisturbed]_vars =>
        MapInv' /\ [Ledger!Next]_(Ledger!vars)
  BY StepMaps
<1> QED
  BY <1>1, <1>2, UndisturbedIsSpec, PairCorrect, AlwaysClosed, PTL
  DEF UndisturbedSpec, LedgerImplemented, Ledger!Spec

\* Strategies implement the ledger of the LP vault in every behaviour in which
\* setups are instructions of the transaction itself, no provider or claimant books
\* while a strategy's request is pending, and no strategy is closed that still owes.
\* Nothing is asked of minimum amounts, and setups and cleanups may be paired in
\* every way: a transaction with a cleanup that can find no request any more has,
\* to the ledger, failed already.
THEOREM LedgerImplementedCorrect ==
  UndisturbedSpec /\ []SetupsOnTop => LedgerImplemented
  BY AlwaysMapped, PTL

\* In the same behaviours total_assets counts all assets of the vault.  A run shows
\* how a booking between setup and cleanup spoils it.
THEOREM TotalAssetsCountedCorrect ==
  UndisturbedSpec /\ []SetupsOnTop => []TotalAssetsCounted
<1>1. TypeOK /\ PairInv /\ MapInv => TotalAssetsCounted
  <2> SUFFICES ASSUME TypeOK, PairInv, MapInv, ~tx.running
               PROVE  total_assets = vault + lent + Total(Debts)
    BY DEF TotalAssetsCounted
  <2>1. IdleOf(vault) = vault
    BY QuietAtEnd, IdleUnasked DEF Quiet, NoneAsked
  <2>2. ~Doomed
    BY DEF Doomed
  <2> QED
    BY <2>1, <2>2 DEF MapInv, LedgerInv, Balanced
<1> QED
  BY <1>1, AlwaysMapped, PTL
=============================================================================
