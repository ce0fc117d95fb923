------------------------ MODULE TradingAssets_proofs ------------------------
(* What becomes of the vault's and the pools' tokens in Trading, for every set *)
(* of positions; two of the five theorems need that setups are on top.         *)
EXTENDS Trading_proofs, UnitSumLemmas
-----------------------------------------------------------------------------
(* Nobody owes without a position, and amounts stay within the ledger's bound *)

Bounded(a) ==
  /\ a.total_assets <= MaxBalance
  /\ \A p \in Positions : /\ a.position[p].principal <= MaxBalance
                          /\ ~a.position[p].open => a.position[p].principal = 0

DebtInv == Bounded(acc) /\ Bounded(saved)

LEMMA OwedUpdate ==
  ASSUME NEW a \in Accounts, NEW b, NEW p \in Positions, NEW r,
         b.position = [a.position EXCEPT ![p] = r]
  PROVE  Owed(b) = [Owed(a) EXCEPT ![p] = r.principal]
<1>1. DOMAIN a.position = Positions
  BY DEF Accounts
<1> QED
  BY <1>1 DEF Owed

LEMMA BoundedUpdate ==
  ASSUME NEW a \in Accounts, NEW b, NEW p \in Positions, NEW r,
         b.position = [a.position EXCEPT ![p] = r], Bounded(a),
         b.total_assets <= MaxBalance, r.principal <= MaxBalance,
         ~r.open => r.principal = 0
  PROVE  Bounded(b)
  BY DEF Bounded, Accounts

\* What an instruction does to the ledger.
Maps == Bounded(acc') /\ [Ledger!Instruction]_(Ledger!vars)

\* An instruction that touches neither the vault nor a debt stutters.
LEMMA FrameMaps ==
  ASSUME TypeInv, Advances, Bounded(acc), acc'.vault = acc.vault,
         acc'.total_assets = acc.total_assets, acc'.position = acc.position
  PROVE  Maps
<1>1. Bounded(acc')
  BY DEF Bounded
<1>2. Owed(acc)' = Owed(acc)
  BY DEF Owed
<1>3. saved' = saved /\ tx'.running = tx.running
  BY DEF Advances, Advance, TypeInv, TypeOK, Transactions
<1> QED
  BY <1>1, <1>2, <1>3 DEF Maps, Ledger!vars, Owed

LEMMA LiquidityMaps ==
  ASSUME TypeInv, DebtInv, Advances, NEW amount \in LpAmounts, Deposit(amount) \/ Withdraw(amount)
  PROVE  Maps
<1>1. /\ acc \in Accounts /\ amount \in Nat /\ acc.vault \in Nat /\ acc.total_assets \in Nat
      /\ acc.total_assets <= MaxBalance /\ MaxBalance \in Nat
  BY AccountFields, TradingAssumption DEF TypeInv, Good, DebtInv, Bounded
<1>2. tx.running /\ tx'.running = tx.running /\ saved' = saved
  BY DEF Advances, Advance, TypeInv, TypeOK, Transactions
<1>3. acc'.position = acc.position
  BY <1>1 DEF Deposit, Withdraw, Accounts
<1>4. Owed(acc)' = Owed(acc) /\ Owed(saved)' = Owed(saved)
  BY <1>2, <1>3 DEF Owed
<1>5. CASE Deposit(amount)
  <2>1. /\ acc'.vault = acc.vault + amount /\ acc'.total_assets = acc.total_assets + amount
        /\ acc.total_assets + amount <= MaxBalance
    BY <1>1, <1>5 DEF Deposit, Accounts
  <2>2. amount \in 0..MaxBalance
    BY <1>1, <2>1
  <2>3. Ledger!Fund(amount)
    BY <1>4, <2>1 DEF Ledger!Fund
  <2>4. Bounded(acc')
    BY <1>3, <2>1 DEF DebtInv, Bounded
  <2> QED
    BY <1>2, <1>4, <2>2, <2>3, <2>4 DEF Maps, Ledger!Instruction
<1>6. CASE Withdraw(amount)
  <2>1. /\ acc'.vault = acc.vault - amount /\ acc'.total_assets = acc.total_assets - amount
        /\ amount <= acc.vault /\ amount <= acc.total_assets
    BY <1>1, <1>6 DEF Withdraw, Accounts
  <2>2. amount \in 0..MaxBalance
    BY <1>1, <2>1
  <2>3. Ledger!Draw(amount)
    BY <1>4, <2>1 DEF Ledger!Draw
  <2>4. acc'.total_assets <= MaxBalance
    BY <1>1, <2>1
  <2>5. Bounded(acc')
    BY <1>3, <2>4 DEF DebtInv, Bounded
  <2> QED
    BY <1>2, <1>4, <2>2, <2>3, <2>5 DEF Maps, Ledger!Instruction
<1> QED
  BY <1>5, <1>6
-----------------------------------------------------------------------------
(* Opening *)

\* Both setups: the principal leaves the vault and is the new position's debt.
LEMMA LendMaps ==
  ASSUME TypeInv, DebtInv, Advances, Ix.pos \in Positions, ~acc.position[Ix.pos].open,
         NEW down_payment, NEW principal \in Nat, NEW fee,
         principal <= acc.vault, principal <= MaxBalance,
         acc'.vault = acc.vault - principal, acc'.total_assets = acc.total_assets,
         acc'.position = [acc.position EXCEPT
                            ![Ix.pos] = NewPosition(down_payment, principal, fee)]
  PROVE  Maps
<1> DEFINE r == NewPosition(down_payment, principal, fee)
<1>1. acc \in Accounts /\ acc.total_assets <= MaxBalance /\ MaxBalance \in Nat
  BY TradingAssumption DEF TypeInv, Good, DebtInv, Bounded
<1>2. tx.running /\ tx'.running = tx.running /\ saved' = saved
  BY DEF Advances, Advance, TypeInv, TypeOK, Transactions
<1>3. r.principal = principal /\ r.open
  BY DEF NewPosition
<1>4. Owed(acc') = [Owed(acc) EXCEPT ![Ix.pos] = principal]
  BY <1>1, <1>3, OwedUpdate
<1>5. Owed(acc)[Ix.pos] = 0
  BY DEF DebtInv, Bounded, Owed
<1>6. Owed(acc)' = [Owed(acc) EXCEPT ![Ix.pos] = @ + principal]
  <2> DEFINE grown == Owed(acc)[Ix.pos] + principal
  <2>1. grown = principal
    BY <1>5
  <2>2. Owed(acc)' = Owed(acc')
    BY DEF Owed
  <2> HIDE DEF grown
  <2>3. Owed(acc)' = [Owed(acc) EXCEPT ![Ix.pos] = grown]
    BY <1>4, <2>1, <2>2
  <2> QED
    BY <2>3 DEF grown
<1>7. Ledger!Lend(Ix.pos, principal)
  BY <1>6 DEF Ledger!Lend
<1>8. principal \in 0..MaxBalance
  BY <1>1
<1>9. Bounded(acc')
  BY <1>1, <1>3, BoundedUpdate DEF DebtInv
<1> QED
  BY <1>2, <1>7, <1>8, <1>9 DEF Maps, Ledger!Instruction, Owed

LEMMA OpenSetupMaps == ASSUME TypeInv, DebtInv, Advances, OpenSetup PROVE Maps
<1>1. acc \in Accounts /\ MaxBalance \in Nat
  BY TradingAssumption DEF TypeInv, Good
<1>2. ASSUME NEW minTarget \in MinTargets, NEW down_payment \in DownPayments,
             NEW principal \in Principals, NEW fee \in Fees,
             OpenLongPositionSetup(minTarget, down_payment, principal, fee)
      PROVE  Maps
  <2>1. Ix.pos \in Positions /\ Ix.pool \in Pools
    BY <1>2, IxType DEF TypeInv, OpenLongPositionSetup
  <2>2. principal \in Nat /\ down_payment \in Nat /\ acc.currency_vault[Ix.pool] \in Nat
    BY <1>1, <2>1, AccountFields, TradingAssumption
  <2>3. /\ principal <= acc.vault /\ ~acc.position[Ix.pos].open
        /\ acc.currency_vault[Ix.pool] + (principal + down_payment) <= MaxBalance
    BY <1>2 DEF OpenLongPositionSetup, MayOpen
  <2>4. principal <= MaxBalance
    BY <1>1, <2>2, <2>3
  <2>5. /\ acc'.vault = acc.vault - principal /\ acc'.total_assets = acc.total_assets
        /\ acc'.position = [acc.position EXCEPT
                              ![Ix.pos] = NewPosition(down_payment, principal, fee)]
    BY <1>1, <1>2 DEF OpenLongPositionSetup, Accounts
  <2> QED
    BY <2>1, <2>2, <2>3, <2>4, <2>5, LendMaps
<1>3. ASSUME NEW minTarget \in MinTargets, NEW down_payment \in DownPayments,
             NEW principal \in Principals, NEW fee \in Fees,
             OpenShortPositionSetup(minTarget, down_payment, principal, fee)
      PROVE  Maps
  <2>1. Ix.pos \in Positions /\ Ix.pool \in Pools
    BY <1>3, IxType DEF TypeInv, OpenShortPositionSetup
  <2>2. principal \in Nat /\ acc.currency_vault[Ix.pool] \in Nat
    BY <1>1, <2>1, AccountFields, TradingAssumption
  <2>3. /\ principal <= acc.vault /\ ~acc.position[Ix.pos].open
        /\ acc.currency_vault[Ix.pool] + principal <= MaxBalance
    BY <1>3 DEF OpenShortPositionSetup, MayOpen
  <2>4. principal <= MaxBalance
    BY <1>1, <2>2, <2>3
  <2>5. /\ acc'.vault = acc.vault - principal /\ acc'.total_assets = acc.total_assets
        /\ acc'.position = [acc.position EXCEPT
                              ![Ix.pos] = NewPosition(down_payment, principal, fee)]
    BY <1>1, <1>3 DEF OpenShortPositionSetup, Accounts
  <2> QED
    BY <2>1, <2>2, <2>3, <2>4, <2>5, LendMaps
<1> QED
  BY <1>2, <1>3 DEF OpenSetup

\* The collateral is recorded, the debt stays.
LEMMA OpenLongCleanupMaps ==
  ASSUME TypeInv, DebtInv, Advances, OpenLongPositionCleanup PROVE Maps
<1> DEFINE r == [acc.position[Ix.pos] EXCEPT !.collateral_amount = Bought(Ix)]
<1>1. acc \in Accounts /\ Ix.pos \in Positions /\ acc.position[Ix.pos] \in PositionRecords
  BY IxType, AccountFields DEF TypeInv, Good, OpenLongPositionCleanup
<1>2. tx'.running = tx.running /\ saved' = saved
  BY DEF Advances, Advance, TypeInv, TypeOK, Transactions
<1>3. /\ acc'.vault = acc.vault /\ acc'.total_assets = acc.total_assets
      /\ acc'.position = [acc.position EXCEPT ![Ix.pos] = r]
  BY <1>1 DEF OpenLongPositionCleanup, Accounts
<1>4. r.principal = acc.position[Ix.pos].principal /\ r.open = acc.position[Ix.pos].open
  BY <1>1 DEF PositionRecords
<1> HIDE DEF r
<1>5. Owed(acc') = [Owed(acc) EXCEPT ![Ix.pos] = acc.position[Ix.pos].principal]
  BY <1>1, <1>3, <1>4, OwedUpdate
<1>6. Owed(acc') = Owed(acc)
  BY <1>1, <1>5 DEF Owed
<1>7. Bounded(acc')
  BY <1>1, <1>3, <1>4, BoundedUpdate DEF DebtInv, Bounded
<1> QED
  BY <1>2, <1>3, <1>6, <1>7 DEF Maps, Ledger!vars, Owed

\* The part of the principal that was not swapped is given back.
LEMMA OpenShortCleanupMaps ==
  ASSUME TypeInv, DebtInv, Advances, OpenShortPositionCleanup PROVE Maps
<1> DEFINE old    == acc.position[Ix.pos]
           unused == old.principal - Used(Ix)
           r == [old EXCEPT !.principal = Used(Ix),
                            !.collateral_amount = Bought(Ix) + old.down_payment]
<1>1. /\ acc \in Accounts /\ MaxBalance \in Nat
      /\ Ix.pos \in Positions /\ Ix.pool \in Pools /\ Ix.owner \in Owners
  BY IxType, TradingAssumption DEF TypeInv, Good, OpenShortPositionCleanup
<1>2. /\ old \in PositionRecords /\ acc.open_request[Ix.owner] \in Requests
      /\ acc.currency_vault[Ix.pool] \in Nat
  BY <1>1, AccountFields
<1>3. tx.running /\ tx'.running = tx.running /\ saved' = saved
  BY DEF Advances, Advance, TypeInv, TypeOK, Transactions
<1>4. MatchesOpenRequest(Ix) /\ Used(Ix) <= old.principal
  BY Zenon DEF OpenShortPositionCleanup
<1>5. Used(Ix) \in Nat /\ old.open
  BY <1>2, <1>4 DEF MatchesOpenRequest, Used, Requests
<1>6. /\ acc'.vault = acc.vault + unused /\ acc'.total_assets = acc.total_assets
      /\ acc'.position = [acc.position EXCEPT ![Ix.pos] = r]
  BY <1>1, <1>2 DEF OpenShortPositionCleanup, Unused, Accounts
<1>7. r.principal = Used(Ix) /\ r.open
  BY <1>2, <1>5 DEF PositionRecords
<1>8. old.principal \in Nat /\ old.principal <= MaxBalance /\ acc.total_assets <= MaxBalance
  BY <1>1, <1>2 DEF DebtInv, Bounded, PositionRecords
<1>9. unused \in 0..MaxBalance /\ unused <= old.principal /\ old.principal - unused = Used(Ix)
  BY <1>1, <1>4, <1>5, <1>8
<1>10. Used(Ix) <= MaxBalance
  BY <1>1, <1>4, <1>5, <1>8
<1> HIDE DEF r, unused
<1>11. Owed(acc') = [Owed(acc) EXCEPT ![Ix.pos] = Used(Ix)]
  BY <1>1, <1>6, <1>7, OwedUpdate
<1>12. Owed(acc)[Ix.pos] = old.principal
  BY <1>1 DEF Owed
<1> HIDE DEF old
<1>13. Owed(acc') = [Owed(acc) EXCEPT ![Ix.pos] = @ - unused]
  BY <1>9, <1>11, <1>12
<1>14. Owed(acc)' = Owed(acc')
  BY DEF Owed
<1>15. Ledger!GiveBack(Ix.pos, unused)
  BY <1>6, <1>9, <1>12, <1>13, <1>14 DEF Ledger!GiveBack
<1>16. Bounded(acc')
  BY <1>1, <1>6, <1>7, <1>8, <1>10, BoundedUpdate DEF DebtInv
<1> QED
  BY <1>1, <1>3, <1>9, <1>15, <1>16 DEF Maps, Ledger!Instruction
-----------------------------------------------------------------------------
(* Closing and claiming *)

LEMMA ClosedOwesNothing ==
  ASSUME NEW a \in Accounts, NEW b, NEW p \in Positions,
         b.position = [a.position EXCEPT ![p] = NoPosition]
  PROVE  Owed(b) = [Owed(a) EXCEPT ![p] = 0]
<1>1. Owed(b) = [Owed(a) EXCEPT ![p] = NoPosition.principal]
  BY OwedUpdate
<1> QED
  BY <1>1 DEF NoPosition

\* The debt is settled with interest ...
LEMMA SettleMaps ==
  ASSUME TypeInv, DebtInv, Advances, Ix.pos \in Positions, NEW interest \in Nat,
         acc'.vault = acc.vault + acc.position[Ix.pos].principal + interest,
         acc'.total_assets = acc.total_assets + interest,
         acc.total_assets + interest <= MaxBalance,
         acc'.position = [acc.position EXCEPT ![Ix.pos] = NoPosition]
  PROVE  Maps
<1>1. acc \in Accounts /\ MaxBalance \in Nat /\ acc.total_assets \in Nat
  BY AccountFields, TradingAssumption DEF TypeInv, Good
<1>2. tx.running /\ tx'.running = tx.running /\ saved' = saved
  BY DEF Advances, Advance, TypeInv, TypeOK, Transactions
<1>3. NoPosition.principal = 0
  BY DEF NoPosition
<1>4. Owed(acc') = [Owed(acc) EXCEPT ![Ix.pos] = 0] /\ Owed(acc)' = Owed(acc')
  <2>1. Owed(acc') = [Owed(acc) EXCEPT ![Ix.pos] = 0]
    BY <1>1, ClosedOwesNothing
  <2>2. Owed(acc)' = Owed(acc')
    BY DEF Owed
  <2> QED
    BY <2>1, <2>2
<1>5. Owed(acc)[Ix.pos] = acc.position[Ix.pos].principal
  BY DEF Owed
<1>6. Ledger!Settle(Ix.pos, interest)
  BY <1>4, <1>5 DEF Ledger!Settle
<1>7. interest \in 0..MaxBalance
  BY <1>1
<1>8. Bounded(acc')
  BY <1>1, <1>3, BoundedUpdate DEF DebtInv
<1> QED
  BY <1>2, <1>6, <1>7, <1>8 DEF Maps, Ledger!Instruction

\* ... or closed for less, and the vault takes the loss.
LEMMA WriteOffMaps ==
  ASSUME TypeInv, DebtInv, Advances, Ix.pos \in Positions, NEW repaid \in Nat,
         repaid < acc.position[Ix.pos].principal,
         acc'.vault = acc.vault + repaid,
         acc'.total_assets = acc.total_assets - (acc.position[Ix.pos].principal - repaid),
         acc'.total_assets \in 0..MaxBalance,
         acc'.position = [acc.position EXCEPT ![Ix.pos] = NoPosition]
  PROVE  Maps
<1> DEFINE principal == acc.position[Ix.pos].principal
<1>1. acc \in Accounts
  BY DEF TypeInv, Good
<1>2. /\ acc \in Accounts /\ MaxBalance \in Nat /\ acc.total_assets \in Nat
      /\ principal \in Nat /\ principal <= MaxBalance
  BY <1>1, AccountFields, TradingAssumption DEF DebtInv, Bounded, PositionRecords
<1>3. tx.running /\ tx'.running = tx.running /\ saved' = saved
  BY DEF Advances, Advance, TypeInv, TypeOK, Transactions
<1>4. NoPosition.principal = 0
  BY DEF NoPosition
<1>5. Owed(acc') = [Owed(acc) EXCEPT ![Ix.pos] = 0] /\ Owed(acc)' = Owed(acc')
  <2>1. Owed(acc') = [Owed(acc) EXCEPT ![Ix.pos] = 0]
    BY <1>1, ClosedOwesNothing
  <2>2. Owed(acc)' = Owed(acc')
    BY DEF Owed
  <2> QED
    BY <1>4, <2>1, <2>2
<1>6. Owed(acc)[Ix.pos] = principal
  BY DEF Owed
<1>7. repaid \in 0..MaxBalance /\ principal - repaid <= acc.total_assets
      /\ acc'.total_assets <= MaxBalance
  BY <1>2
<1>8. Ledger!WriteOff(Ix.pos, repaid)
  BY <1>5, <1>6, <1>7 DEF Ledger!WriteOff
<1>9. Bounded(acc')
  BY <1>2, <1>4, <1>7, BoundedUpdate DEF DebtInv
<1> QED
  BY <1>3, <1>7, <1>8, <1>9 DEF Maps, Ledger!Instruction

\* The vault comes first: interest is paid from what the principal leaves.
LEMMA PrincipalFirst ==
  ASSUME NEW pos, PositionFields(pos), NEW isLong \in BOOLEAN,
         NEW spent, NEW received \in Nat, NEW interest \in Nat, NEW executionFee, NEW claim
  PROVE  LET amounts == CloseAmounts(pos, isLong, spent, received, interest, executionFee, claim)
         IN  /\ amounts.principal_repaid <= pos.principal
             /\ amounts.principal_repaid < pos.principal => amounts.interest_paid = 0
<1> DEFINE amounts == CloseAmounts(pos, isLong, spent, received, interest, executionFee, claim)
           share   == VaultShare(pos, isLong, received, interest)
<1>1. amounts.principal_repaid = share.principal_repaid
      /\ amounts.interest_paid = share.interest_paid
  BY DEF CloseAmounts
<1>2. pos.principal \in Nat
  BY DEF PositionFields
<1>3. /\ share.principal_repaid <= pos.principal
      /\ share.principal_repaid < pos.principal => share.interest_paid = 0
  BY <1>2 DEF VaultShare, Deduct, LesserOf
<1> QED
  BY <1>1, <1>3

LEMMA ClosingPaysPrincipalFirst ==
  ASSUME TypeInv, NEW op, At(op), MatchesCloseRequest(Ix), NEW fee
  PROVE  /\ AmountsOf(Ix, fee).principal_repaid <= acc.position[Ix.pos].principal
         /\ AmountsOf(Ix, fee).principal_repaid < acc.position[Ix.pos].principal
              => AmountsOf(Ix, fee).interest_paid = 0
<1> DEFINE position == acc.position[Ix.pos]
           request  == acc.close_request[Ix.owner]
<1>1. Ix.pos \in Positions /\ Ix.pool \in Pools /\ Ix.owner \in Owners
  BY IxType DEF TypeInv
<1>2. position \in PositionRecords /\ request \in Requests
      /\ acc.collateral_vault[Ix.pool] \in Nat /\ acc.currency_vault[Ix.pool] \in Nat
  BY <1>1, AccountFields DEF TypeInv, TypeOK
<1>3. Received(Ix) \in Nat
  BY <1>2 DEF MatchesCloseRequest, Received, Requests
<1>4. now - position.last_funding_timestamp \in Nat
  BY <1>1, <1>2 DEF TypeInv, TypeOK, Good, PositionRecords
<1>5. PositionFields(position) /\ settings.max_apy \in Nat /\ request.interest \in Nat
  BY <1>2 DEF PositionFields, PositionRecords, Requests, TypeInv, TypeOK
<1>6. InterestDue(Ix.pos) \in Nat
  BY <1>4, <1>5, MaxInterestType DEF InterestDue, PositionFields
<1>7. CapInterest(request.interest, InterestDue(Ix.pos)) \in Nat
  BY <1>5, <1>6, CapInterestType
<1>8. (Ix.pool \in LongPools) \in BOOLEAN
  OBVIOUS
<1>9. AmountsOf(Ix, fee)
        = CloseAmounts(position, Ix.pool \in LongPools, Spent(Ix), Received(Ix),
            CapInterest(request.interest, InterestDue(Ix.pos)), request.execution_fee, fee)
  BY Zenon DEF AmountsOf
<1> DEFINE interest == CapInterest(request.interest, InterestDue(Ix.pos))
           amounts  == CloseAmounts(position, Ix.pool \in LongPools, Spent(Ix), Received(Ix),
                         interest, request.execution_fee, fee)
<1>10. amounts.principal_repaid <= position.principal
       /\ (amounts.principal_repaid < position.principal => amounts.interest_paid = 0)
  <2>1. PositionFields(position)
    BY <1>5
  <2> HIDE DEF position, request, interest
  <2> QED
    BY <1>3, <1>7, <1>8, <2>1, PrincipalFirst, Zenon DEF interest
<1>11. AmountsOf(Ix, fee) = amounts
  BY <1>9
<1> HIDE DEF amounts
<1> QED
  BY <1>10, <1>11

LEMMA CloseWithMaps ==
  ASSUME TypeInv, DebtInv, Advances, NEW op, At(op), NEW isLiquidation, NEW amounts \in Amounts,
         amounts.principal_repaid <= acc.position[Ix.pos].principal,
         amounts.principal_repaid < acc.position[Ix.pos].principal => amounts.interest_paid = 0,
         ClosePositionCleanup(isLiquidation, amounts)
  PROVE  Maps
<1> DEFINE principal == acc.position[Ix.pos].principal
<1>1. Ix.pos \in Positions /\ acc \in Accounts
  BY IxType DEF TypeInv, Good
<1>2. /\ principal \in Nat /\ acc.vault \in Nat /\ acc.total_assets \in Nat
      /\ amounts.principal_repaid \in Nat /\ amounts.interest_paid \in Nat /\ MaxBalance \in Nat
  BY <1>1, AccountFields, TradingAssumption DEF PositionRecords, Amounts
<1>3. /\ acc'.vault = acc.vault + ToVault(amounts)
      /\ acc'.total_assets = TotalAssetsAfter(principal, amounts)
      /\ acc'.total_assets \in 0..MaxBalance
      /\ acc'.position = [acc.position EXCEPT ![Ix.pos] = NoPosition]
  <2>1. TotalAssetsAfter(principal, amounts) \in 0..MaxBalance
    BY Zenon DEF ClosePositionCleanup
  <2>2. acc'.vault = acc.vault + ToVault(amounts)
    BY <1>1 DEF ClosePositionCleanup, Accounts
  <2>3. acc'.total_assets = TotalAssetsAfter(principal, amounts)
    BY <1>1 DEF ClosePositionCleanup, Accounts
  <2>4. acc'.position = [acc.position EXCEPT ![Ix.pos] = NoPosition]
    BY <1>1 DEF ClosePositionCleanup, Accounts
  <2> QED
    BY <2>1, <2>2, <2>3, <2>4
<1>4. CASE amounts.principal_repaid < principal
  <2>1. /\ acc'.vault = acc.vault + amounts.principal_repaid
        /\ acc'.total_assets = acc.total_assets - (principal - amounts.principal_repaid)
    BY <1>2, <1>3, <1>4 DEF ToVault, TotalAssetsAfter
  <2> QED
    BY <1>1, <1>2, <1>3, <1>4, <2>1, WriteOffMaps
<1>5. CASE amounts.principal_repaid = principal
  <2>1. /\ acc'.vault = acc.vault + principal + amounts.interest_paid
        /\ acc'.total_assets = acc.total_assets + amounts.interest_paid
    BY <1>2, <1>3, <1>5 DEF ToVault, TotalAssetsAfter
  <2>2. acc.total_assets + amounts.interest_paid <= MaxBalance
    BY <1>2, <1>3, <2>1
  <2> QED
    BY <1>1, <1>2, <1>3, <2>1, <2>2, SettleMaps
<1> QED
  BY <1>2, <1>4, <1>5

LEMMA CloseCleanupMaps ==
  ASSUME TypeInv, DebtInv, Advances, NEW op, At(op), NEW isLiquidation, NEW fee \in Nat,
         ClosePositionCleanup(isLiquidation, AmountsOf(Ix, fee))
  PROVE  Maps
<1>1. MatchesCloseRequest(Ix) /\ CloseFeeBase(acc.position[Ix.pos], Ix.pool \in LongPools) > 0
  BY Zenon DEF ClosePositionCleanup
<1>2. AmountsOf(Ix, fee) \in Amounts
  BY <1>1, AmountsOfType
<1> QED
  BY <1>1, <1>2, ClosingPaysPrincipalFirst, CloseWithMaps

LEMMA CleanupClosing ==
  ASSUME TypeInv, CloseCleanup
  PROVE  \E op, isLiquidation : \E fee \in Nat :
           At(op) /\ ClosePositionCleanup(isLiquidation, AmountsOf(Ix, fee))
<1>1. CASE CloseLongPositionCleanup
  BY <1>1 DEF CloseLongPositionCleanup
<1>2. CASE CloseShortPositionCleanup
  BY <1>2 DEF CloseShortPositionCleanup
<1>3. CASE LiquidatePositionCleanup
  <2> DEFINE fee == LiquidationFee(acc.position[Ix.pos].down_payment, settings.liquidation_fee)
  <2>1. At("liquidate_position_cleanup") /\ ClosePositionCleanup(TRUE, AmountsOf(Ix, fee))
    BY <1>3, Zenon DEF LiquidatePositionCleanup
  <2>2. acc.position[Ix.pos].down_payment \in Nat /\ settings.liquidation_fee \in Nat
    BY <2>1, IxType, AccountFields DEF TypeInv, TypeOK, PositionRecords
  <2>3. fee \in Nat
    BY <2>2, LiquidationFeeType
  <2> HIDE DEF fee
  <2> QED
    BY <2>1, <2>3
<1>4. CASE TakeProfitCleanup
  <2>1. At("take_profit_cleanup") /\ ClosePositionCleanup(FALSE, AmountsOf(Ix, 0))
    BY <1>4, Zenon DEF TakeProfitCleanup
  <2> QED
    BY <2>1
<1>5. CASE StopLossCleanup
  <2>1. At("stop_loss_cleanup") /\ ClosePositionCleanup(FALSE, AmountsOf(Ix, 0))
    BY <1>5, Zenon DEF StopLossCleanup
  <2> QED
    BY <2>1
<1> QED
  BY <1>1, <1>2, <1>3, <1>4, <1>5 DEF CloseCleanup

LEMMA CloseCleanupsMap == ASSUME TypeInv, DebtInv, Advances, CloseCleanup PROVE Maps
  BY CleanupClosing, CloseCleanupMaps

LEMMA ClaimMaps == ASSUME TypeInv, DebtInv, Advances, ClaimPosition PROVE Maps
<1>1. Ix.pos \in Positions /\ acc \in Accounts
  BY IxType DEF TypeInv, Good, ClaimPosition
<1>2. acc.position[Ix.pos] \in PositionRecords
  BY <1>1, AccountFields
<1>3. now - acc.position[Ix.pos].last_funding_timestamp \in Nat /\ settings.max_apy \in Nat
  BY <1>1, <1>2 DEF TypeInv, TypeOK, Good, PositionRecords
<1>4. InterestDue(Ix.pos) \in Nat
  BY <1>2, <1>3, MaxInterestType DEF InterestDue, PositionRecords
<1>5. /\ acc'.vault = acc.vault + acc.position[Ix.pos].principal + InterestDue(Ix.pos)
      /\ acc'.total_assets = acc.total_assets + InterestDue(Ix.pos)
      /\ acc.total_assets + InterestDue(Ix.pos) <= MaxBalance
      /\ acc'.position = [acc.position EXCEPT ![Ix.pos] = NoPosition]
  BY <1>1 DEF ClaimPosition, Accounts
<1> QED
  BY <1>1, <1>4, <1>5, SettleMaps
-----------------------------------------------------------------------------
(* Every step *)

LEMMA OtherMaps ==
  ASSUME TypeInv, DebtInv, Advances,
         CloseSetup \/ OrderStep \/ \E bought, sold \in SwapAmounts : Other(bought, sold)
  PROVE  Maps
<1>1. acc \in Accounts
  BY DEF TypeInv, Good
<1>2. ASSUME CloseSetup
      PROVE  \E minTarget, interest, fee : ClosePositionSetup(minTarget, interest, fee)
  BY <1>2, Zenon DEF CloseSetup, CloseLongPositionSetup, CloseShortPositionSetup,
     LiquidatePositionSetup, TakeProfitSetup, StopLossSetup
<1>3. CASE CloseSetup
  <2>1. /\ acc'.vault = acc.vault /\ acc'.total_assets = acc.total_assets
        /\ acc'.position = acc.position
    BY <1>1, <1>2, <1>3 DEF ClosePositionSetup, Accounts
  <2> QED
    BY <2>1, FrameMaps DEF DebtInv
<1>4. CASE OrderStep
  <2>1. \E order : \/ acc' = [acc EXCEPT !.take_profit_order[Ix.pos] = order]
                   \/ acc' = [acc EXCEPT !.stop_loss_order[Ix.pos] = order]
    BY <1>4 DEF OrderStep, InitOrUpdateTakeProfitOrder, InitOrUpdateStopLossOrder,
      CloseTakeProfitOrder, CloseStopLossOrder
  <2>2. /\ acc'.vault = acc.vault /\ acc'.total_assets = acc.total_assets
        /\ acc'.position = acc.position
    BY <1>1, <2>1 DEF Accounts
  <2> QED
    BY <2>2, FrameMaps DEF DebtInv
<1>5. ASSUME NEW bought \in SwapAmounts, NEW sold \in SwapAmounts, Other(bought, sold)
      PROVE  Maps
  <2>1. /\ acc'.vault = acc.vault /\ acc'.total_assets = acc.total_assets
        /\ acc'.position = acc.position
    BY <1>1, <1>5 DEF Other, Accounts
  <2> QED
    BY <2>1, FrameMaps DEF DebtInv
<1> QED
  BY <1>3, <1>4, <1>5

LEMMA InstructionMaps == ASSUME TypeInv, DebtInv, Instruction PROVE Maps
<1>1. Advances
  BY InstructionAdvances
<1> QED
  BY <1>1, OpenSetupMaps, OpenLongCleanupMaps, OpenShortCleanupMaps, CloseCleanupsMap, ClaimMaps,
     OtherMaps, LiquidityMaps DEF Instruction

LEMMA StepMaps ==
  ASSUME TypeInv, DebtInv, [Next]_vars PROVE DebtInv' /\ [Ledger!Next]_(Ledger!vars)
<1>1. CASE Instruction
  <2>1. Maps /\ saved' = saved
    BY <1>1, InstructionMaps, InstructionAdvances DEF Advances, Advance
  <2> QED
    BY <2>1 DEF Maps, DebtInv, Bounded, Ledger!Next
<1>2. ASSUME NEW plan \in Plans, NEW signers \in Signings, Begin(plan, signers)
      PROVE  DebtInv' /\ Ledger!Begin
  BY <1>2 DEF Begin, DebtInv, Bounded, Ledger!Begin, Ledger!balances, Owed
<1>3. CASE Commit
  BY <1>3 DEF Commit, Idle, DebtInv, Bounded, Ledger!Next, Ledger!Commit, Ledger!Working,
              Ledger!balances, Owed
<1>4. CASE Abort
  BY <1>4 DEF Abort, Idle, DebtInv, Bounded, Ledger!Next, Ledger!Abort, Owed
<1>5. CASE Tick \/ Administration \/ UNCHANGED vars
  <2>1. acc' = acc /\ saved' = saved /\ tx' = tx
    BY <1>5 DEF Tick, Administration, SetTradingState, SetMaxApy, SetMaxLeverage,
                SetLiquidationFee, Configure, vars
  <2> QED
    BY <2>1 DEF DebtInv, Bounded, Ledger!vars, Owed
<1> QED
  BY <1>1, <1>2, <1>3, <1>4, <1>5 DEF Next, Ledger!Next

LEMMA InitMaps == ASSUME Init PROVE DebtInv /\ Ledger!Init
<1>1. MaxBalance \in Nat /\ InitialAssets \subseteq 0..MaxBalance
  BY TradingAssumption
<1>2. /\ acc.vault \in 0..MaxBalance /\ acc.total_assets = acc.vault
      /\ acc.position = [p \in Positions |-> NoPosition]
      /\ saved = acc /\ tx = Idle
  BY <1>1 DEF Init
<1>3. Owed(acc) = [p \in Positions |-> 0]
  BY <1>2 DEF Owed, NoPosition
<1>4. DebtInv
  BY <1>1, <1>2 DEF DebtInv, Bounded, NoPosition
<1> QED
  BY <1>2, <1>3, <1>4 DEF Ledger!Init, Ledger!Working, Ledger!NoDebt, Idle

\* To its LP vault the program is the ledger, whatever positions there are and
\* whoever invokes its instructions: no instruction creates or loses assets,
\* a loss is booked where a principal is not repaid and nowhere else, and a
\* failed transaction leaves the ledger alone.
THEOREM LedgerImplementedCorrect == Spec => LedgerImplemented
<1>1. Init => DebtInv /\ Ledger!Init
  BY InitMaps
<1>2. TypeInv /\ DebtInv /\ [Next]_vars => DebtInv' /\ [Ledger!Next]_(Ledger!vars)
  BY StepMaps
<1> QED
  BY <1>1, <1>2, AlwaysTyped, PTL DEF Spec, LedgerImplemented, Ledger!Spec
-----------------------------------------------------------------------------
(* What the vault counts *)

Counted(a) == a.total_assets = a.vault + Total(Owed(a))

CountInv == Counted(acc) /\ Counted(saved)

LEMMA DebtMoves ==
  ASSUME NEW f \in [Positions -> Nat], NEW b \in Positions, NEW n \in Nat
  PROVE  Total([f EXCEPT ![b] = n]) = Total(f) - f[b] + n
BY TradingAssumption, TotalUpdate, Zenon

\* A movement of the ledger changes total_assets by what it changes the idle
\* assets and the debts.
LEMMA MovementCounts ==
  ASSUME TypeInv, Counted(acc), [Ledger!Instruction]_(Ledger!vars)
  PROVE  Counted(acc')
<1> DEFINE debts == Owed(acc)
           total == acc.total_assets
           idle  == acc.vault
<1>1. idle \in Nat /\ total \in Nat /\ debts \in [Positions -> Nat]
  BY DEF TypeInv, TypeOK, Accounts, PositionRecords, Owed
<1>2. Total(debts) \in Nat
  BY <1>1, TradingAssumption, TotalType, Zenon
<1>3. total = idle + Total(debts)
  BY DEF Counted
<1>4. Owed(acc)' = Owed(acc')
  BY DEF Owed
<1>5. ASSUME NEW b \in Positions, NEW n \in Nat, Owed(acc') = [debts EXCEPT ![b] = n],
             acc'.total_assets - acc'.vault = total - idle - debts[b] + n,
             acc'.total_assets \in Int, acc'.vault \in Int
      PROVE  Counted(acc')
  <2>1. Total(Owed(acc')) = Total(debts) - debts[b] + n /\ debts[b] \in Nat
    BY <1>1, <1>5, DebtMoves, Zenon
  <2> HIDE DEF debts, total, idle
  <2> QED
    BY <1>1, <1>2, <1>3, <1>5, <2>1 DEF Counted
<1>6. ASSUME NEW a \in 0..MaxBalance, Ledger!Fund(a) \/ Ledger!Draw(a)
      PROVE  Counted(acc')
  <2>1. Owed(acc') = debts /\ a \in Int
    BY <1>4, <1>6, TradingAssumption DEF Ledger!Fund, Ledger!Draw
  <2>2. acc'.total_assets = acc'.vault + Total(debts)
    BY <1>1, <1>2, <1>3, <1>6, <2>1 DEF Ledger!Fund, Ledger!Draw
  <2> QED
    BY <2>1, <2>2 DEF Counted
<1>7. ASSUME NEW b \in Positions, NEW a \in 0..MaxBalance, Ledger!Lend(b, a)
      PROVE  Counted(acc')
  <2>1. debts[b] + a \in Nat /\ debts[b] \in Nat /\ a \in Nat
    BY <1>1, TradingAssumption
  <2>2. Owed(acc') = [debts EXCEPT ![b] = debts[b] + a]
    BY <1>4, <1>7 DEF Ledger!Lend
  <2>3. acc'.total_assets = total /\ acc'.vault = idle - a
    BY <1>7 DEF Ledger!Lend
  <2>4. /\ acc'.total_assets - acc'.vault = total - idle - debts[b] + (debts[b] + a)
        /\ acc'.total_assets \in Int /\ acc'.vault \in Int
    BY <1>1, <2>1, <2>3
  <2> QED
    BY <1>5, <2>1, <2>2, <2>4, Zenon
<1>8. ASSUME NEW b \in Positions, NEW a \in 0..MaxBalance, Ledger!GiveBack(b, a)
      PROVE  Counted(acc')
  <2>1. debts[b] - a \in Nat /\ debts[b] \in Nat /\ a \in Nat
    BY <1>1, <1>8, TradingAssumption DEF Ledger!GiveBack
  <2>2. Owed(acc') = [debts EXCEPT ![b] = debts[b] - a]
    BY <1>4, <1>8 DEF Ledger!GiveBack
  <2>3. acc'.total_assets = total /\ acc'.vault = idle + a
    BY <1>8 DEF Ledger!GiveBack
  <2>4. /\ acc'.total_assets - acc'.vault = total - idle - debts[b] + (debts[b] - a)
        /\ acc'.total_assets \in Int /\ acc'.vault \in Int
    BY <1>1, <2>1, <2>3
  <2> QED
    BY <1>5, <2>1, <2>2, <2>4, Zenon
<1>9. ASSUME NEW b \in Positions, NEW a \in 0..MaxBalance,
             Ledger!Settle(b, a) \/ Ledger!WriteOff(b, a)
      PROVE  Counted(acc')
  <2>1. debts[b] \in Nat /\ a \in Nat /\ 0 \in Nat
    BY <1>1, TradingAssumption
  <2> QED
    BY <1>1, <1>4, <1>5, <1>9, <2>1 DEF Ledger!Settle, Ledger!WriteOff
<1>10. ASSUME NEW b \in Positions, NEW a \in 0..MaxBalance, Ledger!Revalue(b, a)
       PROVE  Counted(acc')
  <2>1. PICK quote \in 0..MaxBalance :
           /\ a <= quote
           /\ acc'.total_assets = total + quote - debts[b]
           /\ Owed(acc') = [debts EXCEPT ![b] = quote - a]
    BY <1>4, <1>10 DEF Ledger!Revalue
  <2>2. debts[b] \in Nat /\ a \in Nat /\ quote \in Nat /\ quote - a \in Nat
    BY <1>1, <2>1, TradingAssumption
  <2>3. acc'.vault = idle + a
    BY <1>10 DEF Ledger!Revalue
  <2>4. /\ acc'.total_assets - acc'.vault = total - idle - debts[b] + (quote - a)
        /\ acc'.total_assets \in Int /\ acc'.vault \in Int
    BY <1>1, <2>1, <2>2, <2>3
  <2> QED
    BY <1>5, <2>1, <2>2, <2>4, Zenon
<1>11. CASE UNCHANGED Ledger!vars
  BY <1>3, <1>4, <1>11 DEF Ledger!vars, Counted
<1> QED
  BY <1>6, <1>7, <1>8, <1>9, <1>10, <1>11 DEF Ledger!Instruction

\* Whatever transactions are submitted, and whoever invokes the instructions: at
\* every instruction total_assets counts the idle assets and the debts of the open
\* positions, no more and no less.
THEOREM TotalAssetsCountedCorrect == Spec => []TotalAssetsCounted
<1>1. ASSUME Init PROVE CountInv
  <2>1. /\ acc.vault \in Nat /\ acc.total_assets = acc.vault /\ saved = acc
        /\ acc.position = [p \in Positions |-> NoPosition]
    BY <1>1, TradingAssumption DEF Init
  <2>2. Owed(acc) \in [Positions -> Nat] /\ \A p \in Positions : Owed(acc)[p] = 0
    BY <2>1 DEF Owed, NoPosition
  <2>3. Total(Owed(acc)) = 0
    BY <2>2, TotalZero, Zenon
  <2> QED
    BY <2>1, <2>3 DEF CountInv, Counted
<1>2. ASSUME TypeInv, DebtInv, CountInv, [Next]_vars PROVE CountInv'
  <2>a. Counted(acc)' = Counted(acc') /\ Counted(saved)' = Counted(saved')
    BY DEF Counted, Owed, Total, Units
  <2>1. CASE Instruction
    <3>1. [Ledger!Instruction]_(Ledger!vars) /\ saved' = saved
      BY <1>2, <2>1, InstructionMaps, InstructionAdvances DEF Maps, DebtInv, Advances, Advance
    <3>2. Counted(acc')
      BY <1>2, <3>1, MovementCounts DEF CountInv
    <3> QED
      BY <1>2, <3>1, <3>2, <2>a DEF CountInv
  <2>2. CASE Commit \/ Abort
    BY <1>2, <2>2, <2>a DEF Commit, Abort, CountInv
  <2>3. CASE \/ \E plan \in Plans, signers \in Signings : Begin(plan, signers)
             \/ Tick \/ Administration \/ UNCHANGED vars
    <3>1. acc' = acc /\ saved' = saved
      BY <2>3 DEF Begin, Tick, Administration, SetTradingState, SetMaxApy, SetMaxLeverage,
                  SetLiquidationFee, Configure, vars
    <3> QED
      BY <1>2, <3>1, <2>a DEF CountInv
  <2> QED
    BY <1>2, <2>1, <2>2, <2>3 DEF Next
<1>3. TypeInv /\ DebtInv /\ [Next]_vars => DebtInv'
  BY StepMaps
<1>4. Init => DebtInv
  BY InitMaps
<1>5. CountInv => TotalAssetsCounted
  BY DEF CountInv, Counted, TotalAssetsCounted
<1> QED
  BY <1>1, <1>2, <1>3, <1>4, <1>5, AlwaysTyped, PTL DEF Spec
-----------------------------------------------------------------------------
(* The collateral of a pool's positions *)

Claimed(a, q) ==
  [p \in {x \in Positions : PoolOf[x] = q} |-> a.position[p].collateral_amount]

ClaimedSum(a, q) == Total(Claimed(a, q))

LEMMA BackedIsSum ==
  ASSUME NEW a, NEW q PROVE Backed(a, q) <=> ClaimedSum(a, q) <= a.collateral_vault[q]
  BY DEF Backed, ClaimedSum, Claimed

LEMMA ClaimedType ==
  ASSUME NEW a \in Accounts, NEW q
  PROVE  /\ IsFiniteSet({x \in Positions : PoolOf[x] = q})
         /\ Claimed(a, q) \in [{x \in Positions : PoolOf[x] = q} -> Nat]
         /\ ClaimedSum(a, q) \in Nat
<1>1. IsFiniteSet({x \in Positions : PoolOf[x] = q})
  BY FS_Subset, TradingAssumption
<1>2. Claimed(a, q) \in [{x \in Positions : PoolOf[x] = q} -> Nat]
  BY AccountFields DEF Claimed, PositionRecords
<1> QED
  BY <1>1, <1>2, TotalType DEF ClaimedSum

LEMMA SumSame ==
  ASSUME NEW a, NEW b, a.position = b.position, NEW q
  PROVE  ClaimedSum(a, q) = ClaimedSum(b, q)
  BY DEF ClaimedSum, Claimed

LEMMA ClaimMove ==
  ASSUME NEW q, NEW f \in [{x \in Positions : PoolOf[x] = q} -> Nat],
         NEW p \in {x \in Positions : PoolOf[x] = q}, NEW n \in Nat
  PROVE  Total([f EXCEPT ![p] = n]) = Total(f) - f[p] + n
<1>1. IsFiniteSet({x \in Positions : PoolOf[x] = q})
  BY FS_Subset, TradingAssumption
<1> QED
  BY <1>1, TotalUpdate, Zenon

\* Replacing the position at p moves the sum of its pool and of no other.
LEMMA SumUpdate ==
  ASSUME NEW a \in Accounts, NEW b, NEW p \in Positions, NEW r,
         r.collateral_amount \in Nat, b.position = [a.position EXCEPT ![p] = r]
  PROVE  /\ ClaimedSum(a, PoolOf[p]) \in Nat
         /\ a.position[p].collateral_amount \in Nat
         /\ ClaimedSum(b, PoolOf[p])
              = ClaimedSum(a, PoolOf[p]) - a.position[p].collateral_amount + r.collateral_amount
         /\ \A q : q # PoolOf[p] => ClaimedSum(b, q) = ClaimedSum(a, q)
<1> PICK f, n : f = Claimed(a, PoolOf[p]) /\ n = r.collateral_amount
  OBVIOUS
<1>1. DOMAIN a.position = Positions
  BY DEF Accounts
<1>2. f \in [{x \in Positions : PoolOf[x] = PoolOf[p]} -> Nat] /\ ClaimedSum(a, PoolOf[p]) \in Nat
  BY ClaimedType
<1>3. Claimed(b, PoolOf[p]) = [f EXCEPT ![p] = n]
  BY <1>1 DEF Claimed
<1>4. f[p] = a.position[p].collateral_amount /\ p \in {x \in Positions : PoolOf[x] = PoolOf[p]}
  BY DEF Claimed
<1>5. Total([f EXCEPT ![p] = n]) = Total(f) - f[p] + n
  <2>1. n \in Nat
    OBVIOUS
  <2> QED
    BY <1>2, <1>4, <2>1, ClaimMove
<1>6. ClaimedSum(a, PoolOf[p]) = Total(f)
  BY DEF ClaimedSum
<1>7. ASSUME NEW q, q # PoolOf[p] PROVE ClaimedSum(b, q) = ClaimedSum(a, q)
  <2>1. Claimed(b, q) = Claimed(a, q)
    BY <1>1, <1>7 DEF Claimed
  <2> QED
    BY <2>1 DEF ClaimedSum
<1>8. f[p] \in Nat
  BY <1>2, <1>4
<1> QED
  BY <1>2, <1>3, <1>4, <1>5, <1>6, <1>7, <1>8 DEF ClaimedSum
-----------------------------------------------------------------------------
(* While a request is pending, the balance it has cached covers the others *)

\* o's new position records nothing yet; what it will have paid in itself is
\* in the cached balance, on top of what the other positions claim.
OpeningCovered(a, o) ==
  LET request == a.open_request[o] IN
  a.open_request[o].pending =>
    /\ a.position[request.pos].collateral_amount = 0
    /\ PoolOf[request.pos] = request.pool
    /\ ClaimedSum(a, request.pool)
         + (IF request.pool \in LongPools THEN 0 ELSE a.position[request.pos].down_payment)
         <= request.taker_bal_before

\* The swap may sell what o's position records, and it is measured from the
\* cached balance.
ClosingCovered(a, o) ==
  a.close_request[o].pending =>
    ClaimedSum(a, a.close_request[o].pool) <= a.close_request[o].maker_bal_before

InUse(a, q) ==
  \E o \in Owners : \/ a.open_request[o].pending /\ a.open_request[o].pool = q
                    \/ a.close_request[o].pending /\ a.close_request[o].pool = q

Covered(a) ==
  /\ \A q \in Pools : InUse(a, q) \/ Backed(a, q)
  /\ \A o \in Owners : OpeningCovered(a, o) /\ ClosingCovered(a, o)

CoverInv == Covered(acc) /\ \A q \in Pools : Backed(saved, q)

LEMMA SafeCovered ==
  ASSUME NEW a, Safe(a) PROVE Covered(a) <=> \A q \in Pools : Backed(a, q)
  BY DEF Safe, Covered, InUse, OpeningCovered, ClosingCovered

\* There is one request at most.
LEMMA OneRequest ==
  ASSUME TypeInv, PairInv, NEW o \in Owners
  PROVE  /\ acc.open_request[o].pending =>
              \A x \in Owners : /\ acc.open_request[x].pending => x = o
                                /\ ~acc.close_request[x].pending
         /\ acc.close_request[o].pending =>
              \A x \in Owners : /\ acc.close_request[x].pending => x = o
                                /\ ~acc.open_request[x].pending
<1>1. tx.running \in BOOLEAN
  BY DEF TypeInv, TypeOK, Transactions
<1>2. CASE Safe(acc)
  BY <1>2 DEF Safe
<1>3. CASE \E x \in Owners : OpenPending(x) \/ ClosePending(x)
  BY <1>3 DEF OpenPending, ClosePending
<1> QED
  BY <1>1, <1>2, <1>3 DEF PairInv

\* Only a pool in use has collateral that may be spent.
LEMMA AllowanceInUse ==
  ASSUME TypeInv, PairInv, NEW q \in Pools, ~InUse(acc, q)
  PROVE  acc.collateral_allowance[q] = 0
<1>1. tx.running \in BOOLEAN
  BY DEF TypeInv, TypeOK, Transactions
<1> QED
  BY <1>1 DEF PairInv, Safe, OpenPending, ClosePending, InUse

\* An instruction that leaves positions and requests alone and takes no
\* collateral from a pool that is not in use.
LEMMA FrameCovers ==
  ASSUME TypeInv, CoverInv, NEW b,
         b.position = acc.position, b.open_request = acc.open_request,
         b.close_request = acc.close_request,
         \A q \in Pools : /\ b.collateral_vault[q] \in Nat
                          /\ ~InUse(acc, q) => b.collateral_vault[q] >= acc.collateral_vault[q]
  PROVE  Covered(b)
<1>1. acc \in Accounts
  BY DEF TypeInv, Good
<1>2. \A q : InUse(b, q) <=> InUse(acc, q)
  BY DEF InUse
<1>3. ASSUME NEW q \in Pools, ~InUse(acc, q) PROVE Backed(b, q)
  <2>1. /\ ClaimedSum(b, q) = ClaimedSum(acc, q) /\ ClaimedSum(acc, q) \in Nat
        /\ acc.collateral_vault[q] \in Nat
    BY <1>1, SumSame, ClaimedType, AccountFields
  <2>2. ClaimedSum(acc, q) <= acc.collateral_vault[q]
    BY <1>3, BackedIsSum DEF CoverInv, Covered
  <2>3. ClaimedSum(b, q) <= b.collateral_vault[q]
    BY <1>3, <2>1, <2>2
  <2> QED
    BY <2>3, BackedIsSum
<1>4. ASSUME NEW o \in Owners PROVE OpeningCovered(b, o) /\ ClosingCovered(b, o)
  <2>1. \A q : ClaimedSum(b, q) = ClaimedSum(acc, q)
    BY SumSame
  <2> QED
    BY <2>1 DEF CoverInv, Covered, OpeningCovered, ClosingCovered
<1> QED
  BY <1>2, <1>3, <1>4 DEF Covered

LEMMA OpenSetupCovers ==
  ASSUME TypeInv, PairInv, CoverInv, Advances, MayOpen(Ix),
         Ix.pos \in Positions, Ix.pool \in Pools, Ix.owner \in Owners,
         NEW request, request.pending, request.pos = Ix.pos, request.pool = Ix.pool,
         NEW position \in PositionRecords, position.collateral_amount = 0,
         NEW paidIn \in Nat,
         paidIn = (IF Ix.pool \in LongPools THEN 0 ELSE position.down_payment),
         request.taker_bal_before = acc.collateral_vault[Ix.pool] + paidIn,
         acc'.open_request = [acc.open_request EXCEPT ![Ix.owner] = request],
         acc'.close_request = acc.close_request,
         acc'.position = [acc.position EXCEPT ![Ix.pos] = position],
         \A q \in Pools \ {Ix.pool} : acc'.collateral_vault[q] = acc.collateral_vault[q]
  PROVE  Covered(acc')
<1>1. acc \in Accounts /\ tx.running /\ PoolOf[Ix.pos] = Ix.pool
  BY DEF TypeInv, Good, Advances, MayOpen
<1>2. Safe(acc)
  BY <1>1, SetupStartsSafe DEF MayOpen
<1>3. \A q \in Pools : Backed(acc, q)
  BY <1>2, SafeCovered DEF CoverInv
<1>4. /\ ClaimedSum(acc, Ix.pool) \in Nat /\ acc.position[Ix.pos].collateral_amount \in Nat
      /\ ClaimedSum(acc', Ix.pool)
           = ClaimedSum(acc, Ix.pool) - acc.position[Ix.pos].collateral_amount
      /\ \A q : q # Ix.pool => ClaimedSum(acc', q) = ClaimedSum(acc, q)
  BY <1>1, SumUpdate
<1>5. /\ acc'.open_request[Ix.owner] = request
      /\ \A x \in Owners : /\ x # Ix.owner => ~acc'.open_request[x].pending
                           /\ ~acc'.close_request[x].pending
  BY <1>1, <1>2 DEF Safe, Accounts
<1>6. InUse(acc', Ix.pool)
  BY <1>5 DEF InUse
<1>7. ASSUME NEW q \in Pools, q # Ix.pool PROVE Backed(acc', q)
  <2>1. ClaimedSum(acc', q) <= acc'.collateral_vault[q]
    BY <1>3, <1>4, <1>7, BackedIsSum
  <2> QED
    BY <2>1, BackedIsSum
<1>8. acc'.position[Ix.pos] = position
  BY <1>1 DEF Accounts
<1>9. ClaimedSum(acc', Ix.pool) + paidIn <= request.taker_bal_before
  <2>1. ClaimedSum(acc, Ix.pool) <= acc.collateral_vault[Ix.pool]
    BY <1>3, BackedIsSum
  <2>2. acc.collateral_vault[Ix.pool] \in Nat
    BY <1>1, AccountFields
  <2> QED
    BY <1>4, <2>1, <2>2
<1>10. OpeningCovered(acc', Ix.owner)
  BY <1>1, <1>5, <1>8, <1>9 DEF OpeningCovered
<1> QED
  BY <1>5, <1>6, <1>7, <1>10 DEF Covered, OpeningCovered, ClosingCovered

LEMMA OpenSetupsCover ==
  ASSUME TypeInv, PairInv, CoverInv, Advances, OpenSetup PROVE Covered(acc')
<1>1. acc \in Accounts /\ now \in Nat
  BY DEF TypeInv, Good, TypeOK
<1>2. ASSUME NEW minTarget \in MinTargets, NEW down_payment \in DownPayments,
             NEW principal \in Principals, NEW fee \in Fees,
             OpenLongPositionSetup(minTarget, down_payment, principal, fee)
      PROVE  Covered(acc')
  <2> DEFINE swapped == principal + down_payment
             balance == acc.currency_vault[Ix.pool] + swapped
             position == NewPosition(down_payment, principal, fee)
             request == OpenRequest(Ix, minTarget, swapped, balance,
                                    acc.collateral_vault[Ix.pool])
  <2>1. /\ Ix.pos \in Positions /\ Ix.pool \in Pools /\ Ix.owner \in Owners
        /\ MayOpen(Ix) /\ Ix.pool \in LongPools
    BY <1>2, IxType DEF TypeInv, OpenLongPositionSetup
  <2>2. /\ acc'.open_request = [acc.open_request EXCEPT ![Ix.owner] = request]
        /\ acc'.close_request = acc.close_request
        /\ acc'.position = [acc.position EXCEPT ![Ix.pos] = position]
        /\ acc'.collateral_vault = acc.collateral_vault
    BY <1>1, <1>2 DEF OpenLongPositionSetup, Accounts
  <2>3. position \in PositionRecords /\ position.collateral_amount = 0
    BY <1>1, TradingAssumption DEF NewPosition, PositionRecords
  <2>4. /\ request.pending /\ request.pos = Ix.pos /\ request.pool = Ix.pool
        /\ request.taker_bal_before = acc.collateral_vault[Ix.pool]
    BY DEF OpenRequest, NoRequest
  <2>5. acc.collateral_vault[Ix.pool] \in Nat
    BY <1>1, <2>1, AccountFields
  <2> HIDE DEF request, position
  <2>6. request.taker_bal_before = acc.collateral_vault[Ix.pool] + 0
    BY <2>4, <2>5
  <2> QED
    BY <2>1, <2>2, <2>3, <2>4, <2>6, OpenSetupCovers
<1>3. ASSUME NEW minTarget \in MinTargets, NEW down_payment \in DownPayments,
             NEW principal \in Principals, NEW fee \in Fees,
             OpenShortPositionSetup(minTarget, down_payment, principal, fee)
      PROVE  Covered(acc')
  <2> DEFINE maker == acc.currency_vault[Ix.pool] + principal
             taker == acc.collateral_vault[Ix.pool] + down_payment
             position == NewPosition(down_payment, principal, fee)
             request == OpenRequest(Ix, minTarget, 0, maker, taker)
  <2>1. /\ Ix.pos \in Positions /\ Ix.pool \in Pools /\ Ix.owner \in Owners
        /\ MayOpen(Ix) /\ Ix.pool \notin LongPools
    BY <1>3, IxType DEF TypeInv, OpenShortPositionSetup
  <2>2. /\ acc'.open_request = [acc.open_request EXCEPT ![Ix.owner] = request]
        /\ acc'.close_request = acc.close_request
        /\ acc'.position = [acc.position EXCEPT ![Ix.pos] = position]
        /\ acc'.collateral_vault = [acc.collateral_vault EXCEPT ![Ix.pool] = taker]
    BY <1>1, <1>3 DEF OpenShortPositionSetup, Accounts
  <2>3. /\ position \in PositionRecords /\ position.collateral_amount = 0
        /\ position.down_payment = down_payment /\ down_payment \in Nat
    BY <1>1, TradingAssumption DEF NewPosition, PositionRecords
  <2>4. /\ request.pending /\ request.pos = Ix.pos /\ request.pool = Ix.pool
        /\ request.taker_bal_before = acc.collateral_vault[Ix.pool] + down_payment
    BY DEF OpenRequest, NoRequest
  <2>5. \A q \in Pools \ {Ix.pool} : acc'.collateral_vault[q] = acc.collateral_vault[q]
    BY <1>1, <2>2 DEF Accounts
  <2> HIDE DEF request, position
  <2> QED
    BY <2>1, <2>2, <2>3, <2>4, <2>5, OpenSetupCovers
<1> QED
  BY <1>2, <1>3 DEF OpenSetup

\* A cleanup that opens records what has come in since the setup.
LEMMA OpenCleanupCovers ==
  ASSUME TypeInv, PairInv, CoverInv, MatchesOpenRequest(Ix),
         Ix.pos \in Positions, Ix.pool \in Pools, Ix.owner \in Owners,
         NEW position, NEW paidIn \in Nat,
         paidIn = (IF Ix.pool \in LongPools THEN 0 ELSE acc.position[Ix.pos].down_payment),
         position.collateral_amount = Bought(Ix) + paidIn,
         acc'.open_request = [acc.open_request EXCEPT ![Ix.owner] = NoRequest],
         acc'.close_request = acc.close_request,
         acc'.position = [acc.position EXCEPT ![Ix.pos] = position],
         acc'.collateral_vault = acc.collateral_vault
  PROVE  Covered(acc')
<1> DEFINE request == acc.open_request[Ix.owner]
<1>1. /\ acc \in Accounts /\ request \in Requests /\ request.taker_bal_before \in Nat
      /\ acc.collateral_vault[Ix.pool] \in Nat
  BY AccountFields DEF TypeInv, Good, Requests
<1>2. /\ request.pending /\ request.pos = Ix.pos /\ request.pool = Ix.pool
      /\ Bought(Ix) >= 0 /\ Bought(Ix) = acc.collateral_vault[Ix.pool] - request.taker_bal_before
  BY DEF MatchesOpenRequest, Bought
<1>3. /\ acc.position[Ix.pos].collateral_amount = 0 /\ PoolOf[Ix.pos] = Ix.pool
      /\ ClaimedSum(acc, Ix.pool) + paidIn <= request.taker_bal_before
  BY <1>2 DEF CoverInv, Covered, OpeningCovered
<1>4. /\ ClaimedSum(acc, Ix.pool) \in Nat
      /\ ClaimedSum(acc', Ix.pool) = ClaimedSum(acc, Ix.pool) - 0 + (Bought(Ix) + paidIn)
      /\ \A q : q # Ix.pool => ClaimedSum(acc', q) = ClaimedSum(acc, q)
  <2>1. position.collateral_amount \in Nat
    BY <1>1, <1>2
  <2> QED
    BY <1>1, <1>3, <2>1, SumUpdate
<1>5. /\ ~NoRequest.pending
      /\ \A x \in Owners : ~acc'.open_request[x].pending /\ ~acc'.close_request[x].pending
  BY <1>1, <1>2, OneRequest DEF NoRequest, Accounts
<1>6. \A q \in Pools : q # Ix.pool => ~InUse(acc, q)
  BY <1>2, OneRequest DEF InUse
<1>7. ASSUME NEW q \in Pools PROVE ClaimedSum(acc', q) <= acc'.collateral_vault[q]
  <2>1. CASE q = Ix.pool
    BY <1>1, <1>2, <1>3, <1>4, <2>1
  <2>2. CASE q # Ix.pool
    BY <1>4, <1>6, <2>2, BackedIsSum DEF CoverInv, Covered
  <2> QED
    BY <2>1, <2>2
<1>8. \A q \in Pools : Backed(acc', q)
  BY <1>7, BackedIsSum
<1> QED
  BY <1>5, <1>8 DEF Covered, OpeningCovered, ClosingCovered

LEMMA OpenCleanupsCover ==
  ASSUME TypeInv, PairInv, CoverInv, OpenLongPositionCleanup \/ OpenShortPositionCleanup
  PROVE  Covered(acc')
<1>1. acc \in Accounts
  BY DEF TypeInv, Good
<1>2. CASE OpenLongPositionCleanup
  <2> DEFINE position == [acc.position[Ix.pos] EXCEPT !.collateral_amount = Bought(Ix)]
  <2>1. /\ Ix.pos \in Positions /\ Ix.pool \in Pools /\ Ix.owner \in Owners
        /\ MatchesOpenRequest(Ix) /\ Ix.pool \in LongPools
    BY <1>2, IxType DEF TypeInv, OpenLongPositionCleanup
  <2>2. /\ acc'.open_request = [acc.open_request EXCEPT ![Ix.owner] = NoRequest]
        /\ acc'.close_request = acc.close_request
        /\ acc'.position = [acc.position EXCEPT ![Ix.pos] = position]
        /\ acc'.collateral_vault = acc.collateral_vault
    BY <1>1, <1>2, <2>1 DEF OpenLongPositionCleanup, Accounts
  <2>3. /\ acc.open_request[Ix.owner] \in Requests /\ acc.collateral_vault[Ix.pool] \in Nat
        /\ acc.position[Ix.pos] \in PositionRecords
    BY <1>1, <2>1, AccountFields
  <2>4. Bought(Ix) \in Int
    BY <2>3 DEF Bought, Requests
  <2>5. position.collateral_amount = Bought(Ix) + 0
    BY <2>3, <2>4 DEF PositionRecords
  <2> HIDE DEF position
  <2> QED
    BY <2>1, <2>2, <2>5, OpenCleanupCovers
<1>3. CASE OpenShortPositionCleanup
  <2> DEFINE paidIn   == acc.position[Ix.pos].down_payment
             position == [acc.position[Ix.pos] EXCEPT !.principal = Used(Ix),
                                                      !.collateral_amount = Bought(Ix) + paidIn]
  <2>1. /\ Ix.pos \in Positions /\ Ix.pool \in Pools /\ Ix.owner \in Owners
        /\ MatchesOpenRequest(Ix) /\ Ix.pool \notin LongPools
    BY <1>3, IxType DEF TypeInv, OpenShortPositionCleanup
  <2>2. /\ acc'.open_request = [acc.open_request EXCEPT ![Ix.owner] = NoRequest]
        /\ acc'.close_request = acc.close_request
        /\ acc'.position = [acc.position EXCEPT ![Ix.pos] = position]
        /\ acc'.collateral_vault = acc.collateral_vault
    BY <1>1, <1>3, <2>1 DEF OpenShortPositionCleanup, Accounts
  <2>3. acc.position[Ix.pos] \in PositionRecords /\ paidIn \in Nat
    BY <1>1, <2>1, AccountFields DEF PositionRecords
  <2>4. position.collateral_amount = Bought(Ix) + paidIn
    BY <2>3 DEF PositionRecords
  <2> HIDE DEF position
  <2> QED
    BY <2>1, <2>2, <2>3, <2>4, OpenCleanupCovers
<1> QED
  BY <1>2, <1>3

\* A setup that closes caches a balance that covers the whole pool.
LEMMA CloseSetupsCover ==
  ASSUME TypeInv, PairInv, CoverInv, Advances, CloseSetup PROVE Covered(acc')
<1>1. acc \in Accounts /\ tx.running
  BY DEF TypeInv, Good, Advances
<1>2. PICK op, minTarget, interest, fee :
        At(op) /\ ClosePositionSetup(minTarget, interest, fee)
  BY Zenon DEF CloseSetup, CloseLongPositionSetup, CloseShortPositionSetup,
     LiquidatePositionSetup, TakeProfitSetup, StopLossSetup
<1>3. Ix.pos \in Positions /\ Ix.pool \in Pools /\ Ix.owner \in Owners
  BY <1>2, IxType DEF TypeInv
<1>4. Introspected(CleanupOf[Ix.op])
  BY <1>2 DEF ClosePositionSetup
<1>5. Safe(acc)
  BY <1>1, <1>4, SetupStartsSafe
<1>6. \A q \in Pools : Backed(acc, q)
  BY <1>5, SafeCovered DEF CoverInv
<1>7. /\ acc'.position = acc.position /\ acc'.collateral_vault = acc.collateral_vault
      /\ acc'.open_request = acc.open_request
  BY <1>1, <1>2 DEF ClosePositionSetup, Accounts
<1>8. /\ acc'.close_request[Ix.owner].pending /\ acc'.close_request[Ix.owner].pool = Ix.pool
      /\ acc'.close_request[Ix.owner].maker_bal_before = acc.collateral_vault[Ix.pool]
      /\ \A x \in Owners : x # Ix.owner => acc'.close_request[x] = acc.close_request[x]
  BY <1>1, <1>2, <1>3 DEF ClosePositionSetup, Accounts
<1>9. \A q : ClaimedSum(acc', q) = ClaimedSum(acc, q)
  BY <1>7, SumSame
<1>10. ClaimedSum(acc, Ix.pool) <= acc.collateral_vault[Ix.pool]
  BY <1>3, <1>6, BackedIsSum
<1>11. ASSUME NEW o \in Owners PROVE OpeningCovered(acc', o) /\ ClosingCovered(acc', o)
  BY <1>5, <1>7, <1>8, <1>9, <1>10 DEF Safe, OpeningCovered, ClosingCovered
<1>12. \A q \in Pools : Backed(acc', q)
  BY <1>6, <1>7, <1>9, BackedIsSum
<1> QED
  BY <1>11, <1>12 DEF Covered

\* A long's proceeds are handed out to the last unit; a short's all go to the
\* vault, and its fees and its trader are paid from the collateral not spent.
HandedOut(pos, isLong, spent, received, claim, amounts) ==
  /\ amounts.collateral_spent = spent /\ amounts.liquidation_fee <= claim
  /\ IF isLong THEN ToVault(amounts) + PaidOut(amounts) = received
     ELSE ToVault(amounts) = received /\ PaidOut(amounts) = pos.collateral_amount - spent

LEMMA DeductSplit ==
  ASSUME NEW amount \in Nat, NEW claim \in Nat, NEW split, split = Deduct(amount, claim)
  PROVE  /\ split.left \in Nat /\ split.taken \in Nat
         /\ split.left + split.taken = amount /\ split.taken <= claim
  BY DEF Deduct, LesserOf

LEMMA AllHandedOut ==
  ASSUME NEW pos, PositionFields(pos), NEW isLong \in BOOLEAN,
         NEW spent \in Nat, spent <= pos.collateral_amount,
         NEW received \in Nat, NEW interest \in Nat, NEW executionFee \in Nat, NEW claim \in Nat,
         CloseFeeBase(pos, isLong) > 0
  PROVE  HandedOut(pos, isLong, spent, received, claim,
                   CloseAmounts(pos, isLong, spent, received, interest, executionFee, claim))
<1> DEFINE principal == Deduct(received, pos.principal)
           charged == Deduct(principal.left, interest)
           share == VaultShare(pos, isLong, received, interest)
           net == IF isLong THEN share.left ELSE Deduct(pos.collateral_amount, spent).left
           fee == Deduct(net, CloseFee(pos, net, isLong) + executionFee)
           liquidation == Deduct(fee.left, claim)
           amounts == CloseAmounts(pos, isLong, spent, received, interest, executionFee, claim)
<1>1. pos.collateral_amount \in Nat /\ pos.principal \in Nat
  BY DEF PositionFields
<1>2. /\ principal.left \in Nat /\ principal.taken \in Nat
      /\ principal.left + principal.taken = received
  BY <1>1, DeductSplit
<1>3. /\ share.principal_repaid = principal.taken
      /\ share.interest_paid = IF isLong THEN charged.taken ELSE principal.left
      /\ share.left = IF isLong THEN charged.left ELSE 0
  BY DEF VaultShare
<1> HIDE DEF principal, share
<1>4. /\ charged.left \in Nat /\ charged.taken \in Nat
      /\ charged.left + charged.taken = principal.left
  BY <1>2, DeductSplit
<1> HIDE DEF charged
<1>5. net = (IF isLong THEN share.left ELSE pos.collateral_amount - spent) /\ net \in Nat
  BY <1>1, <1>3, <1>4 DEF Deduct
<1> HIDE DEF net
<1>6. CloseFee(pos, net, isLong) \in Nat
  BY <1>5, CloseFeeType
<1>7. PICK due \in Nat : due = CloseFee(pos, net, isLong) + executionFee
  BY <1>6
<1>8. fee.left \in Nat /\ fee.taken \in Nat /\ fee.left + fee.taken = net
  <2>1. fee = Deduct(net, due)
    BY <1>7
  <2> HIDE DEF fee
  <2> QED
    BY <1>5, <2>1, DeductSplit
<1> HIDE DEF fee
<1>9. /\ liquidation.left \in Nat /\ liquidation.taken \in Nat
      /\ liquidation.left + liquidation.taken = fee.left /\ liquidation.taken <= claim
  BY <1>8, DeductSplit
<1> HIDE DEF liquidation
<1>10. /\ amounts.principal_repaid = share.principal_repaid
       /\ amounts.interest_paid = share.interest_paid
       /\ amounts.collateral_spent = spent
       /\ amounts.close_fee = fee.taken /\ amounts.liquidation_fee = liquidation.taken
       /\ amounts.payout = liquidation.left
  BY Zenon DEF CloseAmounts, share, net, fee, liquidation
<1> HIDE DEF amounts
<1>11. PaidOut(amounts) = net
  BY <1>8, <1>9, <1>10 DEF PaidOut
<1>12. HandedOut(pos, isLong, spent, received, claim, amounts)
  <2>1. CASE isLong
    BY <1>2, <1>3, <1>4, <1>5, <1>9, <1>10, <1>11, <2>1 DEF HandedOut, ToVault
  <2>2. CASE ~isLong
    BY <1>2, <1>3, <1>5, <1>9, <1>10, <1>11, <2>2 DEF HandedOut, ToVault
  <2> QED
    BY <2>1, <2>2
<1> QED
  BY <1>12 DEF amounts

LEMMA ClosingHandsOut ==
  ASSUME TypeInv, NEW op, At(op), MatchesCloseRequest(Ix),
         CloseFeeBase(acc.position[Ix.pos], Ix.pool \in LongPools) > 0, NEW fee \in Nat
  PROVE  HandedOut(acc.position[Ix.pos], Ix.pool \in LongPools, Spent(Ix), Received(Ix), fee,
                   AmountsOf(Ix, fee))
<1> DEFINE position == acc.position[Ix.pos]
           request  == acc.close_request[Ix.owner]
           interest == CapInterest(request.interest, InterestDue(Ix.pos))
<1>1. Ix.pos \in Positions /\ Ix.pool \in Pools /\ Ix.owner \in Owners
  BY IxType DEF TypeInv
<1>2. position \in PositionRecords /\ request \in Requests
      /\ acc.collateral_vault[Ix.pool] \in Nat /\ acc.currency_vault[Ix.pool] \in Nat
  BY <1>1, AccountFields DEF TypeInv, TypeOK
<1>3. /\ Spent(Ix) \in Nat /\ Received(Ix) \in Nat
      /\ Spent(Ix) <= position.collateral_amount
  BY <1>2 DEF MatchesCloseRequest, Spent, Received, Requests
<1>4. now - position.last_funding_timestamp \in Nat
  BY <1>1, <1>2 DEF TypeInv, TypeOK, Good, PositionRecords
<1>5. /\ PositionFields(position) /\ settings.max_apy \in Nat
      /\ request.interest \in Nat /\ request.execution_fee \in Nat
  BY <1>2 DEF PositionFields, PositionRecords, Requests, TypeInv, TypeOK
<1>6. InterestDue(Ix.pos) \in Nat
  BY <1>4, <1>5, MaxInterestType DEF InterestDue, PositionFields
<1>7. interest \in Nat
  BY <1>5, <1>6, CapInterestType
<1>8. AmountsOf(Ix, fee)
        = CloseAmounts(position, Ix.pool \in LongPools, Spent(Ix), Received(Ix), interest,
                       request.execution_fee, fee)
  BY Zenon DEF AmountsOf
<1>9. /\ (Ix.pool \in LongPools) \in BOOLEAN
      /\ CloseFeeBase(position, Ix.pool \in LongPools) > 0
  OBVIOUS
<1>10. PositionFields(position) /\ request.execution_fee \in Nat
  BY <1>5
<1> HIDE DEF position, request, interest
<1>11. HandedOut(position, Ix.pool \in LongPools, Spent(Ix), Received(Ix), fee,
         CloseAmounts(position, Ix.pool \in LongPools, Spent(Ix), Received(Ix), interest,
                      request.execution_fee, fee))
  BY <1>3, <1>7, <1>9, <1>10, AllHandedOut, Zenon
<1> QED
  BY <1>8, <1>11, Zenon DEF position

\* A cleanup that closes takes no more from the pool than the position claims.
LEMMA CloseCleanupCovers ==
  ASSUME TypeInv, PairInv, CoverInv, NEW op, At(op), NEW isLiquidation, NEW fee \in Nat,
         ClosePositionCleanup(isLiquidation, AmountsOf(Ix, fee))
  PROVE  Covered(acc')
<1> DEFINE request == acc.close_request[Ix.owner]
           paid == PaidOut(AmountsOf(Ix, fee))
           collateralOut == IF Ix.pool \in LongPools THEN 0 ELSE paid
           claimed == acc.position[Ix.pos].collateral_amount
<1>1. /\ MatchesCloseRequest(Ix)
      /\ CloseFeeBase(acc.position[Ix.pos], Ix.pool \in LongPools) > 0
  BY Zenon DEF ClosePositionCleanup
<1>2. acc \in Accounts /\ Ix.pos \in Positions /\ Ix.pool \in Pools /\ Ix.owner \in Owners
  BY IxType DEF TypeInv, Good
<1>3. /\ request \in Requests /\ request.maker_bal_before \in Nat
      /\ acc.collateral_vault[Ix.pool] \in Nat
      /\ acc.position[Ix.pos] \in PositionRecords /\ claimed \in Nat
  BY <1>2, AccountFields DEF Requests, PositionRecords
<1>4. /\ request.pending /\ request.pool = Ix.pool /\ PoolOf[Ix.pos] = Ix.pool
      /\ Spent(Ix) = request.maker_bal_before - acc.collateral_vault[Ix.pool]
      /\ Spent(Ix) >= 0 /\ Spent(Ix) <= claimed
  BY <1>1 DEF MatchesCloseRequest, Spent
<1>5. Ix.pool \notin LongPools => paid = claimed - Spent(Ix)
  BY <1>1, ClosingHandsOut DEF HandedOut
<1> HIDE DEF paid
<1>6. /\ acc'.collateral_vault = [acc.collateral_vault EXCEPT
             ![Ix.pool] = acc.collateral_vault[Ix.pool] - collateralOut]
      /\ acc'.position = [acc.position EXCEPT ![Ix.pos] = NoPosition]
      /\ acc'.close_request = [acc.close_request EXCEPT ![Ix.owner] = NoRequest]
      /\ acc'.open_request = acc.open_request
  BY <1>2 DEF ClosePositionCleanup, Accounts, paid
<1>7. ClaimedSum(acc, Ix.pool) <= request.maker_bal_before
  BY <1>2, <1>4 DEF CoverInv, Covered, ClosingCovered
<1>8. /\ ClaimedSum(acc, Ix.pool) \in Nat
      /\ ClaimedSum(acc', Ix.pool) = ClaimedSum(acc, Ix.pool) - claimed + 0
      /\ \A q : q # Ix.pool => ClaimedSum(acc', q) = ClaimedSum(acc, q)
  <2>1. NoPosition.collateral_amount = 0
    BY DEF NoPosition
  <2> QED
    BY <1>2, <1>4, <1>6, <2>1, SumUpdate
<1>9. acc'.collateral_vault[Ix.pool] = acc.collateral_vault[Ix.pool] - collateralOut
      /\ \A q \in Pools : q # Ix.pool => acc'.collateral_vault[q] = acc.collateral_vault[q]
  BY <1>2, <1>6 DEF Accounts
<1>10. /\ ~NoRequest.pending
       /\ \A x \in Owners : ~acc'.open_request[x].pending /\ ~acc'.close_request[x].pending
  BY <1>2, <1>4, <1>6, OneRequest DEF NoRequest, Accounts
<1>11. \A q \in Pools : q # Ix.pool => ~InUse(acc, q)
  BY <1>2, <1>4, OneRequest DEF InUse
<1>12. ClaimedSum(acc', Ix.pool) <= acc'.collateral_vault[Ix.pool]
  <2>1. CASE Ix.pool \in LongPools
    BY <1>3, <1>4, <1>7, <1>8, <1>9, <2>1
  <2>2. CASE Ix.pool \notin LongPools
    BY <1>3, <1>4, <1>5, <1>7, <1>8, <1>9, <2>2
  <2> QED
    BY <2>1, <2>2
<1>13. ASSUME NEW q \in Pools PROVE Backed(acc', q)
  <2>1. CASE q = Ix.pool
    BY <1>12, <2>1, BackedIsSum
  <2>2. CASE q # Ix.pool
    <3>1. ClaimedSum(acc, q) <= acc.collateral_vault[q]
      BY <1>11, <2>2, BackedIsSum DEF CoverInv, Covered
    <3>2. ClaimedSum(acc', q) <= acc'.collateral_vault[q]
      BY <1>8, <1>9, <2>2, <3>1
    <3> QED
      BY <3>2, BackedIsSum
  <2> QED
    BY <2>1, <2>2
<1> QED
  BY <1>10, <1>13 DEF Covered, OpeningCovered, ClosingCovered

LEMMA CloseCleanupsCover ==
  ASSUME TypeInv, PairInv, CoverInv, CloseCleanup PROVE Covered(acc')
  BY CleanupClosing, CloseCleanupCovers

\* A claim may come between a setup and its cleanup: it takes from the pool what
\* its own position claims.
LEMMA ClaimCovers == ASSUME TypeInv, PairInv, CoverInv, ClaimPosition PROVE Covered(acc')
<1> DEFINE claimed == acc.position[Ix.pos].collateral_amount
<1>1. acc \in Accounts /\ Ix.pos \in Positions /\ Ix.pool \in Pools
  BY IxType DEF TypeInv, Good, ClaimPosition
<1>2. /\ acc.collateral_vault[Ix.pool] \in Nat /\ claimed \in Nat
      /\ acc.position[Ix.pos].down_payment \in Nat
  BY <1>1, AccountFields DEF PositionRecords
<1>3. PoolOf[Ix.pos] = Ix.pool
  BY Zenon DEF ClaimPosition
<1>4. /\ acc'.collateral_vault = [acc.collateral_vault EXCEPT
             ![Ix.pool] = acc.collateral_vault[Ix.pool] - claimed]
      /\ acc'.position = [acc.position EXCEPT ![Ix.pos] = NoPosition]
      /\ acc'.open_request = acc.open_request /\ acc'.close_request = acc.close_request
  BY <1>1 DEF ClaimPosition, Accounts
<1>5. NoPosition.collateral_amount = 0 /\ NoPosition.down_payment = 0
  BY DEF NoPosition
<1>6. /\ ClaimedSum(acc, Ix.pool) \in Nat
      /\ ClaimedSum(acc', Ix.pool) = ClaimedSum(acc, Ix.pool) - claimed + 0
      /\ \A q : q # Ix.pool => ClaimedSum(acc', q) = ClaimedSum(acc, q)
  BY <1>1, <1>3, <1>4, <1>5, SumUpdate
<1>7. acc'.collateral_vault[Ix.pool] = acc.collateral_vault[Ix.pool] - claimed
      /\ \A q \in Pools : q # Ix.pool => acc'.collateral_vault[q] = acc.collateral_vault[q]
  BY <1>1, <1>4 DEF Accounts
<1>8. ASSUME NEW q \in Pools, ~InUse(acc, q) PROVE Backed(acc', q)
  <2>1. ClaimedSum(acc, q) <= acc.collateral_vault[q]
    BY <1>8, BackedIsSum DEF CoverInv, Covered
  <2>2. ClaimedSum(acc', q) <= acc'.collateral_vault[q]
    BY <1>2, <1>6, <1>7, <2>1
  <2> QED
    BY <2>2, BackedIsSum
<1>9. \A q : InUse(acc', q) <=> InUse(acc, q)
  BY <1>4 DEF InUse
<1>10. ASSUME NEW q \in Pools
       PROVE  /\ ClaimedSum(acc', q) \in Int /\ ClaimedSum(acc, q) \in Int
              /\ ClaimedSum(acc', q) <= ClaimedSum(acc, q)
  <2>1. ClaimedSum(acc, q) \in Nat
    BY <1>1, ClaimedType
  <2> QED
    BY <1>2, <1>6, <2>1
<1>11. ASSUME NEW o \in Owners PROVE OpeningCovered(acc', o) /\ ClosingCovered(acc', o)
  <2>1. /\ acc.open_request[o] \in Requests /\ acc.close_request[o] \in Requests
        /\ acc'.open_request[o] = acc.open_request[o]
        /\ acc'.close_request[o] = acc.close_request[o]
    BY <1>1, <1>4, AccountFields
  <2>2. /\ acc.open_request[o].pool \in Pools /\ acc.open_request[o].pos \in Positions
        /\ acc.open_request[o].taker_bal_before \in Nat
        /\ acc.close_request[o].pool \in Pools
        /\ acc.close_request[o].maker_bal_before \in Nat
    BY <2>1 DEF Requests
  <2>3. ASSUME NEW p \in Positions
        PROVE  /\ acc.position[p].down_payment \in Nat
               /\ acc'.position[p].down_payment \in Nat
               /\ acc'.position[p].down_payment <= acc.position[p].down_payment
               /\ acc.position[p].collateral_amount = 0
                    => acc'.position[p].collateral_amount = 0
    <3>1. acc.position[p].down_payment \in Nat
      BY <1>1, AccountFields DEF PositionRecords
    <3>2. acc'.position[p] = IF p = Ix.pos THEN NoPosition ELSE acc.position[p]
      BY <1>1, <1>4 DEF Accounts
    <3> QED
      BY <1>5, <3>1, <3>2
  <2>4. ClosingCovered(acc', o)
    <3> SUFFICES ASSUME acc.close_request[o].pending
                 PROVE  ClaimedSum(acc', acc.close_request[o].pool)
                          <= acc.close_request[o].maker_bal_before
      BY <2>1 DEF ClosingCovered
    <3>1. ClaimedSum(acc, acc.close_request[o].pool) <= acc.close_request[o].maker_bal_before
      BY DEF CoverInv, Covered, ClosingCovered
    <3> QED
      BY <1>10, <2>2, <3>1
  <2>5. OpeningCovered(acc', o)
    <3> DEFINE request == acc.open_request[o]
               before == IF request.pool \in LongPools THEN 0
                         ELSE acc.position[request.pos].down_payment
               after  == IF request.pool \in LongPools THEN 0
                         ELSE acc'.position[request.pos].down_payment
    <3> SUFFICES ASSUME request.pending
                 PROVE  /\ acc'.position[request.pos].collateral_amount = 0
                        /\ PoolOf[request.pos] = request.pool
                        /\ ClaimedSum(acc', request.pool) + after <= request.taker_bal_before
      BY <2>1 DEF OpeningCovered
    <3>1. /\ acc.position[request.pos].collateral_amount = 0
          /\ PoolOf[request.pos] = request.pool
          /\ ClaimedSum(acc, request.pool) + before <= request.taker_bal_before
      BY DEF CoverInv, Covered, OpeningCovered
    <3>2. before \in Nat /\ after \in Nat /\ after <= before
      BY <2>2, <2>3
    <3> HIDE DEF before, after
    <3>3. ClaimedSum(acc', request.pool) + after <= request.taker_bal_before
      BY <1>10, <2>2, <3>1, <3>2
    <3> QED
      BY <2>2, <2>3, <3>1, <3>3
  <2> QED
    BY <2>4, <2>5
<1> QED
  BY <1>8, <1>9, <1>11 DEF Covered

LEMMA FrameInstructionsCover ==
  ASSUME TypeInv, PairInv, CoverInv,
         \/ OrderStep
         \/ \E bought, sold \in SwapAmounts : Other(bought, sold)
         \/ \E amount \in LpAmounts : Deposit(amount) \/ Withdraw(amount)
  PROVE  Covered(acc')
<1>1. /\ acc \in Accounts
      /\ \A q \in Pools : acc.collateral_vault[q] \in Nat /\ acc.collateral_allowance[q] \in Nat
  BY AccountFields DEF TypeInv, Good
<1>2. CASE OrderStep \/ \E amount \in LpAmounts : Deposit(amount) \/ Withdraw(amount)
  <2>1. /\ acc'.position = acc.position /\ acc'.open_request = acc.open_request
        /\ acc'.close_request = acc.close_request
        /\ acc'.collateral_vault = acc.collateral_vault
    <3>1. CASE OrderStep
      <4>1. \E order : \/ acc' = [acc EXCEPT !.take_profit_order[Ix.pos] = order]
                       \/ acc' = [acc EXCEPT !.stop_loss_order[Ix.pos] = order]
        BY <3>1 DEF OrderStep, InitOrUpdateTakeProfitOrder, InitOrUpdateStopLossOrder,
          CloseTakeProfitOrder, CloseStopLossOrder
      <4> QED
        BY <1>1, <4>1 DEF Accounts
    <3>2. CASE \E amount \in LpAmounts : Deposit(amount) \/ Withdraw(amount)
      BY <1>1, <3>2 DEF Deposit, Withdraw, Accounts
    <3> QED
      BY <1>2, <3>1, <3>2
  <2> QED
    BY <1>1, <2>1, FrameCovers
<1>3. ASSUME NEW bought \in SwapAmounts, NEW sold \in SwapAmounts, Other(bought, sold)
      PROVE  Covered(acc')
  <2>1. bought \in Nat /\ sold \in Nat /\ Ix.pool \in Pools
    BY <1>3, IxType, TradingAssumption DEF TypeInv, Other
  <2>2. /\ acc'.position = acc.position /\ acc'.open_request = acc.open_request
        /\ acc'.close_request = acc.close_request
    BY <1>1, <1>3 DEF Other, Accounts
  <2>3. CASE acc'.collateral_vault = [acc.collateral_vault EXCEPT
                ![Ix.pool] = acc.collateral_vault[Ix.pool] + bought]
    <3>1. \A q \in Pools : /\ acc'.collateral_vault[q] \in Nat
                           /\ acc'.collateral_vault[q] >= acc.collateral_vault[q]
      BY <1>1, <2>1, <2>3 DEF Accounts
    <3> QED
      BY <2>2, <3>1, FrameCovers
  <2>4. CASE /\ sold <= acc.collateral_allowance[Ix.pool] /\ sold <= acc.collateral_vault[Ix.pool]
             /\ acc'.collateral_vault = [acc.collateral_vault EXCEPT
                  ![Ix.pool] = acc.collateral_vault[Ix.pool] - sold]
    <3>1. ~InUse(acc, Ix.pool) => sold = 0
      BY <1>1, <2>1, <2>4, AllowanceInUse
    <3>2. ASSUME NEW q \in Pools
          PROVE  /\ acc'.collateral_vault[q] \in Nat
                 /\ ~InUse(acc, q) => acc'.collateral_vault[q] >= acc.collateral_vault[q]
      <4>1. acc'.collateral_vault[q] = IF q = Ix.pool THEN acc.collateral_vault[q] - sold
                                       ELSE acc.collateral_vault[q]
        BY <1>1, <2>1, <2>4 DEF Accounts
      <4> QED
        BY <1>1, <2>1, <2>4, <3>1, <4>1
    <3> QED
      BY <2>2, <3>2, FrameCovers
  <2>5. \/ acc'.collateral_vault = [acc.collateral_vault EXCEPT
              ![Ix.pool] = acc.collateral_vault[Ix.pool] + bought]
        \/ /\ sold <= acc.collateral_allowance[Ix.pool] /\ sold <= acc.collateral_vault[Ix.pool]
           /\ acc'.collateral_vault = [acc.collateral_vault EXCEPT
                ![Ix.pool] = acc.collateral_vault[Ix.pool] - sold]
    BY <1>1, <1>3 DEF Other, Accounts
  <2> QED
    BY <2>3, <2>4, <2>5
<1> QED
  BY <1>2, <1>3

LEMMA StepCovers ==
  ASSUME TypeInv, PairInv, PairInv', CoverInv, [Next]_vars PROVE CoverInv'
<1>1. CASE Instruction
  <2>1. Advances /\ saved' = saved
    BY <1>1, InstructionAdvances DEF Advances, Advance
  <2>2. Covered(acc')
    BY <1>1, <2>1, OpenSetupsCover, OpenCleanupsCover, CloseSetupsCover, CloseCleanupsCover,
       ClaimCovers, FrameInstructionsCover DEF Instruction
  <2>3. Covered(acc)' <=> Covered(acc')
    BY DEF Covered, InUse, Backed, OpeningCovered, ClosingCovered, ClaimedSum, Claimed
  <2> QED
    BY <2>1, <2>2, <2>3 DEF CoverInv, Backed
<1>2. CASE Commit
  <2>1. acc' = acc /\ saved' = acc /\ Safe(acc)
    BY <1>2 DEF Commit, PairInv, Safe
  <2>2. \A q \in Pools : Backed(acc, q)
    BY <2>1, SafeCovered DEF CoverInv
  <2> QED
    BY <2>1, <2>2 DEF CoverInv, Covered, InUse, Backed, OpeningCovered, ClosingCovered,
      ClaimedSum, Claimed
<1>3. CASE Abort
  <2>1. acc' = saved /\ saved' = saved /\ Safe(saved)
    BY <1>3 DEF Abort, PairInv
  <2>2. Covered(saved)
    BY <2>1, SafeCovered DEF CoverInv
  <2> QED
    BY <2>1, <2>2 DEF CoverInv, Covered, InUse, Backed, OpeningCovered, ClosingCovered,
      ClaimedSum, Claimed
<1>4. CASE \/ \E plan \in Plans, signers \in Signings : Begin(plan, signers)
           \/ Tick \/ Administration \/ UNCHANGED vars
  <2>1. acc' = acc /\ saved' = saved
    BY <1>4 DEF Begin, Tick, Administration, SetTradingState, SetMaxApy, SetMaxLeverage,
                SetLiquidationFee, Configure, vars
  <2> QED
    BY <2>1 DEF CoverInv, Covered, InUse, Backed, OpeningCovered, ClosingCovered,
      ClaimedSum, Claimed
<1> QED
  BY <1>1, <1>2, <1>3, <1>4 DEF Next

LEMMA InitCovers == ASSUME Init PROVE CoverInv
<1>1. acc \in Accounts /\ saved = acc
  BY InitType DEF Init, TypeInv, Good
<1>2. Safe(acc)
  BY InitPairs, <1>1 DEF PairInv
<1>3. ASSUME NEW q \in Pools PROVE Backed(acc, q)
  <2>1. acc.collateral_vault[q] = 0 /\ acc.position = [p \in Positions |-> NoPosition]
    BY <1>1 DEF Init
  <2> DEFINE S == {x \in Positions : PoolOf[x] = q}
  <2>2. Claimed(acc, q) \in [S -> Nat]
    BY <1>1, ClaimedType
  <2>3. \A p \in S : Claimed(acc, q)[p] = 0
    BY <2>1 DEF Claimed, NoPosition
  <2> PICK f : f = Claimed(acc, q)
    OBVIOUS
  <2>4. Total(f) = 0
    BY <2>2, <2>3, TotalZero
  <2> QED
    BY <2>1, <2>4, BackedIsSum DEF ClaimedSum
<1> QED
  BY <1>1, <1>2, <1>3, SafeCovered DEF CoverInv

\* As long as no other program invokes a setup: whatever comes between a setup and
\* its cleanup and however many positions share a pool, the pool's vault holds
\* what its positions have recorded.
THEOREM PoolBackedCorrect == Spec /\ []SetupsOnTop => []PoolBacked
<1>1. Init => PairInv /\ CoverInv
  BY InitPairs, InitCovers
<1>2. TypeInv /\ PairInv /\ CoverInv /\ SetupsOnTop /\ [Next]_vars => PairInv' /\ CoverInv'
  BY StepPairs, StepCovers
<1>3. TypeInv /\ PairInv /\ CoverInv => PoolBacked
  <2> SUFFICES ASSUME TypeInv, PairInv, CoverInv, ~tx.running
               PROVE  \A q \in Pools : Backed(acc, q)
    BY DEF PoolBacked
  <2>1. Safe(acc)
    BY DEF PairInv
  <2> QED
    BY <2>1, SafeCovered DEF CoverInv
<1> QED
  BY <1>1, <1>2, <1>3, AlwaysTyped, PTL DEF Spec
-----------------------------------------------------------------------------
(* Exit orders hold for what was exchanged *)

\* Nothing is kept back for a liquidator, so an order's prices are compared
\* with the balances' own differences.
LEMMA OrderSeesExchange ==
  ASSUME TypeInv, NEW op, At(op), NEW isLiquidation, NEW amounts, amounts = AmountsOf(Ix, 0),
         ClosePositionCleanup(isLiquidation, amounts)
  PROVE  /\ Spent(Ix) \in Nat /\ Received(Ix) \in Nat
         /\ Ix.pool \in LongPools => Proceeds(amounts) = Received(Ix)
         /\ Ix.pool \notin LongPools =>
              ToVault(amounts) = Received(Ix) /\ amounts.collateral_spent = Spent(Ix)
<1>1. MatchesCloseRequest(Ix) /\ CloseFeeBase(acc.position[Ix.pos], Ix.pool \in LongPools) > 0
  BY Zenon DEF ClosePositionCleanup
<1>2. amounts \in Amounts
  BY <1>1, AmountsOfType
<1>3. HandedOut(acc.position[Ix.pos], Ix.pool \in LongPools, Spent(Ix), Received(Ix), 0, amounts)
  BY <1>1, ClosingHandsOut
<1>4. Spent(Ix) \in Nat /\ Received(Ix) \in Nat
  <2>1. Ix.pool \in Pools /\ Ix.owner \in Owners
    BY IxType DEF TypeInv
  <2>2. /\ acc.close_request[Ix.owner] \in Requests
        /\ acc.collateral_vault[Ix.pool] \in Nat /\ acc.currency_vault[Ix.pool] \in Nat
    BY <2>1, AccountFields DEF TypeInv, TypeOK
  <2> QED
    BY <1>1, <2>2 DEF MatchesCloseRequest, Spent, Received, Requests
<1>5. amounts.liquidation_fee = 0
  BY <1>2, <1>3 DEF HandedOut, Amounts
<1>6. Ix.pool \in LongPools => Proceeds(amounts) = Received(Ix)
  BY <1>2, <1>3, <1>4, <1>5 DEF HandedOut, Proceeds, ToVault, PaidOut, Amounts
<1> QED
  BY <1>3, <1>4, <1>6 DEF HandedOut

LEMMA OrderType ==
  ASSUME TypeInv, NEW op, At(op)
  PROVE  /\ acc.take_profit_order[Ix.pos] \in OrderRecords
         /\ acc.stop_loss_order[Ix.pos] \in OrderRecords
<1>1. Ix.pos \in Positions /\ acc \in Accounts
  BY IxType DEF TypeInv, Good
<1> QED
  BY <1>1 DEF Accounts

LEMMA TakeProfitMet ==
  ASSUME TypeInv, TakeProfitCleanup
  PROVE  LET order == acc.take_profit_order[Ix.pos] IN
         IF Ix.pool \in LongPools THEN Received(Ix) >= order.taker_amount
         ELSE Spent(Ix) * order.taker_amount <= Received(Ix) * order.maker_amount
<1> PICK order, amounts : order = acc.take_profit_order[Ix.pos] /\ amounts = AmountsOf(Ix, 0)
  OBVIOUS
<1>1. /\ At("take_profit_cleanup") /\ ClosePositionCleanup(FALSE, amounts)
      /\ TargetReached(order, Ix.pool \in LongPools, amounts)
  BY Zenon DEF TakeProfitCleanup
<1>2. order.maker_amount \in Nat /\ order.taker_amount \in Nat
  BY <1>1, OrderType DEF OrderRecords
<1>3. /\ Spent(Ix) \in Nat /\ Received(Ix) \in Nat
      /\ Ix.pool \in LongPools => Proceeds(amounts) = Received(Ix)
      /\ Ix.pool \notin LongPools =>
           ToVault(amounts) = Received(Ix) /\ amounts.collateral_spent = Spent(Ix)
  BY <1>1, OrderSeesExchange
<1>4. CASE Ix.pool \in LongPools
  BY <1>1, <1>3, <1>4 DEF TargetReached
<1>5. CASE Ix.pool \notin LongPools
  <2>1. Received(Ix) * order.maker_amount >= Spent(Ix) * order.taker_amount
    BY <1>1, <1>3, <1>5 DEF TargetReached
  <2>2. Received(Ix) * order.maker_amount \in Nat /\ Spent(Ix) * order.taker_amount \in Nat
    BY <1>2, <1>3, ProductType
  <2> QED
    BY <1>5, <2>1, <2>2
<1> QED
  BY <1>4, <1>5

LEMMA StopLossMet ==
  ASSUME TypeInv, StopLossCleanup
  PROVE  LET order == acc.stop_loss_order[Ix.pos] IN
         IF Ix.pool \in LongPools THEN Received(Ix) <= order.taker_amount
         ELSE Spent(Ix) * order.taker_amount >= Received(Ix) * order.maker_amount
<1> PICK order, amounts : order = acc.stop_loss_order[Ix.pos] /\ amounts = AmountsOf(Ix, 0)
  OBVIOUS
<1>1. /\ At("stop_loss_cleanup") /\ ClosePositionCleanup(FALSE, amounts)
      /\ StopReached(order, Ix.pool \in LongPools, amounts)
  BY Zenon DEF StopLossCleanup
<1>2. order.maker_amount \in Nat /\ order.taker_amount \in Nat
  BY <1>1, OrderType DEF OrderRecords
<1>3. /\ Spent(Ix) \in Nat /\ Received(Ix) \in Nat
      /\ Ix.pool \in LongPools => Proceeds(amounts) = Received(Ix)
      /\ Ix.pool \notin LongPools =>
           ToVault(amounts) = Received(Ix) /\ amounts.collateral_spent = Spent(Ix)
  BY <1>1, OrderSeesExchange
<1>4. CASE Ix.pool \in LongPools
  <2>1. order.taker_amount >= Received(Ix)
    BY <1>1, <1>3, <1>4 DEF StopReached
  <2> QED
    BY <1>2, <1>3, <1>4, <2>1
<1>5. CASE Ix.pool \notin LongPools
  BY <1>1, <1>3, <1>5 DEF StopReached
<1> QED
  BY <1>4, <1>5

\* For every position, order and exchange: an exit order is executed at its own
\* price, measured by what left the pool and what came in, whatever fees and
\* interest the amounts are split into.
THEOREM OrderPriceMetCorrect == Spec => OrderPriceMet
<1>1. TypeInv /\ [Next]_vars =>
        [/\ TakeProfitCleanup =>
              LET order == acc.take_profit_order[Ix.pos] IN
              IF Ix.pool \in LongPools THEN Received(Ix) >= order.taker_amount
              ELSE Spent(Ix) * order.taker_amount <= Received(Ix) * order.maker_amount
         /\ StopLossCleanup =>
              LET order == acc.stop_loss_order[Ix.pos] IN
              IF Ix.pool \in LongPools THEN Received(Ix) <= order.taker_amount
              ELSE Spent(Ix) * order.taker_amount >= Received(Ix) * order.maker_amount]_vars
  BY TakeProfitMet, StopLossMet, Zenon
<1> QED
  BY <1>1, AlwaysTyped, PTL DEF Spec, OrderPriceMet
-----------------------------------------------------------------------------
(* No pool loses currency *)

\* What a pool had before the transaction, on top of which the setup put the
\* principal that a short's cleanup gives back.
OpeningKept(a, o) ==
  LET request == a.open_request[o] IN
  request.pending /\ a.position[request.pos].open =>
    request.maker_bal_before
      >= saved.currency_vault[request.pool] + a.position[request.pos].principal

ClosingKept(a, o) ==
  a.close_request[o].pending =>
    a.close_request[o].taker_bal_before >= saved.currency_vault[a.close_request[o].pool]

\* CurrencyKept speaks of commits only.  Up to there, what a swap may still
\* spend comes on top of what the transaction found, and so do the balances
\* that a pending request has cached, from which its cleanup counts.
Kept(a) ==
  /\ \A q \in Pools : a.currency_vault[q] >= saved.currency_vault[q] + a.currency_allowance[q]
  /\ \A o \in Owners : OpeningKept(a, o) /\ ClosingKept(a, o)

CurrencyInv == tx.running => Kept(acc)

LEMMA CurrencyFields ==
  ASSUME TypeInv, NEW q \in Pools
  PROVE  /\ acc.currency_vault[q] \in Nat /\ acc.currency_allowance[q] \in Nat
         /\ saved.currency_vault[q] \in Nat
  BY AccountFields DEF TypeInv, TypeOK

LEMMA SafeKept ==
  ASSUME NEW a, Safe(a), \A q \in Pools : a.currency_vault[q] >= saved.currency_vault[q]
                                          /\ saved.currency_vault[q] \in Nat
  PROVE  Kept(a)
  BY DEF Safe, Kept, OpeningKept, ClosingKept

\* An instruction that leaves the requests alone, lends to nobody and takes no
\* more currency than it was allowed to.
LEMMA CurrencyFrame ==
  ASSUME TypeInv, Kept(acc),
         acc'.open_request = acc.open_request, acc'.close_request = acc.close_request,
         \A p \in Positions : acc'.position[p] = acc.position[p] \/ ~acc'.position[p].open,
         \A q \in Pools : /\ acc'.currency_vault[q] \in Nat /\ acc'.currency_allowance[q] \in Nat
                          /\ acc'.currency_vault[q] - acc'.currency_allowance[q]
                               >= acc.currency_vault[q] - acc.currency_allowance[q]
  PROVE  Kept(acc')
<1>1. ASSUME NEW q \in Pools
      PROVE  acc'.currency_vault[q] >= saved.currency_vault[q] + acc'.currency_allowance[q]
  <2>1. acc.currency_vault[q] >= saved.currency_vault[q] + acc.currency_allowance[q]
    BY DEF Kept
  <2> QED
    BY <2>1, CurrencyFields
<1>2. ASSUME NEW o \in Owners PROVE OpeningKept(acc', o) /\ ClosingKept(acc', o)
  <2>1. acc.open_request[o].pos \in Positions
    BY AccountFields DEF TypeInv, TypeOK, Requests
  <2> QED
    BY <2>1 DEF Kept, OpeningKept, ClosingKept
<1> QED
  BY <1>1, <1>2 DEF Kept

LEMMA FrameKept == ASSUME TypeInv, FrameStep, Kept(acc) PROVE Kept(acc')
<1>1. acc \in Accounts
  BY DEF TypeInv, Good
<1>2. acc'.open_request = acc.open_request /\ acc'.close_request = acc.close_request
  BY FrameInstructions DEF Frame
<1>3. CASE ClaimPosition
  <2>1. Ix.pos \in Positions
    BY <1>3, IxType DEF TypeInv, ClaimPosition
  <2>2. /\ acc'.position = [acc.position EXCEPT ![Ix.pos] = NoPosition]
        /\ acc'.currency_vault = acc.currency_vault
        /\ acc'.currency_allowance = acc.currency_allowance
    BY <1>1, <1>3 DEF ClaimPosition, Accounts
  <2>3. \A p \in Positions : acc'.position[p] = acc.position[p] \/ ~acc'.position[p].open
    BY <1>1, <2>1, <2>2 DEF NoPosition, Accounts
  <2> QED
    BY <1>2, <2>2, <2>3, CurrencyFields, CurrencyFrame
<1>4. CASE OrderStep
  <2>1. \E order : \/ acc' = [acc EXCEPT !.take_profit_order[Ix.pos] = order]
                   \/ acc' = [acc EXCEPT !.stop_loss_order[Ix.pos] = order]
    BY <1>4 DEF OrderStep, InitOrUpdateTakeProfitOrder, InitOrUpdateStopLossOrder,
      CloseTakeProfitOrder, CloseStopLossOrder
  <2>2. /\ acc'.position = acc.position /\ acc'.currency_vault = acc.currency_vault
        /\ acc'.currency_allowance = acc.currency_allowance
    BY <1>1, <2>1 DEF Accounts
  <2> QED
    BY <1>2, <2>2, CurrencyFields, CurrencyFrame
<1>5. ASSUME NEW bought \in SwapAmounts, NEW sold \in SwapAmounts, Other(bought, sold)
      PROVE  Kept(acc')
  <2>1. bought \in Nat /\ sold \in Nat /\ Ix.pool \in Pools
    BY <1>5, IxType, TradingAssumption DEF TypeInv, Other
  <2>2. acc'.position = acc.position
    BY <1>1, <1>5 DEF Other, Accounts
  <2>3. CASE /\ sold <= acc.currency_allowance[Ix.pool] /\ sold <= acc.currency_vault[Ix.pool]
             /\ acc' = [acc EXCEPT !.currency_vault[Ix.pool] = @ - sold,
                                   !.currency_allowance[Ix.pool] = @ - sold,
                                   !.collateral_vault[Ix.pool] = @ + bought]
    <3>1. /\ acc'.currency_vault =
               [acc.currency_vault EXCEPT ![Ix.pool] = acc.currency_vault[Ix.pool] - sold]
          /\ acc'.currency_allowance =
               [acc.currency_allowance EXCEPT ![Ix.pool] = acc.currency_allowance[Ix.pool] - sold]
      BY <1>1, <2>3 DEF Accounts
    <3>2. ASSUME NEW q \in Pools
          PROVE  /\ acc'.currency_vault[q] \in Nat /\ acc'.currency_allowance[q] \in Nat
                 /\ acc'.currency_vault[q] - acc'.currency_allowance[q]
                      >= acc.currency_vault[q] - acc.currency_allowance[q]
      <4>1. /\ acc'.currency_vault[q] = IF q = Ix.pool THEN acc.currency_vault[q] - sold
                                        ELSE acc.currency_vault[q]
            /\ acc'.currency_allowance[q] = IF q = Ix.pool THEN acc.currency_allowance[q] - sold
                                            ELSE acc.currency_allowance[q]
        BY <1>1, <2>1, <3>1 DEF Accounts
      <4> QED
        BY <2>1, <2>3, <4>1, CurrencyFields
    <3> QED
      BY <1>2, <2>2, <3>2, CurrencyFrame
  <2>4. CASE /\ acc.currency_vault[Ix.pool] + bought <= MaxBalance
             /\ acc' = [acc EXCEPT !.collateral_vault[Ix.pool] = @ - sold,
                                   !.collateral_allowance[Ix.pool] = @ - sold,
                                   !.currency_vault[Ix.pool] = @ + bought]
    <3>1. /\ acc'.currency_vault =
               [acc.currency_vault EXCEPT ![Ix.pool] = acc.currency_vault[Ix.pool] + bought]
          /\ acc'.currency_allowance = acc.currency_allowance
      BY <1>1, <2>4 DEF Accounts
    <3>2. ASSUME NEW q \in Pools
          PROVE  /\ acc'.currency_vault[q] \in Nat /\ acc'.currency_allowance[q] \in Nat
                 /\ acc'.currency_vault[q] - acc'.currency_allowance[q]
                      >= acc.currency_vault[q] - acc.currency_allowance[q]
      <4>1. acc'.currency_vault[q] = IF q = Ix.pool THEN acc.currency_vault[q] + bought
                                     ELSE acc.currency_vault[q]
        BY <1>1, <2>1, <3>1 DEF Accounts
      <4> QED
        BY <2>1, <3>1, <4>1, CurrencyFields
    <3> QED
      BY <1>2, <2>2, <3>2, CurrencyFrame
  <2> QED
    BY <1>5, <2>3, <2>4 DEF Other
<1>6. ASSUME NEW amount \in LpAmounts, Deposit(amount) \/ Withdraw(amount) PROVE Kept(acc')
  <2>1. /\ acc'.position = acc.position /\ acc'.currency_vault = acc.currency_vault
        /\ acc'.currency_allowance = acc.currency_allowance
    BY <1>1, <1>6 DEF Deposit, Withdraw, Accounts
  <2> QED
    BY <1>2, <2>1, CurrencyFields, CurrencyFrame
<1> QED
  BY <1>3, <1>4, <1>5, <1>6 DEF FrameStep

\* A setup that opens puts in what it lends or takes in, and lets the swap
\* spend no more than that.
LEMMA OpenSetupKept ==
  ASSUME TypeInv, PairInv, Advances, MayOpen(Ix), Kept(acc),
         Ix.pos \in Positions, Ix.pool \in Pools, Ix.owner \in Owners,
         NEW swapped \in Nat,
         NEW request, request.pos = Ix.pos, request.pool = Ix.pool,
         request.maker_bal_before = acc.currency_vault[Ix.pool] + swapped,
         NEW position, position.principal \in Nat, position.principal <= swapped,
         acc'.currency_vault = [acc.currency_vault EXCEPT
                                  ![Ix.pool] = acc.currency_vault[Ix.pool] + swapped],
         acc'.currency_allowance = [acc.currency_allowance EXCEPT ![Ix.pool] = swapped],
         acc'.open_request = [acc.open_request EXCEPT ![Ix.owner] = request],
         acc'.close_request = acc.close_request,
         acc'.position = [acc.position EXCEPT ![Ix.pos] = position]
  PROVE  Kept(acc')
<1>1. acc \in Accounts /\ tx.running
  BY DEF TypeInv, Good, Advances
<1>2. Safe(acc)
  BY <1>1, SetupStartsSafe DEF MayOpen
<1>3. \A q \in Pools : acc.currency_vault[q] >= saved.currency_vault[q]
  BY <1>2, CurrencyFields DEF Kept, Safe
<1>4. ASSUME NEW q \in Pools
      PROVE  acc'.currency_vault[q] >= saved.currency_vault[q] + acc'.currency_allowance[q]
  <2>1. acc'.currency_vault[q] = IF q = Ix.pool THEN acc.currency_vault[q] + swapped
                                 ELSE acc.currency_vault[q]
    BY <1>1 DEF Accounts
  <2>2. acc'.currency_allowance[q] = IF q = Ix.pool THEN swapped ELSE 0
    BY <1>1, <1>2 DEF Accounts, Safe
  <2> QED
    BY <1>3, <2>1, <2>2, CurrencyFields
<1>5. /\ acc'.open_request[Ix.owner] = request /\ acc'.position[Ix.pos] = position
      /\ \A x \in Owners : x # Ix.owner => ~acc'.open_request[x].pending
      /\ \A x \in Owners : ~acc'.close_request[x].pending
  BY <1>1, <1>2 DEF Accounts, Safe
<1>6. OpeningKept(acc', Ix.owner)
  <2>1. request.maker_bal_before >= saved.currency_vault[Ix.pool] + position.principal
    BY <1>3, CurrencyFields
  <2> QED
    BY <1>5, <2>1 DEF OpeningKept
<1>7. ASSUME NEW o \in Owners PROVE OpeningKept(acc', o) /\ ClosingKept(acc', o)
  BY <1>5, <1>6 DEF OpeningKept, ClosingKept
<1> QED
  BY <1>4, <1>7 DEF Kept

LEMMA OpenSetupsKeep ==
  ASSUME TypeInv, PairInv, Advances, OpenSetup, Kept(acc) PROVE Kept(acc')
<1>1. acc \in Accounts
  BY DEF TypeInv, Good
<1>2. ASSUME NEW minTarget \in MinTargets, NEW down_payment \in DownPayments,
             NEW principal \in Principals, NEW fee \in Fees,
             OpenLongPositionSetup(minTarget, down_payment, principal, fee)
      PROVE  Kept(acc')
  <2> DEFINE swapped == principal + down_payment
             balance == acc.currency_vault[Ix.pool] + swapped
             position == NewPosition(down_payment, principal, fee)
             request == OpenRequest(Ix, minTarget, swapped, balance,
                                    acc.collateral_vault[Ix.pool])
  <2>1. /\ Ix.pos \in Positions /\ Ix.pool \in Pools /\ Ix.owner \in Owners /\ MayOpen(Ix)
    BY <1>2, IxType DEF TypeInv, OpenLongPositionSetup
  <2>2. /\ acc'.open_request = [acc.open_request EXCEPT ![Ix.owner] = request]
        /\ acc'.close_request = acc.close_request
        /\ acc'.position = [acc.position EXCEPT ![Ix.pos] = position]
        /\ acc'.currency_vault = [acc.currency_vault EXCEPT ![Ix.pool] = balance]
        /\ acc'.currency_allowance = [acc.currency_allowance EXCEPT ![Ix.pool] = swapped]
    BY <1>1, <1>2 DEF OpenLongPositionSetup, Accounts
  <2>3. /\ position.principal = principal /\ principal \in Nat
        /\ swapped \in Nat /\ principal <= swapped
    BY TradingAssumption DEF NewPosition
  <2>4. request.pos = Ix.pos /\ request.pool = Ix.pool /\ request.maker_bal_before = balance
    BY DEF OpenRequest, NoRequest
  <2> HIDE DEF request, position, swapped
  <2> QED
    BY <2>1, <2>2, <2>3, <2>4, OpenSetupKept
<1>3. ASSUME NEW minTarget \in MinTargets, NEW down_payment \in DownPayments,
             NEW principal \in Principals, NEW fee \in Fees,
             OpenShortPositionSetup(minTarget, down_payment, principal, fee)
      PROVE  Kept(acc')
  <2> DEFINE maker == acc.currency_vault[Ix.pool] + principal
             taker == acc.collateral_vault[Ix.pool] + down_payment
             position == NewPosition(down_payment, principal, fee)
             request == OpenRequest(Ix, minTarget, 0, maker, taker)
  <2>1. /\ Ix.pos \in Positions /\ Ix.pool \in Pools /\ Ix.owner \in Owners /\ MayOpen(Ix)
    BY <1>3, IxType DEF TypeInv, OpenShortPositionSetup
  <2>2. /\ acc'.open_request = [acc.open_request EXCEPT ![Ix.owner] = request]
        /\ acc'.close_request = acc.close_request
        /\ acc'.position = [acc.position EXCEPT ![Ix.pos] = position]
        /\ acc'.currency_vault = [acc.currency_vault EXCEPT ![Ix.pool] = maker]
        /\ acc'.currency_allowance = [acc.currency_allowance EXCEPT ![Ix.pool] = principal]
    BY <1>1, <1>3 DEF OpenShortPositionSetup, Accounts
  <2>3. position.principal = principal /\ principal \in Nat /\ principal <= principal
    BY TradingAssumption DEF NewPosition
  <2>4. request.pos = Ix.pos /\ request.pool = Ix.pool /\ request.maker_bal_before = maker
    BY DEF OpenRequest, NoRequest
  <2> HIDE DEF request, position
  <2> QED
    BY <2>1, <2>2, <2>3, <2>4, OpenSetupKept
<1> QED
  BY <1>2, <1>3 DEF OpenSetup

LEMMA CloseSetupsKeep ==
  ASSUME TypeInv, PairInv, Advances, CloseSetup, Kept(acc) PROVE Kept(acc')
<1>1. acc \in Accounts /\ tx.running
  BY DEF TypeInv, Good, Advances
<1>2. PICK op, minTarget, interest, fee :
        At(op) /\ ClosePositionSetup(minTarget, interest, fee)
  BY Zenon DEF CloseSetup, CloseLongPositionSetup, CloseShortPositionSetup,
     LiquidatePositionSetup, TakeProfitSetup, StopLossSetup
<1>3. Ix.pool \in Pools /\ Ix.owner \in Owners
  BY <1>2, IxType DEF TypeInv
<1>4. Introspected(CleanupOf[Ix.op])
  BY <1>2 DEF ClosePositionSetup
<1>5. Safe(acc)
  BY <1>1, <1>4, SetupStartsSafe
<1>6. /\ acc'.currency_vault = acc.currency_vault
      /\ acc'.currency_allowance = acc.currency_allowance
      /\ acc'.open_request = acc.open_request
  BY <1>1, <1>2 DEF ClosePositionSetup, Accounts
<1>7. /\ acc'.close_request[Ix.owner].pool = Ix.pool
      /\ acc'.close_request[Ix.owner].taker_bal_before = acc.currency_vault[Ix.pool]
      /\ \A x \in Owners : x # Ix.owner => acc'.close_request[x] = acc.close_request[x]
  BY <1>1, <1>2, <1>3 DEF ClosePositionSetup, Accounts
<1>8. acc.currency_vault[Ix.pool] >= saved.currency_vault[Ix.pool]
  BY <1>3, <1>5, CurrencyFields DEF Kept, Safe
<1>9. ASSUME NEW o \in Owners PROVE OpeningKept(acc', o) /\ ClosingKept(acc', o)
  BY <1>5, <1>6, <1>7, <1>8 DEF OpeningKept, ClosingKept, Safe
<1> QED
  BY <1>6, <1>9 DEF Kept

\* A cleanup that opens gives back at most the principal of its position.
LEMMA OpenCleanupKept ==
  ASSUME TypeInv, PairInv, MatchesOpenRequest(Ix), Kept(acc),
         Ix.pool \in Pools, Ix.owner \in Owners,
         acc'.open_request = [acc.open_request EXCEPT ![Ix.owner] = NoRequest],
         acc'.close_request = acc.close_request,
         acc'.currency_allowance = [acc.currency_allowance EXCEPT ![Ix.pool] = 0],
         NEW left \in Nat, left >= saved.currency_vault[Ix.pool],
         acc'.currency_vault = [acc.currency_vault EXCEPT ![Ix.pool] = left]
  PROVE  Kept(acc')
<1>1. acc \in Accounts /\ acc.open_request[Ix.owner].pending
  BY DEF TypeInv, Good, MatchesOpenRequest
<1>2. \A x \in Owners : ~acc'.open_request[x].pending /\ ~acc'.close_request[x].pending
  BY <1>1, OneRequest DEF NoRequest, Accounts
<1>3. ASSUME NEW q \in Pools
      PROVE  acc'.currency_vault[q] >= saved.currency_vault[q] + acc'.currency_allowance[q]
  <2>1. /\ acc'.currency_vault[q] = IF q = Ix.pool THEN left ELSE acc.currency_vault[q]
        /\ acc'.currency_allowance[q] = IF q = Ix.pool THEN 0 ELSE acc.currency_allowance[q]
    BY <1>1 DEF Accounts
  <2> QED
    BY <2>1, CurrencyFields DEF Kept
<1> QED
  BY <1>2, <1>3 DEF Kept, OpeningKept, ClosingKept

LEMMA OpenCleanupsKeep ==
  ASSUME TypeInv, PairInv, Kept(acc), OpenLongPositionCleanup \/ OpenShortPositionCleanup
  PROVE  Kept(acc')
<1>1. acc \in Accounts
  BY DEF TypeInv, Good
<1>2. CASE OpenLongPositionCleanup
  <2>1. Ix.pool \in Pools /\ Ix.owner \in Owners /\ MatchesOpenRequest(Ix)
    BY <1>2, IxType DEF TypeInv, OpenLongPositionCleanup
  <2>2. /\ acc'.open_request = [acc.open_request EXCEPT ![Ix.owner] = NoRequest]
        /\ acc'.close_request = acc.close_request
        /\ acc'.currency_allowance = [acc.currency_allowance EXCEPT ![Ix.pool] = 0]
        /\ acc'.currency_vault = acc.currency_vault
    BY <1>1, <1>2 DEF OpenLongPositionCleanup, Accounts
  <2>3. PICK left \in Nat : left = acc.currency_vault[Ix.pool]
    BY <2>1, CurrencyFields
  <2>4. left >= saved.currency_vault[Ix.pool]
    BY <2>1, <2>3, CurrencyFields DEF Kept
  <2>5. acc'.currency_vault = [acc.currency_vault EXCEPT ![Ix.pool] = left]
    BY <1>1, <2>2, <2>3 DEF Accounts
  <2> QED
    BY <2>1, <2>2, <2>4, <2>5, OpenCleanupKept
<1>3. CASE OpenShortPositionCleanup
  <2> DEFINE request   == acc.open_request[Ix.owner]
             principal == acc.position[Ix.pos].principal
  <2>1. /\ Ix.pos \in Positions /\ Ix.pool \in Pools /\ Ix.owner \in Owners
        /\ MatchesOpenRequest(Ix)
    BY <1>3, IxType DEF TypeInv, OpenShortPositionCleanup
  <2>2. /\ acc'.open_request = [acc.open_request EXCEPT ![Ix.owner] = NoRequest]
        /\ acc'.close_request = acc.close_request
        /\ acc'.currency_allowance = [acc.currency_allowance EXCEPT ![Ix.pool] = 0]
        /\ acc'.currency_vault = [acc.currency_vault EXCEPT
             ![Ix.pool] = acc.currency_vault[Ix.pool] - (principal - Used(Ix))]
    BY <1>1, <1>3 DEF OpenShortPositionCleanup, Unused, Accounts
  <2>3. /\ principal \in Nat /\ request.maker_bal_before \in Nat
        /\ acc.currency_vault[Ix.pool] \in Nat /\ saved.currency_vault[Ix.pool] \in Nat
    BY <1>1, <2>1, AccountFields, CurrencyFields DEF PositionRecords, Requests
  <2>4. request.maker_bal_before >= saved.currency_vault[Ix.pool] + principal
    BY <2>1 DEF Kept, OpeningKept, MatchesOpenRequest
  <2> DEFINE left == request.maker_bal_before - principal
  <2>5. left \in Nat /\ left >= saved.currency_vault[Ix.pool]
    BY <2>3, <2>4
  <2>6. acc.currency_vault[Ix.pool] - (principal - Used(Ix)) = left
    BY <2>3 DEF Used
  <2> HIDE DEF left
  <2>7. acc'.currency_vault = [acc.currency_vault EXCEPT ![Ix.pool] = left]
    BY <2>2, <2>6
  <2> QED
    BY <2>1, <2>2, <2>5, <2>7, OpenCleanupKept
<1> QED
  BY <1>2, <1>3

\* A cleanup that closes hands out what has come in since its setup, and that
\* only.
LEMMA CloseCleanupKept ==
  ASSUME TypeInv, PairInv, Advances, Kept(acc), NEW op, At(op), NEW isLiquidation,
         NEW fee \in Nat, ClosePositionCleanup(isLiquidation, AmountsOf(Ix, fee))
  PROVE  Kept(acc')
<1> DEFINE request == acc.close_request[Ix.owner]
           amounts == AmountsOf(Ix, fee)
           isLong  == Ix.pool \in LongPools
           currencyOut == ToVault(amounts) + (IF isLong THEN PaidOut(amounts) ELSE 0)
<1>1. /\ MatchesCloseRequest(Ix)
      /\ CloseFeeBase(acc.position[Ix.pos], Ix.pool \in LongPools) > 0
  BY Zenon DEF ClosePositionCleanup
<1>2. acc \in Accounts /\ Ix.pool \in Pools /\ Ix.owner \in Owners
  BY IxType DEF TypeInv, Good
<1>3. /\ request.taker_bal_before \in Nat /\ acc.currency_vault[Ix.pool] \in Nat
      /\ saved.currency_vault[Ix.pool] \in Nat
  BY <1>2, AccountFields, CurrencyFields DEF Requests
<1>4. /\ request.pending /\ request.pool = Ix.pool
      /\ Received(Ix) = acc.currency_vault[Ix.pool] - request.taker_bal_before
  BY <1>1 DEF MatchesCloseRequest, Received
<1>5. acc'.currency_vault = [acc.currency_vault EXCEPT
        ![Ix.pool] = acc.currency_vault[Ix.pool] - currencyOut]
  BY <1>2 DEF ClosePositionCleanup, Accounts
<1>6. currencyOut = Received(Ix)
  <2>1. HandedOut(acc.position[Ix.pos], isLong, Spent(Ix), Received(Ix), fee, amounts)
    BY <1>1, ClosingHandsOut
  <2>2. amounts \in Amounts
    BY <1>1, AmountsOfType
  <2> HIDE DEF amounts
  <2> QED
    BY <2>1, <2>2 DEF HandedOut, ToVault, Amounts
<1> HIDE DEF currencyOut, amounts
<1>7. acc.currency_vault[Ix.pool] - currencyOut = request.taker_bal_before
  BY <1>3, <1>4, <1>6
<1>8. acc'.currency_vault = [acc.currency_vault EXCEPT ![Ix.pool] = request.taker_bal_before]
  BY <1>5, <1>7
<1>9. request.taker_bal_before >= saved.currency_vault[Ix.pool]
  BY <1>2, <1>4 DEF Kept, ClosingKept
<1>10. ASSUME NEW q \in Pools
       PROVE  acc'.currency_vault[q] >= saved.currency_vault[q]
  <2>1. acc'.currency_vault[q] = IF q = Ix.pool THEN request.taker_bal_before
                                 ELSE acc.currency_vault[q]
    BY <1>2, <1>8 DEF Accounts
  <2>2. acc.currency_vault[q] >= saved.currency_vault[q]
    BY CurrencyFields DEF Kept
  <2> QED
    BY <1>9, <2>1, <2>2
<1>11. Safe(acc')
  BY CloseCleanupPairs
<1> QED
  BY <1>10, <1>11, CurrencyFields, SafeKept

LEMMA InstructionKeeps ==
  ASSUME TypeInv, PairInv, Kept(acc), Instruction PROVE Kept(acc')
<1>1. Advances
  BY InstructionAdvances
<1>2. CASE FrameStep
  BY <1>2, FrameKept
<1>3. CASE CloseCleanup
  BY <1>1, <1>3, CleanupClosing, CloseCleanupKept
<1> QED
  BY <1>1, <1>2, <1>3, OpenSetupsKeep, CloseSetupsKeep, OpenCleanupsKeep
  DEF Instruction, FrameStep

LEMMA StepKeeps ==
  ASSUME TypeInv, PairInv, ConsentInv, CurrencyInv, [Next]_vars PROVE CurrencyInv'
<1> USE DEF CurrencyInv
<1>1. tx.running \in BOOLEAN
  BY DEF TypeInv, TypeOK, Transactions
<1>2. CASE Instruction
  <2>1. Advances /\ tx.running /\ saved' = saved
    BY <1>2, InstructionAdvances DEF Advances, Advance
  <2>2. Kept(acc')
    BY <1>2, <2>1, InstructionKeeps
  <2> QED
    BY <2>1, <2>2 DEF Kept, OpeningKept, ClosingKept
<1>3. ASSUME NEW plan \in Plans, NEW signers \in Signings, Begin(plan, signers)
      PROVE  CurrencyInv'
  <2>1. acc = saved /\ acc' = acc /\ saved' = saved /\ Safe(acc)
    BY <1>3 DEF Begin, ConsentInv, PairInv
  <2>2. Kept(acc)
    BY <2>1, CurrencyFields, SafeKept
  <2> QED
    BY <2>1, <2>2 DEF Kept, OpeningKept, ClosingKept
<1>4. CASE Commit \/ Abort
  BY <1>4 DEF Commit, Abort, Idle
<1>5. CASE Tick \/ Administration \/ UNCHANGED vars
  <2>1. acc' = acc /\ saved' = saved /\ tx'.running = tx.running
    BY <1>5 DEF Tick, Administration, SetTradingState, SetMaxApy, SetMaxLeverage,
                SetLiquidationFee, Configure, vars
  <2> QED
    BY <2>1 DEF Kept, OpeningKept, ClosingKept
<1> QED
  BY <1>2, <1>3, <1>4, <1>5 DEF Next

\* As long as no other program invokes a setup: whatever positions share a pool and
\* whatever is swapped, a committed transaction leaves each pool at least the
\* currency it found there.
THEOREM CurrencyKeptCorrect == Spec /\ []SetupsOnTop => CurrencyKept
<1>1. Init => CurrencyInv
  BY DEF Init, Idle, CurrencyInv
<1>2. TypeInv /\ PairInv /\ ConsentInv /\ CurrencyInv /\ [Next]_vars => CurrencyInv'
  BY StepKeeps
<1>3. TypeInv /\ CurrencyInv /\ [Next]_vars =>
        [Commit => \A q \in Pools : acc.currency_vault[q] >= saved.currency_vault[q]]_vars
  <2> SUFFICES ASSUME TypeInv, CurrencyInv, Commit, NEW q \in Pools
               PROVE  acc.currency_vault[q] >= saved.currency_vault[q]
    OBVIOUS
  <2>1. Kept(acc)
    BY DEF Commit, CurrencyInv
  <2> QED
    BY <2>1, CurrencyFields DEF Kept
<1> QED
  BY <1>1, <1>2, <1>3, AlwaysConsented, PTL DEF Spec, CurrencyKept
=============================================================================
