--------------------------- MODULE Trading_proofs ---------------------------
(* What holds of Trading for every set of traders, pools, positions and     *)
(* submitted transactions.                                                  *)
EXTENDS Trading, TLAPS
-----------------------------------------------------------------------------
(* Arithmetic: no amount of a closing is negative *)

LEMMA ProductType == ASSUME NEW a \in Nat, NEW b \in Nat PROVE a * b \in Nat
  OBVIOUS

LEMMA QuotientType == ASSUME NEW a \in Nat, NEW d \in Nat \ {0} PROVE a \div d \in Nat
  OBVIOUS

LEMMA MaxInterestType ==
  ASSUME NEW principal \in Nat, NEW apy \in Nat, NEW seconds \in Nat
  PROVE  MaxInterest(principal, apy, seconds) \in Nat
<1>1. (principal * apy) * seconds \in Nat
  BY ProductType
<1>2. ((principal * apy) * seconds) \div InterestDenominator \in Nat
  BY <1>1, QuotientType, DenominatorAssumption
<1> QED
  BY <1>2 DEF MaxInterest

LEMMA CapInterestType ==
  ASSUME NEW requested \in Nat, NEW limit \in Nat
  PROVE  CapInterest(requested, limit) \in Nat
  BY DEF CapInterest

LEMMA DeductType ==
  ASSUME NEW amount \in Nat, NEW claim \in Nat
  PROVE  Deduct(amount, claim) \in [left : Nat, taken : Nat]
  BY DEF Deduct, LesserOf

LEMMA LiquidationFeeType ==
  ASSUME NEW down_payment \in Nat, NEW percentage \in Nat
  PROVE  LiquidationFee(down_payment, percentage) \in Nat
  BY ProductType, QuotientType DEF LiquidationFee

\* The fields of a position that a closing reads.
PositionFields(pos) ==
  /\ pos.down_payment \in Nat /\ pos.principal \in Nat
  /\ pos.collateral_amount \in Nat /\ pos.fees_to_be_paid \in Nat

LEMMA CloseFeeType ==
  ASSUME NEW pos, PositionFields(pos), NEW isLong \in BOOLEAN, NEW net \in Nat,
         CloseFeeBase(pos, isLong) > 0
  PROVE  CloseFee(pos, net, isLong) \in Nat
<1> DEFINE whole == (IF isLong THEN pos.principal ELSE pos.collateral_amount) + net
<1>1. whole \in Nat /\ pos.fees_to_be_paid \in Nat
  BY DEF PositionFields
<1>2. CloseFeeBase(pos, isLong) \in Nat \ {0}
  BY DEF PositionFields, CloseFeeBase
<1>3. whole * pos.fees_to_be_paid \in Nat
  BY <1>1, ProductType
<1> HIDE DEF whole
<1>4. (whole * pos.fees_to_be_paid) \div CloseFeeBase(pos, isLong) \in Nat
  BY <1>2, <1>3, QuotientType
<1> QED
  BY <1>4 DEF CloseFee, whole

Amounts == [principal_repaid : Nat, interest_paid : Nat, collateral_spent : Nat,
            close_fee : Nat, liquidation_fee : Nat, payout : Nat]

LEMMA CloseAmountsType ==
  ASSUME NEW pos, PositionFields(pos), NEW isLong \in BOOLEAN,
         NEW spent \in Nat, NEW received \in Nat, NEW interest \in Nat,
         NEW executionFee \in Nat, NEW claim \in Nat,
         CloseFeeBase(pos, isLong) > 0
  PROVE  CloseAmounts(pos, isLong, spent, received, interest, executionFee, claim) \in Amounts
<1> DEFINE share == VaultShare(pos, isLong, received, interest)
           net   == IF isLong THEN share.left ELSE Deduct(pos.collateral_amount, spent).left
           fee   == Deduct(net, CloseFee(pos, net, isLong) + executionFee)
           liquidation == Deduct(fee.left, claim)
<1>1. share \in [principal_repaid : Nat, interest_paid : Nat, left : Nat]
  BY DeductType DEF VaultShare, PositionFields
<1>2. net \in Nat
  BY <1>1, DeductType DEF PositionFields
<1>3. CloseFee(pos, net, isLong) \in Nat
  BY <1>2, CloseFeeType
<1> HIDE DEF share, net
<1>4. CloseFee(pos, net, isLong) + executionFee \in Nat
  BY <1>3
<1>5. fee \in [left : Nat, taken : Nat]
  BY <1>2, <1>4, DeductType, Zenon
<1> HIDE DEF fee
<1>6. liquidation \in [left : Nat, taken : Nat]
  BY <1>5, DeductType
<1> HIDE DEF liquidation
<1>7. CloseAmounts(pos, isLong, spent, received, interest, executionFee, claim)
        = [principal_repaid |-> share.principal_repaid, interest_paid |-> share.interest_paid,
           collateral_spent |-> spent, close_fee |-> fee.taken,
           liquidation_fee |-> liquidation.taken, payout |-> liquidation.left]
  BY Zenon DEF CloseAmounts, share, net, fee, liquidation
<1> QED
  BY <1>1, <1>5, <1>6, <1>7 DEF Amounts
-----------------------------------------------------------------------------
(* Types *)

\* Accounts of the right shape, none of them from the future.
Good(accounts) ==
  /\ accounts \in Accounts
  /\ \A p \in Positions : accounts.position[p].last_funding_timestamp <= now

TypeInv == TypeOK /\ Good(acc) /\ Good(saved)

LEMMA IxType ==
  ASSUME TypeOK, NEW op, At(op)
  PROVE  Ix \in Instructions /\ Ix.pos \in Positions /\ Ix.pool \in Pools
         /\ Ix.owner \in Owners /\ Ix.authority \in Authorities /\ Ix.op = op
<1>1. tx.ixs \in Seq(Instructions) /\ tx.pc \in 1..Len(tx.ixs) /\ Ix.op = op
  BY DEF TypeOK, Transactions, At
<1>2. Ix \in Instructions
  BY <1>1 DEF Ix
<1> QED
  BY <1>1, <1>2 DEF Instructions

LEMMA NoRequestType == NoRequest \in Requests
  BY TradingAssumption DEF NoRequest, Requests

\* One field at a time, an account record stays one.
LEMMA AccountUpdates ==
  ASSUME NEW a \in Accounts
  PROVE  /\ \A v \in Nat : [a EXCEPT !.vault = v] \in Accounts
         /\ \A v \in Nat : [a EXCEPT !.total_assets = v] \in Accounts
         /\ \A q \in Pools, v \in Nat : [a EXCEPT !.currency_vault[q] = v] \in Accounts
         /\ \A q \in Pools, v \in Nat : [a EXCEPT !.collateral_vault[q] = v] \in Accounts
         /\ \A q \in Pools, v \in Nat : [a EXCEPT !.currency_allowance[q] = v] \in Accounts
         /\ \A q \in Pools, v \in Nat : [a EXCEPT !.collateral_allowance[q] = v] \in Accounts
         /\ \A o \in Owners, r \in Requests : [a EXCEPT !.open_request[o] = r] \in Accounts
         /\ \A o \in Owners, r \in Requests : [a EXCEPT !.close_request[o] = r] \in Accounts
         /\ \A p \in Positions, r \in PositionRecords : [a EXCEPT !.position[p] = r] \in Accounts
         /\ \A p \in Positions, r \in OrderRecords :
              /\ [a EXCEPT !.take_profit_order[p] = r] \in Accounts
              /\ [a EXCEPT !.stop_loss_order[p] = r] \in Accounts
<1>1. \A v \in Nat : [a EXCEPT !.vault = v] \in Accounts
  BY DEF Accounts
<1>2. \A v \in Nat : [a EXCEPT !.total_assets = v] \in Accounts
  BY DEF Accounts
<1>3. \A q \in Pools, v \in Nat : [a EXCEPT !.currency_vault[q] = v] \in Accounts
  BY DEF Accounts
<1>4. \A q \in Pools, v \in Nat : [a EXCEPT !.collateral_vault[q] = v] \in Accounts
  BY DEF Accounts
<1>5. \A q \in Pools, v \in Nat : [a EXCEPT !.currency_allowance[q] = v] \in Accounts
  BY DEF Accounts
<1>6. \A q \in Pools, v \in Nat : [a EXCEPT !.collateral_allowance[q] = v] \in Accounts
  BY DEF Accounts
<1>7. \A o \in Owners, r \in Requests : [a EXCEPT !.open_request[o] = r] \in Accounts
  BY DEF Accounts
<1>8. \A o \in Owners, r \in Requests : [a EXCEPT !.close_request[o] = r] \in Accounts
  BY DEF Accounts
<1>9. \A p \in Positions, r \in PositionRecords : [a EXCEPT !.position[p] = r] \in Accounts
  BY DEF Accounts
<1>10. \A p \in Positions, r \in OrderRecords : [a EXCEPT !.take_profit_order[p] = r] \in Accounts
  BY DEF Accounts
<1>11. \A p \in Positions, r \in OrderRecords : [a EXCEPT !.stop_loss_order[p] = r] \in Accounts
  BY DEF Accounts
<1> QED
  BY <1>1, <1>2, <1>3, <1>4, <1>5, <1>6, <1>7, <1>8, <1>9, <1>10, <1>11, Zenon

\* The types of the fields, for citing them without the record.
LEMMA AccountFields ==
  ASSUME NEW a \in Accounts
  PROVE  /\ a.vault \in Nat /\ a.total_assets \in Nat
         /\ \A q \in Pools : /\ a.currency_vault[q] \in Nat /\ a.collateral_vault[q] \in Nat
                             /\ a.currency_allowance[q] \in Nat
                             /\ a.collateral_allowance[q] \in Nat
         /\ \A p \in Positions : a.position[p] \in PositionRecords
         /\ \A o \in Owners : a.open_request[o] \in Requests /\ a.close_request[o] \in Requests
  BY DEF Accounts

LEMMA DepositGood ==
  ASSUME TypeInv, NEW amount \in LpAmounts, Deposit(amount) PROVE Good(acc')
<1> DEFINE a1 == [acc EXCEPT !.vault = acc.vault + amount]
<1>1. acc \in Accounts /\ amount \in Nat /\ acc.vault \in Nat /\ acc.total_assets \in Nat
  BY AccountFields, TradingAssumption DEF TypeInv, Good
<1>2. acc' = [a1 EXCEPT !.total_assets = acc.total_assets + amount]
  BY <1>1 DEF Deposit, Accounts
<1>3. a1 \in Accounts
  BY <1>1, AccountUpdates
<1>4. a1.position = acc.position
  BY <1>1 DEF Accounts
<1> HIDE DEF a1
<1>5. acc' \in Accounts
  BY <1>1, <1>2, <1>3, AccountUpdates
<1>6. acc'.position = acc.position
  BY <1>2, <1>3, <1>4 DEF Accounts
<1> QED
  BY <1>5, <1>6 DEF TypeInv, Good

LEMMA OpenLongSetupGood ==
  ASSUME TypeInv, NEW minTarget \in MinTargets, NEW down_payment \in DownPayments,
         NEW principal \in Principals, NEW fee \in Fees,
         OpenLongPositionSetup(minTarget, down_payment, principal, fee)
  PROVE  Good(acc')
<1> DEFINE swapped == principal + down_payment
           balance == acc.currency_vault[Ix.pool] + swapped
           request == OpenRequest(Ix, minTarget, swapped, balance, acc.collateral_vault[Ix.pool])
           position == NewPosition(down_payment, principal, fee)
           a1 == [acc EXCEPT !.vault = acc.vault - principal]
           a2 == [a1 EXCEPT !.currency_vault[Ix.pool] = balance]
           a3 == [a2 EXCEPT !.currency_allowance[Ix.pool] = swapped]
           a4 == [a3 EXCEPT !.open_request[Ix.owner] = request]
           a5 == [a4 EXCEPT !.position[Ix.pos] = position]
<1>1. /\ Ix.pos \in Positions /\ Ix.pool \in Pools /\ Ix.owner \in Owners
      /\ Ix.authority \in Authorities
  BY IxType DEF TypeInv, OpenLongPositionSetup
<1>2. acc \in Accounts /\ now \in Nat
  BY DEF TypeInv, TypeOK
<1>3. acc.vault - principal \in Nat /\ swapped \in Nat /\ balance \in Nat
  BY <1>1, <1>2, AccountFields, TradingAssumption DEF OpenLongPositionSetup
<1>4. request \in Requests
  BY <1>1, <1>2, <1>3, AccountFields, NoRequestType, TradingAssumption DEF OpenRequest, Requests
<1>5. position \in PositionRecords /\ position.last_funding_timestamp = now
  BY <1>2, TradingAssumption DEF NewPosition, PositionRecords
<1>6. acc' = a5
  BY <1>2 DEF OpenLongPositionSetup, Accounts
<1>7. acc'.position = [acc.position EXCEPT ![Ix.pos] = position]
  BY <1>2, <1>6 DEF Accounts
<1> HIDE DEF swapped, balance, request, position
<1>8. a4 \in Accounts
  BY <1>1, <1>2, <1>3, <1>4, AccountUpdates
<1> HIDE DEF a4
<1>9. acc' \in Accounts
  BY <1>1, <1>5, <1>6, <1>8, AccountUpdates
<1> QED
  BY <1>1, <1>2, <1>5, <1>7, <1>9 DEF TypeInv, Good, Accounts

LEMMA WithdrawGood ==
  ASSUME TypeInv, NEW amount \in LpAmounts, Withdraw(amount) PROVE Good(acc')
<1> DEFINE a1 == [acc EXCEPT !.vault = acc.vault - amount]
<1>1. acc \in Accounts /\ acc.vault - amount \in Nat /\ acc.total_assets - amount \in Nat
  BY AccountFields, TradingAssumption DEF TypeInv, Good, Withdraw
<1>2. acc' = [a1 EXCEPT !.total_assets = acc.total_assets - amount]
  BY <1>1 DEF Withdraw, Accounts
<1>3. a1 \in Accounts
  BY <1>1, AccountUpdates
<1>4. a1.position = acc.position
  BY <1>1 DEF Accounts
<1> HIDE DEF a1
<1>5. acc' \in Accounts
  BY <1>1, <1>2, <1>3, AccountUpdates
<1>6. acc'.position = acc.position
  BY <1>2, <1>3, <1>4 DEF Accounts
<1> QED
  BY <1>5, <1>6 DEF TypeInv, Good

LEMMA OtherGood ==
  ASSUME TypeInv, NEW bought \in SwapAmounts, NEW sold \in SwapAmounts, Other(bought, sold)
  PROVE  Good(acc')
<1>1. acc \in Accounts /\ Ix.pool \in Pools /\ bought \in Nat /\ sold \in Nat
  BY IxType, TradingAssumption DEF TypeInv, Good, Other
<1>2. CASE /\ sold <= acc.currency_allowance[Ix.pool] /\ sold <= acc.currency_vault[Ix.pool]
           /\ acc' = [acc EXCEPT !.currency_vault[Ix.pool] = @ - sold,
                                 !.currency_allowance[Ix.pool] = @ - sold,
                                 !.collateral_vault[Ix.pool] = @ + bought]
  <2> DEFINE a1 == [acc EXCEPT !.currency_vault[Ix.pool] = acc.currency_vault[Ix.pool] - sold]
             a2 == [a1 EXCEPT !.currency_allowance[Ix.pool] =
                                 acc.currency_allowance[Ix.pool] - sold]
             a3 == [a2 EXCEPT !.collateral_vault[Ix.pool] =
                                 acc.collateral_vault[Ix.pool] + bought]
  <2>1. acc' = a3 /\ acc'.position = acc.position
    BY <1>1, <1>2 DEF Accounts
  <2>2. /\ acc.currency_vault[Ix.pool] - sold \in Nat
        /\ acc.currency_allowance[Ix.pool] - sold \in Nat
        /\ acc.collateral_vault[Ix.pool] + bought \in Nat
    BY <1>1, <1>2, AccountFields
  <2>3. a2 \in Accounts
    BY <1>1, <2>2, AccountUpdates
  <2> HIDE DEF a2
  <2>4. acc' \in Accounts
    BY <1>1, <2>1, <2>2, <2>3, AccountUpdates
  <2> QED
    BY <2>1, <2>4 DEF TypeInv, Good
<1>3. CASE /\ sold <= acc.collateral_allowance[Ix.pool] /\ sold <= acc.collateral_vault[Ix.pool]
           /\ acc' = [acc EXCEPT !.collateral_vault[Ix.pool] = @ - sold,
                                 !.collateral_allowance[Ix.pool] = @ - sold,
                                 !.currency_vault[Ix.pool] = @ + bought]
  <2> DEFINE a1 == [acc EXCEPT !.collateral_vault[Ix.pool] =
                                 acc.collateral_vault[Ix.pool] - sold]
             a2 == [a1 EXCEPT !.collateral_allowance[Ix.pool] =
                                 acc.collateral_allowance[Ix.pool] - sold]
             a3 == [a2 EXCEPT !.currency_vault[Ix.pool] = acc.currency_vault[Ix.pool] + bought]
  <2>1. acc' = a3 /\ acc'.position = acc.position
    BY <1>1, <1>3 DEF Accounts
  <2>2. /\ acc.collateral_vault[Ix.pool] - sold \in Nat
        /\ acc.collateral_allowance[Ix.pool] - sold \in Nat
        /\ acc.currency_vault[Ix.pool] + bought \in Nat
    BY <1>1, <1>3, AccountFields
  <2>3. a2 \in Accounts
    BY <1>1, <2>2, AccountUpdates
  <2> HIDE DEF a2
  <2>4. acc' \in Accounts
    BY <1>1, <2>1, <2>2, <2>3, AccountUpdates
  <2> QED
    BY <2>1, <2>4 DEF TypeInv, Good
<1> QED
  BY <1>2, <1>3 DEF Other

LEMMA OpenShortSetupGood ==
  ASSUME TypeInv, NEW minTarget \in MinTargets, NEW down_payment \in DownPayments,
         NEW principal \in Principals, NEW fee \in Fees,
         OpenShortPositionSetup(minTarget, down_payment, principal, fee)
  PROVE  Good(acc')
<1> DEFINE maker == acc.currency_vault[Ix.pool] + principal
           taker == acc.collateral_vault[Ix.pool] + down_payment
           request == OpenRequest(Ix, minTarget, 0, maker, taker)
           position == NewPosition(down_payment, principal, fee)
           a1 == [acc EXCEPT !.vault = acc.vault - principal]
           a2 == [a1 EXCEPT !.currency_vault[Ix.pool] = maker]
           a3 == [a2 EXCEPT !.collateral_vault[Ix.pool] = taker]
           a4 == [a3 EXCEPT !.currency_allowance[Ix.pool] = principal]
           a5 == [a4 EXCEPT !.open_request[Ix.owner] = request]
           a6 == [a5 EXCEPT !.position[Ix.pos] = position]
<1>1. /\ Ix.pos \in Positions /\ Ix.pool \in Pools /\ Ix.owner \in Owners
      /\ Ix.authority \in Authorities
  BY IxType DEF TypeInv, OpenShortPositionSetup
<1>2. acc \in Accounts /\ now \in Nat /\ principal \in Nat
  BY TradingAssumption DEF TypeInv, TypeOK
<1>3. acc.vault - principal \in Nat /\ maker \in Nat /\ taker \in Nat
  BY <1>1, <1>2, AccountFields, TradingAssumption DEF OpenShortPositionSetup
<1>4. request \in Requests
  BY <1>1, <1>2, <1>3, NoRequestType, TradingAssumption DEF OpenRequest, Requests
<1>5. position \in PositionRecords /\ position.last_funding_timestamp = now
  BY <1>2, TradingAssumption DEF NewPosition, PositionRecords
<1>6. acc' = a6
  BY <1>2 DEF OpenShortPositionSetup, Accounts
<1>7. acc'.position = [acc.position EXCEPT ![Ix.pos] = position]
  BY <1>2, <1>6 DEF Accounts
<1> HIDE DEF maker, taker, request, position
<1>8. a3 \in Accounts
  BY <1>1, <1>2, <1>3, AccountUpdates
<1> HIDE DEF a3
<1>9. a5 \in Accounts
  BY <1>1, <1>2, <1>4, <1>8, AccountUpdates
<1> HIDE DEF a5
<1>10. acc' \in Accounts
  BY <1>1, <1>5, <1>6, <1>9, AccountUpdates
<1> QED
  BY <1>1, <1>2, <1>5, <1>7, <1>10 DEF TypeInv, Good, Accounts

LEMMA OpenLongCleanupGood ==
  ASSUME TypeInv, OpenLongPositionCleanup PROVE Good(acc')
<1> DEFINE position == [acc.position[Ix.pos] EXCEPT !.collateral_amount = Bought(Ix)]
           a1 == [acc EXCEPT !.currency_allowance[Ix.pool] = 0]
           a2 == [a1 EXCEPT !.position[Ix.pos] = position]
           a3 == [a2 EXCEPT !.open_request[Ix.owner] = NoRequest]
<1>1. Ix.pos \in Positions /\ Ix.pool \in Pools /\ Ix.owner \in Owners
  BY IxType DEF TypeInv, OpenLongPositionCleanup
<1>2. acc \in Accounts /\ acc.position[Ix.pos] \in PositionRecords
      /\ acc.open_request[Ix.owner] \in Requests /\ acc.collateral_vault[Ix.pool] \in Nat
  BY <1>1, AccountFields DEF TypeInv, TypeOK
<1>3. Bought(Ix) \in Nat
  BY <1>2 DEF OpenLongPositionCleanup, MatchesOpenRequest, Bought, Requests
<1>4. /\ position \in PositionRecords
      /\ position.last_funding_timestamp = acc.position[Ix.pos].last_funding_timestamp
  BY <1>2, <1>3 DEF PositionRecords
<1>5. acc' = a3
  BY <1>1, <1>2 DEF OpenLongPositionCleanup, Accounts
<1>6. acc'.position = [acc.position EXCEPT ![Ix.pos] = position]
  BY <1>2, <1>5 DEF Accounts
<1> HIDE DEF position
<1>7. a2 \in Accounts
  BY <1>1, <1>2, <1>4, AccountUpdates
<1> HIDE DEF a2
<1>8. acc' \in Accounts
  BY <1>1, <1>5, <1>7, NoRequestType, AccountUpdates
<1> QED
  BY <1>1, <1>2, <1>4, <1>6, <1>8 DEF TypeInv, Good, Accounts

LEMMA OpenShortCleanupGood ==
  ASSUME TypeInv, OpenShortPositionCleanup PROVE Good(acc')
<1> DEFINE unused == Unused(acc.position[Ix.pos].principal, Used(Ix))
           collateral == Bought(Ix) + acc.position[Ix.pos].down_payment
           owing    == [acc.position[Ix.pos] EXCEPT !.principal = Used(Ix)]
           position == [owing EXCEPT !.collateral_amount = collateral]
           a1 == [acc EXCEPT !.currency_allowance[Ix.pool] = 0]
           a2 == [a1 EXCEPT !.currency_vault[Ix.pool] = acc.currency_vault[Ix.pool] - unused]
           a3 == [a2 EXCEPT !.vault = acc.vault + unused]
           a4 == [a3 EXCEPT !.position[Ix.pos] = position]
           a5 == [a4 EXCEPT !.open_request[Ix.owner] = NoRequest]
<1>1. Ix.pos \in Positions /\ Ix.pool \in Pools /\ Ix.owner \in Owners
  BY IxType DEF TypeInv, OpenShortPositionCleanup
<1>2. /\ acc \in Accounts /\ acc.position[Ix.pos] \in PositionRecords /\ acc.vault \in Nat
      /\ acc.open_request[Ix.owner] \in Requests
      /\ acc.collateral_vault[Ix.pool] \in Nat /\ acc.currency_vault[Ix.pool] \in Nat
  BY <1>1, AccountFields DEF TypeInv, TypeOK
<1>3. MatchesOpenRequest(Ix)
  BY Zenon DEF OpenShortPositionCleanup
<1>4. Bought(Ix) \in Nat /\ Used(Ix) \in Nat
  BY <1>2, <1>3 DEF MatchesOpenRequest, Bought, Used, Requests
<1>5. unused \in Nat /\ acc.currency_vault[Ix.pool] - unused \in Nat
  BY <1>2, <1>4 DEF OpenShortPositionCleanup, Unused, PositionRecords
<1>6. collateral \in Nat
  BY <1>2, <1>4 DEF PositionRecords
<1>7. acc' = a5
  BY <1>1, <1>2 DEF OpenShortPositionCleanup, Accounts
<1> HIDE DEF unused, collateral
<1>8. /\ position \in PositionRecords
      /\ position.last_funding_timestamp = acc.position[Ix.pos].last_funding_timestamp
  BY <1>2, <1>4, <1>6 DEF PositionRecords
<1>9. acc'.position = [acc.position EXCEPT ![Ix.pos] = position]
  BY <1>2, <1>7 DEF Accounts
<1> HIDE DEF position
<1>10. a2 \in Accounts
  BY <1>1, <1>2, <1>5, AccountUpdates
<1> HIDE DEF a2
<1>11. acc.vault + unused \in Nat
  BY <1>2, <1>5
<1>12. a3 \in Accounts
  BY <1>10, <1>11, AccountUpdates
<1> HIDE DEF a3
<1>13. a4 \in Accounts
  BY <1>1, <1>8, <1>12, AccountUpdates
<1> HIDE DEF a4
<1>14. acc' \in Accounts
  BY <1>1, <1>7, <1>13, NoRequestType, AccountUpdates
<1> QED
  BY <1>1, <1>2, <1>8, <1>9, <1>14 DEF TypeInv, Good, Accounts

LEMMA CloseSetupGood ==
  ASSUME TypeInv, NEW op, At(op), NEW minTarget \in MinTargets, NEW interest \in InterestArgs,
         NEW executionFee \in ExecutionFees, ClosePositionSetup(minTarget, interest, executionFee)
  PROVE  Good(acc')
<1> DEFINE collateral == acc.position[Ix.pos].collateral_amount
           request ==
             [pending |-> TRUE, pos |-> Ix.pos, pool |-> Ix.pool, authority |-> Ix.authority,
              min_target_amount |-> minTarget, max_amount_in |-> collateral,
              maker_bal_before |-> acc.collateral_vault[Ix.pool],
              taker_bal_before |-> acc.currency_vault[Ix.pool],
              interest |-> interest, execution_fee |-> executionFee]
           a1 == [acc EXCEPT !.collateral_allowance[Ix.pool] = collateral]
           a2 == [a1 EXCEPT !.close_request[Ix.owner] = request]
<1>1. /\ Ix.pos \in Positions /\ Ix.pool \in Pools /\ Ix.owner \in Owners
      /\ Ix.authority \in Authorities
  BY IxType DEF TypeInv
<1>2. /\ acc \in Accounts /\ collateral \in Nat
      /\ acc.collateral_vault[Ix.pool] \in Nat /\ acc.currency_vault[Ix.pool] \in Nat
  BY <1>1, AccountFields DEF TypeInv, TypeOK, PositionRecords
<1>3. acc' = a2 /\ acc'.position = acc.position
  BY <1>2 DEF ClosePositionSetup, Accounts
<1> HIDE DEF collateral
<1>4. request \in Requests
  BY <1>1, <1>2, TradingAssumption DEF Requests
<1> HIDE DEF request
<1>5. a1 \in Accounts
  BY <1>1, <1>2, AccountUpdates
<1> HIDE DEF a1
<1>6. acc' \in Accounts
  BY <1>1, <1>3, <1>4, <1>5, AccountUpdates
<1> QED
  BY <1>3, <1>6 DEF TypeInv, Good

\* What a closing's amounts are computed from.
LEMMA AmountsOfType ==
  ASSUME TypeInv, NEW op, At(op), MatchesCloseRequest(Ix),
         CloseFeeBase(acc.position[Ix.pos], Ix.pool \in LongPools) > 0, NEW fee \in Nat
  PROVE  AmountsOf(Ix, fee) \in Amounts
<1> DEFINE position == acc.position[Ix.pos]
           request  == acc.close_request[Ix.owner]
<1>1. Ix.pos \in Positions /\ Ix.pool \in Pools /\ Ix.owner \in Owners
  BY IxType DEF TypeInv
<1>2. position \in PositionRecords /\ request \in Requests
      /\ acc.collateral_vault[Ix.pool] \in Nat /\ acc.currency_vault[Ix.pool] \in Nat
  BY <1>1, AccountFields DEF TypeInv, TypeOK
<1>3. Spent(Ix) \in Nat /\ Received(Ix) \in Nat
  BY <1>2 DEF MatchesCloseRequest, Spent, Received, Requests
<1>4. now - position.last_funding_timestamp \in Nat
  BY <1>1, <1>2 DEF TypeInv, TypeOK, Good, PositionRecords
<1>5. /\ PositionFields(position) /\ settings.max_apy \in Nat
      /\ request.interest \in Nat /\ request.execution_fee \in Nat
  BY <1>2 DEF PositionFields, PositionRecords, Requests, TypeInv, TypeOK
<1>6. InterestDue(Ix.pos) \in Nat
  BY <1>4, <1>5, MaxInterestType DEF InterestDue, PositionFields
<1>7. CapInterest(request.interest, InterestDue(Ix.pos)) \in Nat
  BY <1>5, <1>6, CapInterestType
<1>8. (Ix.pool \in LongPools) \in BOOLEAN
  OBVIOUS
<1>9. CloseAmounts(position, Ix.pool \in LongPools, Spent(Ix), Received(Ix),
        CapInterest(request.interest, InterestDue(Ix.pos)), request.execution_fee, fee)
      \in Amounts
  BY <1>3, <1>5, <1>7, <1>8, CloseAmountsType, Zenon
<1> QED
  BY <1>9, Zenon DEF AmountsOf

LEMMA NoPositionType == NoPosition \in PositionRecords /\ NoPosition.last_funding_timestamp = 0
  BY DEF NoPosition, PositionRecords

LEMMA NoOrderType == NoOrder \in OrderRecords
  BY DEF NoOrder, OrderRecords

LEMMA CloseCleanupGood ==
  ASSUME TypeInv, NEW op, At(op), NEW isLiquidation, NEW amounts \in Amounts,
         ClosePositionCleanup(isLiquidation, amounts)
  PROVE  Good(acc')
<1> DEFINE isLong == Ix.pool \in LongPools
           total == TotalAssetsAfter(acc.position[Ix.pos].principal, amounts)
           currencyOut == ToVault(amounts) + (IF isLong THEN PaidOut(amounts) ELSE 0)
           collateralOut == IF isLong THEN 0 ELSE PaidOut(amounts)
           vault == acc.vault + ToVault(amounts)
           currency == acc.currency_vault[Ix.pool] - currencyOut
           collateral == acc.collateral_vault[Ix.pool] - collateralOut
           takeProfit == IF Ix.op = "take_profit_cleanup" THEN NoOrder
                         ELSE acc.take_profit_order[Ix.pos]
           stopLoss == IF Ix.op = "stop_loss_cleanup" THEN NoOrder
                       ELSE acc.stop_loss_order[Ix.pos]
           a1 == [acc EXCEPT !.collateral_allowance[Ix.pool] = 0]
           a2 == [a1 EXCEPT !.total_assets = total]
           a3 == [a2 EXCEPT !.vault = vault]
           a4 == [a3 EXCEPT !.currency_vault[Ix.pool] = currency]
           a5 == [a4 EXCEPT !.collateral_vault[Ix.pool] = collateral]
           a6 == [a5 EXCEPT !.position[Ix.pos] = NoPosition]
           a7 == [a6 EXCEPT !.close_request[Ix.owner] = NoRequest]
           a8 == [a7 EXCEPT !.take_profit_order[Ix.pos] = takeProfit]
           a9 == [a8 EXCEPT !.stop_loss_order[Ix.pos] = stopLoss]
<1>1. Ix.pos \in Positions /\ Ix.pool \in Pools /\ Ix.owner \in Owners
  BY IxType DEF TypeInv
<1>2. /\ acc \in Accounts /\ acc.vault \in Nat
      /\ acc.collateral_vault[Ix.pool] \in Nat /\ acc.currency_vault[Ix.pool] \in Nat
  BY <1>1, AccountFields DEF TypeInv, TypeOK
<1>3. ToVault(amounts) \in Nat /\ PaidOut(amounts) \in Nat
  BY DEF Amounts, ToVault, PaidOut
<1>4. /\ total \in 0..MaxBalance
      /\ currencyOut <= acc.currency_vault[Ix.pool]
      /\ collateralOut <= acc.collateral_vault[Ix.pool]
  BY Zenon DEF ClosePositionCleanup
<1>5. acc' = a9
  BY <1>2 DEF ClosePositionCleanup, Accounts
<1>6. acc'.position = [acc.position EXCEPT ![Ix.pos] = NoPosition]
  BY <1>2, <1>5 DEF Accounts
<1>7. vault \in Nat /\ currency \in Nat /\ collateral \in Nat /\ total \in Nat
  BY <1>2, <1>3, <1>4, TradingAssumption
<1>8. takeProfit \in OrderRecords /\ stopLoss \in OrderRecords
  BY <1>1, <1>2, NoOrderType DEF Accounts
<1> HIDE DEF total, vault, currency, collateral, takeProfit, stopLoss
<1>9. a3 \in Accounts
  <2>1. a1 \in Accounts
    BY <1>1, <1>2, AccountUpdates
  <2> HIDE DEF a1
  <2>2. a2 \in Accounts
    BY <1>7, <2>1, AccountUpdates
  <2> HIDE DEF a2
  <2> QED
    BY <1>7, <2>2, AccountUpdates
<1> HIDE DEF a3
<1>10. a6 \in Accounts
  <2>1. a4 \in Accounts
    BY <1>1, <1>7, <1>9, AccountUpdates
  <2> HIDE DEF a4
  <2>2. a5 \in Accounts
    BY <1>1, <1>7, <2>1, AccountUpdates
  <2> HIDE DEF a5
  <2> QED
    BY <1>1, <2>2, NoPositionType, AccountUpdates
<1> HIDE DEF a6
<1>11. a9 \in Accounts
  <2>1. a7 \in Accounts
    BY <1>1, <1>10, NoRequestType, AccountUpdates
  <2> HIDE DEF a7
  <2>2. a8 \in Accounts
    BY <1>1, <1>8, <2>1, AccountUpdates
  <2> HIDE DEF a8
  <2> QED
    BY <1>1, <1>8, <2>2, AccountUpdates
<1> HIDE DEF a9
<1> QED
  BY <1>1, <1>2, <1>5, <1>6, <1>11, NoPositionType DEF TypeInv, TypeOK, Good, Accounts

LEMMA CloseCleanupsGood == ASSUME TypeInv, CloseCleanup PROVE Good(acc')
<1>1. CASE CloseLongPositionCleanup
  <2>1. AmountsOf(Ix, 0) \in Amounts
    BY <1>1, AmountsOfType DEF CloseLongPositionCleanup, ClosePositionCleanup
  <2> QED
    BY <1>1, <2>1, CloseCleanupGood DEF CloseLongPositionCleanup
<1>2. CASE CloseShortPositionCleanup
  <2>1. AmountsOf(Ix, 0) \in Amounts
    BY <1>2, AmountsOfType DEF CloseShortPositionCleanup, ClosePositionCleanup
  <2> QED
    BY <1>2, <2>1, CloseCleanupGood DEF CloseShortPositionCleanup
<1>3. CASE LiquidatePositionCleanup
  <2> DEFINE fee == LiquidationFee(acc.position[Ix.pos].down_payment, settings.liquidation_fee)
  <2>1. At("liquidate_position_cleanup") /\ ClosePositionCleanup(TRUE, AmountsOf(Ix, fee))
    BY <1>3, Zenon DEF LiquidatePositionCleanup
  <2>2. acc.position[Ix.pos].down_payment \in Nat /\ settings.liquidation_fee \in Nat
    BY <2>1, IxType, AccountFields DEF TypeInv, TypeOK, PositionRecords
  <2>3. fee \in Nat
    BY <2>2, LiquidationFeeType
  <2> HIDE DEF fee
  <2>4. AmountsOf(Ix, fee) \in Amounts
    BY <2>1, <2>3, AmountsOfType DEF ClosePositionCleanup
  <2> QED
    BY <2>1, <2>4, CloseCleanupGood
<1>4. CASE TakeProfitCleanup
  <2>1. At("take_profit_cleanup") /\ ClosePositionCleanup(FALSE, AmountsOf(Ix, 0))
    BY <1>4, Zenon DEF TakeProfitCleanup
  <2>2. AmountsOf(Ix, 0) \in Amounts
    BY <2>1, AmountsOfType DEF ClosePositionCleanup
  <2> QED
    BY <2>1, <2>2, CloseCleanupGood
<1>5. CASE StopLossCleanup
  <2>1. At("stop_loss_cleanup") /\ ClosePositionCleanup(FALSE, AmountsOf(Ix, 0))
    BY <1>5, Zenon DEF StopLossCleanup
  <2>2. AmountsOf(Ix, 0) \in Amounts
    BY <2>1, AmountsOfType DEF ClosePositionCleanup
  <2> QED
    BY <2>1, <2>2, CloseCleanupGood
<1> QED
  BY <1>1, <1>2, <1>3, <1>4, <1>5 DEF CloseCleanup

LEMMA ClaimGood == ASSUME TypeInv, ClaimPosition PROVE Good(acc')
<1> DEFINE interest == InterestDue(Ix.pos)
           vault == acc.vault + acc.position[Ix.pos].principal + interest
           total == acc.total_assets + interest
           collateral == acc.collateral_vault[Ix.pool] - acc.position[Ix.pos].collateral_amount
           a1 == [acc EXCEPT !.vault = vault]
           a2 == [a1 EXCEPT !.total_assets = total]
           a3 == [a2 EXCEPT !.collateral_vault[Ix.pool] = collateral]
           a4 == [a3 EXCEPT !.position[Ix.pos] = NoPosition]
<1>1. Ix.pos \in Positions /\ Ix.pool \in Pools
  BY IxType DEF TypeInv, ClaimPosition
<1>2. /\ acc \in Accounts /\ acc.vault \in Nat /\ acc.total_assets \in Nat
      /\ acc.collateral_vault[Ix.pool] \in Nat /\ acc.position[Ix.pos] \in PositionRecords
  BY <1>1, AccountFields DEF TypeInv, TypeOK
<1>3. now - acc.position[Ix.pos].last_funding_timestamp \in Nat /\ settings.max_apy \in Nat
  BY <1>1, <1>2 DEF TypeInv, TypeOK, Good, PositionRecords
<1>4. interest \in Nat
  BY <1>2, <1>3, MaxInterestType DEF InterestDue, PositionRecords
<1>5. acc' = a4
  BY <1>2 DEF ClaimPosition, Accounts
<1>6. acc'.position = [acc.position EXCEPT ![Ix.pos] = NoPosition]
  BY <1>2, <1>5 DEF Accounts
<1>7. acc.position[Ix.pos].collateral_amount <= acc.collateral_vault[Ix.pool]
  BY Zenon DEF ClaimPosition
<1> HIDE DEF interest
<1>8. vault \in Nat /\ total \in Nat /\ collateral \in Nat
  BY <1>2, <1>4, <1>7 DEF PositionRecords
<1> HIDE DEF vault, total, collateral
<1>9. a2 \in Accounts
  BY <1>2, <1>8, AccountUpdates
<1> HIDE DEF a2
<1>10. a3 \in Accounts
  BY <1>1, <1>8, <1>9, AccountUpdates
<1> HIDE DEF a3
<1>11. acc' \in Accounts
  BY <1>1, <1>5, <1>10, NoPositionType, AccountUpdates
<1> QED
  BY <1>1, <1>2, <1>6, <1>11, NoPositionType DEF TypeInv, TypeOK, Good, Accounts

LEMMA OrdersGood == ASSUME TypeInv, OrderStep PROVE Good(acc')
<1>1. acc \in Accounts
  BY DEF TypeInv, Good
<1>2. Ix.pos \in Positions
  BY IxType DEF TypeInv, OrderStep, InitOrUpdateTakeProfitOrder, InitOrUpdateStopLossOrder,
                CloseTakeProfitOrder, CloseStopLossOrder
<1>3. \A price \in OrderPrices : NewOrder(price) \in OrderRecords
  BY TradingAssumption DEF NewOrder, OrderRecords
<1>4. \E order \in OrderRecords : \/ acc' = [acc EXCEPT !.take_profit_order[Ix.pos] = order]
                                  \/ acc' = [acc EXCEPT !.stop_loss_order[Ix.pos] = order]
  BY <1>3, NoOrderType
  DEF OrderStep, InitOrUpdateTakeProfitOrder, InitOrUpdateStopLossOrder,
      CloseTakeProfitOrder, CloseStopLossOrder
<1>5. \A order \in OrderRecords :
        /\ [acc EXCEPT !.take_profit_order[Ix.pos] = order] \in Accounts
        /\ [acc EXCEPT !.stop_loss_order[Ix.pos] = order] \in Accounts
  BY <1>1, <1>2, AccountUpdates, Zenon
<1>6. acc' \in Accounts
  BY <1>4, <1>5, Zenon
<1>7. acc'.position = acc.position
  BY <1>1, <1>4 DEF Accounts
<1> QED
  BY <1>6, <1>7 DEF TypeInv, Good

LEMMA InstructionGood == ASSUME TypeInv, Instruction PROVE Good(acc')
<1>1. CASE OpenSetup
  BY <1>1, OpenLongSetupGood, OpenShortSetupGood DEF OpenSetup
<1>2. CASE OpenLongPositionCleanup
  BY <1>2, OpenLongCleanupGood
<1>3. CASE OpenShortPositionCleanup
  BY <1>3, OpenShortCleanupGood
<1>4. CASE CloseSetup
  BY <1>4, CloseSetupGood
  DEF CloseSetup, CloseLongPositionSetup, CloseShortPositionSetup, LiquidatePositionSetup,
      TakeProfitSetup, StopLossSetup
<1>5. CASE CloseCleanup
  BY <1>5, CloseCleanupsGood
<1>6. CASE ClaimPosition
  BY <1>6, ClaimGood
<1>7. CASE OrderStep
  BY <1>7, OrdersGood
<1>8. CASE \E bought, sold \in SwapAmounts : Other(bought, sold)
  BY <1>8, OtherGood
<1>9. CASE \E amount \in LpAmounts : Deposit(amount) \/ Withdraw(amount)
  BY <1>9, DepositGood, WithdrawGood
<1> QED
  BY <1>1, <1>2, <1>3, <1>4, <1>5, <1>6, <1>7, <1>8, <1>9 DEF Instruction

\* Every instruction names what is next and touches nothing outside the
\* accounts but the place in the transaction.
Advances == tx.running /\ tx.pc <= Len(tx.ixs) /\ Advance

LEMMA InstructionAdvances == ASSUME Instruction PROVE Advances
<1>1. CASE CloseSetup
  BY <1>1 DEF CloseSetup, CloseLongPositionSetup, CloseShortPositionSetup,
     LiquidatePositionSetup, TakeProfitSetup, StopLossSetup, ClosePositionSetup, At, Advances
<1>2. CASE CloseCleanup
  BY <1>2, Zenon DEF CloseCleanup, CloseLongPositionCleanup, CloseShortPositionCleanup,
     LiquidatePositionCleanup, TakeProfitCleanup, StopLossCleanup, ClosePositionCleanup, At,
     Advances
<1>3. ASSUME NEW minTarget, NEW down_payment, NEW principal, NEW fee,
             OpenLongPositionSetup(minTarget, down_payment, principal, fee)
      PROVE  Advances
  BY <1>3, Zenon DEF OpenLongPositionSetup, At, Advances
<1>4. ASSUME NEW minTarget, NEW down_payment, NEW principal, NEW fee,
             OpenShortPositionSetup(minTarget, down_payment, principal, fee)
      PROVE  Advances
  BY <1>4, Zenon DEF OpenShortPositionSetup, At, Advances
<1>5. CASE OpenSetup
  BY <1>3, <1>4, <1>5, Zenon DEF OpenSetup
<1>6. CASE OpenLongPositionCleanup
  BY <1>6, Zenon DEF OpenLongPositionCleanup, At, Advances
<1>7. CASE OpenShortPositionCleanup
  BY <1>7, Zenon DEF OpenShortPositionCleanup, At, Advances
<1>8. CASE OrderStep \/ ClaimPosition
  BY <1>8, Zenon DEF OrderStep, InitOrUpdateTakeProfitOrder, InitOrUpdateStopLossOrder,
     CloseTakeProfitOrder, CloseStopLossOrder, ClaimPosition, At, Advances
<1>9. CASE \E bought, sold \in SwapAmounts : Other(bought, sold)
  BY <1>9, Zenon DEF Other, At, Advances
<1>10. CASE \E amount \in LpAmounts : Deposit(amount) \/ Withdraw(amount)
  BY <1>10, Zenon DEF Deposit, Withdraw, At, Advances
<1> QED
  BY <1>1, <1>2, <1>3, <1>4, <1>5, <1>6, <1>7, <1>8, <1>9, <1>10 DEF Instruction

LEMMA InitType == ASSUME Init PROVE TypeInv
<1>1. PICK assets \in InitialAssets :
        acc = [vault |-> assets, total_assets |-> assets,
               currency_vault |-> [q \in Pools |-> 0], collateral_vault |-> [q \in Pools |-> 0],
               currency_allowance |-> [q \in Pools |-> 0],
               collateral_allowance |-> [q \in Pools |-> 0],
               position |-> [p \in Positions |-> NoPosition],
               open_request |-> [o \in Owners |-> NoRequest],
               close_request |-> [o \in Owners |-> NoRequest],
               take_profit_order |-> [p \in Positions |-> NoOrder],
               stop_loss_order |-> [p \in Positions |-> NoOrder]]
  BY DEF Init
<1>2. assets \in Nat
  BY TradingAssumption
<1>3. acc \in Accounts
  BY <1>1, <1>2, NoPositionType, NoRequestType, NoOrderType DEF Accounts
<1>4. now = 0 /\ saved = acc
  BY DEF Init
<1>5. \A p \in Positions : acc.position[p].last_funding_timestamp <= now
  BY <1>1, <1>4, NoPositionType
<1>6. tx \in Transactions
  BY DEF Init, Idle, Transactions
<1>7. settings \in [can_trade : BOOLEAN, max_apy : Nat, max_leverage : Nat,
                    liquidation_fee : Nat]
  BY TradingAssumption DEF Init
<1> QED
  BY <1>3, <1>4, <1>5, <1>6, <1>7 DEF TypeInv, TypeOK, Good

LEMMA StepType == ASSUME TypeInv, [Next]_vars PROVE TypeInv'
<1> USE DEF TypeInv
<1>1. ASSUME NEW plan \in Plans, NEW signers \in Signings, Begin(plan, signers)
      PROVE  TypeInv'
  BY <1>1, PlansAssumption DEF Begin, TypeOK, Good, Transactions
<1>2. CASE Instruction
  <2>1. Good(acc')
    BY <1>2, InstructionGood
  <2>2. tx.pc \in Nat \ {0} /\ tx \in Transactions
    BY DEF TypeOK, Transactions
  <2>3. tx' = [tx EXCEPT !.pc = tx.pc + 1] /\ UNCHANGED <<saved, now, settings>>
    BY <1>2, InstructionAdvances, <2>2 DEF Advances, Advance, Transactions
  <2>4. tx' \in Transactions
    BY <2>2, <2>3 DEF Transactions
  <2> QED
    BY <2>1, <2>3, <2>4 DEF TypeOK, Good
<1>3. CASE Commit
  BY <1>3 DEF Commit, TypeOK, Good, Idle, Transactions
<1>4. CASE Abort
  BY <1>4 DEF Abort, TypeOK, Good, Idle, Transactions
<1>5. CASE Tick
  <2>1. now \in Nat /\ now' = now + 1 /\ UNCHANGED <<acc, saved, tx, settings>>
    BY <1>5 DEF Tick, TypeOK
  <2>2. \A p \in Positions : /\ acc.position[p].last_funding_timestamp \in Nat
                             /\ saved.position[p].last_funding_timestamp \in Nat
    BY AccountFields DEF TypeOK, PositionRecords
  <2> QED
    BY <2>1, <2>2 DEF TypeOK, Good
<1>6. CASE Administration
  BY <1>6, TradingAssumption
  DEF Administration, SetTradingState, SetMaxApy, SetMaxLeverage, SetLiquidationFee,
      Configure, TypeOK, Good
<1>7. CASE UNCHANGED vars
  BY <1>7 DEF vars, TypeOK, Good
<1> QED
  BY <1>1, <1>2, <1>3, <1>4, <1>5, <1>6, <1>7 DEF Next

LEMMA AlwaysTyped == Spec => []TypeInv
<1>1. Init => TypeInv
  BY InitType
<1>2. TypeInv /\ [Next]_vars => TypeInv'
  BY StepType
<1> QED
  BY <1>1, <1>2, PTL DEF Spec

\* Whatever transactions are submitted, no balance, debt, order or request ever
\* leaves its type: no subtraction of a handler goes below zero.
THEOREM TypeCorrect == Spec => []TypeOK
<1>1. TypeInv => TypeOK
  BY DEF TypeInv
<1> QED
  BY <1>1, AlwaysTyped, PTL
-----------------------------------------------------------------------------
(* Setups and cleanups pair up *)

OpenCleanups  == {"open_long_position_cleanup", "open_short_position_cleanup"}
CloseCleanups == {CleanupOf[s] : s \in CloseSetups}

\* Nothing is pending and nobody may spend a pool's tokens.
Safe(accounts) ==
  /\ \A o \in Owners : ~accounts.open_request[o].pending /\ ~accounts.close_request[o].pending
  /\ \A q \in Pools : accounts.currency_allowance[q] = 0 /\ accounts.collateral_allowance[q] = 0

\* The one request that is pending is o's, to open a position; its cleanup is
\* still to come, and only its pool has an allowance.
OpenPending(o) ==
  /\ acc.open_request[o].pending
  /\ \A x \in Owners : /\ acc.open_request[x].pending => x = o
                       /\ ~acc.close_request[x].pending
  /\ \A q \in Pools : /\ acc.collateral_allowance[q] = 0
                      /\ q # acc.open_request[o].pool => acc.currency_allowance[q] = 0
  /\ \E k \in tx.pc..Len(tx.ixs) : tx.ixs[k].op \in OpenCleanups

\* Likewise to close one.
ClosePending(o) ==
  /\ acc.close_request[o].pending
  /\ \A x \in Owners : /\ acc.close_request[x].pending => x = o
                       /\ ~acc.open_request[x].pending
  /\ \A q \in Pools : /\ acc.currency_allowance[q] = 0
                      /\ q # acc.close_request[o].pool => acc.collateral_allowance[q] = 0
  /\ \E k \in tx.pc..Len(tx.ixs) : tx.ixs[k].op \in CloseCleanups

\* A setup refuses to run behind any of these.
SetupBehind ==
  \E i \in 1..(tx.pc - 1) : tx.ixs[i].top /\ tx.ixs[i].op \notin {"other"} \cup OrderClosings

\* NothingOutlivesTx is not inductive: while a transaction runs, what is
\* pending needs a cleanup still to come, and there is at most one request
\* because a setup that introspection sees has run before the current instruction.
PairInv ==
  /\ Safe(saved)
  /\ ~tx.running => Safe(acc)
  /\ tx.running => \/ Safe(acc)
                   \/ SetupBehind /\ \E o \in Owners : OpenPending(o) \/ ClosePending(o)

LEMMA AdvanceFields ==
  ASSUME TypeInv, Advances
  PROVE  /\ tx.pc \in Nat \ {0} /\ tx.ixs \in Seq(Instructions) /\ Len(tx.ixs) \in Nat
         /\ tx'.running /\ tx'.ixs = tx.ixs /\ tx'.pc = tx.pc + 1
         /\ saved' = saved
         /\ Ix = tx.ixs[tx.pc]
<1>1. tx \in Transactions /\ tx.running
  BY DEF TypeInv, TypeOK, Advances
<1>2. tx' = [tx EXCEPT !.pc = tx.pc + 1] /\ saved' = saved
  BY <1>1 DEF Advances, Advance, Transactions
<1>3. tx.ixs \in Seq(Instructions) /\ Len(tx.ixs) \in Nat
  BY <1>1 DEF Transactions
<1> QED
  BY <1>1, <1>2, <1>3 DEF Transactions, Ix

\* An instruction that leaves the requests alone and raises no allowance.
Frame ==
  /\ Ix.op \notin OpenCleanups \cup CloseCleanups
  /\ acc'.open_request = acc.open_request /\ acc'.close_request = acc.close_request
  /\ \A q \in Pools :
       /\ acc.currency_allowance[q] = 0 => acc'.currency_allowance[q] = 0
       /\ acc.collateral_allowance[q] = 0 => acc'.collateral_allowance[q] = 0

LEMMA FrameKeepsPairs == ASSUME TypeInv, PairInv, Advances, Frame PROVE PairInv'
<1> USE DEF Frame
<1> USE AdvanceFields
<1>1. tx.running /\ Safe(saved)'
  BY DEF Advances, PairInv, Safe
<1>2. CASE Safe(acc)
  BY <1>1, <1>2 DEF PairInv, Safe
<1>3. ASSUME NEW o \in Owners, OpenPending(o) PROVE OpenPending(o)'
  <2>1. PICK k \in tx.pc..Len(tx.ixs) : tx.ixs[k].op \in OpenCleanups
    BY <1>3 DEF OpenPending
  <2>2. k \in (tx.pc + 1)..Len(tx.ixs)
    BY <2>1
  <2> QED
    BY <1>3, <2>1, <2>2 DEF OpenPending
<1>4. ASSUME NEW o \in Owners, ClosePending(o) PROVE ClosePending(o)'
  <2>1. PICK k \in tx.pc..Len(tx.ixs) : tx.ixs[k].op \in CloseCleanups
    BY <1>4 DEF ClosePending
  <2>2. k \in (tx.pc + 1)..Len(tx.ixs)
    BY <2>1
  <2> QED
    BY <1>4, <2>1, <2>2 DEF ClosePending
<1>5. SetupBehind => SetupBehind'
  BY DEF SetupBehind
<1> QED
  BY <1>1, <1>2, <1>3, <1>4, <1>5 DEF PairInv

\* A setup finds nothing pending: whatever is has a setup behind it.
LEMMA SetupStartsSafe ==
  ASSUME TypeInv, PairInv, tx.running, NEW cleanup, Introspected(cleanup)
  PROVE  Safe(acc)
  BY DEF PairInv, SetupBehind, Introspected

LEMMA CleanupNames ==
  /\ CleanupOf["open_long_position_setup"] \in OpenCleanups
  /\ CleanupOf["open_short_position_setup"] \in OpenCleanups
  /\ \A s \in CloseSetups : CleanupOf[s] \in CloseCleanups
  BY DEF CleanupOf, OpenCleanups, CloseCleanups

LEMMA OpenSetupPairs ==
  ASSUME TypeInv, PairInv, SetupsOnTop, Advances,
         NEW op \in {"open_long_position_setup", "open_short_position_setup"},
         At(op), Introspected(CleanupOf[op]),
         NEW request, request.pending, request.pool = Ix.pool, NEW allowance,
         acc'.open_request = [acc.open_request EXCEPT ![Ix.owner] = request],
         acc'.close_request = acc.close_request,
         acc'.currency_allowance = [acc.currency_allowance EXCEPT ![Ix.pool] = allowance],
         acc'.collateral_allowance = acc.collateral_allowance
  PROVE  PairInv'
<1> USE AdvanceFields
<1>1. Safe(acc) /\ tx.running /\ Safe(saved)'
  BY SetupStartsSafe DEF Advances, PairInv, Safe
<1>2. Ix.pool \in Pools /\ Ix.op = op /\ acc \in Accounts
  BY IxType DEF TypeInv, Good
<1>3. PICK o \in Owners : o = Ix.owner
  BY IxType DEF TypeInv
<1>4. PICK k \in (tx.pc + 1)..Len(tx.ixs) : tx.ixs[k].op = CleanupOf[op]
  BY DEF Introspected
<1>5. \E j \in tx'.pc..Len(tx'.ixs) : tx'.ixs[j].op \in OpenCleanups
  BY <1>4, CleanupNames
<1>6. acc'.open_request[o] = request
  BY <1>2, <1>3 DEF Accounts
<1>7. \A x \in Owners : /\ acc'.open_request[x].pending => x = o
                        /\ ~acc'.close_request[x].pending
  BY <1>1, <1>2, <1>3 DEF Accounts, Safe
<1>8. \A q \in Pools : /\ acc'.collateral_allowance[q] = 0
                       /\ q # acc'.open_request[o].pool => acc'.currency_allowance[q] = 0
  BY <1>1, <1>2, <1>6 DEF Accounts, Safe
<1>9. OpenPending(o)'
  BY <1>5, <1>6, <1>7, <1>8 DEF OpenPending
<1>10. SetupBehind'
  <2>1. tx.pc \in 1..(tx'.pc - 1) /\ tx'.ixs[tx.pc].op = op
    BY <1>2
  <2>2. tx'.ixs[tx.pc].top
    BY <1>1, <1>2 DEF SetupsOnTop, At, CleanupOf
  <2> QED
    BY <2>1, <2>2 DEF SetupBehind, OrderClosings
<1> QED
  BY <1>1, <1>9, <1>10 DEF PairInv

LEMMA CloseSetupPairs ==
  ASSUME TypeInv, PairInv, SetupsOnTop, Advances, NEW op \in CloseSetups,
         At(op), NEW minTarget \in MinTargets, NEW interest \in InterestArgs,
         NEW executionFee \in ExecutionFees, ClosePositionSetup(minTarget, interest, executionFee)
  PROVE  PairInv'
<1> USE AdvanceFields
<1>1. Ix.pool \in Pools /\ Ix.op = op /\ acc \in Accounts /\ Introspected(CleanupOf[op])
  BY IxType DEF TypeInv, Good, ClosePositionSetup
<1>2. PICK o \in Owners : o = Ix.owner
  BY IxType DEF TypeInv
<1>3. Safe(acc) /\ tx.running /\ Safe(saved)'
  BY <1>1, SetupStartsSafe DEF Advances, PairInv, Safe
<1>4. PICK k \in (tx.pc + 1)..Len(tx.ixs) : tx.ixs[k].op = CleanupOf[op]
  BY <1>1 DEF Introspected
<1>5. \E j \in tx'.pc..Len(tx'.ixs) : tx'.ixs[j].op \in CloseCleanups
  BY <1>4, CleanupNames
<1> DEFINE allowance == acc.position[Ix.pos].collateral_amount
           request ==
             [pending |-> TRUE, pos |-> Ix.pos, pool |-> Ix.pool, authority |-> Ix.authority,
              min_target_amount |-> minTarget, max_amount_in |-> allowance,
              maker_bal_before |-> acc.collateral_vault[Ix.pool],
              taker_bal_before |-> acc.currency_vault[Ix.pool],
              interest |-> interest, execution_fee |-> executionFee]
<1>6. /\ acc'.open_request = acc.open_request
      /\ acc'.currency_allowance = acc.currency_allowance
      /\ acc'.close_request = [acc.close_request EXCEPT ![Ix.owner] = request]
      /\ acc'.collateral_allowance = [acc.collateral_allowance EXCEPT ![Ix.pool] = allowance]
      /\ request.pending /\ request.pool = Ix.pool
  BY <1>1 DEF ClosePositionSetup, Accounts
<1> HIDE DEF allowance, request
<1>7. /\ acc'.close_request[o].pending /\ acc'.close_request[o].pool = Ix.pool
      /\ \A x \in Owners : x # o => acc'.close_request[x] = acc.close_request[x]
  BY <1>1, <1>2, <1>6 DEF Accounts
<1>8. \A q \in Pools : q # Ix.pool => acc'.collateral_allowance[q] = acc.collateral_allowance[q]
  BY <1>1, <1>6 DEF Accounts
<1>9. ClosePending(o)'
  BY <1>3, <1>5, <1>6, <1>7, <1>8 DEF ClosePending, Safe
<1>10. SetupBehind'
  <2>1. tx.pc \in 1..(tx'.pc - 1) /\ tx'.ixs[tx.pc].op = op
    BY <1>1
  <2>2. tx'.ixs[tx.pc].top
    BY <1>1, <1>3 DEF SetupsOnTop, At, CleanupOf, CloseSetups
  <2> QED
    BY <2>1, <2>2 DEF SetupBehind, OrderClosings, CloseSetups
<1> QED
  BY <1>3, <1>9, <1>10 DEF PairInv

\* A cleanup consumes the one request there is, so nothing is left pending.
LEMMA OpenCleanupPairs ==
  ASSUME TypeInv, PairInv, Advances, NEW op, At(op), MatchesOpenRequest(Ix),
         acc'.open_request = [acc.open_request EXCEPT ![Ix.owner] = NoRequest],
         acc'.close_request = acc.close_request,
         acc'.currency_allowance = [acc.currency_allowance EXCEPT ![Ix.pool] = 0],
         acc'.collateral_allowance = acc.collateral_allowance
  PROVE  PairInv'
<1> USE AdvanceFields
<1>1. Ix.owner \in Owners /\ Ix.pool \in Pools /\ acc \in Accounts
  BY IxType DEF TypeInv, Good
<1>2. acc.open_request[Ix.owner].pending /\ Ix.pool = acc.open_request[Ix.owner].pool
  BY DEF MatchesOpenRequest
<1>3. tx.running /\ Safe(saved)' /\ ~Safe(acc)
  BY <1>1, <1>2 DEF Advances, PairInv, Safe
<1>4. PICK o \in Owners : OpenPending(o) \/ ClosePending(o)
  BY <1>3 DEF PairInv
<1>5. OpenPending(o) /\ o = Ix.owner
  BY <1>1, <1>2, <1>4 DEF OpenPending, ClosePending
<1>6. ~NoRequest.pending
  BY DEF NoRequest
<1>7. Safe(acc')
  BY <1>1, <1>2, <1>5, <1>6 DEF OpenPending, Safe, Accounts
<1> QED
  BY <1>3, <1>7 DEF PairInv, Safe

LEMMA CloseCleanupPairs ==
  ASSUME TypeInv, PairInv, Advances, NEW op, At(op), NEW isLiquidation, NEW amounts,
         ClosePositionCleanup(isLiquidation, amounts)
  PROVE  PairInv' /\ Safe(acc') /\ ClosePending(Ix.owner)
<1> USE AdvanceFields
<1>1. Ix.owner \in Owners /\ Ix.pool \in Pools /\ acc \in Accounts
  BY IxType DEF TypeInv, Good
<1>2. /\ MatchesCloseRequest(Ix)
      /\ acc'.close_request = [acc.close_request EXCEPT ![Ix.owner] = NoRequest]
      /\ acc'.open_request = acc.open_request
      /\ acc'.collateral_allowance = [acc.collateral_allowance EXCEPT ![Ix.pool] = 0]
      /\ acc'.currency_allowance = acc.currency_allowance
  BY <1>1 DEF ClosePositionCleanup, Accounts
<1>3. acc.close_request[Ix.owner].pending /\ Ix.pool = acc.close_request[Ix.owner].pool
  BY <1>2 DEF MatchesCloseRequest
<1>4. tx.running /\ Safe(saved)' /\ ~Safe(acc)
  BY <1>1, <1>3 DEF Advances, PairInv, Safe
<1>5. PICK o \in Owners : OpenPending(o) \/ ClosePending(o)
  BY <1>4 DEF PairInv
<1>6. ClosePending(o) /\ o = Ix.owner
  BY <1>1, <1>3, <1>5 DEF OpenPending, ClosePending
<1>7. ~NoRequest.pending
  BY DEF NoRequest
<1>8. Safe(acc')
  BY <1>1, <1>2, <1>3, <1>6, <1>7 DEF ClosePending, Safe, Accounts
<1> QED
  BY <1>4, <1>6, <1>8 DEF PairInv, Safe

\* What is neither a setup nor a cleanup.
FrameStep ==
  \/ ClaimPosition \/ OrderStep
  \/ \E bought, sold \in SwapAmounts : Other(bought, sold)
  \/ \E amount \in LpAmounts : Deposit(amount) \/ Withdraw(amount)

LEMMA FrameInstructions == ASSUME TypeInv, FrameStep PROVE Frame
<1> USE DEF Frame
<1>1. acc \in Accounts
  BY DEF TypeInv, Good
<1>2. CASE ClaimPosition
  <2>1. Ix.op = "claim_position"
    BY <1>2, IxType DEF TypeInv, ClaimPosition
  <2>2. /\ acc'.open_request = acc.open_request /\ acc'.close_request = acc.close_request
        /\ acc'.currency_allowance = acc.currency_allowance
        /\ acc'.collateral_allowance = acc.collateral_allowance
    BY <1>1, <1>2 DEF ClaimPosition, Accounts
  <2> QED
    BY <1>1, <2>1, <2>2 DEF OpenCleanups, CloseCleanups, CloseSetups, CleanupOf
<1>3. CASE OrderStep
  <2>1. Ix.op \in {"init_or_update_take_profit_order", "init_or_update_stop_loss_order"}
                    \cup OrderClosings
    BY <1>3, IxType DEF TypeInv, OrderStep, InitOrUpdateTakeProfitOrder,
      InitOrUpdateStopLossOrder, CloseTakeProfitOrder, CloseStopLossOrder, OrderClosings
  <2>2. \E order : \/ acc' = [acc EXCEPT !.take_profit_order[Ix.pos] = order]
                   \/ acc' = [acc EXCEPT !.stop_loss_order[Ix.pos] = order]
    BY <1>3 DEF OrderStep, InitOrUpdateTakeProfitOrder, InitOrUpdateStopLossOrder,
      CloseTakeProfitOrder, CloseStopLossOrder
  <2>3. /\ acc'.open_request = acc.open_request /\ acc'.close_request = acc.close_request
        /\ acc'.currency_allowance = acc.currency_allowance
        /\ acc'.collateral_allowance = acc.collateral_allowance
    BY <1>1, <2>2 DEF Accounts
  <2> QED
    BY <1>1, <2>1, <2>3
    DEF OpenCleanups, CloseCleanups, CloseSetups, CleanupOf, OrderClosings
<1>4. ASSUME NEW bought \in SwapAmounts, NEW sold \in SwapAmounts, Other(bought, sold)
      PROVE  Frame
  <2>1. Ix.op = "other" /\ Ix.pool \in Pools
    BY <1>4, IxType DEF TypeInv, Other
  <2>2. sold \in Nat /\ acc.currency_allowance[Ix.pool] \in Nat
        /\ acc.collateral_allowance[Ix.pool] \in Nat
    BY <1>1, <2>1, AccountFields, TradingAssumption
  <2>3. CASE /\ sold <= acc.currency_allowance[Ix.pool]
             /\ acc' = [acc EXCEPT !.currency_vault[Ix.pool] = @ - sold,
                                   !.currency_allowance[Ix.pool] = @ - sold,
                                   !.collateral_vault[Ix.pool] = @ + bought]
    <3>1. /\ acc'.open_request = acc.open_request /\ acc'.close_request = acc.close_request
          /\ acc'.collateral_allowance = acc.collateral_allowance
          /\ acc'.currency_allowance =
               [acc.currency_allowance EXCEPT ![Ix.pool] = acc.currency_allowance[Ix.pool] - sold]
      BY <1>1, <2>3 DEF Accounts
    <3>2. \A q \in Pools : acc.currency_allowance[q] = 0 => acc'.currency_allowance[q] = 0
      BY <1>1, <2>1, <2>2, <2>3, <3>1 DEF Accounts
    <3> QED
      BY <1>1, <2>1, <3>1, <3>2
      DEF OpenCleanups, CloseCleanups, CloseSetups, CleanupOf
  <2>4. CASE /\ sold <= acc.collateral_allowance[Ix.pool]
             /\ acc' = [acc EXCEPT !.collateral_vault[Ix.pool] = @ - sold,
                                   !.collateral_allowance[Ix.pool] = @ - sold,
                                   !.currency_vault[Ix.pool] = @ + bought]
    <3>1. /\ acc'.open_request = acc.open_request /\ acc'.close_request = acc.close_request
          /\ acc'.currency_allowance = acc.currency_allowance
          /\ acc'.collateral_allowance =
               [acc.collateral_allowance EXCEPT
                  ![Ix.pool] = acc.collateral_allowance[Ix.pool] - sold]
      BY <1>1, <2>4 DEF Accounts
    <3>2. \A q \in Pools : acc.collateral_allowance[q] = 0 => acc'.collateral_allowance[q] = 0
      BY <1>1, <2>1, <2>2, <2>4, <3>1 DEF Accounts
    <3> QED
      BY <1>1, <2>1, <3>1, <3>2
      DEF OpenCleanups, CloseCleanups, CloseSetups, CleanupOf
  <2> QED
    BY <1>4, <2>3, <2>4 DEF Other
<1>5. ASSUME NEW amount \in LpAmounts, Deposit(amount) \/ Withdraw(amount) PROVE Frame
  <2>1. Ix.op \in {"deposit", "withdraw"}
    BY <1>5, IxType DEF TypeInv, Deposit, Withdraw
  <2>2. /\ acc'.open_request = acc.open_request /\ acc'.close_request = acc.close_request
        /\ acc'.currency_allowance = acc.currency_allowance
        /\ acc'.collateral_allowance = acc.collateral_allowance
    BY <1>1, <1>5 DEF Deposit, Withdraw, Accounts
  <2> QED
    BY <1>1, <2>1, <2>2 DEF OpenCleanups, CloseCleanups, CloseSetups, CleanupOf
<1> QED
  BY <1>2, <1>3, <1>4, <1>5 DEF FrameStep

LEMMA SetupsPair ==
  ASSUME TypeInv, PairInv, SetupsOnTop, Advances, OpenSetup \/ CloseSetup PROVE PairInv'
<1>1. acc \in Accounts
  BY DEF TypeInv, Good
<1>2. ASSUME NEW minTarget \in MinTargets, NEW down_payment \in DownPayments,
             NEW principal \in Principals, NEW fee \in Fees,
             OpenLongPositionSetup(minTarget, down_payment, principal, fee)
      PROVE  PairInv'
  <2> DEFINE swapped == principal + down_payment
             balance == acc.currency_vault[Ix.pool] + swapped
             request == OpenRequest(Ix, minTarget, swapped, balance,
                                    acc.collateral_vault[Ix.pool])
  <2>1. /\ At("open_long_position_setup") /\ MayOpen(Ix)
        /\ acc'.open_request = [acc.open_request EXCEPT ![Ix.owner] = request]
        /\ acc'.close_request = acc.close_request
        /\ acc'.currency_allowance = [acc.currency_allowance EXCEPT ![Ix.pool] = swapped]
        /\ acc'.collateral_allowance = acc.collateral_allowance
    BY <1>1, <1>2 DEF OpenLongPositionSetup, Accounts
  <2>2. Introspected(CleanupOf["open_long_position_setup"])
    BY <2>1, IxType DEF MayOpen, TypeInv
  <2>3. request.pending /\ request.pool = Ix.pool
    BY DEF OpenRequest, NoRequest
  <2> HIDE DEF request, swapped
  <2> QED
    BY <2>1, <2>2, <2>3, OpenSetupPairs
<1>3. ASSUME NEW minTarget \in MinTargets, NEW down_payment \in DownPayments,
             NEW principal \in Principals, NEW fee \in Fees,
             OpenShortPositionSetup(minTarget, down_payment, principal, fee)
      PROVE  PairInv'
  <2> DEFINE maker == acc.currency_vault[Ix.pool] + principal
             taker == acc.collateral_vault[Ix.pool] + down_payment
             request == OpenRequest(Ix, minTarget, 0, maker, taker)
  <2>1. /\ At("open_short_position_setup") /\ MayOpen(Ix)
        /\ acc'.open_request = [acc.open_request EXCEPT ![Ix.owner] = request]
        /\ acc'.close_request = acc.close_request
        /\ acc'.currency_allowance = [acc.currency_allowance EXCEPT ![Ix.pool] = principal]
        /\ acc'.collateral_allowance = acc.collateral_allowance
    BY <1>1, <1>3 DEF OpenShortPositionSetup, Accounts
  <2>2. Introspected(CleanupOf["open_short_position_setup"])
    BY <2>1, IxType DEF MayOpen, TypeInv
  <2>3. request.pending /\ request.pool = Ix.pool
    BY DEF OpenRequest, NoRequest
  <2> HIDE DEF request
  <2> QED
    BY <2>1, <2>2, <2>3, OpenSetupPairs
<1>4. CASE CloseSetup
  BY <1>4, CloseSetupPairs
  DEF CloseSetup, CloseLongPositionSetup, CloseShortPositionSetup, LiquidatePositionSetup,
      TakeProfitSetup, StopLossSetup, CloseSetups
<1> QED
  BY <1>2, <1>3, <1>4 DEF OpenSetup

LEMMA CleanupsPair ==
  ASSUME TypeInv, PairInv, Advances,
         OpenLongPositionCleanup \/ OpenShortPositionCleanup \/ CloseCleanup
  PROVE  PairInv'
<1>1. acc \in Accounts
  BY DEF TypeInv, Good
<1>2. CASE OpenLongPositionCleanup
  <2>1. /\ At("open_long_position_cleanup") /\ MatchesOpenRequest(Ix)
        /\ acc'.open_request = [acc.open_request EXCEPT ![Ix.owner] = NoRequest]
        /\ acc'.close_request = acc.close_request
        /\ acc'.currency_allowance = [acc.currency_allowance EXCEPT ![Ix.pool] = 0]
        /\ acc'.collateral_allowance = acc.collateral_allowance
    BY <1>1, <1>2 DEF OpenLongPositionCleanup, Accounts
  <2> QED
    BY <2>1, OpenCleanupPairs
<1>3. CASE OpenShortPositionCleanup
  <2>1. /\ At("open_short_position_cleanup") /\ MatchesOpenRequest(Ix)
        /\ acc'.open_request = [acc.open_request EXCEPT ![Ix.owner] = NoRequest]
        /\ acc'.close_request = acc.close_request
        /\ acc'.currency_allowance = [acc.currency_allowance EXCEPT ![Ix.pool] = 0]
        /\ acc'.collateral_allowance = acc.collateral_allowance
    BY <1>1, <1>3 DEF OpenShortPositionCleanup, Accounts
  <2> QED
    BY <2>1, OpenCleanupPairs
<1>4. ASSUME CloseCleanup
      PROVE  \E op, isLiquidation, amounts :
               At(op) /\ ClosePositionCleanup(isLiquidation, amounts)
  BY <1>4, Zenon DEF CloseCleanup, CloseLongPositionCleanup, CloseShortPositionCleanup,
     LiquidatePositionCleanup, TakeProfitCleanup, StopLossCleanup
<1> QED
  BY <1>2, <1>3, <1>4, CloseCleanupPairs

LEMMA StepPairs == ASSUME TypeInv, PairInv, SetupsOnTop, [Next]_vars PROVE PairInv'
<1>1. CASE Instruction
  <2>1. Advances
    BY <1>1, InstructionAdvances
  <2>2. CASE FrameStep
    BY <2>1, <2>2, FrameInstructions, FrameKeepsPairs
  <2> QED
    BY <1>1, <2>1, <2>2, SetupsPair, CleanupsPair DEF Instruction, FrameStep
<1>2. ASSUME NEW plan \in Plans, NEW signers \in Signings, Begin(plan, signers)
      PROVE  PairInv'
  BY <1>2 DEF Begin, PairInv, Safe
<1>3. CASE Commit
  <2>1. ASSUME NEW o \in Owners PROVE ~OpenPending(o) /\ ~ClosePending(o)
    BY <1>3 DEF Commit, OpenPending, ClosePending, TypeInv, TypeOK, Transactions
  <2>2. Safe(acc)
    BY <1>3, <2>1 DEF Commit, PairInv
  <2> QED
    BY <1>3, <2>2 DEF Commit, Idle, PairInv, Safe
<1>4. CASE Abort
  BY <1>4 DEF Abort, Idle, PairInv, Safe
<1>5. CASE Tick
  BY <1>5 DEF Tick, PairInv, Safe
<1>6. CASE Administration
  BY <1>6 DEF Administration, SetTradingState, SetMaxApy, SetMaxLeverage, SetLiquidationFee,
              Configure, PairInv, Safe
<1>7. CASE UNCHANGED vars
  BY <1>7 DEF vars, PairInv, Safe, SetupBehind, OpenPending, ClosePending
<1> QED
  BY <1>1, <1>2, <1>3, <1>4, <1>5, <1>6, <1>7 DEF Next

LEMMA InitPairs == ASSUME Init PROVE PairInv
<1>1. ~NoRequest.pending
  BY DEF NoRequest
<1> QED
  BY <1>1 DEF Init, Idle, PairInv, Safe

\* As long as no other program invokes a setup: whatever else is submitted and
\* whatever runs between a setup and its cleanup, a committed transaction leaves
\* no request account and no allowance on a pool's tokens behind.
THEOREM NothingOutlivesTxCorrect == Spec /\ []SetupsOnTop => []NothingOutlivesTx
<1>1. Init => PairInv
  BY InitPairs
<1>2. TypeInv /\ PairInv /\ SetupsOnTop /\ [Next]_vars => PairInv'
  BY StepPairs
<1>3. PairInv => NothingOutlivesTx
  BY DEF PairInv, Safe, NothingOutlivesTx
<1> QED
  BY <1>1, <1>2, <1>3, AlwaysTyped, PTL DEF Spec
-----------------------------------------------------------------------------
(* Who must have signed *)

Liquidated == tx.signers \cap CanLiquidate # {}
Cosigned   == tx.signers \cap CanCosign # {}

CleanupAhead(s) == \E k \in tx.pc..Len(tx.ixs) : tx.ixs[k].op = CleanupOf[s]

\* A cleanup is to come that can find no request any more, since no setup runs
\* behind another: the transaction cannot commit.
Doomed == SetupBehind /\ Safe(acc) /\ \E s \in CloseSetups : CleanupAhead(s)

\* Who signed when the setup s let o's position be closed.
Granted(s, o) ==
  /\ s = "liquidate_position_setup" => Liquidated
  /\ s \in {"take_profit_setup", "stop_loss_setup"} => Cosigned
  /\ s \in {"close_long_position_setup", "close_short_position_setup"} => o \in tx.signers

Entitled(o) ==
  acc.close_request[o].pending =>
    /\ TraderOf[acc.close_request[o].pos] = o
    /\ \E s \in CloseSetups : CleanupAhead(s) /\ Granted(s, o)

OrderKept(p) ==
  TraderOf[p] \notin tx.signers =>
    /\ acc.take_profit_order[p].set => saved.take_profit_order[p].set
    /\ acc.stop_loss_order[p].set => saved.stop_loss_order[p].set

OrderUsed(p) ==
  \/ saved.take_profit_order[p].set /\ ~acc.take_profit_order[p].set
  \/ saved.stop_loss_order[p].set /\ ~acc.stop_loss_order[p].set

Consented(p) ==
  saved.position[p].open /\ ~acc.position[p].open =>
    TraderOf[p] \in tx.signers \/ Liquidated \/ (Cosigned /\ OrderUsed(p))

LossExplained ==
  acc.total_assets >= saved.total_assets \/ Includes("withdraw") \/ Liquidated

Honest ==
  /\ \A o \in Owners : Entitled(o)
  /\ \A p \in Positions : Consented(p)
  /\ LossExplained

ConsentInv ==
  /\ ~tx.running => acc = saved
  /\ tx.running => /\ \A p \in Positions : OrderKept(p)
                   /\ Doomed \/ Honest

LEMMA AdvanceSigners ==
  ASSUME TypeInv, Advances
  PROVE  /\ tx'.signers = tx.signers
         /\ Liquidated' <=> Liquidated
         /\ Cosigned' <=> Cosigned
         /\ \A op : Includes(op)' <=> Includes(op)
         /\ \A s, o : Granted(s, o)' <=> Granted(s, o)
         /\ \A s : CleanupAhead(s) /\ Ix.op # CleanupOf[s] => CleanupAhead(s)'
         /\ SetupBehind => SetupBehind'
<1> USE AdvanceFields
<1>1. tx'.signers = tx.signers
  BY DEF Advances, Advance, TypeInv, TypeOK, Transactions
<1>2. ASSUME NEW s, CleanupAhead(s), Ix.op # CleanupOf[s] PROVE CleanupAhead(s)'
  <2>1. PICK k \in tx.pc..Len(tx.ixs) : tx.ixs[k].op = CleanupOf[s]
    BY <1>2 DEF CleanupAhead
  <2>2. k \in (tx.pc + 1)..Len(tx.ixs)
    BY <1>2, <2>1
  <2> QED
    BY <2>1, <2>2 DEF CleanupAhead
<1>3. SetupBehind => SetupBehind'
  BY DEF SetupBehind
<1>4. (Liquidated' <=> Liquidated) /\ (Cosigned' <=> Cosigned)
  BY <1>1 DEF Liquidated, Cosigned
<1>5. \A op : Includes(op)' <=> Includes(op)
  BY DEF Includes
<1>6. \A s, o : Granted(s, o)' <=> Granted(s, o)
  BY <1>1, <1>4 DEF Granted
<1> QED
  BY <1>1, <1>2, <1>3, <1>4, <1>5, <1>6

\* No setup, no cleanup: only the rest runs in a doomed transaction ...
LEMMA DoomedRuns == ASSUME TypeInv, Instruction, Doomed PROVE FrameStep
<1>1. Safe(acc) /\ SetupBehind
  BY DEF Doomed
<1>2. \A cleanup : ~Introspected(cleanup)
  BY <1>1 DEF SetupBehind, Introspected
<1>3. ~OpenSetup
  <2>1. ASSUME NEW minTarget, NEW down_payment, NEW principal, NEW fee,
               OpenLongPositionSetup(minTarget, down_payment, principal, fee)
        PROVE  MayOpen(Ix)
    BY <2>1, Zenon DEF OpenLongPositionSetup
  <2>2. ASSUME NEW minTarget, NEW down_payment, NEW principal, NEW fee,
               OpenShortPositionSetup(minTarget, down_payment, principal, fee)
        PROVE  MayOpen(Ix)
    BY <2>2, Zenon DEF OpenShortPositionSetup
  <2> QED
    BY <1>2, <2>1, <2>2 DEF MayOpen, OpenSetup
<1>4. ASSUME CloseSetup
      PROVE  \E minTarget, interest, fee : ClosePositionSetup(minTarget, interest, fee)
  BY <1>4, Zenon DEF CloseSetup, CloseLongPositionSetup, CloseShortPositionSetup,
     LiquidatePositionSetup, TakeProfitSetup, StopLossSetup
<1>5. ~CloseSetup
  BY <1>2, <1>4 DEF ClosePositionSetup
<1>6. ASSUME CloseCleanup
      PROVE  \E op, isLiquidation, amounts :
               At(op) /\ ClosePositionCleanup(isLiquidation, amounts)
  BY <1>6, Zenon DEF CloseCleanup, CloseLongPositionCleanup, CloseShortPositionCleanup,
     LiquidatePositionCleanup, TakeProfitCleanup, StopLossCleanup
<1>7. ASSUME NEW op, At(op), MatchesCloseRequest(Ix) PROVE FALSE
  BY <1>1, <1>7, IxType DEF TypeInv, MatchesCloseRequest, Safe
<1>8. ~CloseCleanup
  <2>1. ASSUME NEW isLiquidation, NEW amounts, ClosePositionCleanup(isLiquidation, amounts)
        PROVE  MatchesCloseRequest(Ix)
    BY <2>1, Zenon DEF ClosePositionCleanup
  <2> QED
    BY <1>6, <1>7, <2>1
<1>9. ~OpenLongPositionCleanup /\ ~OpenShortPositionCleanup
  <2>1. ASSUME OpenLongPositionCleanup \/ OpenShortPositionCleanup
        PROVE  \E op : At(op) /\ MatchesOpenRequest(Ix)
    BY <2>1, Zenon DEF OpenLongPositionCleanup, OpenShortPositionCleanup
  <2>2. ASSUME NEW op, At(op), MatchesOpenRequest(Ix) PROVE FALSE
    BY <1>1, <2>2, IxType DEF TypeInv, MatchesOpenRequest, Safe
  <2> QED
    BY <2>1, <2>2
<1> QED
  BY <1>3, <1>5, <1>8, <1>9 DEF Instruction, FrameStep
\* ... and keeps it doomed.
LEMMA DoomedStays == ASSUME TypeInv, Instruction, Doomed PROVE Doomed'
<1>1. Advances
  BY InstructionAdvances
<1>2. Safe(acc) /\ SetupBehind
  BY DEF Doomed
<1>3. FrameStep
  BY DoomedRuns
<1>4. Frame
  BY <1>3, FrameInstructions
<1>5. Safe(acc')
  BY <1>2, <1>4 DEF Safe, Frame
<1>6. PICK s \in CloseSetups : CleanupAhead(s)
  BY DEF Doomed
<1>7. CleanupAhead(s)' /\ SetupBehind'
  BY <1>1, <1>2, <1>4, <1>6, AdvanceSigners DEF Frame, CloseCleanups
<1> QED
  BY <1>5, <1>7 DEF Doomed, Safe

\* What an instruction does to a position whose trader has not signed: it stays,
\* and so do the orders or fewer.
Untouched(p) ==
  /\ acc.position[p].open => acc'.position[p].open
  /\ acc'.take_profit_order[p].set => acc.take_profit_order[p].set
  /\ acc'.stop_loss_order[p].set => acc.stop_loss_order[p].set

LEMMA OrderKeptStays ==
  ASSUME TypeInv, Advances, NEW p \in Positions, OrderKept(p),
         TraderOf[p] \in tx.signers
           \/ /\ acc'.take_profit_order[p].set => acc.take_profit_order[p].set
              /\ acc'.stop_loss_order[p].set => acc.stop_loss_order[p].set
  PROVE  OrderKept(p)'
  BY AdvanceSigners, AdvanceFields DEF OrderKept

LEMMA ConsentStays ==
  ASSUME TypeInv, Advances, NEW p \in Positions, Consented(p),
         TraderOf[p] \in tx.signers \/ Untouched(p)
  PROVE  Consented(p)'
<1>1. /\ tx'.signers = tx.signers /\ saved' = saved
      /\ Liquidated' <=> Liquidated
      /\ Cosigned' <=> Cosigned
  BY AdvanceSigners, AdvanceFields
<1>2. OrderUsed(p) /\ Untouched(p) => OrderUsed(p)'
  BY <1>1 DEF OrderUsed, Untouched
<1> QED
  BY <1>1, <1>2 DEF Consented, Untouched

LEMMA LossStays ==
  ASSUME TypeInv, Advances, LossExplained,
         acc'.total_assets \in Nat,
         acc'.total_assets >= acc.total_assets \/ Includes("withdraw") \/ Liquidated
  PROVE  LossExplained'
<1>1. acc.total_assets \in Nat /\ saved.total_assets \in Nat
  BY AccountFields DEF TypeInv, Good
<1>2. /\ saved' = saved
      /\ Liquidated' <=> Liquidated
      /\ Includes("withdraw")' <=> Includes("withdraw")
  BY AdvanceSigners, AdvanceFields
<1> QED
  BY <1>1, <1>2 DEF LossExplained

\* An instruction that closes nothing for which nobody has signed.
LEMMA HonestStays ==
  ASSUME TypeInv, Instruction, Honest, \A p \in Positions : OrderKept(p),
         \A p \in Positions : TraderOf[p] \in tx.signers \/ Untouched(p),
         acc'.total_assets >= acc.total_assets \/ Includes("withdraw"),
         \A o \in Owners : Entitled(o)'
  PROVE  Honest' /\ \A p \in Positions : OrderKept(p)'
<1>1. Advances
  BY InstructionAdvances
<1>2. acc'.total_assets \in Nat
  BY InstructionGood, AccountFields DEF Good
<1>3. \A p \in Positions : Consented(p)'
  BY <1>1, ConsentStays DEF Honest
<1>4. LossExplained'
  BY <1>1, <1>2, LossStays DEF Honest
<1>5. \A p \in Positions : OrderKept(p)'
  BY <1>1, OrderKeptStays DEF Untouched
<1> QED
  BY <1>3, <1>4, <1>5 DEF Honest

\* A request stays entitled while its cleanup is to come.
LEMMA EntitledStays ==
  ASSUME TypeInv, Advances, NEW o \in Owners, Entitled(o), Ix.op \notin CloseCleanups,
         acc'.close_request[o] = acc.close_request[o]
  PROVE  Entitled(o)'
<1> SUFFICES ASSUME acc'.close_request[o].pending
             PROVE  /\ TraderOf[acc'.close_request[o].pos] = o
                    /\ \E s \in CloseSetups : CleanupAhead(s)' /\ Granted(s, o)'
  BY DEF Entitled
<1>1. PICK s \in CloseSetups : CleanupAhead(s) /\ Granted(s, o)
  BY DEF Entitled
<1>2. CleanupAhead(s)' /\ Granted(s, o)'
  BY <1>1, AdvanceSigners DEF CloseCleanups
<1> QED
  BY <1>2 DEF Entitled

LEMMA FrameUntouched ==
  ASSUME TypeInv, FrameStep
  PROVE  /\ \A p \in Positions : TraderOf[p] \in tx.signers \/ Untouched(p)
         /\ acc'.total_assets >= acc.total_assets \/ Includes("withdraw")
<1>1. acc \in Accounts /\ acc.total_assets \in Nat
  BY AccountFields DEF TypeInv, Good
<1>2. CASE ClaimPosition
  <2>1. Ix.owner \in tx.signers /\ Ix.owner = TraderOf[Ix.pos] /\ Ix.pos \in Positions
    BY <1>2, IxType DEF TypeInv, ClaimPosition
  <2>2. /\ acc'.position = [acc.position EXCEPT ![Ix.pos] = NoPosition]
        /\ acc'.take_profit_order = acc.take_profit_order
        /\ acc'.stop_loss_order = acc.stop_loss_order
        /\ acc'.total_assets = acc.total_assets + InterestDue(Ix.pos)
    BY <1>1, <1>2 DEF ClaimPosition, Accounts
  <2>3. InterestDue(Ix.pos) \in Nat
    <3>1. acc.position[Ix.pos] \in PositionRecords
      BY <1>1, <2>1, AccountFields
    <3>2. now - acc.position[Ix.pos].last_funding_timestamp \in Nat /\ settings.max_apy \in Nat
      BY <2>1, <3>1 DEF TypeInv, TypeOK, Good, PositionRecords
    <3> QED
      BY <3>1, <3>2, MaxInterestType DEF InterestDue, PositionRecords
  <2>4. \A p \in Positions : p # Ix.pos => Untouched(p)
    BY <1>1, <2>2 DEF Untouched, Accounts
  <2>5. acc'.total_assets >= acc.total_assets
    BY <1>1, <2>2, <2>3
  <2> QED
    BY <2>1, <2>4, <2>5
<1>3. CASE OrderStep
  <2>1. Ix.pos \in Positions
    BY <1>3, IxType DEF TypeInv, OrderStep, InitOrUpdateTakeProfitOrder,
      InitOrUpdateStopLossOrder, CloseTakeProfitOrder, CloseStopLossOrder
  <2>2. CASE CloseTakeProfitOrder \/ CloseStopLossOrder
    <3>1. \/ acc' = [acc EXCEPT !.take_profit_order[Ix.pos] = NoOrder]
          \/ acc' = [acc EXCEPT !.stop_loss_order[Ix.pos] = NoOrder]
      BY <2>2 DEF CloseTakeProfitOrder, CloseStopLossOrder
    <3>2. ~NoOrder.set
      BY DEF NoOrder
    <3>3. acc'.position = acc.position /\ acc'.total_assets = acc.total_assets
      BY <1>1, <3>1 DEF Accounts
    <3>4. \A p \in Positions : Untouched(p)
      BY <1>1, <2>1, <3>1, <3>2, <3>3 DEF Untouched, Accounts
    <3> QED
      BY <1>1, <3>3, <3>4
  <2>3. ASSUME NEW price, InitOrUpdateTakeProfitOrder(price) \/ InitOrUpdateStopLossOrder(price)
        PROVE  /\ Ix.owner \in tx.signers /\ Ix.owner = TraderOf[Ix.pos]
               /\ \E order : \/ acc' = [acc EXCEPT !.take_profit_order[Ix.pos] = order]
                             \/ acc' = [acc EXCEPT !.stop_loss_order[Ix.pos] = order]
    BY <2>3 DEF InitOrUpdateTakeProfitOrder, InitOrUpdateStopLossOrder, MayOrder
  <2>4. CASE \E price \in OrderPrices :
               InitOrUpdateTakeProfitOrder(price) \/ InitOrUpdateStopLossOrder(price)
    <3>1. /\ acc'.position = acc.position /\ acc'.total_assets = acc.total_assets
          /\ \A p \in Positions : p # Ix.pos =>
               /\ acc'.take_profit_order[p] = acc.take_profit_order[p]
               /\ acc'.stop_loss_order[p] = acc.stop_loss_order[p]
      BY <1>1, <2>3, <2>4 DEF Accounts
    <3>2. \A p \in Positions : p # Ix.pos => Untouched(p)
      BY <3>1 DEF Untouched
    <3> QED
      BY <1>1, <2>3, <2>4, <3>1, <3>2
  <2> QED
    BY <1>3, <2>2, <2>4 DEF OrderStep
<1>4. CASE \E bought, sold \in SwapAmounts : Other(bought, sold)
  <2>1. /\ acc'.position = acc.position /\ acc'.total_assets = acc.total_assets
        /\ acc'.take_profit_order = acc.take_profit_order
        /\ acc'.stop_loss_order = acc.stop_loss_order
    BY <1>1, <1>4 DEF Other, Accounts
  <2> QED
    BY <1>1, <2>1 DEF Untouched
<1>5. ASSUME NEW amount \in LpAmounts, Deposit(amount) \/ Withdraw(amount)
      PROVE  /\ \A p \in Positions : Untouched(p)
             /\ acc'.total_assets >= acc.total_assets \/ Includes("withdraw")
  <2>1. /\ acc'.position = acc.position
        /\ acc'.take_profit_order = acc.take_profit_order
        /\ acc'.stop_loss_order = acc.stop_loss_order
    BY <1>1, <1>5 DEF Deposit, Withdraw, Accounts
  <2>2. ASSUME Withdraw(amount) PROVE Includes("withdraw")
    <3>1. tx.pc \in DOMAIN tx.ixs /\ tx.ixs[tx.pc].op = "withdraw"
      BY <2>2 DEF Withdraw, At, Ix, TypeInv, TypeOK, Transactions
    <3> QED
      BY <3>1 DEF Includes
  <2>3. ASSUME Deposit(amount) PROVE acc'.total_assets >= acc.total_assets
    <3>1. acc'.total_assets = acc.total_assets + amount /\ amount \in Nat
      BY <1>1, <2>3, TradingAssumption DEF Deposit, Accounts
    <3> QED
      BY <1>1, <3>1
  <2> QED
    BY <1>5, <2>1, <2>2, <2>3 DEF Untouched
<1> QED
  BY <1>2, <1>3, <1>4, <1>5 DEF FrameStep

LEMMA OpenSetupUntouched ==
  ASSUME TypeInv, OpenSetup
  PROVE  /\ \A p \in Positions : Untouched(p)
         /\ acc'.total_assets = acc.total_assets
         /\ acc'.close_request = acc.close_request
<1>1. acc \in Accounts
  BY DEF TypeInv, Good
<1>2. ASSUME NEW minTarget, NEW down_payment, NEW principal, NEW fee,
             OpenLongPositionSetup(minTarget, down_payment, principal, fee)
      PROVE  /\ acc'.position = [acc.position EXCEPT
                                   ![Ix.pos] = NewPosition(down_payment, principal, fee)]
             /\ acc'.take_profit_order = acc.take_profit_order
             /\ acc'.stop_loss_order = acc.stop_loss_order
             /\ acc'.total_assets = acc.total_assets
             /\ acc'.close_request = acc.close_request
  BY <1>1, <1>2 DEF OpenLongPositionSetup, Accounts
<1>3. ASSUME NEW minTarget, NEW down_payment, NEW principal, NEW fee,
             OpenShortPositionSetup(minTarget, down_payment, principal, fee)
      PROVE  /\ acc'.position = [acc.position EXCEPT
                                   ![Ix.pos] = NewPosition(down_payment, principal, fee)]
             /\ acc'.take_profit_order = acc.take_profit_order
             /\ acc'.stop_loss_order = acc.stop_loss_order
             /\ acc'.total_assets = acc.total_assets
             /\ acc'.close_request = acc.close_request
  BY <1>1, <1>3 DEF OpenShortPositionSetup, Accounts
<1>4. \E position : position.open /\ acc'.position = [acc.position EXCEPT ![Ix.pos] = position]
  <2>1. \A down_payment, principal, fee : NewPosition(down_payment, principal, fee).open
    BY DEF NewPosition
  <2> QED
    BY <1>2, <1>3, <2>1 DEF OpenSetup
<1>5. /\ acc'.take_profit_order = acc.take_profit_order
      /\ acc'.stop_loss_order = acc.stop_loss_order
      /\ acc'.total_assets = acc.total_assets
      /\ acc'.close_request = acc.close_request
  BY <1>2, <1>3 DEF OpenSetup
<1>6. \A p \in Positions : acc.position[p].open => acc'.position[p].open
  BY <1>1, <1>4 DEF Accounts
<1> QED
  BY <1>5, <1>6 DEF Untouched

LEMMA OpenCleanupUntouched ==
  ASSUME TypeInv, OpenLongPositionCleanup \/ OpenShortPositionCleanup
  PROVE  /\ \A p \in Positions : Untouched(p)
         /\ acc'.total_assets = acc.total_assets
         /\ acc'.close_request = acc.close_request
         /\ Ix.op \in OpenCleanups
<1>1. /\ acc \in Accounts /\ Ix.pos \in Positions /\ Ix.op \in OpenCleanups
      /\ acc.position[Ix.pos] \in PositionRecords
  BY IxType, AccountFields
  DEF TypeInv, Good, OpenLongPositionCleanup, OpenShortPositionCleanup, OpenCleanups
<1>2. CASE OpenLongPositionCleanup
  <2>1. /\ acc'.position = [acc.position EXCEPT ![Ix.pos].collateral_amount = Bought(Ix)]
        /\ acc'.take_profit_order = acc.take_profit_order
        /\ acc'.stop_loss_order = acc.stop_loss_order
        /\ acc'.total_assets = acc.total_assets
        /\ acc'.close_request = acc.close_request
    BY <1>1, <1>2 DEF OpenLongPositionCleanup, Accounts
  <2>2. \A p \in Positions : acc'.position[p].open = acc.position[p].open
    BY <1>1, <2>1 DEF Accounts, PositionRecords
  <2> QED
    BY <1>1, <2>1, <2>2 DEF Untouched
<1>3. CASE OpenShortPositionCleanup
  <2> DEFINE old == acc.position[Ix.pos]
             new == [old EXCEPT !.principal = Used(Ix),
                                !.collateral_amount = Bought(Ix) + old.down_payment]
  <2>1. /\ acc'.position = [acc.position EXCEPT ![Ix.pos] = new]
        /\ acc'.take_profit_order = acc.take_profit_order
        /\ acc'.stop_loss_order = acc.stop_loss_order
        /\ acc'.total_assets = acc.total_assets
        /\ acc'.close_request = acc.close_request
    BY <1>1, <1>3 DEF OpenShortPositionCleanup, Accounts
  <2>2. new.open = old.open
    BY <1>1 DEF PositionRecords
  <2> HIDE DEF new
  <2>3. \A p \in Positions : acc'.position[p].open = acc.position[p].open
    BY <1>1, <2>1, <2>2 DEF Accounts
  <2> QED
    BY <1>1, <2>1, <2>3 DEF Untouched
<1> QED
  BY <1>2, <1>3

\* The setup's signatures entitle the position's trader, whoever submits it.
LEMMA CloseSetupEntitles ==
  ASSUME TypeInv, PairInv, Advances, NEW s \in CloseSetups, At(s), Granted(s, Ix.owner),
         NEW minTarget, NEW interest, NEW fee, ClosePositionSetup(minTarget, interest, fee)
  PROVE  /\ \A o \in Owners : Entitled(o)'
         /\ \A p \in Positions : Untouched(p)
         /\ acc'.total_assets = acc.total_assets
<1> USE AdvanceFields
<1>1. /\ acc \in Accounts /\ Ix.op = s /\ Ix.owner \in Owners
  BY IxType DEF TypeInv, Good
<1>2. /\ Introspected(CleanupOf[s]) /\ Ix.owner = TraderOf[Ix.pos]
  BY <1>1 DEF ClosePositionSetup
<1>3. Safe(acc)
  BY <1>2, SetupStartsSafe DEF Advances
<1>4. CleanupAhead(s)'
  <2>1. PICK k \in (tx.pc + 1)..Len(tx.ixs) : tx.ixs[k].op = CleanupOf[s]
    BY <1>2 DEF Introspected
  <2> QED
    BY <2>1 DEF CleanupAhead
<1>5. PICK request : /\ acc'.close_request = [acc.close_request EXCEPT ![Ix.owner] = request]
                     /\ request.pos = Ix.pos
  <2> DEFINE collateral == acc.position[Ix.pos].collateral_amount
             request ==
               [pending |-> TRUE, pos |-> Ix.pos, pool |-> Ix.pool, authority |-> Ix.authority,
                min_target_amount |-> minTarget, max_amount_in |-> collateral,
                maker_bal_before |-> acc.collateral_vault[Ix.pool],
                taker_bal_before |-> acc.currency_vault[Ix.pool],
                interest |-> interest, execution_fee |-> fee]
  <2>1. acc'.close_request = [acc.close_request EXCEPT ![Ix.owner] = request]
    BY <1>1 DEF ClosePositionSetup, Accounts
  <2>2. request.pos = Ix.pos
    OBVIOUS
  <2> HIDE DEF request
  <2> QED
    BY <2>1, <2>2
<1>6. PICK trader \in Owners : trader = Ix.owner
  BY <1>1
<1>7. Entitled(trader)'
  <2>1. acc'.close_request[trader] = request
    BY <1>1, <1>5, <1>6 DEF Accounts
  <2>2. Granted(s, trader)'
    BY <1>6, AdvanceSigners
  <2> QED
    BY <1>2, <1>4, <1>5, <1>6, <2>1, <2>2 DEF Entitled
<1>8. ASSUME NEW o \in Owners, o # trader PROVE Entitled(o)'
  BY <1>1, <1>3, <1>5, <1>6, <1>8 DEF Safe, Accounts, Entitled
<1>9. /\ acc'.position = acc.position
      /\ acc'.take_profit_order = acc.take_profit_order
      /\ acc'.stop_loss_order = acc.stop_loss_order
      /\ acc'.total_assets = acc.total_assets
  BY <1>1 DEF ClosePositionSetup, Accounts
<1> QED
  BY <1>7, <1>8, <1>9 DEF Untouched

LEMMA CloseSetupsEntitle ==
  ASSUME TypeInv, PairInv, Advances, CloseSetup
  PROVE  /\ \A o \in Owners : Entitled(o)'
         /\ \A p \in Positions : Untouched(p)
         /\ acc'.total_assets = acc.total_assets
<1>1. tx.signers \subseteq Owners \cup Authorities
  BY DEF TypeInv, TypeOK, Transactions
<1>2. ASSUME NEW minTarget, NEW interest, NEW fee,
             ClosePositionSetup(minTarget, interest, fee)
      PROVE  Ix.authority \in tx.signers
  BY <1>2, Zenon DEF ClosePositionSetup
<1>3. ASSUME NEW minTarget, NEW interest, NEW fee,
             \/ CloseLongPositionSetup(minTarget, interest, fee)
             \/ CloseShortPositionSetup(minTarget, interest, fee)
             \/ LiquidatePositionSetup(minTarget, interest, fee)
             \/ TakeProfitSetup(minTarget, interest, fee)
             \/ StopLossSetup(minTarget, interest, fee)
      PROVE  /\ ClosePositionSetup(minTarget, interest, fee)
             /\ \E s \in CloseSetups : At(s) /\ Granted(s, Ix.owner)
  <2>1. ClosePositionSetup(minTarget, interest, fee)
    BY <1>3, Zenon DEF CloseLongPositionSetup, CloseShortPositionSetup, LiquidatePositionSetup,
       TakeProfitSetup, StopLossSetup
  <2>2. Ix.authority \in tx.signers
    BY <1>2, <2>1
  <2>3. \/ At("close_long_position_setup") /\ Ix.owner \in tx.signers
        \/ At("close_short_position_setup") /\ Ix.owner \in tx.signers
        \/ At("liquidate_position_setup") /\ Ix.authority \in CanLiquidate
        \/ At("take_profit_setup") /\ Ix.authority \in CanCosign
        \/ At("stop_loss_setup") /\ Ix.authority \in CanCosign
    BY <1>3, Zenon DEF CloseLongPositionSetup, CloseShortPositionSetup, LiquidatePositionSetup,
       TakeProfitSetup, StopLossSetup
  <2> QED
    BY <2>1, <2>2, <2>3 DEF CloseSetups, Granted, Liquidated, Cosigned
<1> QED
  BY <1>3, CloseSetupEntitles DEF CloseSetup

\* Why a cleanup closes a position: at which setup's cleanup we are, and what
\* is asked of an exit order.
ClosesBy(s, amounts) ==
  /\ s \in CloseSetups /\ At(CleanupOf[s]) /\ amounts \in Amounts
  /\ \E isLiquidation : /\ ClosePositionCleanup(isLiquidation, amounts)
                        /\ isLiquidation => s = "liquidate_position_setup"
  /\ s = "take_profit_setup" => acc.take_profit_order[Ix.pos].set
  /\ s = "stop_loss_setup" => acc.stop_loss_order[Ix.pos].set

LEMMA CleanupCloses ==
  ASSUME TypeInv, CloseCleanup PROVE \E s, amounts : ClosesBy(s, amounts)
<1>1. ASSUME NEW op, NEW isLiquidation, NEW fee \in Nat, At(op),
             ClosePositionCleanup(isLiquidation, AmountsOf(Ix, fee))
      PROVE  AmountsOf(Ix, fee) \in Amounts
  <2>1. MatchesCloseRequest(Ix) /\ CloseFeeBase(acc.position[Ix.pos], Ix.pool \in LongPools) > 0
    BY <1>1, Zenon DEF ClosePositionCleanup
  <2> QED
    BY <1>1, <2>1, AmountsOfType
<1>2. /\ CleanupOf["close_long_position_setup"] = "close_long_position_cleanup"
      /\ CleanupOf["close_short_position_setup"] = "close_short_position_cleanup"
      /\ CleanupOf["liquidate_position_setup"] = "liquidate_position_cleanup"
      /\ CleanupOf["take_profit_setup"] = "take_profit_cleanup"
      /\ CleanupOf["stop_loss_setup"] = "stop_loss_cleanup"
  BY DEF CleanupOf
<1>3. CASE CloseLongPositionCleanup
  <2>1. At("close_long_position_cleanup") /\ ClosePositionCleanup(FALSE, AmountsOf(Ix, 0))
    BY <1>3, Zenon DEF CloseLongPositionCleanup
  <2>2. ClosesBy("close_long_position_setup", AmountsOf(Ix, 0))
    BY <1>1, <1>2, <2>1 DEF ClosesBy, CloseSetups
  <2> QED
    BY <2>2
<1>4. CASE CloseShortPositionCleanup
  <2>1. At("close_short_position_cleanup") /\ ClosePositionCleanup(FALSE, AmountsOf(Ix, 0))
    BY <1>4, Zenon DEF CloseShortPositionCleanup
  <2>2. ClosesBy("close_short_position_setup", AmountsOf(Ix, 0))
    BY <1>1, <1>2, <2>1 DEF ClosesBy, CloseSetups
  <2> QED
    BY <2>2
<1>5. CASE LiquidatePositionCleanup
  <2> DEFINE fee == LiquidationFee(acc.position[Ix.pos].down_payment, settings.liquidation_fee)
  <2>1. At("liquidate_position_cleanup") /\ ClosePositionCleanup(TRUE, AmountsOf(Ix, fee))
    BY <1>5, Zenon DEF LiquidatePositionCleanup
  <2>2. acc.position[Ix.pos].down_payment \in Nat /\ settings.liquidation_fee \in Nat
    BY <2>1, IxType, AccountFields DEF TypeInv, TypeOK, PositionRecords
  <2>3. fee \in Nat
    BY <2>2, LiquidationFeeType
  <2> HIDE DEF fee
  <2>4. ClosesBy("liquidate_position_setup", AmountsOf(Ix, fee))
    BY <1>1, <1>2, <2>1, <2>3 DEF ClosesBy, CloseSetups
  <2> QED
    BY <2>4
<1>6. CASE TakeProfitCleanup
  <2>1. /\ At("take_profit_cleanup") /\ ClosePositionCleanup(FALSE, AmountsOf(Ix, 0))
        /\ acc.take_profit_order[Ix.pos].set
    BY <1>6, Zenon DEF TakeProfitCleanup
  <2>2. ClosesBy("take_profit_setup", AmountsOf(Ix, 0))
    BY <1>1, <1>2, <2>1 DEF ClosesBy, CloseSetups
  <2> QED
    BY <2>2
<1>7. CASE StopLossCleanup
  <2>1. /\ At("stop_loss_cleanup") /\ ClosePositionCleanup(FALSE, AmountsOf(Ix, 0))
        /\ acc.stop_loss_order[Ix.pos].set
    BY <1>7, Zenon DEF StopLossCleanup
  <2>2. ClosesBy("stop_loss_setup", AmountsOf(Ix, 0))
    BY <1>1, <1>2, <2>1 DEF ClosesBy, CloseSetups
  <2> QED
    BY <2>2
<1> QED
  BY <1>3, <1>4, <1>5, <1>6, <1>7 DEF CloseCleanup

\* A cleanup closes the position of the one request there is: if it is the one
\* the setup asked for, the setup's signatures are the consent; if not, the one
\* asked for is still to come and will find nothing.
LEMMA CleanupConsented ==
  ASSUME TypeInv, PairInv, Instruction, Honest, \A p \in Positions : OrderKept(p),
         NEW x, NEW amounts, ClosesBy(x, amounts)
  PROVE  (Doomed \/ Honest)' /\ \A p \in Positions : OrderKept(p)'
<1>1. Advances
  BY InstructionAdvances
<1> USE <1>1, AdvanceFields
<1>2. PICK isLiquidation : /\ ClosePositionCleanup(isLiquidation, amounts)
                           /\ isLiquidation => x = "liquidate_position_setup"
  BY DEF ClosesBy
<1>3. x \in CloseSetups /\ At(CleanupOf[x]) /\ amounts \in Amounts
  BY DEF ClosesBy
<1>4. PICK trader \in Owners : trader = Ix.owner
  BY <1>3, IxType DEF TypeInv
<1>5. /\ acc \in Accounts /\ Ix.pos \in Positions /\ Ix.op = CleanupOf[x]
      /\ acc.position[Ix.pos] \in PositionRecords
      /\ acc.total_assets \in Nat
  BY <1>3, IxType, AccountFields DEF TypeInv, Good
<1>6. PairInv' /\ Safe(acc') /\ ClosePending(trader)
  BY <1>2, <1>3, <1>4, CloseCleanupPairs
<1>7. SetupBehind'
  <2>1. ~Safe(acc) /\ tx.running
    BY <1>6 DEF ClosePending, Safe, Advances
  <2>2. SetupBehind
    BY <2>1 DEF PairInv
  <2> QED
    BY <2>2, AdvanceSigners
<1>8. /\ MatchesCloseRequest(Ix)
      /\ BadDebtAllowed(isLiquidation, acc.position[Ix.pos].principal, amounts)
  BY <1>2, Zenon DEF ClosePositionCleanup
<1>9. PICK s \in CloseSetups : CleanupAhead(s) /\ Granted(s, trader)
  BY <1>6 DEF Honest, Entitled, ClosePending
<1>10. TraderOf[Ix.pos] = trader
  BY <1>4, <1>6, <1>8 DEF Honest, Entitled, ClosePending, MatchesCloseRequest
<1>11. /\ acc'.position = [acc.position EXCEPT ![Ix.pos] = NoPosition]
       /\ acc'.total_assets = TotalAssetsAfter(acc.position[Ix.pos].principal, amounts)
       /\ acc'.take_profit_order = [acc.take_profit_order EXCEPT ![Ix.pos] =
            IF Ix.op = "take_profit_cleanup" THEN NoOrder ELSE acc.take_profit_order[Ix.pos]]
       /\ acc'.stop_loss_order = [acc.stop_loss_order EXCEPT ![Ix.pos] =
            IF Ix.op = "stop_loss_cleanup" THEN NoOrder ELSE acc.stop_loss_order[Ix.pos]]
  BY <1>2, <1>5 DEF ClosePositionCleanup, Accounts
<1>12. /\ \A p \in Positions : p # Ix.pos => Untouched(p)
       /\ \A p \in Positions : /\ acc'.take_profit_order[p].set => acc.take_profit_order[p].set
                               /\ acc'.stop_loss_order[p].set => acc.stop_loss_order[p].set
  BY <1>5, <1>11 DEF NoOrder, Accounts, Untouched
<1>13. \A p \in Positions : OrderKept(p)'
  BY <1>12, OrderKeptStays
<1>14. CASE s # x
  <2>1. CleanupOf[s] # CleanupOf[x]
    BY <1>3, <1>9, <1>14 DEF CleanupOf, CloseSetups
  <2>2. CleanupAhead(s)'
    BY <1>5, <1>9, <2>1, AdvanceSigners
  <2>3. Doomed'
    BY <1>6, <1>7, <1>9, <2>2 DEF Doomed, Safe
  <2> QED
    BY <1>13, <2>3
<1>15. CASE s = x
  <2>1. \A o \in Owners : Entitled(o)'
    BY <1>6 DEF Safe, Entitled
  <2>2. ASSUME NEW p \in Positions PROVE Consented(p)'
    <3>1. CASE p # Ix.pos
      BY <1>12, <3>1, ConsentStays DEF Honest
    <3>2. CASE p = Ix.pos /\ x \notin {"take_profit_setup", "stop_loss_setup"}
      <4>1. TraderOf[p] \in tx.signers \/ Liquidated
        BY <1>3, <1>9, <1>10, <1>15, <3>2 DEF Granted, CloseSetups
      <4> QED
        BY <4>1, AdvanceSigners DEF Consented
    <3>3. CASE p = Ix.pos /\ x \in {"take_profit_setup", "stop_loss_setup"}
      <4>1. Cosigned'
        BY <1>9, <1>15, <3>3, AdvanceSigners DEF Granted
      <4>2. \/ /\ acc.take_profit_order[p].set /\ ~acc'.take_profit_order[p].set
            \/ /\ acc.stop_loss_order[p].set /\ ~acc'.stop_loss_order[p].set
        BY <1>5, <1>11, <3>3 DEF ClosesBy, CleanupOf, NoOrder, Accounts
      <4>3. TraderOf[p] \in tx'.signers \/ OrderUsed(p)'
        BY <4>2, AdvanceSigners DEF OrderKept, OrderUsed
      <4> QED
        BY <4>1, <4>3 DEF Consented
    <3> QED
      BY <3>1, <3>2, <3>3
  <2>3. LossExplained'
    <3>1. acc'.total_assets \in Nat
      BY InstructionGood, AccountFields DEF Good
    <3>2. acc'.total_assets >= acc.total_assets \/ Liquidated
      <4>1. CASE isLiquidation
        BY <1>2, <1>9, <1>15, <4>1 DEF Granted
      <4>2. CASE ~isLiquidation
        <5>1. /\ amounts.principal_repaid \in Nat /\ amounts.interest_paid \in Nat
              /\ acc.position[Ix.pos].principal \in Nat
          BY <1>3, <1>5 DEF Amounts, PositionRecords
        <5>2. amounts.principal_repaid >= acc.position[Ix.pos].principal
          BY <1>8, <4>2 DEF BadDebtAllowed
        <5>3. acc'.total_assets = acc.total_assets + amounts.interest_paid
          BY <1>11, <5>1, <5>2 DEF TotalAssetsAfter
        <5> QED
          BY <1>5, <5>1, <5>3
      <4> QED
        BY <4>1, <4>2
    <3> QED
      BY <3>1, <3>2, LossStays DEF Honest
  <2> QED
    BY <1>13, <2>1, <2>2, <2>3 DEF Honest
<1> QED
  BY <1>14, <1>15

LEMMA InstructionConsents ==
  ASSUME TypeInv, PairInv, Instruction, Honest, \A p \in Positions : OrderKept(p)
  PROVE  (Doomed \/ Honest)' /\ \A p \in Positions : OrderKept(p)'
<1>1. Advances
  BY InstructionAdvances
<1>2. acc.total_assets \in Nat
  BY AccountFields DEF TypeInv, Good
<1>3. CASE FrameStep
  <2>1. Frame
    BY <1>3, FrameInstructions
  <2>2. \A o \in Owners : Entitled(o)'
    BY <1>1, <2>1, EntitledStays DEF Honest, Frame
  <2> QED
    BY <1>3, <2>2, FrameUntouched, HonestStays
<1>4. CASE OpenSetup
  <2>1. Ix.op \notin CloseCleanups
    <3>1. ASSUME NEW minTarget, NEW down_payment, NEW principal, NEW fee,
                 \/ OpenLongPositionSetup(minTarget, down_payment, principal, fee)
                 \/ OpenShortPositionSetup(minTarget, down_payment, principal, fee)
          PROVE  At("open_long_position_setup") \/ At("open_short_position_setup")
      BY <3>1, Zenon DEF OpenLongPositionSetup, OpenShortPositionSetup
    <3> QED
      BY <1>4, <3>1 DEF OpenSetup, At, CloseCleanups, CloseSetups, CleanupOf
  <2>2. \A o \in Owners : Entitled(o)'
    BY <1>1, <1>4, <2>1, OpenSetupUntouched, EntitledStays DEF Honest
  <2> QED
    BY <1>2, <1>4, <2>2, OpenSetupUntouched, HonestStays
<1>5. CASE OpenLongPositionCleanup \/ OpenShortPositionCleanup
  <2>1. Ix.op \notin CloseCleanups
    BY <1>5, OpenCleanupUntouched DEF OpenCleanups, CloseCleanups, CloseSetups, CleanupOf
  <2>2. \A o \in Owners : Entitled(o)'
    BY <1>1, <1>5, <2>1, OpenCleanupUntouched, EntitledStays DEF Honest
  <2> QED
    BY <1>2, <1>5, <2>2, OpenCleanupUntouched, HonestStays
<1>6. CASE CloseSetup
  BY <1>1, <1>2, <1>6, CloseSetupsEntitle, HonestStays
<1>7. CASE CloseCleanup
  BY <1>7, CleanupCloses, CleanupConsented
<1> QED
  BY <1>3, <1>4, <1>5, <1>6, <1>7 DEF Instruction, FrameStep

LEMMA StepConsents ==
  ASSUME TypeInv, PairInv, ConsentInv, [Next]_vars PROVE ConsentInv'
<1>1. CASE Instruction
  <2>1. Advances /\ tx.running /\ tx'.running
    BY <1>1, InstructionAdvances, AdvanceFields DEF Advances
  <2>2. \A p \in Positions : OrderKept(p)'
    <3>1. CASE Honest
      BY <1>1, <2>1, <3>1, InstructionConsents DEF ConsentInv
    <3>2. CASE Doomed
      <4>1. FrameStep
        BY <1>1, <3>2, DoomedRuns
      <4> QED
        BY <2>1, <4>1, FrameUntouched, OrderKeptStays DEF ConsentInv, Untouched
    <3> QED
      BY <2>1, <3>1, <3>2 DEF ConsentInv
  <2>3. (Doomed \/ Honest)'
    BY <1>1, <2>1, DoomedStays, InstructionConsents DEF ConsentInv
  <2> QED
    BY <2>1, <2>2, <2>3 DEF ConsentInv
<1>2. ASSUME NEW plan \in Plans, NEW signers \in Signings, Begin(plan, signers)
      PROVE  ConsentInv'
  <2>1. acc = saved /\ Safe(acc) /\ acc' = acc /\ saved' = saved /\ tx'.running
    BY <1>2 DEF Begin, ConsentInv, PairInv
  <2>2. acc.total_assets \in Nat
    BY AccountFields DEF TypeInv, Good
  <2>3. \A p \in Positions : OrderKept(p)' /\ Consented(p)'
    BY <2>1 DEF OrderKept, Consented
  <2>4. \A o \in Owners : Entitled(o)'
    BY <2>1 DEF Entitled, Safe
  <2>5. LossExplained'
    BY <2>1, <2>2 DEF LossExplained
  <2> QED
    BY <2>1, <2>3, <2>4, <2>5 DEF ConsentInv, Honest
<1>3. CASE Commit \/ Abort
  BY <1>3 DEF Commit, Abort, Idle, ConsentInv
<1>4. CASE Tick
  BY <1>4 DEF Tick, ConsentInv
<1>5. CASE Administration
  <2>1. ~tx.running /\ acc' = acc /\ saved' = saved /\ tx' = tx
    BY <1>5 DEF Administration, SetTradingState, SetMaxApy, SetMaxLeverage, SetLiquidationFee,
                Configure
  <2> QED
    BY <2>1 DEF ConsentInv
<1>6. CASE UNCHANGED vars
  BY <1>6 DEF vars, ConsentInv, Doomed, Honest, Safe, SetupBehind, CleanupAhead, OrderKept,
              Entitled, Granted, Consented, OrderUsed, LossExplained, Liquidated, Cosigned,
              Includes
<1> QED
  BY <1>1, <1>2, <1>3, <1>4, <1>5, <1>6 DEF Next

\* What commits is not doomed.
LEMMA CommitIsHonest ==
  ASSUME TypeInv, PairInv, ConsentInv, Commit PROVE Honest
<1>1. tx.running /\ tx.pc > Len(tx.ixs) /\ tx.pc \in Nat /\ Len(tx.ixs) \in Nat
  BY DEF Commit, TypeInv, TypeOK, Transactions
<1>2. ~Doomed
  BY <1>1 DEF Doomed, CleanupAhead
<1> QED
  BY <1>1, <1>2 DEF ConsentInv

LEMMA InitConsents == ASSUME Init PROVE ConsentInv
  BY DEF Init, Idle, ConsentInv

LEMMA AlwaysConsented == Spec /\ []SetupsOnTop => [](TypeInv /\ PairInv /\ ConsentInv)
<1>1. Init => PairInv /\ ConsentInv
  BY InitPairs, InitConsents
<1>2. TypeInv /\ PairInv /\ ConsentInv /\ SetupsOnTop /\ [Next]_vars => PairInv' /\ ConsentInv'
  BY StepPairs, StepConsents
<1> QED
  BY <1>1, <1>2, AlwaysTyped, PTL DEF Spec

\* As long as no other program invokes a setup: no position disappears without its
\* trader's, a liquidator's or a cosigner's signature, and the cosigner's closes
\* it only by using up an order the trader had placed before.
THEOREM OwnerConsentCorrect == Spec /\ []SetupsOnTop => OwnerConsent
<1>1. TypeInv /\ PairInv /\ ConsentInv /\ [Next]_vars =>
        [Commit => \A p \in Positions :
           saved.position[p].open /\ ~acc.position[p].open =>
             \/ TraderOf[p] \in tx.signers
             \/ tx.signers \cap CanLiquidate # {}
             \/ /\ tx.signers \cap CanCosign # {}
                /\ \/ saved.take_profit_order[p].set /\ ~acc.take_profit_order[p].set
                   \/ saved.stop_loss_order[p].set /\ ~acc.stop_loss_order[p].set]_vars
  BY CommitIsHonest DEF Honest, Consented, OrderUsed, Liquidated, Cosigned
<1> QED
  BY <1>1, AlwaysConsented, PTL DEF Spec, OwnerConsent

\* As long as no other program invokes a setup: of the transactions of providers
\* and traders only one that a liquidator signed, or that withdraws, leaves the
\* vault with fewer assets, although liquidate_position_cleanup asks nobody for
\* a permission: behind another setup it dooms the transaction.
THEOREM BadDebtOnlyByLiquidatorCorrect == Spec /\ []SetupsOnTop => BadDebtOnlyByLiquidator
<1>1. TypeInv /\ PairInv /\ ConsentInv /\ [Next]_vars =>
        [Commit /\ acc.total_assets < saved.total_assets /\ ~Includes("withdraw")
           => tx.signers \cap CanLiquidate # {}]_vars
  <2>1. TypeInv => acc.total_assets \in Nat /\ saved.total_assets \in Nat
    BY AccountFields DEF TypeInv, Good
  <2> QED
    BY <2>1, CommitIsHonest DEF Honest, LossExplained, Liquidated
<1> QED
  BY <1>1, AlwaysConsented, PTL DEF Spec, BadDebtOnlyByLiquidator
=============================================================================
