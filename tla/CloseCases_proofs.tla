------------------------- MODULE CloseCases_proofs -------------------------
(* What holds of a closing for all amounts, limits and ages.               *)
EXTENDS CloseCases, TLAPS
-----------------------------------------------------------------------------
(* Splitting an amount *)

LEMMA DeductSplits ==
  ASSUME NEW amount \in Nat, NEW claim \in Nat
  PROVE  /\ Deduct(amount, claim).left \in Nat /\ Deduct(amount, claim).taken \in Nat
         /\ Deduct(amount, claim).left + Deduct(amount, claim).taken = amount
         /\ Deduct(amount, claim).taken <= claim
         /\ Deduct(amount, claim).left > 0 => Deduct(amount, claim).taken = claim
  BY DEF Deduct, LesserOf

\* More to share leaves more.
LEMMA DeductMonotone ==
  ASSUME NEW a \in Nat, NEW b \in Nat, NEW c \in Nat, NEW d \in Nat
  PROVE  /\ b <= a /\ c <= d => Deduct(b, d).left <= Deduct(a, c).left
         /\ c <= d => Deduct(a, c).taken <= Deduct(a, d).taken
  BY DEF Deduct, LesserOf

LEMMA ProductType == ASSUME NEW a \in Nat, NEW b \in Nat PROVE a * b \in Nat
  OBVIOUS

LEMMA QuotientType == ASSUME NEW a \in Nat, NEW d \in Nat \ {0} PROVE a \div d \in Nat
  OBVIOUS

LEMMA QuotientMonotone ==
  ASSUME NEW a \in Nat, NEW b \in Nat, NEW d \in Nat \ {0}, a <= b
  PROVE  a \div d <= b \div d
  OBVIOUS
-----------------------------------------------------------------------------
(* The waterfall, for any closing *)

Amount(p) == /\ p.down_payment \in Nat /\ p.principal \in Nat
             /\ p.collateral_amount \in Nat /\ p.fees_to_be_paid \in Nat

LEMMA CloseFeeType ==
  ASSUME NEW p, Amount(p), NEW long \in BOOLEAN, NEW net \in Nat, CloseFeeBase(p, long) > 0
  PROVE  CloseFee(p, net, long) \in Nat
<1>1. CloseFeeBase(p, long) \in Nat \ {0}
  BY DEF CloseFeeBase, Amount
<1>2. (IF long THEN p.principal ELSE p.collateral_amount) + net \in Nat
  BY DEF Amount
<1>3. ((IF long THEN p.principal ELSE p.collateral_amount) + net) * p.fees_to_be_paid \in Nat
  BY <1>2, ProductType DEF Amount
<1> QED
  BY <1>1, <1>3, QuotientType DEF CloseFee

\* What the vault gets and what it leaves is what came in.
LEMMA ShareSplits ==
  ASSUME NEW p, Amount(p), NEW long \in BOOLEAN, NEW bought \in Nat, NEW interest \in Nat,
         NEW share, share = VaultShare(p, long, bought, interest)
  PROVE  /\ share.principal_repaid \in Nat /\ share.interest_paid \in Nat /\ share.left \in Nat
         /\ share.principal_repaid + share.interest_paid + share.left = bought
         /\ share.principal_repaid <= p.principal
         /\ share.principal_repaid < p.principal => share.interest_paid + share.left = 0
         /\ long => share.interest_paid <= interest
         /\ long /\ share.left > 0 => share.interest_paid = interest
         /\ ~long => share.left = 0
<1> DEFINE first == Deduct(bought, p.principal)
<1> DEFINE second == Deduct(first.left, interest)
<1>1. /\ first.left \in Nat /\ first.taken \in Nat /\ first.left + first.taken = bought
      /\ first.taken <= p.principal /\ (first.left > 0 => first.taken = p.principal)
  BY DeductSplits DEF Amount
<1>2. /\ second.left \in Nat /\ second.taken \in Nat /\ second.left + second.taken = first.left
      /\ second.taken <= interest /\ (second.left > 0 => second.taken = interest)
  BY <1>1, DeductSplits
<1>3. /\ share.principal_repaid = first.taken
      /\ long => share.interest_paid = second.taken /\ share.left = second.left
      /\ ~long => share.interest_paid = first.left /\ share.left = 0
  BY DEF VaultShare
<1> HIDE DEF first, second
<1>4. p.principal \in Nat
  BY DEF Amount
<1>5. CASE long
  <2>1. share.interest_paid = second.taken /\ share.left = second.left
    BY <1>3, <1>5
  <2>2. share.principal_repaid + share.interest_paid + share.left = bought
    BY <1>1, <1>2, <1>3, <2>1
  <2>3. share.principal_repaid < p.principal => share.interest_paid + share.left = 0
    BY <1>1, <1>2, <1>3, <1>4, <2>1
  <2> QED
    BY <1>1, <1>2, <1>3, <1>5, <2>1, <2>2, <2>3
<1>6. CASE ~long
  BY <1>1, <1>3, <1>4, <1>6
<1> QED
  BY <1>5, <1>6

\* The fees and the payout are what was left for them.
Handed(p, long, sold, fee, claim, share, out) ==
  /\ out.principal_repaid = share.principal_repaid
  /\ out.interest_paid = share.interest_paid
  /\ out.collateral_spent = sold
  /\ out.close_fee \in Nat /\ out.liquidation_fee \in Nat /\ out.payout \in Nat
  /\ out.close_fee + out.liquidation_fee + out.payout
       = IF long THEN share.left ELSE p.collateral_amount - sold
  /\ out.liquidation_fee <= claim
  /\ out.payout > 0 => out.close_fee >= fee /\ out.liquidation_fee = claim

LEMMA CloseSplits ==
  ASSUME NEW p, Amount(p), NEW long \in BOOLEAN, NEW sold \in Nat, NEW bought \in Nat,
         NEW interest \in Nat, NEW fee \in Nat, NEW claim \in Nat,
         sold <= p.collateral_amount, CloseFeeBase(p, long) > 0
  PROVE  Handed(p, long, sold, fee, claim, VaultShare(p, long, bought, interest),
                CloseAmounts(p, long, sold, bought, interest, fee, claim))
<1> DEFINE share == VaultShare(p, long, bought, interest)
<1> DEFINE out == CloseAmounts(p, long, sold, bought, interest, fee, claim)
<1> DEFINE net == IF long THEN share.left ELSE Deduct(p.collateral_amount, sold).left
<1> DEFINE first == Deduct(net, CloseFee(p, net, long) + fee)
<1> DEFINE second == Deduct(first.left, claim)
<1>1. net \in Nat /\ net = IF long THEN share.left ELSE p.collateral_amount - sold
  <2>1. share.left \in Nat
    BY ShareSplits
  <2>2. Deduct(p.collateral_amount, sold).left = p.collateral_amount - sold
        /\ p.collateral_amount - sold \in Nat
    BY DEF Deduct, Amount
  <2> QED
    BY <2>1, <2>2
<1>2. out.close_fee = first.taken /\ out.liquidation_fee = second.taken /\ out.payout = second.left
  BY DEF CloseAmounts
<1>3. /\ out.principal_repaid = share.principal_repaid
      /\ out.interest_paid = share.interest_paid /\ out.collateral_spent = sold
  BY DEF CloseAmounts
<1> HIDE DEF net, share, out
<1>4. CloseFee(p, net, long) \in Nat
  BY <1>1, CloseFeeType
<1>5. /\ first.left \in Nat /\ first.taken \in Nat /\ first.left + first.taken = net
      /\ first.left > 0 => first.taken = CloseFee(p, net, long) + fee
  BY <1>1, <1>4, DeductSplits
<1> HIDE DEF first
<1>6. /\ second.left \in Nat /\ second.taken \in Nat /\ second.left + second.taken = first.left
      /\ second.taken <= claim /\ (second.left > 0 => second.taken = claim)
  BY <1>5, DeductSplits
<1> HIDE DEF second
<1>7. out.payout > 0 => first.left > 0
  BY <1>2, <1>5, <1>6
<1>8. Handed(p, long, sold, fee, claim, share, out)
  BY <1>1, <1>2, <1>3, <1>4, <1>5, <1>6, <1>7 DEF Handed
<1> QED
  BY <1>8 DEF share, out
-----------------------------------------------------------------------------
(* The closings of CloseCases *)

TypeInv ==
  /\ isLong \in BOOLEAN /\ Amount(pos)
  /\ seconds \in Nat /\ max_apy \in Nat /\ spent \in Nat /\ received \in Nat
  /\ interestArg \in Nat /\ execution_fee \in Nat /\ percent \in Nat
  /\ scale \in Inputs
  /\ Accepted

LEMMA MaxInterestType ==
  ASSUME NEW principal \in Nat, NEW apy \in Nat, NEW age \in Nat
  PROVE  MaxInterest(principal, apy, age) \in Nat
<1>1. (principal * apy) * age \in Nat
  BY ProductType
<1>2. ((principal * apy) * age) \div InterestDenominator \in Nat
  BY <1>1, QuotientType, DenominatorAssumption
<1> QED
  BY <1>2 DEF MaxInterest

LEMMA LimitType == ASSUME TypeInv PROVE Limit \in Nat /\ Interest \in Nat /\ Interest <= Limit
<1>1. Limit \in Nat
  BY MaxInterestType DEF Limit, TypeInv, Amount
<1> QED
  BY <1>1 DEF Interest, CapInterest, TypeInv

LEMMA LiquidationType == ASSUME TypeInv PROVE LiquidationFee(pos.down_payment, percent) \in Nat
<1>1. pos.down_payment * percent \in Nat
  BY ProductType DEF TypeInv, Amount
<1> QED
  BY <1>1, QuotientType DEF LiquidationFee

\* The facts about the waterfall, for the closing of the state.
LEMMA AmountsSplit ==
  ASSUME TypeInv
  PROVE  /\ Amounts.principal_repaid \in Nat /\ Amounts.interest_paid \in Nat
         /\ Amounts.close_fee \in Nat /\ Amounts.liquidation_fee \in Nat /\ Amounts.payout \in Nat
         /\ Amounts.principal_repaid <= pos.principal
         /\ Amounts.collateral_spent = spent
         /\ Amounts.liquidation_fee <= LiquidationFee(pos.down_payment, percent)
         /\ isLong =>
              /\ Amounts.principal_repaid + Amounts.interest_paid + Amounts.close_fee
                   + Amounts.liquidation_fee + Amounts.payout = received
              /\ Amounts.interest_paid <= Interest
              /\ Amounts.principal_repaid < pos.principal =>
                   Amounts.close_fee + Amounts.liquidation_fee + Amounts.payout = 0
              /\ Amounts.payout > 0 => /\ Amounts.principal_repaid = pos.principal
                                       /\ Amounts.interest_paid = Interest
         /\ ~isLong =>
              /\ Amounts.principal_repaid + Amounts.interest_paid = received
              /\ Amounts.close_fee + Amounts.liquidation_fee + Amounts.payout
                   = pos.collateral_amount - spent
         /\ Amounts.payout > 0 =>
              /\ Amounts.close_fee >= execution_fee
              /\ Amounts.liquidation_fee = LiquidationFee(pos.down_payment, percent)
<1> DEFINE share == VaultShare(pos, isLong, received, Interest)
<1> DEFINE claim == LiquidationFee(pos.down_payment, percent)
<1>1. Interest \in Nat /\ claim \in Nat
  BY LimitType, LiquidationType
<1>2. /\ Amount(pos) /\ isLong \in BOOLEAN /\ spent \in Nat /\ received \in Nat
      /\ execution_fee \in Nat /\ spent <= pos.collateral_amount
      /\ CloseFeeBase(pos, isLong) > 0 /\ pos.principal \in Nat /\ pos.collateral_amount \in Nat
  BY DEF TypeInv, Accepted, Amount
<1>3. /\ share.principal_repaid \in Nat /\ share.interest_paid \in Nat /\ share.left \in Nat
      /\ share.principal_repaid + share.interest_paid + share.left = received
      /\ share.principal_repaid <= pos.principal
      /\ share.principal_repaid < pos.principal => share.interest_paid + share.left = 0
      /\ isLong => share.interest_paid <= Interest
      /\ isLong /\ share.left > 0 => share.interest_paid = Interest
      /\ ~isLong => share.left = 0
  BY <1>1, <1>2, ShareSplits
<1> HIDE DEF share, claim
<1>4. Handed(pos, isLong, spent, execution_fee, claim, share, Amounts)
  BY <1>1, <1>2, CloseSplits DEF share, Amounts, claim
<1> USE DEF claim, Handed
<1>5. CASE isLong
  <2>1. Amounts.close_fee + Amounts.liquidation_fee + Amounts.payout = share.left
    BY <1>4, <1>5
  <2>2. Amounts.payout > 0 => share.left > 0
    BY <1>4, <2>1
  <2>3. Amounts.payout > 0 => share.interest_paid = Interest /\ ~(share.principal_repaid < pos.principal)
    BY <1>3, <1>5, <2>2
  <2>4. share.principal_repaid < pos.principal => share.left = 0
    BY <1>3
  <2>5. Amounts.principal_repaid + Amounts.interest_paid + Amounts.close_fee
          + Amounts.liquidation_fee + Amounts.payout = received
    BY <1>3, <1>4, <2>1
  <2>6. Amounts.payout > 0 => Amounts.principal_repaid = pos.principal
    BY <1>2, <1>3, <1>4, <2>3
  <2> QED
    BY <1>3, <1>4, <1>5, <2>1, <2>3, <2>4, <2>5, <2>6
<1>6. CASE ~isLong
  <2>1. Amounts.close_fee + Amounts.liquidation_fee + Amounts.payout = pos.collateral_amount - spent
    BY <1>4, <1>6
  <2>2. Amounts.principal_repaid + Amounts.interest_paid = received
    BY <1>3, <1>4, <1>6
  <2> QED
    BY <1>3, <1>4, <1>6, <2>1, <2>2
<1> QED
  BY <1>5, <1>6
-----------------------------------------------------------------------------
(* What every closing keeps to *)

LEMMA TypeInvariant == Spec => []TypeInv
<1>1. Init => TypeInv
  BY ScalesAssumption DEF Init, TypeInv, Inputs, Position, Amount
<1>2. TypeInv /\ [Next]_vars => TypeInv'
  <2> SUFFICES ASSUME TypeInv, [Next]_vars PROVE TypeInv'
    OBVIOUS
  <2>1. CASE Next
    <3>1. scale \in Inputs => seconds' \in Nat
      BY <2>1 DEF Next, Age, closing, Inputs
    <3> QED
      BY <2>1, <3>1 DEF Next, Age, closing, TypeInv, Amount
  <2>2. CASE UNCHANGED vars
    BY <2>2 DEF vars, closing, TypeInv, Amount, Accepted, Amounts, Interest, Limit
  <2> QED
    BY <2>1, <2>2
<1> QED
  BY <1>1, <1>2, PTL DEF Spec

\* Nothing a closing swap brings in is lost or made up, whatever the position
\* and the prices (close_position_cleanup).
THEOREM NothingLostCorrect == Spec => []NothingLost
<1>1. TypeInv => NothingLost
  <2> SUFFICES ASSUME TypeInv PROVE NothingLost
    OBVIOUS
  <2> QED
    BY AmountsSplit DEF NothingLost
<1> QED
  BY <1>1, TypeInvariant, PTL

\* The claims on a closing are served in order (close_position_cleanup).
THEOREM SeniorFirstCorrect == Spec => []SeniorFirst
<1>1. TypeInv => SeniorFirst
  <2> SUFFICES ASSUME TypeInv PROVE SeniorFirst
    OBVIOUS
  <2> QED
    BY AmountsSplit DEF SeniorFirst
<1> QED
  BY <1>1, TypeInvariant, PTL

\* Interest stays below the debt controller's limit, or for a short within the
\* tolerance of validate_difference.
THEOREM InterestBoundedCorrect == Spec => []InterestBounded
<1>1. TypeInv => InterestBounded
  <2> SUFFICES ASSUME TypeInv PROVE InterestBounded
    OBVIOUS
  <2>1. Limit \in Nat /\ Interest \in Nat /\ Interest <= Limit /\ Amounts.interest_paid \in Nat
    BY LimitType, AmountsSplit
  <2>2. CASE isLong
    BY <2>1, <2>2, AmountsSplit DEF InterestBounded
  <2>3. CASE ~isLong
    <3>1. Amounts.interest_paid = 0
          \/ WithinPercent(Interest, Amounts.interest_paid, 3)
      BY <2>3 DEF TypeInv, Accepted, InterestAccepted
    <3>2. Amounts.interest_paid * 100 <= Interest * 103
      BY <2>1, <3>1 DEF WithinPercent, Difference
    <3> QED
      BY <2>1, <2>3, <3>2 DEF InterestBounded
  <2> QED
    BY <2>2, <2>3
<1> QED
  BY <1>1, TypeInvariant, PTL

\* An exit order's test on the amounts paid out is a test on the amounts
\* exchanged (take_profit_cleanup, stop_loss_cleanup).
THEOREM PriceMetCorrect == Spec => []PriceMet
<1>1. TypeInv => PriceMet
  <2> SUFFICES ASSUME TypeInv, percent = 0, NEW price \in scale.prices
      PROVE  LET order == [maker_amount |-> price[1], taker_amount |-> price[2]] IN
             /\ TargetReached(order, isLong, Amounts) =>
                  IF isLong THEN received >= order.taker_amount
                  ELSE spent * order.taker_amount <= received * order.maker_amount
             /\ StopReached(order, isLong, Amounts) =>
                  IF isLong THEN received <= order.taker_amount
                  ELSE spent * order.taker_amount >= received * order.maker_amount
    BY DEF PriceMet
  <2>1. price[1] \in Nat /\ price[2] \in Nat
    BY DEF TypeInv, Inputs
  <2>2. CASE isLong
    <3>1. LiquidationFee(pos.down_payment, percent) = 0
      BY DEF LiquidationFee, TypeInv, Amount
    <3>2. Proceeds(Amounts) = received
      BY <2>2, <3>1, AmountsSplit DEF Proceeds
    <3> QED
      BY <2>1, <2>2, <3>2 DEF TargetReached, StopReached
  <2>3. CASE ~isLong
    <3>1. ToVault(Amounts) = received /\ Amounts.collateral_spent = spent
      BY <2>3, AmountsSplit DEF ToVault
    <3>2. spent * price[2] \in Nat /\ received * price[1] \in Nat
      BY <2>1, ProductType DEF TypeInv
    <3> QED
      BY <2>1, <2>3, <3>1, <3>2 DEF TargetReached, StopReached
  <2> QED
    BY <2>2, <2>3
<1> QED
  BY <1>1, TypeInvariant, PTL
-----------------------------------------------------------------------------
(* Waiting *)

LEMMA ProductMonotone ==
  ASSUME NEW a \in Nat, NEW b \in Nat, NEW c \in Nat, a <= b
  PROVE  a * c <= b * c /\ c * a <= c * b
<1>1. (b - a) * c \in Nat /\ b * c = a * c + (b - a) * c /\ a * c \in Nat
  BY ProductType
<1>2. a * c = c * a /\ b * c = c * b
  OBVIOUS
<1> QED
  BY <1>1, <1>2

LEMMA MaxInterestGrows ==
  ASSUME NEW principal \in Nat, NEW apy \in Nat, NEW age \in Nat, NEW later \in Nat,
         age <= later
  PROVE  MaxInterest(principal, apy, age) <= MaxInterest(principal, apy, later)
<1> DEFINE rate == principal * apy
<1> DEFINE now == (rate * age) \div InterestDenominator
<1> DEFINE then == (rate * later) \div InterestDenominator
<1>1. rate \in Nat
  BY ProductType
<1>2. MaxInterest(principal, apy, age) = (IF now = 0 THEN 1 ELSE now)
      /\ MaxInterest(principal, apy, later) = (IF then = 0 THEN 1 ELSE then)
  BY DEF MaxInterest
<1> HIDE DEF rate
<1>3. rate * age \in Nat /\ rate * later \in Nat /\ rate * age <= rate * later
  BY <1>1, ProductType, ProductMonotone, Zenon
<1>4. now <= then /\ now \in Nat /\ then \in Nat
  BY <1>3, QuotientMonotone, QuotientType, DenominatorAssumption
<1> HIDE DEF now, then
<1> QED
  BY <1>2, <1>4

LEMMA QuotientOfSum ==
  ASSUME NEW a \in Nat, NEW k \in Nat, NEW d \in Nat \ {0}
  PROVE  (a + k * d) \div d = a \div d + k
  OBVIOUS

\* The fee takes less than one unit of every unit more that is left to share.
LEMMA FeeBelowGain ==
  ASSUME NEW p, Amount(p), CloseFeeBase(p, TRUE) > 0, NEW m \in Nat, NEW n \in Nat, n <= m
  PROVE  n - CloseFee(p, n, TRUE) <= m - CloseFee(p, m, TRUE)
<1> DEFINE f == p.fees_to_be_paid
<1> DEFINE base == CloseFeeBase(p, TRUE)
<1> DEFINE a == (p.principal + n) * f
<1> DEFINE b == (p.principal + m) * f
<1> DEFINE k == m - n
<1> DEFINE feeOfN == CloseFee(p, n, TRUE)
<1> DEFINE feeOfM == CloseFee(p, m, TRUE)
<1>1. base \in Nat \ {0} /\ f \in Nat /\ f <= base /\ k \in Nat
  BY DEF CloseFeeBase, Amount
<1>2. feeOfN = a \div base /\ feeOfM = b \div base
  BY DEF CloseFee
<1>3. p.principal + n \in Nat /\ p.principal + m = (p.principal + n) + k
  BY DEF Amount
<1>4. a \in Nat /\ b = a + k * f /\ k * f \in Nat /\ b \in Nat
  BY <1>1, <1>3, ProductType
<1>5. k * f <= k * base /\ k * base \in Nat
  BY <1>1, ProductMonotone, ProductType
<1> HIDE DEF a, b, base, f, feeOfN, feeOfM
<1>6. b <= a + k * base /\ a + k * base \in Nat
  BY <1>4, <1>5
<1>7. b \div base <= (a + k * base) \div base
  BY <1>1, <1>4, <1>6, QuotientMonotone
<1>8. b \div base <= a \div base + k
  BY <1>1, <1>4, <1>7, QuotientOfSum
<1>9. a \div base \in Nat /\ b \div base \in Nat
  BY <1>1, <1>4, QuotientType
<1>10. n - feeOfN <= m - feeOfM
  BY <1>2, <1>8, <1>9
<1> QED
  BY <1>10 DEF feeOfN, feeOfM

LEMMA PayoutMonotone ==
  ASSUME NEW p, Amount(p), CloseFeeBase(p, TRUE) > 0, NEW m \in Nat, NEW n \in Nat, n <= m,
         NEW fee \in Nat, NEW claim \in Nat
  PROVE  Deduct(Deduct(n, CloseFee(p, n, TRUE) + fee).left, claim).left
           <= Deduct(Deduct(m, CloseFee(p, m, TRUE) + fee).left, claim).left
<1> DEFINE feeOfN == CloseFee(p, n, TRUE)
<1> DEFINE feeOfM == CloseFee(p, m, TRUE)
<1> DEFINE dueOfN == feeOfN + fee
<1> DEFINE dueOfM == feeOfM + fee
<1>1. feeOfN \in Nat /\ feeOfM \in Nat
  BY CloseFeeType
<1>2. n - feeOfN <= m - feeOfM
  BY FeeBelowGain
<1> HIDE DEF feeOfN, feeOfM
<1>3. dueOfN \in Nat /\ dueOfM \in Nat /\ n - dueOfN <= m - dueOfM
  BY <1>1, <1>2
<1> HIDE DEF dueOfN, dueOfM
<1>4. Deduct(n, dueOfN).left <= Deduct(m, dueOfM).left
  BY <1>3 DEF Deduct
<1>5. Deduct(n, dueOfN).left \in Nat /\ Deduct(m, dueOfM).left \in Nat
  BY <1>3, DeductSplits
<1>6. Deduct(Deduct(n, dueOfN).left, claim).left <= Deduct(Deduct(m, dueOfM).left, claim).left
  BY <1>4, <1>5 DEF Deduct
<1> QED
  BY <1>6 DEF dueOfN, dueOfM, feeOfN, feeOfM

\* Closing a long later, at the same prices, is never cheaper for the trader nor
\* worse for the vault (compute_max_interest, compute_close_fee).
THEOREM LaterCostsMoreCorrect == Spec => LaterCostsMore
<1>1. TypeInv /\ TypeInv' /\ [Next]_vars =>
        [isLong /\ interestArg = 0 => Amounts'.interest_paid >= Amounts.interest_paid
                                      /\ Amounts'.payout <= Amounts.payout]_vars
  <2> SUFFICES ASSUME TypeInv, TypeInv', Age, isLong, interestArg = 0
      PROVE  Amounts'.interest_paid >= Amounts.interest_paid /\ Amounts'.payout <= Amounts.payout
    BY DEF Next
  <2> DEFINE first == Deduct(received, pos.principal).left
  <2> DEFINE claim == LiquidationFee(pos.down_payment, percent)
  <2> DEFINE net(limit) == Deduct(first, limit).left
  <2> DEFINE paid(n) ==
        Deduct(Deduct(n, CloseFee(pos, n, TRUE) + execution_fee).left, claim).left
  <2>1. /\ isLong' = isLong /\ pos' = pos /\ spent' = spent /\ received' = received
        /\ interestArg' = 0 /\ execution_fee' = execution_fee /\ percent' = percent
    BY DEF Age, closing
  <2>2. /\ Limit \in Nat /\ Limit' \in Nat /\ Limit <= Limit'
        /\ Interest = Limit /\ Interest' = Limit'
    <3>1. pos' = pos /\ max_apy' = max_apy /\ seconds <= seconds'
          /\ pos.principal \in Nat /\ max_apy \in Nat /\ seconds \in Nat /\ seconds' \in Nat
      BY DEF Age, closing, TypeInv, Amount
    <3>2. Limit = MaxInterest(pos.principal, max_apy, seconds)
          /\ Limit' = MaxInterest(pos.principal, max_apy, seconds')
      BY <3>1 DEF Limit
    <3>3. Limit \in Nat /\ Limit' \in Nat /\ Limit <= Limit'
      BY <3>1, <3>2, MaxInterestType, MaxInterestGrows
    <3> QED
      BY <2>1, <3>3 DEF Interest, CapInterest
  <2>3. /\ Amount(pos) /\ CloseFeeBase(pos, TRUE) > 0 /\ first \in Nat /\ claim \in Nat
        /\ execution_fee \in Nat
    BY LiquidationType, DeductSplits DEF TypeInv, Accepted, Amount
  <2>4. /\ Amounts.interest_paid = Deduct(first, Limit).taken
        /\ Amounts.payout = paid(net(Limit))
    BY <2>2 DEF Amounts, CloseAmounts, VaultShare
  <2>5. /\ Amounts'.interest_paid = Deduct(first, Limit').taken
        /\ Amounts'.payout = paid(net(Limit'))
    BY <2>1, <2>2 DEF Amounts, CloseAmounts, VaultShare
  <2> HIDE DEF first, claim
  <2>6. /\ Deduct(first, Limit).taken <= Deduct(first, Limit').taken
        /\ net(Limit') <= net(Limit) /\ net(Limit) \in Nat /\ net(Limit') \in Nat
    BY <2>2, <2>3, DeductMonotone, DeductSplits
  <2>7. paid(net(Limit')) <= paid(net(Limit))
    BY <2>3, <2>6, PayoutMonotone
  <2>8. Deduct(first, Limit).taken \in Nat /\ Deduct(first, Limit').taken \in Nat
    BY <2>2, <2>3, DeductSplits
  <2> QED
    BY <2>4, <2>5, <2>6, <2>7, <2>8
<1> QED
  BY <1>1, TypeInvariant, PTL DEF Spec, LaterCostsMore
=============================================================================
