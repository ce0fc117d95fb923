-------------------------- MODULE LpShares_proofs --------------------------
(***************************************************************************)
(* The share accounting of an LP vault is right for every set of owners    *)
(* and amounts: balances stay natural numbers, the books balance, and      *)
(* rounding never moves value away from the shares that stay.              *)
(***************************************************************************)
EXTENDS LpShares, UnitSumLemmas, TLAPS

\* Rounding down loses less than one divisor.
LEMMA DivBounds ==
  ASSUME NEW n \in Nat, NEW d \in Nat, d > 0
  PROVE  /\ n \div d \in Nat
         /\ (n \div d) * d <= n
         /\ n < (n \div d + 1) * d
OBVIOUS

\* Minting m shares for a assets keeps the price if m shares are worth at most a.
LEMMA MintKeepsPrice ==
  ASSUME NEW T \in Nat, NEW S \in Nat, NEW a \in Nat, NEW m \in Nat, m * T <= S * a
  PROVE  (T + a) * S >= T * (S + m)
OBVIOUS

\* Paying a assets for s shares keeps the price if s shares are worth at least a.
LEMMA BurnKeepsPrice ==
  ASSUME NEW T \in Nat, NEW S \in Nat, NEW a \in Nat, NEW s \in Nat, a * S <= s * T
  PROVE  (T - a) * S >= T * (S - s)
OBVIOUS

\* The quantities the conversions return are naturals within the roundings.
LEMMA Conversions ==
  ASSUME TypeOK, NEW a \in Nat
  PROVE  /\ supply = 0 \/ total_assets > 0
              => SharesFor(a) \in Nat
         /\ supply > 0 /\ total_assets > 0
              => SharesFor(a) * total_assets <= supply * a
         /\ supply > 0
              => AssetsFor(a) \in Nat /\ AssetsFor(a) * supply <= a * total_assets
         /\ total_assets > 0
              => /\ BurnFor(a) \in Nat
                 /\ a * supply < (BurnFor(a) + 1) * total_assets
<1> USE DEF TypeOK
<1>1. supply * a \in Nat /\ a * total_assets \in Nat /\ a * supply \in Nat
  OBVIOUS
<1>2. supply > 0 /\ total_assets > 0
        => SharesFor(a) \in Nat /\ SharesFor(a) * total_assets <= supply * a
  BY <1>1, DivBounds DEF SharesFor
<1>3. supply = 0 => SharesFor(a) = a
  BY DEF SharesFor
<1>4. supply > 0 => AssetsFor(a) \in Nat /\ AssetsFor(a) * supply <= a * total_assets
  BY <1>1, DivBounds DEF AssetsFor
<1>5. RoundingProtection(a) \in Nat /\ RoundingProtection(a) >= 1
  <2>1. a \div ProtectionDivisor \in Nat
    BY SharesAssumption, DivBounds
  <2>2. QED
    BY <2>1 DEF RoundingProtection, LargerOf
<1>6. ASSUME total_assets > 0
      PROVE  /\ BurnFor(a) \in Nat
             /\ a * supply < (BurnFor(a) + 1) * total_assets
  <2> DEFINE n == a * supply + RoundingProtection(a)
  <2>1. n \in Nat /\ n >= a * supply + 1
    BY <1>1, <1>5
  <2>2. n \div total_assets \in Nat /\ n < (n \div total_assets + 1) * total_assets
    BY <1>6, <2>1, DivBounds
  <2>3. BurnFor(a) = n \div total_assets
    BY DEF BurnFor
  <2>4. QED
    BY <1>1, <2>1, <2>2, <2>3
<1>7. QED
  BY <1>2, <1>3, <1>4, <1>6

\* Moving one owner's shares from shares[u] to n moves the total by n - shares[u].
LEMMA SharesMove ==
  ASSUME TypeOK, NEW u \in Owners, NEW n \in Nat
  PROVE  /\ Total([shares EXCEPT ![u] = n]) = Total(shares) - shares[u] + n
         /\ Total(shares) \in Nat
         /\ shares[u] <= Total(shares)
<1>1. shares \in [Owners -> Nat] /\ IsFiniteSet(Owners)
  BY SharesAssumption DEF TypeOK
<1>2. QED
  BY <1>1, TotalUpdate, TotalType, TotalAbove, Zenon

Books == TypeOK /\ BooksBalance

LEMMA BooksInit == Init => Books
<1> SUFFICES ASSUME Init PROVE Books
  OBVIOUS
<1>1. TypeOK
  BY DEF Init, TypeOK
<1>2. shares \in [Owners -> Nat] /\ \A u \in Owners : shares[u] = 0
  BY DEF Init
<1>3. Total(shares) = 0
  BY <1>2, TotalZero, Zenon
<1>4. QED
  BY <1>1, <1>3 DEF Init, BooksBalance, Books

LEMMA BooksDeposit ==
  ASSUME Books, NEW u \in Owners, NEW a \in Amounts, Deposit(u, a)
  PROVE  Books'
<1>1. a \in Nat /\ TypeOK /\ BooksBalance
  BY SharesAssumption DEF Books
<1>2. SharesFor(a) \in Nat
  BY <1>1, Conversions DEF Deposit
<1>3. shares[u] \in Nat /\ shares[u] + SharesFor(a) \in Nat
  BY <1>1, <1>2 DEF TypeOK
<1>4. /\ Total([shares EXCEPT ![u] = shares[u] + SharesFor(a)])
           = Total(shares) - shares[u] + (shares[u] + SharesFor(a))
      /\ Total(shares) \in Nat
  BY <1>1, <1>3, SharesMove, Zenon
<1>5. shares' = [shares EXCEPT ![u] = shares[u] + SharesFor(a)]
  BY DEF Deposit
<1>6. Total(shares') = Total(shares) + SharesFor(a)
  BY <1>2, <1>3, <1>4, <1>5
<1>7. TypeOK'
  BY <1>1, <1>2, <1>3, <1>5 DEF Deposit, TypeOK
<1>8. BooksBalance'
  BY <1>1, <1>2, <1>6 DEF Deposit, BooksBalance, TypeOK
<1>9. QED
  BY <1>7, <1>8 DEF Books

\* Burning n shares of u and paying out a assets, the core of withdraw and redeem.
LEMMA BooksPayout ==
  ASSUME Books, NEW u \in Owners, NEW a \in Nat, NEW n \in Nat,
         n <= shares[u], a <= total_assets, a <= vault,
         supply' = supply - n, shares' = [shares EXCEPT ![u] = @ - n],
         total_assets' = total_assets - a, vault' = vault - a,
         lent' = lent, can_lp' = can_lp
  PROVE  Books'
<1>1. TypeOK /\ BooksBalance
  BY DEF Books
<1>2. shares[u] \in Nat /\ shares[u] - n \in Nat
  BY <1>1 DEF TypeOK
<1>3. /\ Total([shares EXCEPT ![u] = shares[u] - n]) = Total(shares) - shares[u] + (shares[u] - n)
      /\ Total(shares) \in Nat
      /\ shares[u] <= Total(shares)
  BY <1>1, <1>2, SharesMove, Zenon
<1>4. Total(shares') = Total(shares) - n
  BY <1>2, <1>3
<1>5. shares' \in [Owners -> Nat]
  BY <1>1, <1>2 DEF TypeOK
<1>6. TypeOK'
  BY <1>1, <1>2, <1>3, <1>5 DEF TypeOK, BooksBalance
<1>7. BooksBalance'
  BY <1>1, <1>3, <1>4 DEF TypeOK, BooksBalance
<1>8. QED
  BY <1>6, <1>7 DEF Books

LEMMA BooksNext == Books /\ [Next]_vars => Books'
<1> SUFFICES ASSUME Books, [Next]_vars PROVE Books'
  OBVIOUS
<1>1. TypeOK /\ BooksBalance
  BY DEF Books
<1>2. CASE LpStep
  <2>1. ASSUME NEW u \in Owners, NEW a \in Amounts, Deposit(u, a) PROVE Books'
    BY <2>1, BooksDeposit
  <2>2. ASSUME NEW u \in Owners, NEW s \in Amounts, Redeem(u, s) PROVE Books'
    <3>1. s \in Nat /\ AssetsFor(s) \in Nat
      BY <1>1, <2>2, SharesAssumption, Conversions DEF Redeem
    <3>2. QED
      BY <2>2, <3>1, BooksPayout DEF Redeem
  <2>3. ASSUME NEW a \in Amounts, Donate(a) PROVE Books'
    BY <1>1, <2>3, SharesAssumption DEF Donate, Books, TypeOK, BooksBalance
  <2>4. QED
    BY <1>2, <2>1, <2>2, <2>3 DEF LpStep
<1>3. CASE WithdrawStep
  <2>1. PICK u \in Owners, a \in Amounts : Withdraw(u, a)
    BY <1>3 DEF WithdrawStep
  <2>2. a \in Nat /\ BurnFor(a) \in Nat
    BY <1>1, <2>1, SharesAssumption, Conversions DEF Withdraw
  <2>3. QED
    BY <2>1, <2>2, BooksPayout DEF Withdraw
<1>4. CASE LossStep
  BY <1>1, <1>4, SharesAssumption DEF LossStep, Lose, Books, TypeOK, BooksBalance
<1>5. ASSUME NEW allow \in BOOLEAN, SetLpState(allow) PROVE Books'
  BY <1>1, <1>5 DEF SetLpState, Books, TypeOK, BooksBalance
<1>6. ASSUME NEW a \in Amounts, Lend(a) PROVE Books'
  BY <1>1, <1>6, SharesAssumption DEF Lend, Books, TypeOK, BooksBalance
<1>7. ASSUME NEW a \in Amounts, NEW interest \in Amounts, Repay(a, interest) PROVE Books'
  BY <1>1, <1>7, SharesAssumption DEF Repay, Books, TypeOK, BooksBalance
<1>8. CASE UNCHANGED vars
  BY <1>1, <1>8 DEF vars, Books, TypeOK, BooksBalance
<1>9. QED
  BY <1>2, <1>3, <1>4, <1>5, <1>6, <1>7, <1>8 DEF Next

LEMMA BooksAlways == Spec => []Books
BY BooksInit, BooksNext, PTL DEF Spec

\* No instruction drives a balance, the supply or a share account below zero.
THEOREM TypeCorrect == Spec => []TypeOK
<1>1. Books => TypeOK
  BY DEF Books
<1>2. QED
  BY <1>1, BooksAlways, PTL

\* total_assets counts exactly the idle and the lent assets, and the supply
\* exactly the shares in the owners' hands.
THEOREM BooksBalanceCorrect == Spec => []BooksBalance
<1>1. Books => BooksBalance
  BY DEF Books
<1>2. QED
  BY <1>1, BooksAlways, PTL

\* The assets behind one share do not fall: deposits and redemptions round in
\* favour of the shares that stay, donations and interest add to them.
THEOREM SharePriceCorrect == Spec => SharePriceKept
<1>1. ASSUME Books, [Next]_vars, supply > 0, ~LossStep, ~WithdrawStep
      PROVE  total_assets' * supply >= total_assets * supply'
  <2>1. TypeOK
    BY <1>1 DEF Books
  <2>2. ASSUME NEW u \in Owners, NEW a \in Amounts, Deposit(u, a)
        PROVE  total_assets' * supply >= total_assets * supply'
    <3>1. a \in Nat /\ total_assets > 0
      BY <1>1, <2>2, SharesAssumption DEF Deposit
    <3>2. SharesFor(a) \in Nat /\ SharesFor(a) * total_assets <= supply * a
      BY <1>1, <2>1, <3>1, Conversions
    <3>3. (total_assets + a) * supply >= total_assets * (supply + SharesFor(a))
      BY <2>1, <3>1, <3>2, MintKeepsPrice DEF TypeOK
    <3>4. QED
      BY <2>2, <3>3 DEF Deposit
  <2>3. ASSUME NEW u \in Owners, NEW s \in Amounts, Redeem(u, s)
        PROVE  total_assets' * supply >= total_assets * supply'
    <3>1. s \in Nat
      BY SharesAssumption
    <3>2. AssetsFor(s) \in Nat /\ AssetsFor(s) * supply <= s * total_assets
      BY <1>1, <2>1, <3>1, Conversions
    <3>3. (total_assets - AssetsFor(s)) * supply >= total_assets * (supply - s)
      BY <2>1, <3>1, <3>2, BurnKeepsPrice DEF TypeOK
    <3>4. QED
      BY <2>3, <3>3 DEF Redeem
  <2>4. ASSUME NEW a \in Nat, supply' = supply, total_assets' = total_assets + a
        PROVE  total_assets' * supply >= total_assets * supply'
    <3>1. (total_assets + a) * supply = total_assets * supply + a * supply
      BY <2>1 DEF TypeOK
    <3>2. a * supply \in Nat /\ total_assets * supply \in Nat
      BY <2>1 DEF TypeOK
    <3>3. QED
      BY <2>4, <3>1, <3>2
  <2>5. ASSUME NEW a \in Amounts, Donate(a) \/ Lend(a)
        PROVE  total_assets' * supply >= total_assets * supply'
    <3>1. a \in Nat /\ total_assets + 0 = total_assets
      BY <2>1, SharesAssumption DEF TypeOK
    <3>2. QED
      BY <2>4, <2>5, <3>1 DEF Donate, Lend
  <2>6. ASSUME NEW a \in Amounts, NEW interest \in Amounts, Repay(a, interest)
        PROVE  total_assets' * supply >= total_assets * supply'
    BY <2>4, <2>6, SharesAssumption DEF Repay
  <2>7. ASSUME UNCHANGED <<total_assets, supply>>
        PROVE  total_assets' * supply >= total_assets * supply'
    BY <2>1, <2>7 DEF TypeOK
  <2>8. QED
    BY <1>1, <2>2, <2>3, <2>5, <2>6, <2>7 DEF Next, LpStep, SetLpState, vars
<1>2. QED
  BY <1>1, BooksAlways, PTL DEF Spec, SharePriceKept

\* A deposit redeemed at once returns at most the deposit, at every share price.
THEOREM NoInstantProfitCorrect == Spec => []NoInstantProfit
<1>1. TypeOK => NoInstantProfit
  <2> SUFFICES ASSUME TypeOK, supply > 0, total_assets > 0, NEW a \in Amounts
               PROVE  (SharesFor(a) * (total_assets + a)) \div (supply + SharesFor(a)) <= a
    BY DEF NoInstantProfit
  <2> DEFINE m == SharesFor(a)
             n == m * (total_assets + a)
             d == supply + m
             q == n \div d
  <2>1. a \in Nat /\ supply \in Nat /\ total_assets \in Nat
    BY SharesAssumption DEF TypeOK
  <2>2. m \in Nat /\ m * total_assets <= supply * a
    BY <2>1, Conversions
  <2>3. n \in Nat /\ d \in Nat /\ d > 0
    BY <2>1, <2>2
  <2>4. q \in Nat /\ q * d <= n
    BY <2>3, DivBounds
  <2>5. n <= a * d
    <3>1. n = m * total_assets + m * a
      BY <2>1, <2>2
    <3>2. a * d = supply * a + m * a
      BY <2>1, <2>2
    <3>3. /\ m * total_assets \in Nat /\ m * a \in Nat /\ supply * a \in Nat
      BY <2>1, <2>2
    <3>4. QED
      BY <2>2, <3>1, <3>2, <3>3
  <2>6. q <= a
    <3> HIDE DEF q, n, d, m
    <3>1. q * d <= a * d
      <4>1. q * d \in Nat /\ a * d \in Nat
        BY <2>1, <2>3, <2>4
      <4>2. QED
        BY <2>3, <2>4, <2>5, <4>1
    <3>2. q > a => q * d >= a * d + d
      BY <2>1, <2>3, <2>4
    <3>3. QED
      BY <2>1, <2>3, <2>4, <3>1, <3>2
  <2>7. QED
    BY <2>6
<1>2. QED
  BY <1>1, TypeCorrect, PTL

\* What a withdrawal takes is worth less than one share more than it burns.
THEOREM WithdrawWithinOneShareCorrect == Spec => WithdrawWithinOneShare
<1>1. ASSUME Books, WithdrawStep
      PROVE  (total_assets - total_assets') * supply
               < (supply - supply' + 1) * total_assets
  <2>1. PICK u \in Owners, a \in Amounts : Withdraw(u, a)
    BY <1>1 DEF WithdrawStep
  <2>2. TypeOK /\ a \in Nat
    BY <1>1, SharesAssumption DEF Books
  <2>3. BurnFor(a) \in Nat /\ a * supply < (BurnFor(a) + 1) * total_assets
    BY <2>1, <2>2, Conversions DEF Withdraw
  <2>4. total_assets - total_assets' = a /\ supply - supply' = BurnFor(a)
    BY <2>1, <2>2, <2>3 DEF Withdraw, TypeOK
  <2>5. QED
    BY <2>3, <2>4
<1>2. QED
  BY <1>1, BooksAlways, PTL DEF Spec, WithdrawWithinOneShare

\* Short of a loss, shares keep an asset behind them: neither a redemption nor
\* a withdrawal empties the vault while shares remain.
THEOREM SharesStayBackedCorrect == Spec => SharesStayBacked
<1>1. ASSUME Books, [Next]_vars, ~LossStep, supply > 0 => total_assets > 0, supply' > 0
      PROVE  total_assets' > 0
  <2>1. TypeOK /\ total_assets \in Nat /\ supply \in Nat
    BY <1>1 DEF Books, TypeOK
  <2>2. ASSUME NEW u \in Owners, NEW a \in Amounts, Deposit(u, a)
        PROVE  total_assets' > 0
    BY <2>1, <2>2, SharesAssumption DEF Deposit
  <2>3. ASSUME NEW u \in Owners, NEW s \in Amounts, Redeem(u, s)
        PROVE  total_assets' > 0
    <3>1. s \in Nat /\ supply > 0 /\ total_assets > 0
      BY <1>1, <2>3, SharesAssumption DEF Redeem
    <3>2. AssetsFor(s) \in Nat /\ AssetsFor(s) * supply <= s * total_assets
      BY <2>1, <3>1, Conversions
    <3>3. AssetsFor(s) # total_assets
      <4>1. SUFFICES ASSUME AssetsFor(s) = total_assets PROVE FALSE
        OBVIOUS
      <4>2. total_assets * supply <= s * total_assets /\ s < supply
        BY <1>1, <2>1, <2>3, <3>1, <3>2, <4>1 DEF Redeem
      <4>3. QED
        BY <2>1, <3>1, <4>2
    <3>4. QED
      BY <2>1, <2>3, <3>2, <3>3 DEF Redeem
  <2>4. ASSUME NEW u \in Owners, NEW a \in Amounts, Withdraw(u, a)
        PROVE  total_assets' > 0
    <3>1. a \in Nat
      BY SharesAssumption
    <3>2. BurnFor(a) \in Nat /\ a * supply < (BurnFor(a) + 1) * total_assets
      BY <2>1, <2>4, <3>1, Conversions DEF Withdraw
    <3>3. a # total_assets
      <4>1. SUFFICES ASSUME a = total_assets PROVE FALSE
        OBVIOUS
      <4>2. BurnFor(a) + 1 <= supply
        BY <1>1, <2>1, <2>4, <3>2 DEF Withdraw
      <4>3. (BurnFor(a) + 1) * total_assets <= supply * total_assets
        BY <2>1, <3>2, <4>2
      <4>4. QED
        BY <2>1, <3>2, <4>1, <4>3
    <3>4. QED
      BY <2>1, <2>4, <3>1, <3>3 DEF Withdraw
  <2>5. ASSUME NEW a \in Amounts, Donate(a) \/ Lend(a) PROVE total_assets' > 0
    BY <1>1, <2>1, <2>5, SharesAssumption DEF Donate, Lend
  <2>6. ASSUME NEW a \in Amounts, NEW interest \in Amounts, Repay(a, interest)
        PROVE  total_assets' > 0
    BY <1>1, <2>1, <2>6, SharesAssumption DEF Repay
  <2>7. CASE UNCHANGED <<total_assets, supply>>
    BY <1>1, <2>1, <2>7
  <2>8. QED
    BY <1>1, <2>2, <2>3, <2>4, <2>5, <2>6, <2>7
    DEF Next, LpStep, WithdrawStep, SetLpState, vars
<1>2. QED
  BY <1>1, BooksAlways, PTL DEF Spec, SharesStayBacked
=============================================================================
