SPECIFICATION Spec
CONSTANTS
  s1 = s1
  s2 = s2
  borrower = borrower
  anybody = anybody
  StrategyIds <- OneStrategy
  Authorities <- Wallets
  CanBorrow <- Borrower
  Plans <- Ordinary
  Signings <- BorrowerSigns
  InterestDenominator = 1
  AmountsIn = {100}
  MinTargets = {0}
  SwapAmounts = {0, 50, 100}
  Quotes = {100}
  LpAmounts = {50}
  PositionAmounts = {50}
  InterestAmounts = {0}
  MaxBorrows = {100}
  InitialAssets = {150}
  MaxBalance = 200
  MaxNow = 0
INVARIANTS
  BorrowedIsSum
