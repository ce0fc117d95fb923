SPECIFICATION UndisturbedSpec
CONSTANTS
  s1 = s1
  s2 = s2
  borrower = borrower
  anybody = anybody
  StrategyIds <- OneStrategy
  Authorities <- Wallets
  CanBorrow <- Borrower
  Plans <- UndisturbedPlans
  Signings <- BorrowerSigns
  InterestDenominator = 1
  AmountsIn = {100}
  MinTargets = {0}
  SwapAmounts = {0, 50, 100, 101}
  Quotes = {99, 101}
  LpAmounts = {1, 50}
  PositionAmounts = {100}
  InterestAmounts = {1}
  MaxBorrows = {100}
  InitialAssets = {100}
  MaxBalance = 102
  MaxNow = 1
INVARIANTS
  DebtsCovered
PROPERTIES
  LedgerImplemented
