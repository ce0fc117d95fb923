SPECIFICATION Spec
CONSTANTS
  s1 = s1
  s2 = s2
  borrower = borrower
  anybody = anybody
  StrategyIds <- TwoStrategies
  Authorities <- Wallets
  CanBorrow <- Borrower
  Plans <- MixedPlans
  Signings <- EitherSigns
  InterestDenominator = 1
  AmountsIn = {100}
  MinTargets = {0}
  SwapAmounts = {0, 50, 100}
  Quotes = {100}
  LpAmounts = {50}
  PositionAmounts = {50}
  InterestAmounts = {0}
  MaxBorrows = {}
  InitialAssets = {100}
  MaxBalance = 150
  MaxNow = 1
INVARIANTS
  TypeOK
  NothingOutlivesTx
  CollateralBacked
PROPERTIES
  BorrowerSigned
  OnlyClosingForgets
