SPECIFICATION Spec
CONSTANTS
  o1 = o1
  o2 = o2
  cos = cos
  liq = liq
  q = q
  pa = pa
  pb = pb
  Owners <- TwoOwners
  Authorities <- BothAuthorities
  CanCosign <- Cosigner
  CanLiquidate <- Liquidator
  Pools <- OnePool
  LongPools <- NoPool
  Positions <- TwoPositions
  TraderOf <- EachTheirs
  PoolOf <- Pool2
  Plans <- ShortPlans
  Signings <- TwoTradersSign
  InterestDenominator = 10
  DownPayments = {2}
  Principals = {2}
  Fees = {1}
  MinTargets = {0}
  InterestArgs = {0}
  ExecutionFees = {1}
  SwapAmounts = {0, 1, 3}
  LpAmounts = {2}
  OrderPrices = {}
  MaxApys = {5}
  MaxLeverages = {200}
  LiquidationFees = {50}
  InitialAssets = {3}
  MaxBalance = 6
  MaxNow = 0
INVARIANTS
  PoolBacked
PROPERTIES
  LedgerImplemented
  CurrencyKept
