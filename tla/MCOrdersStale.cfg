SPECIFICATION Spec
CONSTANTS
  o1 = o1
  o2 = o2
  cos = cos
  liq = liq
  q = q
  pa = pa
  pb = pb
  Owners <- OneOwner
  Authorities <- BothAuthorities
  CanCosign <- Cosigner
  CanLiquidate <- Liquidator
  Pools <- OnePool
  LongPools <- OnePool
  Positions <- OnePosition
  TraderOf <- Trader1
  PoolOf <- Pool1
  Plans <- OrderPlans
  Signings <- OneTraderSigns
  InterestDenominator = 10
  DownPayments = {2}
  Principals = {2}
  Fees = {1}
  MinTargets = {0}
  InterestArgs = {0}
  ExecutionFees = {1}
  SwapAmounts = {0, 4, 6}
  LpAmounts = {2}
  OrderPrices <- SomePrices
  MaxApys = {5}
  MaxLeverages = {200}
  LiquidationFees = {50}
  InitialAssets = {3}
  MaxBalance = 6
  MaxNow = 0
INVARIANTS
  OrdersHavePosition
