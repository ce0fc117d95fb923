SPECIFICATION ClaimSpec
CONSTANTS
  o1 = o1
  cos = cos
  liq = liq
  q = q
  pa = pa
  Owners <- SingleOwner
  Authorities <- Authority2
  CanCosign <- Cosigner
  CanLiquidate <- Liquidator
  Pools <- OnePool
  LongPools <- NoPool
  Positions <- Single
  TraderOf <- SingleTrader
  PoolOf <- SinglePool
  ClaimPlan <- Claim
  ClosePlan <- ShortClose
  LiquidatePlan <- Liquidate
  Helper = cos
  Keeper = liq
  Plans <- ShortExitPlans
  Signings <- SingleSignings
  InterestDenominator = 10
  DownPayments = {0, 2}
  Principals = {0, 2}
  Fees = {0, 3}
  MinTargets = {0}
  InterestArgs = {0}
  ExecutionFees = {0}
  SwapAmounts = {0, 2}
  LpAmounts = {2}
  OrderPrices = {}
  MaxApys = {5}
  MaxLeverages = {50}
  LiquidationFees = {50}
  InitialAssets = {2}
  MaxBalance = 4
  MaxNow = 0
PROPERTIES
  ClaimsComeThrough
  EveryPositionExits
