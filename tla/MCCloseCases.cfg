SPECIFICATION Spec
CONSTANTS
  InterestDenominator = 100
  Scales <- SmallAndWide
CHECK_DEADLOCK FALSE
INVARIANTS
  NothingLost
  SeniorFirst
  InterestBounded
  PriceMet
PROPERTIES
  LaterCostsMore
