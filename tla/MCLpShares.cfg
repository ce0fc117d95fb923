SPECIFICATION Spec
CONSTANTS
  u1 = u1
  u2 = u2
  Owners <- MCOwners
  Amounts <- MCAmounts
  ProtectionDivisor = 2
  MaxU64 = 12
SYMMETRY Symmetry
INVARIANTS
  TypeOK
  BooksBalance
  NoInstantProfit
PROPERTIES
  SharePriceKept
  SharesStayBacked
  WithdrawWithinOneShare
