SPECIFICATION Spec
CONSTANTS
  alice = alice
  bob = bob
  carol = carol
  sol = sol
  Root = Root
  Wallets <- ThreeWallets
  Mints <- OneMint
  Maps <- SomeMaps
  Signings <- OneSigns
  Apys <- EdgeApys
  Leverages <- EdgeLeverages
  Fees <- EdgeFees
  MaxBorrows <- SomeBorrows
SYMMETRY Alike
INVARIANTS
  TypeOK
  OneSuper
  WithinBounds
PROPERTIES
  AccessControlled
