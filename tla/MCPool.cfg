\* A pool that charges no fee, one trading fee or every fee, at two prices, every u64 amount of a reduced width.
SPECIFICATION Spec
CONSTANTS
  u1 = u1
  Users <- MCUsers
  Reserve = Reserve
  FeeAccount = FeeAccount
  InitDestination = InitDestination
  NoAccount = NoAccount
  NoPrice = NoPrice
  RAY = 2
  Prices = {2, 3}
  FeeSchedules <- OneTradingFeeAtMost
  InitialA <- SmallA
  InitialB <- SmallB
  InitialSupply = 2
  U64_MAX = 7
  Limits = {0, 7}
INVARIANTS
  TypeOK
  SupplyNeverDrained
  ExitAlwaysOpen
PROPERTIES
  OneFeeDebitsWithinAmountIn
  ImplementsVault
