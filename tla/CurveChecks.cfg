\* Every curve, every pool up to ten of each token, small and large amounts.
SPECIFICATION Spec
CONSTANTS
  ONE = 4000
  Sqrt <- NewtonSqrt
  MaxSqrtBase = 400000
  RAY = 4
  None = None
  Panics = Panics
  U128_MAX = 65535
  NoSample = NoSample
  TestCurves <- AllCurves
  Schedules <- TradingFees
  Reserves <- UpToTen
  Supplies <- FewPools
  Amounts <- Samples
INVARIANTS
  SwapKeepsValue
  SharesKeepTheirValue
  NoWayIsCheaper
  FeesBarelyAvoided
CHECK_DEADLOCK FALSE
