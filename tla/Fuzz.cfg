SPECIFICATION FuzzSpec
CONSTANTS
  ONE = 1000
  Sqrt <- NewtonSqrt
  MaxSqrtBase = 64000
  RAY = 1000
  None = None
  Panics = Panics
  U128_MAX = 65535
  U64_MAX = 255
  Reserve = Reserve
  FeeAccount = FeeAccount
  InitDestination = InitDestination
  NoAccount = NoAccount
  InitialSupply = 10
  id1 = id1
  id2 = id2
  Users <- MCUsers
  Withdrawn = Withdrawn
  Curves <- AllCurves
  Schedule <- MCSchedule
  InitialSwapA = 20
  InitialSwapB = 60
  InitialUserA = 10
  InitialUserB = 30
  Numbers = {1, 3, 10, 29}
  Bounds = {0, 20}
  MaxInstructions = 3
SYMMETRY Renamed
INVARIANTS
  TokensAccountedFor
  ValueNotLost
  NothingPanics
CHECK_DEADLOCK FALSE
