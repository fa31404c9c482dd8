SPECIFICATION Spec
CONSTANTS
  ONE = 16
  Sqrt <- NewtonSqrt
  MaxSqrtBase = 1000
  RAY = 1
  None = None
  Panics = Panics
  U128_MAX = 65535
  U64_MAX = 40
  Reserve = Reserve
  FeeAccount = FeeAccount
  InitDestination = InitDestination
  NoAccount = NoAccount
  InitialSupply = 20
  u1 = u1
  Users <- MCUsers
  Curves <- MCCurves
  Schedules <- MCSchedules
  InitialA <- MCInitialA
  InitialB <- MCInitialB
  Amounts = {1, 2, 3, 5, 8}
  HostAccounts = {u1, NoAccount}
INVARIANTS
  LedgerIsSound
PROPERTIES
  ShareBarelyDiluted
CHECK_DEADLOCK FALSE
