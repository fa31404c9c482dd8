\* A second pool beside a first, under the constraints of a production build.
SPECIFICATION MCSpec
CONSTANTS
  k1 = k1
  s1 = s1
  s2 = s2
  t1 = t1
  t2 = t2
  t3 = t3
  t4 = t4
  t5 = t5
  t6 = t6
  t7 = t7
  t8 = t8
  m1 = m1
  m2 = m2
  m3 = m3
  m4 = m4
  m5 = m5
  Swaps <- TwoSwaps
  Keys <- OneKey
  Delegates <- OneKey
  Closers <- OneKey
  Freezers <- OneKey
  Accounts <- EightAccounts
  Mints <- FiveMints
  MintKinds <- Kinds
  MaxAmount = 2
  NoKey = NoKey
  Absent = Absent
  NoPool = NoPool
  NoConstraints = NoConstraints
  SwapConstraints <- Production
  FeeSchedules <- SomeSchedules
  SwapCurves <- SomeCurves
  FeeAmounts = {0, 1, 2, 3, 4, 5, 6, 7, 8}
INVARIANTS
  SetupSafe
  PoolsShareNothing
  MinimumFeesCharged
PROPERTIES
  OnlyThePoolActs
  MadeOnce
CHECK_DEADLOCK FALSE
