\* Two changes of the source's rate, a clock that is ahead, a maximum with room.
SPECIFICATION RelaySpec
CONSTANTS
  RAY = 1000
  U256_MAX = 9000000
  NoRate = NoRate
  MaxTime = 5
  Ssrs <- MCSsrs
  Chis = {}
  SourceChi = 1000
  MaxSsr = 1200
  Skew = 1
  MaxChanges = 2
INVARIANTS
  ReplicatesSafely
  NewestIsWelcome
PROPERTIES
  OlderOnlyWithinASecond
  CatchesUp
CHECK_DEADLOCK FALSE
