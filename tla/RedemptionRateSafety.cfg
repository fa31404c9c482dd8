\* Six seconds, rates that shrink, stand still, grow, and outgrow 256 bits.
SPECIFICATION Spec
CONSTANTS
  RAY = 100
  U256_MAX = 45000
  NoRate = NoRate
  MaxTime = 6
  Ssrs <- MCSsrs
  Chis <- MCChis
INVARIANTS
  QuotesUntilOverflow
  RateWithinCeiling
  StalePoolRecovers
PROPERTIES
  AccrualNeverFalls
  NeverBelowCommitted
  CeilingNeverRises
CHECK_DEADLOCK FALSE
