\* _rpow a pass at a time; it may stop once it has answered.
SPECIFICATION LoopSpec
CONSTANTS
  RAY = 4
  U256_MAX = 1500
  NoRate = NoRate
  Pending = Pending
  MaxExact = 5
  Bases <- MCBases
  Exponents <- MCExponents
INVARIANTS
  AnswerIsSound
PROPERTIES
  Terminates
  ImplementsPower
CHECK_DEADLOCK FALSE
