\* Two pools, two keys, every balance an address can have before it is used.
SPECIFICATION Spec
CONSTANTS
  s1 = s1
  s2 = s2
  k1 = k1
  k2 = k2
  Swaps <- MCSwaps
  Keys <- MCKeys
  Rates = {0, 1}
  NoAccount = NoAccount
  Rent = 2
  MaxLamports = 2
INVARIANTS
  FundingBlocksNobody
PROPERTIES
  ImplementsAccessControl
  NoSuperAdminIsFinal
CHECK_DEADLOCK FALSE
