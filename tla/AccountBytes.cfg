\* Bytes of one digit in base 16 and numbers of a quarter of their width.
SPECIFICATION Spec
CONSTANTS
  Byte = 15
  Word = 2
  Addresses = {here, there}
  Sizes <- SomeSizes
  Swaps <- SomeSwaps
  Permissions <- SomePermissions
  Rates <- SomeRates
  Absent = Absent
  here = here
  there = there
SYMMETRY Interchangeable
INVARIANTS
  ReadersAgree
  NoMistakenIdentity
CHECK_DEADLOCK FALSE
