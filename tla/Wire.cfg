\* Bytes of one digit in base 16 and numbers of a quarter of their width.
SPECIFICATION WireSpec
CONSTANTS
  Byte = 15
  Word = 2
  Values <- SomeValues
  MaxPadding = 3
  None = None
INVARIANTS
  NothingMisread
  EveryClientIsUnderstood
  AccountsInPlace
