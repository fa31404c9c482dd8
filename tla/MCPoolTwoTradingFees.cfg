\* Both trading fees: the debit of a swap against its amount_in.
SPECIFICATION Spec
CONSTANTS
  u1 = u1
  Users <- MCUsers
  Reserve = Reserve
  FeeAccount = FeeAccount
  InitDestination = InitDestination
  NoAccount = NoAccount
  NoPrice = NoPrice
  RAY = 2
  Prices = {2, 3}
  FeeSchedules <- TwoTradingFees
  InitialA <- RichA
  InitialB <- RichB
  InitialSupply = 3
  U64_MAX = 9
  Limits = {0, 9}
PROPERTIES
  DebitWithinAmountIn
