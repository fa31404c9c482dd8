------------------------------- MODULE Exchange -----------------------------
(***************************************************************************)
(* The five token instructions of program/src/processor.rs under any of    *)
(* the four curves, as functions of the ledger they find: an outcome is a  *)
(* code (module Errors) and the ledger the instruction leaves.  The error  *)
(* that comes first is the one that is returned.                           *)
(*                                                                         *)
(* A ledger has the token A, token B and pool tokens of every account and  *)
(* the supply of pool tokens.  The fee account is open throughout; module  *)
(* Pool closes it.                                                         *)
(***************************************************************************)
EXTENDS Curves, Errors

CONSTANTS
  Reserve,          \* the pool's own token A and token B accounts
  FeeAccount,       \* the pool fee account
  InitDestination,  \* the account of the first pool tokens
  NoAccount,        \* an optional account that was not passed
  InitialSupply,    \* INITIAL_SWAP_POOL_AMOUNT
  U64_MAX           \* the largest amount an instruction or an account holds

Success(ledger)       == [code |-> Ok, ledger |-> ledger]
Failure(code, ledger) == [code |-> code, ledger |-> ledger]
Refused(error, ledger) == Failure(SwapCode(error), ledger)

\* A step that answered None is an error of the handler's choice.
NoAnswer(result, error, ledger) ==
  IF result = Panics THEN Failure(Panicked, ledger) ELSE Refused(error, ledger)

-----------------------------------------------------------------------------
(* The token program, called with what a delegate may still take. *)

Transfer(ledger, token, from, to, amount, allowance) ==
  IF amount > ledger[token][from] \/ amount > allowance
    THEN Failure(TokenCode("InsufficientFunds"), ledger)
    ELSE Success([ledger EXCEPT ![token][from] = @ - amount, ![token][to] = @ + amount])

MintTo(ledger, to, amount) ==
  IF amount > U64_MAX THEN Refused("ConversionFailure", ledger)
  ELSE IF ledger.supply + amount > U64_MAX THEN Failure(TokenCode("Overflow"), ledger)
  ELSE Success([ledger EXCEPT !.pool[to] = @ + amount, !.supply = @ + amount])

Burn(ledger, from, amount, allowance) ==
  IF amount > ledger.pool[from] \/ amount > allowance
    THEN Failure(TokenCode("InsufficientFunds"), ledger)
    ELSE Success([ledger EXCEPT !.pool[from] = @ - amount, !.supply = @ - amount])

\* The next call is made when this one went well.
Then(outcome, Call(_)) == IF outcome.code = Ok THEN Call(outcome.ledger) ELSE outcome

-----------------------------------------------------------------------------
TokenGiven(dir) == IF dir = "AtoB" THEN "a" ELSE "b"
TokenTaken(dir) == IF dir = "AtoB" THEN "b" ELSE "a"

(***************************************************************************)
(* The owner's trading fee leaves as pool tokens, worth ownerFee of a pool *)
(* with reserves a and b and the given supply: a part for the host, when   *)
(* one was named, the rest for the fee account.                            *)
(***************************************************************************)
HostPart(tokens, host, fees) == IF host = NoAccount THEN 0 ELSE HostFee(tokens, fees)

MintOwnerFee(c, fees, ledger, ownerFee, a, b, supply, dir, feeAccountGiven, host) ==
  LET tokens == DepositSingleTokenType(c, ownerFee, a, b, supply, dir)
      hosts  == HostPart(tokens, host, fees)
      Owners(l) == IF feeAccountGiven THEN MintTo(l, FeeAccount, tokens - hosts)
                   ELSE Success(l)
  IN  IF ownerFee = 0 THEN Success(ledger)
      ELSE IF a < 0 \/ b < 0 \/ supply < 0 THEN Refused("FeeCalculationFailure", ledger)
      ELSE IF Bad(tokens) THEN NoAnswer(tokens, "FeeCalculationFailure", ledger)
      ELSE IF tokens = 0 THEN Success(ledger)
      ELSE IF host = NoAccount THEN Owners(ledger)
      ELSE Then(MintTo(ledger, host, hosts), Owners)

ProcessSwap(c, fees, ledger, dir, source, destination, amountIn, minimumOut, host, allowance) ==
  LET given == TokenGiven(dir)
      taken == TokenTaken(dir)
      r     == CurveSwap(c, amountIn, ledger[given][Reserve], ledger[taken][Reserve], dir, fees)
      kept  == ledger[given][Reserve] + r.sourceAmount - r.ownerFee
      left  == ledger[taken][Reserve] - r.destinationAmount
      a     == IF dir = "AtoB" THEN kept ELSE left
      b     == IF dir = "AtoB" THEN left ELSE kept
      PayFee(l) == MintOwnerFee(c, fees, l, r.ownerFee, a, b, l.supply, dir, TRUE, host)
      PayOut(l) == Transfer(l, taken, Reserve, destination, r.destinationAmount, U64_MAX)
  IN  IF source = Reserve \/ destination = Reserve THEN Refused("InvalidInput", ledger)
      ELSE IF Bad(r) THEN NoAnswer(r, "ZeroTradingTokens", ledger)
      ELSE IF r.sourceAmount > U64_MAX \/ r.destinationAmount > U64_MAX
        THEN Refused("ConversionFailure", ledger)
      ELSE IF r.destinationAmount < minimumOut THEN Refused("ExceededSlippage", ledger)
      ELSE Then(Then(Transfer(ledger, given, source, Reserve, r.sourceAmount, allowance),
                     PayFee), PayOut)

-----------------------------------------------------------------------------
(* Both tokens at once. *)

\* Mutant: a deposit of both tokens may be for nothing of one of them.
NothingForSomeOf(c, part) == FALSE

\* The product curve takes no deposit that costs nothing of one token.
NothingForSome(c, part) == c.type = "ConstantProduct" /\ (part.a = 0 \/ part.b = 0)

DepositAllTokenTypes(c, fees, ledger, source, sourceB, destination, poolAmount, maximumA, maximumB) ==
  LET part == TradingTokens(c, poolAmount, ledger.a[Reserve], ledger.b[Reserve],
                            ledger.supply, "Ceiling")
      PayB(l) == Transfer(l, "b", sourceB, Reserve, part.b, maximumB)
      Mint(l) == MintTo(l, destination, poolAmount)
  IN  IF ~AllowsDeposits(c) THEN Refused("UnsupportedCurveOperation", ledger)
      ELSE IF source = Reserve \/ sourceB = Reserve THEN Refused("InvalidInput", ledger)
      ELSE IF part = None THEN Refused("ZeroTradingTokens", ledger)
      ELSE IF part.a > U64_MAX THEN Refused("ConversionFailure", ledger)
      ELSE IF part.a > maximumA THEN Refused("ExceededSlippage", ledger)
      ELSE IF part.b > U64_MAX THEN Refused("ConversionFailure", ledger)
      ELSE IF part.b > maximumB THEN Refused("ExceededSlippage", ledger)
      ELSE IF NothingForSome(c, part) THEN Refused("ZeroTradingTokens", ledger)
      ELSE Then(Then(Transfer(ledger, "a", source, Reserve, part.a, maximumA), PayB), Mint)

\* Mutant: the fee account pays the withdrawal fee to itself.
WithdrawFeeOfEverybody(poolAmount, source, fees) == OwnerWithdrawFee(poolAmount, fees)

WithdrawFee(poolAmount, source, fees) ==
  IF source = FeeAccount THEN 0 ELSE OwnerWithdrawFee(poolAmount, fees)

AtMost(bound, x) == IF x <= bound THEN x ELSE bound

\* What of a part of the pool can be paid: the offset is not there to be paid.
Payable(reserve, x) == AtMost(reserve, x)

\* Mutant: the fee is credited to the fee account and all of the rest burnt.
TakePoolTokensFeeMinted(ledger, source, fee, burnt, allowance) ==
  LET Credit(l) == Success([l EXCEPT !.pool[FeeAccount] = @ + fee])
  IN  Then(Burn(ledger, source, burnt, allowance), Credit)

\* The fee goes to the fee account and the rest is burnt.
TakePoolTokens(ledger, source, fee, burnt, allowance) ==
  LET Burnt(l) == Burn(l, source, burnt, allowance - fee)
  IN  Then(IF fee = 0 THEN Success(ledger)
           ELSE Transfer(ledger, "pool", source, FeeAccount, fee, allowance), Burnt)

WithdrawAllTokenTypes(c, fees, ledger, source, destination, destinationB, poolAmount, minimumA, minimumB, allowance) ==
  LET fee   == WithdrawFee(poolAmount, source, fees)
      burnt == poolAmount - fee
      part  == TradingTokens(c, burnt, ledger.a[Reserve], ledger.b[Reserve],
                             ledger.supply, "Floor")
      outA  == Payable(ledger.a[Reserve], part.a)
      outB  == Payable(ledger.b[Reserve], part.b)
      nothing == \/ outA = 0 /\ ledger.a[Reserve] # 0
                 \/ outB = 0 /\ ledger.b[Reserve] # 0
      PayA(l) == Transfer(l, "a", Reserve, destination, outA, U64_MAX)
      PayB(l) == Transfer(l, "b", Reserve, destinationB, outB, U64_MAX)
  IN  IF destination = Reserve \/ destinationB = Reserve THEN Refused("InvalidInput", ledger)
      ELSE IF burnt < 0 THEN Refused("CalculationFailure", ledger)
      ELSE IF part = None THEN Refused("ZeroTradingTokens", ledger)
      ELSE IF part.a > U64_MAX THEN Refused("ConversionFailure", ledger)
      ELSE IF outA < minimumA THEN Refused("ExceededSlippage", ledger)
      ELSE IF part.b > U64_MAX THEN Refused("ConversionFailure", ledger)
      ELSE IF outB < minimumB THEN Refused("ExceededSlippage", ledger)
      ELSE IF c.type = "ConstantProduct" /\ nothing THEN Refused("ZeroTradingTokens", ledger)
      ELSE Then(Then(TakePoolTokens(ledger, source, fee, burnt, allowance), PayA), PayB)

-----------------------------------------------------------------------------
(* One token. *)

DepositSingleExactAmountIn(c, fees, ledger, dir, source, destination, amount, minimumPool, feeAccountGiven, host, allowance) ==
  LET a == ledger.a[Reserve]
      b == ledger.b[Reserve]
      r == CurveDeposit(c, amount, a, b, ledger.supply, dir, fees)
      added == amount - r.ownerFee
      a2 == IF dir = "AtoB" THEN a + added ELSE a
      b2 == IF dir = "AtoB" THEN b ELSE b + added
      Pay(l)  == Transfer(l, TokenGiven(dir), source, Reserve, amount, allowance)
      Mint(l) == MintTo(l, destination, r.amount)
  IN  IF ~AllowsDeposits(c) THEN Refused("UnsupportedCurveOperation", ledger)
      ELSE IF source = Reserve THEN Refused("InvalidInput", ledger)
      ELSE IF Bad(r) THEN NoAnswer(r, "ZeroTradingTokens", ledger)
      ELSE IF r.amount > U64_MAX THEN Refused("ConversionFailure", ledger)
      ELSE IF r.amount < minimumPool THEN Refused("ExceededSlippage", ledger)
      ELSE IF r.amount = 0 THEN Refused("ZeroTradingTokens", ledger)
      ELSE Then(Then(MintOwnerFee(c, fees, ledger, r.ownerFee, a2, b2,
                                  ledger.supply + r.amount, dir, feeAccountGiven, host),
                     Pay), Mint)

WithdrawSingleExactAmountOut(c, fees, ledger, dir, source, destination, amount, maximumPool, host, allowance) ==
  LET a == ledger.a[Reserve]
      b == ledger.b[Reserve]
      r == CurveWithdraw(c, amount, a, b, ledger.supply, dir, fees)
      fee   == WithdrawFee(r.amount, source, fees)
      total == r.amount + fee
      taken == amount + r.ownerFee
      a2 == IF dir = "AtoB" THEN a - taken ELSE a
      b2 == IF dir = "AtoB" THEN b ELSE b - taken
      Pay(l) == Transfer(l, TokenGiven(dir), Reserve, destination, amount, U64_MAX)
      Take(l) ==
        IF total > U64_MAX THEN Refused("ConversionFailure", l)
        ELSE IF total > maximumPool THEN Refused("ExceededSlippage", l)
        ELSE IF total = 0 THEN Refused("ZeroTradingTokens", l)
        ELSE Then(TakePoolTokens(l, source, fee, r.amount, allowance), Pay)
  IN  IF destination = Reserve THEN Refused("InvalidInput", ledger)
      ELSE IF Bad(r) THEN NoAnswer(r, "ZeroTradingTokens", ledger)
      ELSE Then(MintOwnerFee(c, fees, ledger, r.ownerFee, a2, b2,
                             ledger.supply - r.amount, dir, TRUE, host), Take)

-----------------------------------------------------------------------------
\* process_initialize, as far as the curve and the pool's tokens go.
InitializePool(c, fees, ledger) ==
  IF ~ValidateSupply(c, ledger.a[Reserve], ledger.b[Reserve]) THEN Refused("EmptySupply", ledger)
  ELSE IF ~ValidFees(fees) THEN Refused("InvalidFee", ledger)
  ELSE IF ~Validate(c) THEN Refused("InvalidCurve", ledger)
  ELSE MintTo(ledger, InitDestination, InitialSupply)

\* An instruction that fails leaves the accounts as it found them.
Committed(before, outcome) == IF outcome.code = Ok THEN outcome.ledger ELSE before
=============================================================================
