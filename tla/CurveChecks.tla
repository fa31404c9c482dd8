----------------------------- MODULE CurveChecks ----------------------------
(***************************************************************************)
(* What the tests of the curves ask of every calculator, of random pools   *)
(* and amounts (program/src/curve/calculator.rs, base.rs, module test),    *)
(* asked here of all pools up to a size.  The product curves' values are   *)
(* compared squared, since normalized_value takes a root.                  *)
(***************************************************************************)
EXTENDS Curves

CONSTANTS
  TestCurves,   \* the calculators
  Schedules,    \* the fees around them
  Reserves,     \* the amounts of a reserve
  Supplies,     \* the pool tokens of a pool
  Amounts,      \* the amounts asked about
  NoSample      \* no amount has been drawn yet

ASSUME CurveChecksAssumption ==
  /\ TestCurves \subseteq Curve
  /\ Schedules \subseteq FeeSchedule /\ \A s \in Schedules : ValidFees(s)
  /\ Reserves \subseteq Nat \ {0} /\ Supplies \subseteq Nat \ {0}
  /\ Amounts \subseteq Nat \ {0}

VARIABLES
  curve, fees,    \* the calculator and the fees
  a, b, supply,   \* the pool
  sample          \* the amount and the direction drawn for it

vars == <<curve, fees, a, b, supply, sample>>

Init ==
  /\ curve \in TestCurves /\ fees \in Schedules
  /\ a \in Reserves /\ b \in Reserves /\ supply \in Supplies
  /\ sample = NoSample

Draw ==
  /\ sample = NoSample
  /\ sample' \in [amount : Amounts, dir : Direction]
  /\ UNCHANGED <<curve, fees, a, b, supply>>

Spec == Init /\ [][Draw]_vars

-----------------------------------------------------------------------------
(* The helpers of the tests. *)

Opposite(dir) == IF dir = "AtoB" THEN "BtoA" ELSE "AtoB"

\* A pool of reserves, so that its source and destination can be asked for.
Pool(x, y) == [AtoB |-> x, BtoA |-> y]

\* The swap of an amount; None also where the tests would overdraw the reserve.
SwapOf(pool, amount, dir) ==
  LET r == SwapWithoutFees(curve, amount, pool[dir], pool[Opposite(dir)], dir)
  IN  IF Bad(r) THEN None ELSE IF r.out > pool[Opposite(dir)] THEN None ELSE r

Swapped(pool, r, dir) == [pool EXCEPT ![dir] = @ + r.in, ![Opposite(dir)] = @ - r.out]

DepositOf(pool, amount, tokens, dir) ==
  DepositSingleTokenType(curve, amount, pool.AtoB, pool.BtoA, tokens, dir)

WithdrawalOf(pool, amount, tokens, dir) ==
  WithdrawSingleTokenType(curve, amount, pool.AtoB, pool.BtoA, tokens, dir)

Value(pool) == NormalizedValue(curve, pool.AtoB, pool.BtoA)

\* Whether value is at least other, times part over whole.
AtLeast(value, other, part, whole) ==
  IF Priced(curve) THEN value * whole >= other * part
  ELSE value * whole * whole >= other * part * part

IntegerRoot(y) == CHOOSE n \in 0 .. y : n * n <= y /\ (n + 1) * (n + 1) > y

\* Whether value is at most one normalized token above other.
WithinOne(value, other) ==
  value <= IF Priced(curve) THEN other + 1 ELSE other + 2 * IntegerRoot(other) + 1

(***************************************************************************)
(* check_deposit_token_conversion: part of the amount is swapped and both  *)
(* sides are deposited, each into the reserves the other left.  (The test  *)
(* swaps half, and leaves the first deposit out of the reserves.)          *)
(***************************************************************************)
DepositSeparately(pool, amount, part, tokens, dir) ==
  LET r      == SwapOf(pool, part, dir)
      after  == Swapped(pool, r, dir)
      rest   == amount - r.in
      first  == DepositOf(after, rest, tokens, dir)
      before == [after EXCEPT ![dir] = @ + rest]
      second == DepositOf(before, r.out, tokens + first, Opposite(dir))
  IN  IF r = None THEN None
      ELSE IF Bad(first) THEN None
      ELSE IF Bad(second) THEN None ELSE first + second

\* check_pool_value_from_deposit and _withdraw: the pool after both tokens moved.
Deposited(pool, in) == Pool(pool.AtoB + in.a, pool.BtoA + in.b)

Withdrawn(pool, out) == Pool(pool.AtoB - out.a, pool.BtoA - out.b)

(***************************************************************************)
(* check_withdraw_token_conversion: pool tokens are taken out as both      *)
(* tokens and one of them is swapped; what a one-sided withdrawal of the   *)
(* sum costs.                                                              *)
(***************************************************************************)
SumCost(pool, poolTokens, tokens, dir) ==
  LET out == TradingTokens(curve, poolTokens, pool.AtoB, pool.BtoA, tokens, "Floor")
      took == Pool(out.a, out.b)
      left == Withdrawn(pool, out)
      r    == SwapOf(left, took[dir], dir)
  IN  IF Bad(out) THEN None
      ELSE IF out.b > pool.BtoA THEN None
      ELSE IF r = None THEN None
      ELSE WithdrawalOf(pool, took[Opposite(dir)] + r.out, tokens, Opposite(dir))

\* prop_assume: pool tokens worth at least one of each trading token.
WorthOneOfEach(pool, poolTokens, tokens) ==
  /\ poolTokens * pool.AtoB >= tokens
  /\ poolTokens * WithOffset(curve, pool.BtoA) >= tokens

\* one_sided_deposit_vs_swap: a swap of A, and the same way in pool tokens.
OneSided(pool, amount, tokens) ==
  LET r    == CurveSwap(curve, amount, pool.AtoB, pool.BtoA, "AtoB", fees)
      in   == CurveDeposit(curve, r.sourceAmount, pool.AtoB, pool.BtoA, tokens, "AtoB", fees)
      out  == CurveWithdraw(curve, r.destinationAmount, pool.AtoB + r.sourceAmount, pool.BtoA,
                            tokens + in.amount, "BtoA", fees)
  IN  IF Bad(r) THEN None
      ELSE IF Bad(in) THEN None
      ELSE IF Bad(out) THEN None
      ELSE [deposit |-> in.amount, withdraw |-> out.amount]

-----------------------------------------------------------------------------
(* Properties, of the sample drawn. *)

Drawn  == sample # NoSample
Whole  == Pool(a, b)
Amount == sample.amount

(***************************************************************************)
(* calculator.rs: "the relative change in value will be at most 1          *)
(* normalized token, and ... the value will never decrease from a trade":  *)
(* the trader and the pool are both safe from the rounding of a swap.      *)
(***************************************************************************)
SwapKeepsValue ==
  Drawn =>
    LET r == SwapOf(Whole, Amount, sample.dir)
    IN  r # None => LET new == Value(Swapped(Whole, r, sample.dir))
                    IN  new >= Value(Whole) /\ WithinOne(new, Value(Whole))

(***************************************************************************)
(* calculator.rs: "a deposit never reduces the value of pool tokens", of   *)
(* either reserve, when the tokens are worth one of each.                  *)
(***************************************************************************)
DepositKeepsShare ==
  Drawn /\ WorthOneOfEach(Whole, Amount, supply) =>
    LET in == TradingTokens(curve, Amount, a, b, supply, "Ceiling")
    IN  ~Bad(in) => \A d \in Direction :
          Deposited(Whole, in)[d] * supply >= Whole[d] * (supply + Amount)

(***************************************************************************)
(* calculator.rs: "new_pool_value / new_pool_token_supply >= pool_value /  *)
(* pool_token_supply" must hold of a withdrawal of both tokens.  A product *)
(* curve keeps it; a priced one rounds both floors against the pool.       *)
(***************************************************************************)
WithdrawalKeepsShare ==
  Drawn /\ ~Priced(curve) /\ Amount < supply =>
    LET out  == TradingTokens(curve, Amount, a, b, supply, "Floor")
        left == Withdrawn(Whole, out)
    IN  ~Bad(out) /\ left.BtoA >= 0 =>
          AtLeast(Value(left), Value(Whole), supply - Amount, supply)

(***************************************************************************)
(* The rounding is there to avoid losing value on any deposit or           *)
(* withdrawal (calculator.rs): taking out what was just put in costs at    *)
(* least the pool tokens it was given, of every curve whose price is whole *)
(* tokens A; at a fractional price the deposit of a token B can gain one.  *)
(***************************************************************************)
WholePrice == Priced(curve) => curve.price % RAY = 0

RoundTripNeverGains ==
  Drawn /\ WholePrice =>
    LET earned == DepositOf(Whole, Amount, supply, sample.dir)
        grown  == [Whole EXCEPT ![sample.dir] = @ + Amount]
        cost   == WithdrawalOf(grown, Amount, supply + earned, sample.dir)
    IN  ~Bad(earned) => Bad(cost) \/ cost >= earned

(***************************************************************************)
(* calculator.rs: "depositing token A is the same as swapping half for     *)
(* token B and depositing both".  Whatever part is swapped, the detour     *)
(* never earns more than the one-sided deposit.                            *)
(***************************************************************************)
DetourEarnsNoMore ==
  Drawn =>
    LET direct == DepositOf(Whole, Amount, supply, sample.dir)
    IN  ~Bad(direct) =>
          \A part \in 1 .. Amount :
            LET detour == DepositSeparately(Whole, Amount, part, supply, sample.dir)
            IN  detour # None => detour <= direct

(***************************************************************************)
(* calculator.rs: "withdrawing token A is the same as withdrawing both and *)
(* swapping one side".  The one-sided withdrawal of the sum costs no more  *)
(* pool tokens than were taken out.  At a fractional price the total value *)
(* leaves out the part of a token A that the tokens B are worth beyond it, *)
(* and it may cost what the pool tokens' share of that part is worth more. *)
(***************************************************************************)
OneSideCostsNoMore ==
  Drawn /\ Amount < supply =>
    LET cost  == SumCost(Whole, Amount, supply, sample.dir)
        slack == IF WholePrice THEN 0 ELSE 1 + Amount \div TotalValue(a, b, curve.price)
    IN  ~Bad(cost) => cost <= Amount + slack

(***************************************************************************)
(* base.rs: "the cost to withdraw B must always be higher than the amount  *)
(* gained through deposit" of A, lest a trade through pool tokens avoid    *)
(* the fees of a swap. It may be lower: a swap takes up to one token A     *)
(* more than its output is worth, and each of the two fees is floored for  *)
(* itself.  One token A with its fees, and one for either floor,           *)
(* deposited, are all that can be saved.                                   *)
(***************************************************************************)
SwapFeesBarelyAvoided ==
  Drawn /\ curve.type = "ConstantProduct" =>
    LET r     == OneSided(Whole, Amount, supply)
        spare == DepositOf(Whole, PreTradingFeeAmount(1, fees) + 2, supply, "AtoB")
    IN  r # None => r.withdraw + spare >= r.deposit

(***************************************************************************)
(* What is left of it without the roots: of the amounts base.rs has the    *)
(* calculator ask them about, A credited and B taken, the product of the   *)
(* reserves would exceed what it was by no more than the spare tokens A.   *)
(***************************************************************************)
AmountsBarelyAvoidFees ==
  Drawn /\ curve.type = "ConstantProduct" /\ PreTradingFeeDefined(fees) =>
    LET r        == CurveSwap(curve, Amount, a, b, "AtoB", fees)
        credited == DepositNet(r.sourceAmount, fees)
        taken    == WithdrawGross(r.destinationAmount, fees)
        spare    == PreTradingFeeAmount(1, fees) + 2
    IN  ~Bad(r) /\ credited >= 0 /\ taken <= b => (a + credited) * (b - taken) <= (a + spare) * b

(***************************************************************************)
(* Depositing A and withdrawing B avoids no more of a swap's fees than     *)
(* their rounding, in pool tokens and in the amounts they are made of.     *)
(***************************************************************************)
FeesBarelyAvoided == SwapFeesBarelyAvoided /\ AmountsBarelyAvoidFees

(***************************************************************************)
(* Moving both tokens, in or out, takes nothing from the pool tokens of the*)
(* others (calculator.rs: the value per pool token does not decrease).     *)
(***************************************************************************)
SharesKeepTheirValue == DepositKeepsShare /\ WithdrawalKeepsShare

(***************************************************************************)
(* Of several ways to one end the pool loses by none: there and back, with *)
(* a swap before a deposit, or with one after a withdrawal.                *)
(***************************************************************************)
NoWayIsCheaper == RoundTripNeverGains /\ DetourEarnsNoMore /\ OneSideCostsNoMore
=============================================================================
