-------------------------------- MODULE Curves ------------------------------
(***************************************************************************)
(* The four calculators a pool can be opened with and SwapCurve's fees     *)
(* around them (program/src/curve/).  The product curves, ConstantProduct  *)
(* and Offset, keep (reserve of A) * (reserve of B + offset); the priced   *)
(* curves value a token B at price / RAY tokens A (module PriceCurve; for  *)
(* the redemption curve price is the conversion rate of the moment).       *)
(*                                                                         *)
(* A calculation answers with a value, with None, or with a panic: the     *)
(* priced curves cast their U256 results with as_u128, which panics on a   *)
(* result that is too large.                                               *)
(***************************************************************************)
EXTENDS SwapCurve, PreciseNumber

CONSTANTS
  None,      \* Rust's None
  Panics,    \* the calculation aborts the program
  U128_MAX   \* the largest number a calculator can return

CurveTypes == {"ConstantProduct", "ConstantPrice", "Offset", "RedemptionRateCurve"}

Curve == [type : CurveTypes, price : Nat, offset : Nat]

Priced(c) == c.type \in {"ConstantPrice", "RedemptionRateCurve"}

Bad(result) == result \in {None, Panics}

-----------------------------------------------------------------------------
(* What Initialize asks of a curve, and what a curve asks of a pool. *)

Validate(c) ==
  /\ c.type = "ConstantPrice" => c.price # 0
  /\ c.type = "Offset" => c.offset # 0

ValidateSupply(c, a, b) == a # 0 /\ (c.type = "ConstantProduct" => b # 0)

AllowsDeposits(c) == c.type # "Offset"

-----------------------------------------------------------------------------
(* The product curves. *)

CeilUp(x, y) == (x + y - 1) \div y

\* The least divisor of x that still gives the quotient q (checked_ceil_div).
AdjustedDivisor(x, y, q) == IF x < y THEN 0 ELSE IF x % y = 0 THEN y ELSE CeilUp(x, q)

\* Mutant: what the other reserve keeps is rounded down.
ProductSwapRoundedDown(amount, source, destination) ==
  LET invariant == source * destination
      kept      == invariant \div (source + amount)
  IN  IF source + amount = 0 \/ invariant > U128_MAX \/ destination - kept <= 0 THEN None
      ELSE [in |-> amount, out |-> destination - kept]

(***************************************************************************)
(* swap of constant_product.rs: the other reserve keeps the least amount   *)
(* whose product is no smaller, and the trader pays no more than that      *)
(* amount needs.                                                           *)
(***************************************************************************)
ProductSwap(amount, source, destination) ==
  LET invariant == source * destination
      kept      == CeilDiv(invariant, source + amount)
      needed    == AdjustedDivisor(invariant, source + amount, kept)
  IN  IF source + amount = 0 \/ invariant > U128_MAX THEN None
      ELSE IF needed < source \/ destination - kept <= 0 THEN None
      ELSE [in |-> needed - source, out |-> destination - kept]

\* Mutant: the share of the one reserve, without the root.
ProductDepositLinear(amount, reserve, supply) ==
  IF reserve = 0 THEN None ELSE Floored(supply, Ratio(amount, reserve))

\* deposit_single_token_type: supply * (Sqrt(1 + amount / reserve) - 1), rounded down.
ProductDeposit(amount, reserve, supply) ==
  LET base == ONE + Ratio(amount, reserve)
  IN  IF reserve = 0 THEN None
      ELSE IF base > MaxSqrtBase \/ Sqrt(base) < ONE THEN None
      ELSE Floored(supply, Sqrt(base) - ONE)

\* 1 - amount / reserve, and nothing for more than the reserve.
BaseLeft(amount, reserve) ==
  IF Ratio(amount, reserve) > ONE THEN 0 ELSE ONE - Ratio(amount, reserve)

\* Mutant: what is charged is rounded down, for the user.
ProductWithdrawForTheUser(amount, reserve, supply) ==
  IF reserve = 0 THEN None ELSE Floored(supply, ONE - Sqrt(BaseLeft(amount, reserve)))

\* Mutant: the share of the one reserve, without the root.
ProductWithdrawLinear(amount, reserve, supply) ==
  IF reserve = 0 THEN None ELSE Ceiled(supply, ONE - BaseLeft(amount, reserve))

\* withdraw_single_token_type_exact_out: supply * (1 - Sqrt(1 - amount / reserve)), rounded up.
ProductWithdraw(amount, reserve, supply) ==
  LET base == BaseLeft(amount, reserve)
  IN  IF reserve = 0 THEN None
      ELSE IF base > MaxSqrtBase \/ Sqrt(base) > ONE THEN None
      ELSE Ceiled(supply, ONE - Sqrt(base))

\* Mutant: a deposit is rounded down as well.
ProductPartDown(poolTokens, reserve, supply, round) == (poolTokens * reserve) \div supply

\* Mutant: a withdrawal is rounded up as well.
ProductPartUp(poolTokens, reserve, supply, round) == CeilUp(poolTokens * reserve, supply)

\* A ceiling never makes one token out of none.
ProductPart(poolTokens, reserve, supply, round) ==
  LET whole == (poolTokens * reserve) \div supply
  IN  IF round = "Ceiling" /\ whole > 0 /\ (poolTokens * reserve) % supply > 0
        THEN whole + 1 ELSE whole

\* The square of the root that normalized_value takes.
ProductValue(a, b) == a * b

-----------------------------------------------------------------------------
(* The priced curves' casts. *)

AsU128(x) == IF x > U128_MAX THEN Panics ELSE x

PricedSwap(amount, dir, p) ==
  LET in  == SwappedIn(amount, dir, p)
      out == SwappedOut(amount, dir, p)
  IN  IF dir = "AtoB" /\ p = 0 THEN None
      ELSE IF in > amount \/ in = 0 THEN None
      ELSE IF AsU128(out) = Panics THEN Panics
      ELSE IF out = 0 THEN None
      ELSE [in |-> in, out |-> out]

PricedTradingTokens(poolTokens, a, b, supply, round) ==
  [a |-> PoolTokensToTradingTokens(poolTokens, a, supply, round),
   b |-> PoolTokensToTradingTokens(poolTokens, b, supply, round)]

PricedPoolTokens(amount, a, b, supply, dir, round, p) ==
  IF TotalValue(a, b, p) = 0 THEN None
  ELSE AsU128(TradingTokensToPoolTokens(amount, a, b, supply, dir, round, p))

PricedDeposit(amount, a, b, supply, dir, p)  == PricedPoolTokens(amount, a, b, supply, dir, "Floor", p)
PricedWithdraw(amount, a, b, supply, dir, p) == PricedPoolTokens(amount, a, b, supply, dir, "Ceiling", p)

PricedValue(a, b, p) == TotalValue(a, b, p) \div 2

-----------------------------------------------------------------------------
(* CurveCalculator: the curve of the pool answers. *)

\* The reserve of token B as the curve sees it.
WithOffset(c, b) == IF c.type = "Offset" THEN b + c.offset ELSE b

SwapWithoutFees(c, amount, source, destination, dir) ==
  IF Priced(c) THEN PricedSwap(amount, dir, c.price)
  ELSE IF dir = "AtoB" THEN ProductSwap(amount, source, WithOffset(c, destination))
  ELSE ProductSwap(amount, WithOffset(c, source), destination)

TradingTokens(c, poolTokens, a, b, supply, round) ==
  IF supply = 0 THEN None
  ELSE IF Priced(c) THEN PricedTradingTokens(poolTokens, a, b, supply, round)
  ELSE IF poolTokens * WithOffset(c, b) > U128_MAX THEN None
  ELSE [a |-> ProductPart(poolTokens, a, supply, round),
        b |-> ProductPart(poolTokens, WithOffset(c, b), supply, round)]

DepositSingleTokenType(c, amount, a, b, supply, dir) ==
  IF Priced(c) THEN PricedDeposit(amount, a, b, supply, dir, c.price)
  ELSE ProductDeposit(amount, IF dir = "AtoB" THEN a ELSE WithOffset(c, b), supply)

WithdrawSingleTokenType(c, amount, a, b, supply, dir) ==
  IF Priced(c) THEN PricedWithdraw(amount, a, b, supply, dir, c.price)
  ELSE ProductWithdraw(amount, IF dir = "AtoB" THEN a ELSE WithOffset(c, b), supply)

\* normalized_value; for the product curves its square.
NormalizedValue(c, a, b) ==
  IF Priced(c) THEN PricedValue(a, b, c.price) ELSE ProductValue(a, WithOffset(c, b))

-----------------------------------------------------------------------------
(* SwapCurve: the fees around the curve's answer. *)

CurveSwap(c, amount, source, destination, dir, fees) ==
  LET net  == LessFees(amount, fees)
      r    == SwapWithoutFees(c, net, source, destination, dir)
      base == IF r.in < net THEN PreTradingFeeAmount(r.in, fees) ELSE amount
      paid == r.in + TradingFee(base, fees) + OwnerTradingFee(base, fees)
  IN  IF net < 0 THEN None
      ELSE IF Bad(r) THEN r
      ELSE IF (r.in < net /\ ~PreTradingFeeDefined(fees)) \/ r.out > destination THEN None
      ELSE [sourceAmount |-> paid, destinationAmount |-> r.out,
            ownerFee |-> OwnerTradingFee(base, fees)]

CurveDeposit(c, amount, a, b, supply, dir, fees) ==
  IF amount = 0 THEN [amount |-> 0, ownerFee |-> 0]
  ELSE IF DepositNet(amount, fees) < 0 THEN None
  ELSE LET tokens == DepositSingleTokenType(c, DepositNet(amount, fees), a, b, supply, dir)
       IN  IF Bad(tokens) THEN tokens
           ELSE [amount |-> tokens, ownerFee |-> DepositOwnerFee(amount, fees)]

\* Mutant: half of a one-sided withdrawal is not charged as a trade.
CurveWithdrawUncharged(c, amount, a, b, supply, dir, fees) ==
  IF amount = 0 THEN [amount |-> 0, ownerFee |-> 0]
  ELSE LET tokens == WithdrawSingleTokenType(c, amount, a, b, supply, dir)
       IN  IF Bad(tokens) THEN tokens
           ELSE [amount |-> tokens, ownerFee |-> WithdrawOwnerFee(amount, fees)]

CurveWithdraw(c, amount, a, b, supply, dir, fees) ==
  IF amount = 0 THEN [amount |-> 0, ownerFee |-> 0]
  ELSE IF ~PreTradingFeeDefined(fees) THEN None
  ELSE LET tokens == WithdrawSingleTokenType(c, WithdrawGross(amount, fees), a, b, supply, dir)
       IN  IF Bad(tokens) THEN tokens
           ELSE [amount |-> tokens, ownerFee |-> WithdrawOwnerFee(amount, fees)]
=============================================================================
