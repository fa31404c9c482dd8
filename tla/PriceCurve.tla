----------------------------- MODULE PriceCurve -----------------------------
(***************************************************************************)
(* The arithmetic that ConstantPriceCurve and RedemptionRateCurve share    *)
(* (program/src/curve/constant_price.rs, redemption_rate.rs): both value a *)
(* token B at p / RAY tokens A, where p is the stored price or the         *)
(* conversion rate of the moment.  All amounts are natural numbers; the    *)
(* U256 intermediates of the code are taken to be wide enough.             *)
(***************************************************************************)
EXTENDS FixedPoint

Direction == {"AtoB", "BtoA"}
Rounding  == {"Floor", "Ceiling"}

(***************************************************************************)
(* spl_math's checked_ceil_div on U256 (external): it is a ceiling except  *)
(* when the quotient is 0, where it rounds half up.                        *)
(***************************************************************************)
CeilDiv(x, y) ==
  IF x < y THEN (IF 2 * x >= y THEN 1 ELSE 0)
  ELSE (x + y - 1) \div y

Divide(x, y, round) == IF round = "Floor" THEN x \div y ELSE CeilDiv(x, y)

-----------------------------------------------------------------------------
\* The value in token A of an amount of the token a trade takes in.
GivenValue(amount, dir, p) == IF dir = "AtoB" THEN amount ELSE (amount * p) \div RAY

\* Mutant: the reserve of token B is counted token for token.
TotalValueUnpriced(a, b, p) == a + b

TotalValue(a, b, p) == a + (b * p) \div RAY

\* The pool tokens that an amount of one trading token is worth.
TradingTokensToPoolTokens(amount, a, b, supply, dir, round, p) ==
  Divide(supply * GivenValue(amount, dir, p), TotalValue(a, b, p), round)

\* The amount of one reserve that a number of pool tokens is worth.
PoolTokensToTradingTokens(poolTokens, reserve, supply, round) ==
  Divide(poolTokens * reserve, supply, round)

(***************************************************************************)
(* A swap of amount without fees: B for A pays the whole amount; A for B   *)
(* pays only what the tokens B bought cost, the rest stays with the user.  *)
(***************************************************************************)
SwappedOut(amount, dir, p) ==
  IF dir = "AtoB" THEN (amount * RAY) \div p ELSE (amount * p) \div RAY

\* Mutant: what the tokens bought cost is rounded down.
SwappedInRoundedDown(amount, dir, p) ==
  IF dir = "AtoB" THEN (SwappedOut(amount, dir, p) * p) \div RAY ELSE amount

SwappedIn(amount, dir, p) ==
  IF dir = "AtoB" THEN CeilDiv(SwappedOut(amount, dir, p) * p, RAY) ELSE amount

SwapWithoutFeesDefined(amount, dir, p) ==
  /\ dir = "AtoB" => p > 0
  /\ SwappedIn(amount, dir, p) \in 1 .. amount
  /\ SwappedOut(amount, dir, p) > 0
=============================================================================
