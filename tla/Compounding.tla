----------------------------- MODULE Compounding ----------------------------
(***************************************************************************)
(* Compounding a rate in fixed point (_rpow of program/src/curve/          *)
(* redemption_rate.rs): RAY * (x / RAY)^n by repeated squaring, rounded    *)
(* half up at every multiplication.  Module PowerLoop runs the loop one    *)
(* pass at a time.                                                         *)
(***************************************************************************)
EXTENDS FixedPoint

CONSTANTS
  U256_MAX,   \* products beyond it make the computation fail
  NoRate      \* the answer of a failed computation

ASSUME CompoundingAssumption ==
  /\ U256_MAX \in Nat
  /\ NoRate \notin Nat
  /\ RAY * RAY + RAY \div 2 <= U256_MAX   \* 10^54 is far below 2^256

\* A product in fixed point, rounded half up; NoRate if it does not fit.
RayMul(x, y) ==
  IF x * y + RAY \div 2 > U256_MAX THEN NoRate ELSE (x * y + RAY \div 2) \div RAY

(***************************************************************************)
(* The loop of _rpow, n being the bits of the exponent still to do, x the  *)
(* base squared so far and z the product so far.                           *)
(***************************************************************************)
RPowLoop[n \in Nat] ==
  [x \in Nat |-> [z \in Nat |->
    IF n = 0 THEN z
    ELSE LET square  == RayMul(x, x)
             product == IF n % 2 = 1 THEN RayMul(z, square) ELSE z
         IN  IF square = NoRate \/ product = NoRate THEN NoRate
             ELSE RPowLoop[n \div 2][square][product]]]

\* Mutant: the parity of the exponent is tested the wrong way round.
RPowOddForEven(x, n) ==
  IF x = 0 THEN (IF n = 0 THEN RAY ELSE 0)
  ELSE RPowLoop[n \div 2][x][IF n % 2 = 0 THEN x ELSE RAY]

RPow(x, n) ==
  IF x = 0 THEN (IF n = 0 THEN RAY ELSE 0)
  ELSE RPowLoop[n \div 2][x][IF n % 2 = 0 THEN RAY ELSE x]

\* factor * RPow(x, n) / RAY, the shape get_conversion_rate and set_rates share.
Compounded(factor, x, n) ==
  LET power == RPow(x, n)
  IN  IF power = NoRate THEN NoRate
      ELSE IF power * factor > U256_MAX THEN NoRate
      ELSE (power * factor) \div RAY

-----------------------------------------------------------------------------
(* For reference: b to the power of k, of whole numbers and not rounded.   *)
Raised[k \in Nat] == [b \in Nat |-> IF k = 0 THEN 1 ELSE b * Raised[k - 1][b]]
=============================================================================
