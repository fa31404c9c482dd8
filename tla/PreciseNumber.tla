---------------------------- MODULE PreciseNumber ---------------------------
(***************************************************************************)
(* spl_math's PreciseNumber, as far as the one-sided deposits and          *)
(* withdrawals of the product curves use it (program/src/curve/            *)
(* constant_product.rs): fixed point numbers counted in units of 1 / ONE,  *)
(* which is the twelfth decimal.                                           *)
(*                                                                         *)
(* The library is not part of the repository.  Its root is a loop of       *)
(* Newton's method that stops when two guesses are close; here it is any   *)
(* function as accurate as the loop: what it answers is at most a unit     *)
(* below the root of its argument, and at most a unit above the root of    *)
(* the number after its argument.  Module NewtonRoot has the loop itself,  *)
(* for TLC.                                                                *)
(***************************************************************************)
EXTENDS Integers

CONSTANTS
  ONE,          \* the units of 1
  Sqrt(_),      \* the root of a number of units, in units
  MaxSqrtBase   \* maximum_sqrt_base: the largest number that has a root

ASSUME PreciseAssumption ==
  /\ ONE \in Nat /\ ONE >= 10
  /\ MaxSqrtBase \in Nat
  /\ \A v \in 0 .. MaxSqrtBase :
       /\ Sqrt(v) \in Nat
       /\ (Sqrt(v) + 1) * (Sqrt(v) + 1) > v * ONE
       /\ (Sqrt(v) - 1) * (Sqrt(v) - 1) <= (v + 1) * ONE
  /\ Sqrt(0) = 0

(***************************************************************************)
(* checked_div of two whole numbers.  The half unit it adds for rounding is*)
(* added before the division and never shows: the quotient is rounded down.*)
(***************************************************************************)
Ratio(x, y) == (x * ONE) \div y

\* checked_mul by a number of units, then floor, then to_imprecise.
Floored(whole, units) == (whole * units) \div ONE

\* The same with ceiling.
Ceiled(whole, units) == (whole * units + ONE - 1) \div ONE
=============================================================================
