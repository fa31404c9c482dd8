----------------------------- MODULE NewtonRoot -----------------------------
(***************************************************************************)
(* The loop of PreciseNumber::sqrt, newtonian_root_approximation of        *)
(* spl_math, with which TLC runs the models.  There ONE is small, and so   *)
(* is the difference of two guesses that ends the loop: a hundred units of *)
(* the twelfth decimal become less than two units.                         *)
(***************************************************************************)
EXTENDS PreciseNumber

MaxIterations == 100   \* MAX_APPROXIMATION_ITERATIONS
Precision     == 2     \* precision

Close(x, y) == x - y < Precision /\ y - x < Precision

\* checked_div adds half of ONE to the product it divides.
Better(v, guess) == (guess + (v * ONE + ONE \div 2) \div guess) \div 2

RECURSIVE Approximation(_, _, _)
Approximation(v, guess, iterations) ==
  LET next == Better(v, guess)
  IN  IF iterations = 1 \/ Close(next, guess) THEN next
      ELSE Approximation(v, next, iterations - 1)

NewtonSqrt(v) == IF v = 0 THEN 0 ELSE Approximation(v, (v + ONE) \div 2, MaxIterations)
=============================================================================
