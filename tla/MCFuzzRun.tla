------------------------------ MODULE MCFuzzRun -----------------------------
(* The fuzz target on small numbers. *)
EXTENDS FuzzRun, TLC, NewtonRoot

CONSTANTS id1, id2

TwoIds  == {id1, id2}
MCUsers == TwoIds \cup {Withdrawn}

\* The lists may rename their accounts.
Renamed == Permutations(TwoIds)

Fr(n, d) == [num |-> n, den |-> d]

\* The target's schedule with the same order of the four fees.
MCSchedule == [trade |-> Fr(1, 10), owner |-> Fr(1, 20), withdraw |-> Fr(1, 8), host |-> Fr(1, 5)]

CurveOf(type, price, offset) == [type |-> type, price |-> price, offset |-> offset]

\* The target's constant price is 10^-20: a token B is worth nothing.
AllCurves == {CurveOf("ConstantProduct", 0, 0), CurveOf("ConstantPrice", 1, 0),
              CurveOf("Offset", 0, 10), CurveOf("RedemptionRateCurve", RAY, 0)}
=============================================================================
