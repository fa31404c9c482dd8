---------------------------- MODULE MCProductPool ---------------------------
(* Small product pools. *)
EXTENDS ProductPool, NewtonRoot

CONSTANT u1

Fr(n, d) == [num |-> n, den |-> d]
ZeroFees == [trade |-> Fr(0, 0), owner |-> Fr(0, 0), withdraw |-> Fr(0, 0), host |-> Fr(0, 0)]
AllFees  == [trade |-> Fr(1, 5), owner |-> Fr(1, 4), withdraw |-> Fr(1, 3), host |-> Fr(1, 2)]
OwnerFee == [ZeroFees EXCEPT !.owner = Fr(1, 4), !.host = Fr(1, 2)]

CurveOf(type, offset) == [type |-> type, price |-> 0, offset |-> offset]
MCCurves    == {CurveOf("ConstantProduct", 0), CurveOf("Offset", 3), CurveOf("Offset", 0)}
MCSchedules == {ZeroFees, AllFees, OwnerFee}

MCUsers == {u1}
Holding(reserve, user) == [acc \in MCUsers \cup {Reserve} |-> IF acc = Reserve THEN reserve ELSE user]
MCInitialA == Holding(0, 8)
MCInitialB == Holding(0, 8)
=============================================================================
