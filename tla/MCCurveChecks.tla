---------------------------- MODULE MCCurveChecks ---------------------------
(* Calculators, pools and amounts for TLC. *)
EXTENDS CurveChecks, NewtonRoot

Fr(n, d) == [num |-> n, den |-> d]
ZeroFees == [trade |-> Fr(0, 0), owner |-> Fr(0, 0), withdraw |-> Fr(0, 0), host |-> Fr(0, 0)]
HighFees == [ZeroFees EXCEPT !.trade = Fr(2, 5), !.owner = Fr(1, 3)]
HalfFee  == [ZeroFees EXCEPT !.trade = Fr(1, 2)]

CurveOf(type, price, offset) == [type |-> type, price |-> price, offset |-> offset]

\* A token B worth 1, 3, 3/2 and 1/2 tokens A.
AllCurves ==
  {CurveOf("ConstantProduct", 0, 0), CurveOf("Offset", 0, 3),
   CurveOf("ConstantPrice", 4, 0), CurveOf("ConstantPrice", 12, 0),
   CurveOf("RedemptionRateCurve", 6, 0), CurveOf("ConstantPrice", 2, 0)}

\* Schedules whose trading fees a detour might avoid.
TradingFees == {HighFees, HalfFee}

UpToTen  == 1 .. 10
Samples  == UpToTen \cup {40, 67, 90}
FewPools == {7, 30, 100}
=============================================================================
