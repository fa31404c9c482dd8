-------------------------------- MODULE Fees --------------------------------
(***************************************************************************)
(* The fee schedule of a swap (program/src/curve/fees.rs).  A fee is a     *)
(* fraction [num, den] of an amount; a schedule is a record of the four    *)
(* fractions the program stores.  An operator whose name ends in Defined   *)
(* says when the Rust method returns Some; the operator it goes with gives *)
(* the value returned in that case.                                        *)
(***************************************************************************)
EXTENDS Integers

Fraction == [num : Nat, den : Nat]

\* The program keeps its fractions in eight u64 fields.
FeeSchedule == [trade : Fraction, owner : Fraction, withdraw : Fraction, host : Fraction]

\* A fee is rounded down, but a fee that is charged at all is at least one unit.
CalculateFee(amount, f) ==
  IF f.num = 0 \/ amount = 0 THEN 0
  ELSE LET fee == (amount * f.num) \div f.den
       IN  IF fee = 0 THEN 1 ELSE fee

\* The gross amount that leaves postFee after the fee f, rounded up.
PreFeeAmountDefined(f) == f.num = 0 \/ f.den = 0 \/ f.num < f.den

\* Mutant: the gross amount is divided by the fee's part, not by what it leaves.
PreFeeAmountByNumerator(postFee, f) ==
  IF f.num = 0 \/ f.den = 0 THEN postFee
  ELSE (postFee * f.den + f.num - 1) \div f.num

PreFeeAmount(postFee, f) ==
  IF f.num = 0 \/ f.den = 0 THEN postFee
  ELSE (postFee * f.den + (f.den - f.num) - 1) \div (f.den - f.num)

ValidFraction(f) == f = [num |-> 0, den |-> 0] \/ f.num < f.den

-----------------------------------------------------------------------------
TradingFee(amount, fees)      == CalculateFee(amount, fees.trade)
OwnerTradingFee(amount, fees) == CalculateFee(amount, fees.owner)
OwnerWithdrawFee(amount, fees) == CalculateFee(amount, fees.withdraw)
HostFee(amount, fees)         == CalculateFee(amount, fees.host)

\* The trading fee and the owner's trading fee taken as one fraction.
NoFee(f) == f.num = 0 \/ f.den = 0
CombinedTradingFee(fees) ==
  IF NoFee(fees.trade) THEN fees.owner
  ELSE IF NoFee(fees.owner) THEN fees.trade
  ELSE [num |-> fees.trade.num * fees.owner.den + fees.owner.num * fees.trade.den,
        den |-> fees.trade.den * fees.owner.den]

PreTradingFeeDefined(fees) == PreFeeAmountDefined(CombinedTradingFee(fees))
PreTradingFeeAmount(postFee, fees) == PreFeeAmount(postFee, CombinedTradingFee(fees))

ValidFees(fees) == \A f \in {fees.trade, fees.owner, fees.withdraw, fees.host} : ValidFraction(f)
=============================================================================
