------------------------------ MODULE SwapCurve -----------------------------
(***************************************************************************)
(* SwapCurve (program/src/curve/base.rs): fees wrapped around the curve.   *)
(***************************************************************************)
EXTENDS PriceCurve, Fees

-----------------------------------------------------------------------------
\* What is left of amount after both trading fees.
LessFees(amount, fees) == amount - TradingFee(amount, fees) - OwnerTradingFee(amount, fees)

(***************************************************************************)
(* The amount the fees of a swap are finally charged on: the amount put    *)
(* in, or, when the curve used less than that leaves after fees, the gross *)
(* amount that leaves what was used.                                       *)
(***************************************************************************)
FeeBase(amount, dir, fees, p) ==
  LET used == SwappedIn(LessFees(amount, fees), dir, p)
  IN  IF used < LessFees(amount, fees) THEN PreTradingFeeAmount(used, fees) ELSE amount

SwapResult(amount, dir, fees, p) ==
  LET net  == LessFees(amount, fees)
      base == FeeBase(amount, dir, fees, p)
  IN  [sourceAmount      |-> SwappedIn(net, dir, p)
                               + TradingFee(base, fees) + OwnerTradingFee(base, fees),
       destinationAmount |-> SwappedOut(net, dir, p),
       ownerFee          |-> OwnerTradingFee(base, fees)]

\* Mutant: the destination reserve is not asked whether it holds the amount.
SwapDefinedBeyondReserve(amount, destinationReserve, dir, fees, p) ==
  LET net == LessFees(amount, fees)
  IN  /\ net >= 0
      /\ SwapWithoutFeesDefined(net, dir, p)
      /\ SwappedIn(net, dir, p) < net => PreTradingFeeDefined(fees)

SwapDefined(amount, destinationReserve, dir, fees, p) ==
  LET net == LessFees(amount, fees)
  IN  /\ net >= 0
      /\ SwapWithoutFeesDefined(net, dir, p)
      /\ SwappedIn(net, dir, p) < net => PreTradingFeeDefined(fees)
      /\ SwappedOut(net, dir, p) <= destinationReserve

-----------------------------------------------------------------------------
\* A one-sided deposit pays the trading fees on half of its amount.
HalfDown(amount) == IF amount < 2 THEN 1 ELSE amount \div 2

DepositNet(amount, fees) ==
  amount - TradingFee(HalfDown(amount), fees) - OwnerTradingFee(HalfDown(amount), fees)

DepositOwnerFee(amount, fees) == OwnerTradingFee(HalfDown(amount), fees)

DepositDefined(amount, a, b, fees, p) ==
  /\ DepositNet(amount, fees) >= 0
  /\ TotalValue(a, b, p) > 0

\* The pool tokens minted for a one-sided deposit.
DepositSingle(amount, a, b, supply, dir, fees, p) ==
  TradingTokensToPoolTokens(DepositNet(amount, fees), a, b, supply, dir, "Floor", p)

-----------------------------------------------------------------------------
\* A one-sided withdrawal is charged as if half of it, rounded up, were swapped.
HalfUp(amount) == (amount + 1) \div 2

\* Mutant: the half that counts as a swap is not charged for it.
WithdrawGrossUncharged(amount, fees) == amount

WithdrawGross(amount, fees) ==
  amount - HalfUp(amount) + PreTradingFeeAmount(HalfUp(amount), fees)

WithdrawOwnerFee(amount, fees) ==
  OwnerTradingFee(PreTradingFeeAmount(HalfUp(amount), fees), fees)

WithdrawDefined(a, b, fees, p) ==
  /\ PreTradingFeeDefined(fees)
  /\ TotalValue(a, b, p) > 0

\* The pool tokens burnt for an exact amount out of one reserve.
WithdrawSingle(amount, a, b, supply, dir, fees, p) ==
  TradingTokensToPoolTokens(WithdrawGross(amount, fees), a, b, supply, dir, "Ceiling", p)
=============================================================================
