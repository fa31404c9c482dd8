------------------------------ MODULE CurveProofs ---------------------------
(***************************************************************************)
(* The arithmetic of the curves and their fees, for all amounts, prices,   *)
(* rates, fees and every RAY: integer division, the priced curves, the fee *)
(* schedules around a curve, the roots of the product curves, what _rpow   *)
(* makes of a rate, and how near that is to growth without roundings.  The *)
(* library's induction theorems take a predicate as a parameter and cannot *)
(* be instantiated here; induction is therefore done with the least number *)
(* a claim fails for.                                                      *)
(***************************************************************************)
EXTENDS Curves, Compounding, WellFoundedInduction, TLAPS

-----------------------------------------------------------------------------
(* Least numbers. *)

\* Every set of natural numbers that is not empty has a least one.
LEMMA LeastNumber ==
  ASSUME NEW S \in SUBSET Nat, S # {}
  PROVE  \E m \in S : \A k \in S : m <= k
<1> DEFINE R == OpToRel(<, Nat)
<1>1. IsWellFoundedOn(R, Nat)
  BY NatLessThanWellFounded
<1>2. \A k, m \in Nat : k < m => <<k, m>> \in R
  BY DEF OpToRel
<1> HIDE DEF R
<1>3. PICK m \in S : \A k \in S : ~ (<<k, m>> \in R)
  BY <1>1, WFMin
<1>4. \A k \in S : ~ (k < m)
  BY <1>2, <1>3
<1>5. QED
  BY <1>4

\* What a claim must satisfy to hold of every number.
LEMMA NoLeastFailure ==
  ASSUME NEW Good \in SUBSET Nat,
         \A n \in Nat : (\A k \in Nat : k < n => k \in Good) => n \in Good
  PROVE  Good = Nat
<1> DEFINE Failing == Nat \ Good
<1>1. SUFFICES ASSUME Failing # {} PROVE FALSE
  OBVIOUS
<1>2. PICK m \in Failing : \A k \in Failing : m <= k
  BY <1>1, LeastNumber
<1>3. \A k \in Nat : k < m => k \in Good
  BY <1>2, SMT
<1>4. QED
  BY <1>2, <1>3

-----------------------------------------------------------------------------
(* Integer division. *)

\* A quotient is rounded down, by less than one.
LEMMA FloorBounds ==
  ASSUME NEW x \in Nat, NEW y \in Nat \ {0}
  PROVE  /\ x \div y \in Nat
         /\ (x \div y) * y <= x
         /\ x < (x \div y) * y + y
  BY SMT

\* The largest quotient that fits is the floor.
LEMMA FloorIsLargest ==
  ASSUME NEW x \in Nat, NEW y \in Nat \ {0}, NEW q \in Nat, q * y <= x
  PROVE  q <= x \div y
<1>1. x < (x \div y + 1) * y
  BY FloorBounds, SMT
<1>2. q * y < (x \div y + 1) * y
  BY <1>1, FloorBounds, SMT
<1>3. QED
  BY <1>2, FloorBounds, SMT

\* checked_ceil_div: not below the true quotient once it is not 0, and never
\* below it by more than one half.
LEMMA CeilDivBounds ==
  ASSUME NEW x \in Nat, NEW y \in Nat \ {0}
  PROVE  /\ CeilDiv(x, y) \in Nat
         /\ CeilDiv(x, y) > 0 => CeilDiv(x, y) * y >= x
         /\ 2 * CeilDiv(x, y) * y + y >= 2 * x
<1>1. CASE x < y
  BY <1>1, SMT DEF CeilDiv
<1>2. CASE x >= y
  <2>1. /\ (x + y - 1) \div y \in Nat
        /\ x + y - 1 < ((x + y - 1) \div y) * y + y
    BY FloorBounds, SMT
  <2>2. CeilDiv(x, y) = (x + y - 1) \div y
    BY <1>2, SMT DEF CeilDiv
  <2>3. CeilDiv(x, y) * y >= x
    BY <2>1, <2>2, SMT
  <2>4. 2 * CeilDiv(x, y) * y = 2 * (CeilDiv(x, y) * y)
    BY <2>1, <2>2, SMT
  <2>5. QED
    BY <2>1, <2>2, <2>3, <2>4, SMT
<1>3. QED
  BY <1>1, <1>2, SMT

LEMMA MulMono ==
  ASSUME NEW x \in Int, NEW y \in Int, NEW z \in Nat, x <= y
  PROVE  x * z <= y * z /\ z * x <= z * y
  BY SMT

LEMMA CancelFactor ==
  ASSUME NEW p \in Nat, NEW q \in Nat, NEW c \in Nat \ {0}, p * c <= q * c
  PROVE  p <= q
<1>1. ~ (q + 1 <= p)
  <2>1. SUFFICES ASSUME q + 1 <= p PROVE FALSE
    OBVIOUS
  <2>2. (q + 1) * c <= p * c
    BY <2>1, MulMono, SMT
  <2>3. (q + 1) * c = q * c + c /\ q * c \in Nat /\ p * c \in Nat
    BY SMT
  <2>4. QED
    BY <2>2, <2>3, SMT
<1>2. QED
  BY <1>1, SMT

\* Comparing ratios is transitive.
LEMMA RatioTransitive ==
  ASSUME NEW x \in Int, NEW y \in Int, NEW z \in Int,
         NEW p \in Nat, NEW q \in Nat \ {0}, NEW r \in Nat,
         x * q >= y * r, y * p >= z * q
  PROVE  x * p >= z * r
<1>1. (x * q) * p >= (y * r) * p
  <2>1. x * q \in Int /\ y * r \in Int
    BY SMT
  <2>2. QED
    BY <2>1, MulMono, SMT
<1>2. (y * p) * r >= (z * q) * r
  <2>1. y * p \in Int /\ z * q \in Int
    BY SMT
  <2>2. QED
    BY <2>1, MulMono, SMT
<1>3. /\ (x * q) * p = (x * p) * q
      /\ (y * r) * p = (y * p) * r
      /\ (z * q) * r = (z * r) * q
  BY SMT
<1>4. x * p \in Int /\ z * r \in Int /\ (x * p) * q \in Int /\ (z * r) * q \in Int
      /\ (y * p) * r \in Int
  BY SMT
<1>5. (x * p) * q >= (z * r) * q
  BY <1>1, <1>2, <1>3, <1>4, SMT
<1>6. ~(x * p + 1 <= z * r)
  <2>1. SUFFICES ASSUME x * p + 1 <= z * r PROVE FALSE
    OBVIOUS
  <2>2. (x * p + 1) * q <= (z * r) * q
    BY <1>4, <2>1, MulMono, SMT
  <2>3. (x * p + 1) * q = (x * p) * q + q
    BY <1>4, SMT
  <2>4. QED
    BY <1>4, <1>5, <2>2, <2>3, SMT
<1>7. QED
  BY <1>4, <1>6, SMT

LEMMA DivideTypes ==
  ASSUME NEW x \in Nat, NEW y \in Nat \ {0}, NEW round \in Rounding
  PROVE  Divide(x, y, round) \in Nat
  BY FloorBounds, CeilDivBounds DEF Divide, Rounding

-----------------------------------------------------------------------------
(* Value. *)

\* What one unit of the token taken in, or given out, by a trade is worth.
Weight(dir, p) == IF dir = "AtoB" THEN RAY ELSE p
OtherWeight(dir, p) == IF dir = "AtoB" THEN p ELSE RAY

LEMMA AmountTypes ==
  ASSUME NEW amount \in Nat, NEW p \in Nat, NEW dir \in Direction,
         dir = "AtoB" => p > 0
  PROVE  SwappedOut(amount, dir, p) \in Nat /\ SwappedIn(amount, dir, p) \in Nat
<1>1. CASE dir = "AtoB"
  <2>1. SwappedOut(amount, dir, p) \in Nat
    BY <1>1, RAYAssumption, FloorBounds, SMT DEF SwappedOut
  <2>2. SwappedOut(amount, dir, p) * p \in Nat
    BY <2>1, SMT
  <2>3. QED
    BY <1>1, <2>1, <2>2, RAYAssumption, CeilDivBounds DEF SwappedIn
<1>2. CASE dir = "BtoA"
  BY <1>2, RAYAssumption, FloorBounds, SMT DEF SwappedOut, SwappedIn
<1>3. QED
  BY <1>1, <1>2 DEF Direction

(***************************************************************************)
(* The branch of swap_without_fees that gives up because the curve would   *)
(* use more than the user put in is never taken for a rate above zero.     *)
(***************************************************************************)
THEOREM SwapUsesAtMostAmount ==
  ASSUME NEW amount \in Nat, NEW p \in Nat \ {0}
  PROVE  SwappedIn(amount, "AtoB", p) <= amount
<1> DEFINE out == (amount * RAY) \div p
<1>1. /\ out \in Nat /\ out * p \in Nat
      /\ out * p <= amount * RAY
  <2>1. amount * RAY \in Nat
    BY RAYAssumption, SMT
  <2>2. out \in Nat /\ out * p <= amount * RAY
    BY <2>1, FloorBounds
  <2>3. QED
    BY <2>2, SMT
<1>2. SwappedIn(amount, "AtoB", p) = CeilDiv(out * p, RAY)
  BY DEF SwappedIn, SwappedOut
<1>3. CASE out * p < RAY
  <2>1. CASE amount = 0
    BY <1>1, <1>2, <2>1, RAYAssumption, SMT DEF CeilDiv
  <2>2. CASE amount > 0
    BY <1>2, <1>3, <2>2, SMT DEF CeilDiv
  <2>3. QED
    BY <2>1, <2>2, SMT
<1>4. CASE out * p >= RAY
  <2>1. CeilDiv(out * p, RAY) = (out * p + RAY - 1) \div RAY
    BY <1>1, <1>4, RAYAssumption, SMT DEF CeilDiv
  <2>2. /\ (out * p + RAY - 1) \div RAY \in Nat
        /\ ((out * p + RAY - 1) \div RAY) * RAY <= out * p + RAY - 1
    <3>1. out * p + RAY - 1 \in Nat
      BY <1>1, RAYAssumption, SMT
    <3>2. QED
      BY <3>1, RAYAssumption, FloorBounds
  <2>3. ((out * p + RAY - 1) \div RAY) * RAY < (amount + 1) * RAY
    BY <1>1, <2>2, RAYAssumption, SMT
  <2>4. QED
    BY <1>2, <2>1, <2>2, <2>3, RAYAssumption, SMT
<1>5. QED
  BY <1>1, <1>3, <1>4, RAYAssumption, SMT

(***************************************************************************)
(* A swap at price p never pays out more than it takes in.                 *)
(***************************************************************************)
THEOREM SwapPaysItsWorth ==
  ASSUME NEW amount \in Nat, NEW p \in Nat, NEW dir \in Direction,
         SwapWithoutFeesDefined(amount, dir, p)
  PROVE  SwappedOut(amount, dir, p) * OtherWeight(dir, p)
           <= SwappedIn(amount, dir, p) * Weight(dir, p)
<1>1. CASE dir = "AtoB"
  <2>1. SwappedOut(amount, dir, p) \in Nat /\ p > 0 /\ SwappedIn(amount, dir, p) > 0
    BY <1>1, AmountTypes, SMT DEF SwapWithoutFeesDefined
  <2>2. SwappedOut(amount, dir, p) * p \in Nat
    BY <2>1, SMT
  <2>3. CeilDiv(SwappedOut(amount, dir, p) * p, RAY) * RAY >= SwappedOut(amount, dir, p) * p
    BY <1>1, <2>1, <2>2, RAYAssumption, CeilDivBounds DEF SwappedIn
  <2>4. QED
    BY <1>1, <2>1, <2>3 DEF SwappedIn, Weight, OtherWeight
<1>2. CASE dir = "BtoA"
  BY <1>2, RAYAssumption, FloorBounds, SMT
     DEF SwappedIn, SwappedOut, Weight, OtherWeight
<1>3. QED
  BY <1>1, <1>2 DEF Direction

\* The pool undervalues its reserves by less than one token A.
LEMMA TotalValueBounds ==
  ASSUME NEW a \in Nat, NEW b \in Nat, NEW p \in Nat
  PROVE  /\ TotalValue(a, b, p) \in Nat
         /\ TotalValue(a, b, p) * RAY <= a * RAY + b * p
         /\ a * RAY + b * p < TotalValue(a, b, p) * RAY + RAY
<1>1. (b * p) \div RAY \in Nat
      /\ ((b * p) \div RAY) * RAY <= b * p
      /\ b * p < ((b * p) \div RAY) * RAY + RAY
  BY RAYAssumption, FloorBounds, SMT
<1>2. QED
  BY <1>1, RAYAssumption, SMT DEF TotalValue

LEMMA GivenValueBounds ==
  ASSUME NEW amount \in Nat, NEW p \in Nat, NEW dir \in Direction
  PROVE  /\ GivenValue(amount, dir, p) \in Nat
         /\ GivenValue(amount, dir, p) * RAY <= amount * Weight(dir, p)
         /\ amount * Weight(dir, p) < GivenValue(amount, dir, p) * RAY + RAY
<1>1. CASE dir = "AtoB"
  BY <1>1, RAYAssumption, SMT DEF GivenValue, Weight
<1>2. CASE dir = "BtoA"
  BY <1>2, RAYAssumption, FloorBounds, SMT DEF GivenValue, Weight
<1>3. QED
  BY <1>1, <1>2 DEF Direction

(***************************************************************************)
(* Pool tokens minted for one token, rounded down: what comes in is worth  *)
(* the shares that go out, short of at most RAY per share minted.          *)
(***************************************************************************)
THEOREM MintKeepsShareValue ==
  ASSUME NEW amount \in Nat, NEW a \in Nat, NEW b \in Nat, NEW supply \in Nat,
         NEW p \in Nat, NEW dir \in Direction, NEW minted \in Nat,
         TotalValue(a, b, p) > 0,
         minted <= TradingTokensToPoolTokens(amount, a, b, supply, dir, "Floor", p)
  PROVE  minted * (a * RAY + b * p) <= amount * Weight(dir, p) * supply + minted * RAY
<1> DEFINE given == GivenValue(amount, dir, p)
           total == TotalValue(a, b, p)
           value == a * RAY + b * p
           paid  == amount * Weight(dir, p)
<1>1. /\ given \in Nat /\ total \in Nat \ {0} /\ value \in Nat /\ paid \in Nat
      /\ RAY \in Nat /\ supply * given \in Nat
  <2>1. given \in Nat
    BY GivenValueBounds
  <2>2. total \in Nat \ {0}
    BY TotalValueBounds, SMT
  <2>3. value \in Nat /\ RAY \in Nat
    BY RAYAssumption, SMT
  <2>4. Weight(dir, p) \in Nat
    BY RAYAssumption DEF Weight
  <2>5. paid \in Nat
    BY <2>4, SMT
  <2>6. QED
    BY <2>1, <2>2, <2>3, <2>5, SMT
<1>2. minted * total <= supply * given
  <2>1. /\ (supply * given) \div total \in Nat
        /\ ((supply * given) \div total) * total <= supply * given
    BY <1>1, FloorBounds
  <2>2. minted <= (supply * given) \div total
    BY DEF TradingTokensToPoolTokens, Divide
  <2>3. minted * total <= ((supply * given) \div total) * total
    BY <1>1, <2>1, <2>2, MulMono
  <2>4. QED
    BY <1>1, <2>1, <2>3, SMT
<1> HIDE DEF given, total, value, paid
<1>3. minted * value <= minted * (total * RAY + RAY)
  <2>1. value <= total * RAY + RAY
    <3>1. value < total * RAY + RAY
      BY TotalValueBounds DEF value, total
    <3>2. total * RAY \in Nat
      BY <1>1, SMT
    <3>3. QED
      BY <1>1, <3>1, <3>2, SMT
  <2>2. QED
    BY <1>1, <2>1, MulMono, SMT
<1>4. minted * (total * RAY + RAY) = (minted * total) * RAY + minted * RAY
  BY <1>1, SMT
<1>5. (minted * total) * RAY <= (supply * given) * RAY
  BY <1>1, <1>2, MulMono, SMT
<1>6. (supply * given) * RAY = (given * RAY) * supply
  BY <1>1, SMT
<1>7. (given * RAY) * supply <= paid * supply
  <2>1. given * RAY <= paid
    BY GivenValueBounds DEF given, paid
  <2>2. QED
    BY <1>1, <2>1, MulMono, SMT
<1>8. minted * value <= paid * supply + minted * RAY
  <2>1. /\ minted * value \in Int /\ minted * RAY \in Int /\ paid * supply \in Int
        /\ (minted * total) * RAY \in Int /\ (given * RAY) * supply \in Int
    BY <1>1, SMT
  <2>2. QED
    BY <2>1, <1>3, <1>4, <1>5, <1>6, <1>7, SMT
<1>9. QED
  BY <1>8 DEF value, paid

(***************************************************************************)
(* Pool tokens burnt for one token, rounded up: what goes out is worth no  *)
(* more than the shares burnt and RAY, one whole token A, per share left   *)
(* and burnt together; and not even that when token A is withdrawn.        *)
(***************************************************************************)
THEOREM BurnKeepsShareValue ==
  ASSUME NEW amount \in Nat, NEW a \in Nat, NEW b \in Nat, NEW supply \in Nat,
         NEW p \in Nat, NEW dir \in Direction, NEW burnt \in Nat,
         TotalValue(a, b, p) > 0,
         burnt = TradingTokensToPoolTokens(amount, a, b, supply, dir, "Ceiling", p),
         burnt > 0
  PROVE  /\ amount * Weight(dir, p) * supply <= burnt * (a * RAY + b * p) + RAY * supply
         /\ dir = "AtoB" =>
              amount * Weight(dir, p) * supply <= burnt * (a * RAY + b * p)
<1> DEFINE given == GivenValue(amount, dir, p)
           total == TotalValue(a, b, p)
           value == a * RAY + b * p
           paid  == amount * Weight(dir, p)
<1>1. /\ given \in Nat /\ total \in Nat \ {0} /\ value \in Nat /\ paid \in Nat
      /\ RAY \in Nat /\ supply * given \in Nat
  <2>1. given \in Nat
    BY GivenValueBounds
  <2>2. total \in Nat \ {0}
    BY TotalValueBounds, SMT
  <2>3. value \in Nat /\ RAY \in Nat
    BY RAYAssumption, SMT
  <2>4. Weight(dir, p) \in Nat
    BY RAYAssumption DEF Weight
  <2>5. paid \in Nat
    BY <2>4, SMT
  <2>6. QED
    BY <2>1, <2>2, <2>3, <2>5, SMT
<1>2. supply * given <= burnt * total
  <2>1. burnt = CeilDiv(supply * given, total)
    BY DEF TradingTokensToPoolTokens, Divide
  <2>2. QED
    BY <1>1, <2>1, CeilDivBounds
<1>3. total * RAY <= value /\ paid <= given * RAY + RAY
  <2>1. total * RAY <= value
    BY TotalValueBounds
  <2>2. paid < given * RAY + RAY
    BY GivenValueBounds
  <2>3. given * RAY \in Nat
    BY <1>1, SMT
  <2>4. QED
    BY <1>1, <2>1, <2>2, <2>3, SMT
<1>4. dir = "AtoB" => paid = given * RAY
  BY DEF Weight, GivenValue
<1> HIDE DEF given, total, value, paid
<1>5. (supply * given) * RAY <= burnt * value
  <2>1. (supply * given) * RAY <= (burnt * total) * RAY
    BY <1>1, <1>2, MulMono, SMT
  <2>2. (burnt * total) * RAY = burnt * (total * RAY)
    BY <1>1, SMT
  <2>3. burnt * (total * RAY) <= burnt * value
    BY <1>1, <1>3, MulMono, SMT
  <2>4. QED
    BY <1>1, <2>1, <2>2, <2>3, SMT
<1>6. /\ (supply * given) * RAY = (given * RAY) * supply
      /\ (given * RAY + RAY) * supply = (given * RAY) * supply + RAY * supply
  BY <1>1, SMT
<1>7. paid * supply <= (given * RAY + RAY) * supply
  BY <1>1, <1>3, MulMono, SMT
<1>8. paid * supply <= burnt * value + RAY * supply
  BY <1>1, <1>5, <1>6, <1>7, SMT
<1>9. dir = "AtoB" => paid * supply <= burnt * value
  BY <1>4, <1>5, <1>6, SMT
<1>10. QED
  BY <1>8, <1>9 DEF value, paid

-----------------------------------------------------------------------------
(* The fees of fees.rs and base.rs. *)

\* A fee is a natural number and at most the amount it is charged on.
LEMMA FeeAtMostAmount ==
  ASSUME NEW amount \in Nat, NEW f \in Fraction, ValidFraction(f)
  PROVE  CalculateFee(amount, f) \in Nat /\ CalculateFee(amount, f) <= amount
<1>1. f.num \in Nat /\ f.den \in Nat
  BY DEF Fraction
<1>2. CASE f.num = 0 \/ amount = 0
  BY <1>2, SMT DEF CalculateFee
<1>3. CASE f.num > 0 /\ amount > 0
  <2> DEFINE fee == (amount * f.num) \div f.den
  <2>1. f.num < f.den
    BY <1>3, SMT DEF ValidFraction
  <2>2. f.den \in Nat \ {0} /\ amount * f.num \in Nat /\ amount * f.den \in Nat
    BY <1>1, <2>1, SMT
  <2>3. fee \in Nat /\ fee * f.den <= amount * f.num
    BY <2>2, FloorBounds
  <2>4. amount * f.num <= amount * f.den
    BY <1>1, <2>1, MulMono, SMT
  <2> HIDE DEF fee
  <2>5. fee * f.den <= amount * f.den /\ fee * f.den \in Nat
    BY <2>2, <2>3, <2>4, SMT
  <2>6. ~(fee >= amount + 1)
    <3>1. SUFFICES ASSUME fee >= amount + 1 PROVE FALSE
      OBVIOUS
    <3>2. (amount + 1) * f.den <= fee * f.den
      BY <2>2, <2>3, <3>1, MulMono, SMT
    <3>3. (amount + 1) * f.den = amount * f.den + f.den
      BY <1>1, SMT
    <3>4. QED
      BY <2>2, <2>5, <3>2, <3>3, SMT
  <2>7. CalculateFee(amount, f) = IF fee = 0 THEN 1 ELSE fee
    BY <1>1, <1>3, SMT DEF CalculateFee, fee
  <2>8. QED
    BY <1>3, <2>3, <2>6, <2>7, SMT
<1>4. QED
  BY <1>1, <1>2, <1>3, SMT

\* The gross amount is not smaller than the net amount it leaves.
LEMMA PreFeeCoversPostFee ==
  ASSUME NEW postFee \in Nat, NEW f \in Fraction, PreFeeAmountDefined(f)
  PROVE  PreFeeAmount(postFee, f) \in Nat /\ PreFeeAmount(postFee, f) >= postFee
<1>1. f.num \in Nat /\ f.den \in Nat
  BY DEF Fraction
<1>2. CASE NoFee(f)
  BY <1>2, SMT DEF PreFeeAmount, NoFee
<1>3. CASE ~NoFee(f)
  <2> DEFINE rest == f.den - f.num
             top  == postFee * f.den + rest - 1
  <2>1. rest \in Nat \ {0} /\ rest <= f.den
    BY <1>1, <1>3, SMT DEF PreFeeAmountDefined, NoFee
  <2>2. postFee * f.den \in Nat /\ postFee * rest \in Nat
    BY <1>1, <2>1, SMT
  <2>3. postFee * rest <= postFee * f.den
    BY <1>1, <2>1, MulMono, SMT
  <2>4. top \in Nat /\ postFee * rest <= top
    BY <2>1, <2>2, <2>3, SMT
  <2>5. PreFeeAmount(postFee, f) = top \div rest
    BY <1>3 DEF PreFeeAmount, NoFee
  <2> HIDE DEF rest, top
  <2>6. top \div rest \in Nat
    BY <2>1, <2>4, FloorBounds
  <2>7. postFee <= top \div rest
    BY <2>1, <2>4, FloorIsLargest
  <2>8. QED
    BY <2>5, <2>6, <2>7, SMT
<1>4. QED
  BY <1>2, <1>3

\* The two trading fees together are a fraction again.
LEMMA CombinedFeeType ==
  ASSUME NEW fees \in FeeSchedule
  PROVE  CombinedTradingFee(fees) \in Fraction
<1>1. /\ fees.trade \in Fraction /\ fees.owner \in Fraction
      /\ fees.trade.num \in Nat /\ fees.trade.den \in Nat
      /\ fees.owner.num \in Nat /\ fees.owner.den \in Nat
  BY DEF FeeSchedule, Fraction
<1>2. /\ fees.trade.num * fees.owner.den + fees.owner.num * fees.trade.den \in Nat
      /\ fees.trade.den * fees.owner.den \in Nat
  BY <1>1, SMT
<1>3. QED
  BY <1>1, <1>2 DEF CombinedTradingFee, Fraction

-----------------------------------------------------------------------------
(* The fees of a whole operation. *)

\* The four fractions of a valid schedule charge natural amounts, no larger
\* than what they are charged on.
LEMMA FeesAtMostAmount ==
  ASSUME NEW amount \in Nat, NEW fees \in FeeSchedule, ValidFees(fees)
  PROVE  /\ TradingFee(amount, fees) \in Nat
         /\ OwnerTradingFee(amount, fees) \in Nat
         /\ OwnerWithdrawFee(amount, fees) \in Nat /\ OwnerWithdrawFee(amount, fees) <= amount
         /\ HostFee(amount, fees) \in Nat /\ HostFee(amount, fees) <= amount
<1>1. /\ fees.trade \in Fraction /\ ValidFraction(fees.trade)
      /\ fees.owner \in Fraction /\ ValidFraction(fees.owner)
      /\ fees.withdraw \in Fraction /\ ValidFraction(fees.withdraw)
      /\ fees.host \in Fraction /\ ValidFraction(fees.host)
  BY DEF FeeSchedule, ValidFees
<1>2. QED
  BY <1>1, FeeAtMostAmount
     DEF TradingFee, OwnerTradingFee, OwnerWithdrawFee, HostFee

\* The amount the fees of a defined swap are charged on is a natural number.
LEMMA FeeBaseType ==
  ASSUME NEW amount \in Nat, NEW reserve \in Nat, NEW dir \in Direction, NEW p \in Nat,
         NEW fees \in FeeSchedule, ValidFees(fees),
         SwapDefined(amount, reserve, dir, fees, p)
  PROVE  /\ LessFees(amount, fees) \in Nat
         /\ FeeBase(amount, dir, fees, p) \in Nat
<1> DEFINE net == LessFees(amount, fees)
<1>1. net \in Nat
  <2>1. net \in Int
    BY FeesAtMostAmount, SMT DEF LessFees
  <2>2. QED
    BY <2>1, SMT DEF SwapDefined
<1>2. SwappedIn(net, dir, p) \in Nat
  BY <1>1, AmountTypes DEF SwapDefined, SwapWithoutFeesDefined
<1>3. CASE SwappedIn(net, dir, p) < net
  <2>1. PreFeeAmountDefined(CombinedTradingFee(fees))
    BY <1>3 DEF SwapDefined, PreTradingFeeDefined
  <2>2. QED
    BY <1>1, <1>2, <1>3, <2>1, CombinedFeeType, PreFeeCoversPostFee
       DEF FeeBase, PreTradingFeeAmount
<1>4. QED
  BY <1>1, <1>3 DEF FeeBase

(***************************************************************************)
(* A swap with fees: the owner's fee is a part of what the source account  *)
(* pays, and the rest is worth at least what the destination receives.     *)
(***************************************************************************)
THEOREM SwapWithFeesKeepsValue ==
  ASSUME NEW amount \in Nat, NEW reserve \in Nat, NEW dir \in Direction, NEW p \in Nat,
         NEW fees \in FeeSchedule, ValidFees(fees),
         SwapDefined(amount, reserve, dir, fees, p)
  PROVE  LET r == SwapResult(amount, dir, fees, p)
         IN  /\ r.sourceAmount \in Nat /\ r.destinationAmount \in Nat /\ r.ownerFee \in Nat
             /\ r.ownerFee <= r.sourceAmount
             /\ r.destinationAmount <= reserve
             /\ r.destinationAmount * OtherWeight(dir, p)
                  <= (r.sourceAmount - r.ownerFee) * Weight(dir, p)
<1> DEFINE net  == LessFees(amount, fees)
           base == FeeBase(amount, dir, fees, p)
           in   == SwappedIn(net, dir, p)
           out  == SwappedOut(net, dir, p)
           trade == TradingFee(base, fees)
           owner == OwnerTradingFee(base, fees)
           r    == SwapResult(amount, dir, fees, p)
<1>1. net \in Nat /\ base \in Nat
  BY FeeBaseType
<1>2. SwapWithoutFeesDefined(net, dir, p) /\ out <= reserve
  BY DEF SwapDefined
<1>3. in \in Nat /\ out \in Nat
  BY <1>1, <1>2, AmountTypes DEF SwapWithoutFeesDefined
<1>4. trade \in Nat /\ owner \in Nat
  BY <1>1, FeesAtMostAmount
<1>5. out * OtherWeight(dir, p) <= in * Weight(dir, p)
  BY <1>1, <1>2, SwapPaysItsWorth
<1>6. /\ r.sourceAmount = in + trade + owner
      /\ r.destinationAmount = out /\ r.ownerFee = owner
  BY DEF SwapResult
<1>7. Weight(dir, p) \in Nat /\ OtherWeight(dir, p) \in Nat
  BY RAYAssumption DEF Weight, OtherWeight
<1> HIDE DEF net, base, in, out, trade, owner, r
<1>8. in * Weight(dir, p) <= (in + trade) * Weight(dir, p)
  BY <1>3, <1>4, <1>7, MulMono, SMT
<1>9. r.sourceAmount - r.ownerFee = in + trade
  BY <1>3, <1>4, <1>6, SMT
<1>10. out * OtherWeight(dir, p) <= (in + trade) * Weight(dir, p)
  <2>1. out * OtherWeight(dir, p) \in Nat /\ in * Weight(dir, p) \in Nat
        /\ (in + trade) * Weight(dir, p) \in Nat
    BY <1>3, <1>4, <1>7, SMT
  <2>2. QED
    BY <1>5, <1>8, <2>1, SMT
<1>11. QED
  BY <1>2, <1>3, <1>4, <1>6, <1>9, <1>10, SMT DEF r, out

\* What a one-sided deposit is charged, and what is left of it to be credited.
LEMMA DepositAmountTypes ==
  ASSUME NEW amount \in Nat, NEW fees \in FeeSchedule, ValidFees(fees),
         DepositNet(amount, fees) >= 0
  PROVE  /\ DepositNet(amount, fees) \in Nat
         /\ DepositOwnerFee(amount, fees) \in Nat
         /\ DepositNet(amount, fees) + DepositOwnerFee(amount, fees) <= amount
<1> DEFINE half == HalfDown(amount)
<1>1. half \in Nat
  BY SMT DEF HalfDown
<1>2. TradingFee(half, fees) \in Nat /\ OwnerTradingFee(half, fees) \in Nat
  BY <1>1, FeesAtMostAmount
<1>3. QED
  BY <1>2, SMT DEF DepositNet, DepositOwnerFee

\* What a one-sided withdrawal is charged as, and the owner's part of it.
LEMMA WithdrawAmountTypes ==
  ASSUME NEW amount \in Nat, NEW fees \in FeeSchedule, ValidFees(fees),
         PreTradingFeeDefined(fees)
  PROVE  /\ WithdrawGross(amount, fees) \in Nat
         /\ WithdrawGross(amount, fees) >= amount
         /\ WithdrawOwnerFee(amount, fees) \in Nat
<1> DEFINE half == HalfUp(amount)
           pre  == PreTradingFeeAmount(half, fees)
<1>1. half \in Nat /\ half <= amount
  BY SMT DEF HalfUp
<1>2. pre \in Nat /\ pre >= half
  BY <1>1, CombinedFeeType, PreFeeCoversPostFee DEF PreTradingFeeDefined, PreTradingFeeAmount
<1>3. OwnerTradingFee(pre, fees) \in Nat
  BY <1>2, FeesAtMostAmount
<1>4. QED
  BY <1>1, <1>2, <1>3, SMT DEF WithdrawGross, WithdrawOwnerFee

(***************************************************************************)
(* The gross amount leaves room for every fee it was computed from: a fee  *)
(* f, no larger than the fraction c that was undone, is covered by what    *)
(* undoing c added.                                                        *)
(***************************************************************************)
LEMMA FeeWithinInverse ==
  ASSUME NEW postFee \in Nat, NEW c \in Fraction, NEW f \in Fraction,
         c.num > 0, c.num < c.den, f.num > 0, f.den > 0,
         f.num * c.den <= c.num * f.den
  PROVE  CalculateFee(PreFeeAmount(postFee, c), f) <= PreFeeAmount(postFee, c) - postFee
<1> DEFINE pre  == PreFeeAmount(postFee, c)
           fee  == CalculateFee(pre, f)
           gain == pre - postFee
           rest == c.den - c.num
<1>1. /\ c.num \in Nat \ {0} /\ c.den \in Nat \ {0} /\ rest \in Nat \ {0}
      /\ f.num \in Nat \ {0} /\ f.den \in Nat \ {0}
  BY SMT DEF Fraction
<1>2. pre \in Nat /\ pre >= postFee /\ gain \in Nat
  <2>1. pre \in Nat /\ pre >= postFee
    BY <1>1, PreFeeCoversPostFee DEF PreFeeAmountDefined
  <2>2. QED
    BY <2>1, SMT
<1>3. pre * rest >= postFee * c.den
  <2> DEFINE top == postFee * c.den + rest - 1
  <2>1. postFee * c.den \in Nat /\ top \in Nat
    BY <1>1, SMT
  <2>2. pre = top \div rest
    BY <1>1, SMT DEF PreFeeAmount
  <2> HIDE DEF pre, rest
  <2>3. top < (top \div rest) * rest + rest
    BY <1>1, <2>1, FloorBounds
  <2>4. top < pre * rest + rest /\ pre * rest \in Nat
    BY <1>1, <1>2, <2>2, <2>3, SMT
  <2>5. QED
    BY <1>1, <2>1, <2>4, SMT
<1>4. pre * c.num <= gain * c.den
  <2>1. /\ pre * rest = pre * c.den - pre * c.num
        /\ gain * c.den = pre * c.den - postFee * c.den
    BY <1>1, <1>2, SMT
  <2>2. /\ pre * c.den \in Int /\ pre * c.num \in Int /\ postFee * c.den \in Int
        /\ pre * rest \in Int /\ gain * c.den \in Int
    BY <1>1, <1>2, SMT
  <2>3. QED
    BY <1>3, <2>1, <2>2, SMT
<1> HIDE DEF pre, gain, rest
<1>5. ASSUME pre = 0 PROVE fee <= gain
  BY <1>1, <1>2, <1>5, SMT DEF CalculateFee, fee
<1>6. ASSUME pre > 0 PROVE fee <= gain
  <2> DEFINE quotient == (pre * f.num) \div f.den
  <2>1. pre * f.num \in Nat /\ quotient \in Nat /\ quotient * f.den <= pre * f.num
    <3>1. pre * f.num \in Nat
      BY <1>1, <1>2, SMT
    <3>2. QED
      BY <1>1, <3>1, FloorBounds
  <2>2. fee = IF quotient = 0 THEN 1 ELSE quotient
    BY <1>1, <1>6 DEF CalculateFee, fee
  <2> HIDE DEF quotient, fee
  <2>3. gain >= 1
    <3>1. pre * c.num > 0
      BY <1>1, <1>2, <1>6, SMT
    <3>2. gain * c.den > 0
      <4>1. pre * c.num \in Int /\ gain * c.den \in Int
        BY <1>1, <1>2, SMT
      <4>2. QED
        BY <1>4, <3>1, <4>1, SMT
    <3>3. gain # 0
      BY <1>1, <3>2, SMT
    <3>4. QED
      BY <1>2, <3>3, SMT
  <2>4. quotient <= gain
    <3>1. (quotient * f.den) * c.den <= (pre * f.num) * c.den
      <4>1. quotient * f.den \in Int
        BY <1>1, <2>1, SMT
      <4>2. QED
        BY <1>1, <2>1, <4>1, MulMono, SMT
    <3>2. pre * (f.num * c.den) <= pre * (c.num * f.den)
      <4>1. f.num * c.den \in Int /\ c.num * f.den \in Int
        BY <1>1, SMT
      <4>2. QED
        BY <1>2, <4>1, MulMono, SMT
    <3>3. (pre * c.num) * f.den <= (gain * c.den) * f.den
      <4>1. pre * c.num \in Int /\ gain * c.den \in Int
        BY <1>1, <1>2, SMT
      <4>2. QED
        BY <1>1, <1>4, <4>1, MulMono, SMT
    <3>4. /\ (pre * f.num) * c.den = pre * (f.num * c.den)
          /\ pre * (c.num * f.den) = (pre * c.num) * f.den
          /\ (gain * c.den) * f.den = gain * (f.den * c.den)
          /\ (quotient * f.den) * c.den = quotient * (f.den * c.den)
      BY <1>1, <1>2, <2>1, SMT
    <3>5. f.den * c.den \in Nat \ {0}
      BY <1>1, SMT
    <3>6. /\ quotient * (f.den * c.den) \in Int /\ gain * (f.den * c.den) \in Int
          /\ pre * (f.num * c.den) \in Int /\ pre * (c.num * f.den) \in Int
      BY <1>1, <1>2, <2>1, SMT
    <3>7. quotient * (f.den * c.den) <= gain * (f.den * c.den)
      BY <3>1, <3>2, <3>3, <3>4, <3>6, SMT
    <3>8. \A q, g \in Nat, d \in Nat \ {0} : q * d <= g * d => q <= g
      BY SMT
    <3>9. QED
      BY <1>2, <2>1, <3>5, <3>7, <3>8
  <2>5. QED
    BY <1>2, <2>1, <2>2, <2>3, <2>4, SMT
<1>7. fee <= gain
  BY <1>2, <1>5, <1>6, SMT
<1>8. QED
  BY <1>7 DEF fee, pre, gain

\* What a one-sided withdrawal pays for covers what leaves and the owner's fee.
LEMMA OwnerFeeWithinGross ==
  ASSUME NEW amount \in Nat, NEW fees \in FeeSchedule, ValidFees(fees),
         PreTradingFeeDefined(fees)
  PROVE  amount + WithdrawOwnerFee(amount, fees) <= WithdrawGross(amount, fees)
<1> DEFINE half == HalfUp(amount)
           c    == CombinedTradingFee(fees)
           pre  == PreFeeAmount(half, c)
           fee  == CalculateFee(pre, fees.owner)
<1>1. half \in Nat /\ half <= amount
  BY SMT DEF HalfUp
<1>2. c \in Fraction /\ PreFeeAmountDefined(c)
  BY CombinedFeeType DEF PreTradingFeeDefined
<1>3. pre \in Nat /\ pre >= half
  BY <1>1, <1>2, PreFeeCoversPostFee
<1>4. /\ fees.owner \in Fraction /\ ValidFraction(fees.owner) /\ fees.trade \in Fraction
      /\ fees.owner.num \in Nat /\ fees.owner.den \in Nat
      /\ fees.trade.num \in Nat /\ fees.trade.den \in Nat
  BY DEF FeeSchedule, Fraction, ValidFees
<1>5. fee \in Nat /\ fee <= pre - half
  <2>1. fee \in Nat
    BY <1>3, <1>4, FeeAtMostAmount
  <2>2. CASE fees.owner.num = 0
    BY <1>1, <1>3, <2>2, SMT DEF CalculateFee
  <2>3. CASE fees.owner.num # 0
    <3>1. fees.owner.num < fees.owner.den /\ fees.owner.den > 0 /\ fees.owner.num > 0
      BY <1>4, <2>3, SMT DEF ValidFraction
    <3>2. CASE NoFee(fees.trade)
      <4>1. c = fees.owner
        BY <3>2 DEF CombinedTradingFee
      <4>2. fees.owner.num * fees.owner.den <= fees.owner.num * fees.owner.den
        BY <1>4, SMT
      <4>3. QED
        BY <1>1, <1>4, <2>1, <3>1, <4>1, <4>2, FeeWithinInverse
    <3>3. CASE ~NoFee(fees.trade)
      <4>1. /\ c.num = fees.trade.num * fees.owner.den + fees.owner.num * fees.trade.den
            /\ c.den = fees.trade.den * fees.owner.den
        BY <3>1, <3>3, SMT DEF CombinedTradingFee, NoFee
      <4>2. fees.trade.num > 0 /\ fees.trade.den > 0
        BY <1>4, <3>3, SMT DEF NoFee
      <4>3. c.num > 0 /\ c.den > 0
        BY <1>4, <3>1, <4>1, <4>2, SMT
      <4>4. c.num < c.den
        BY <1>2, <4>3, SMT DEF PreFeeAmountDefined
      <4>5. fees.owner.num * c.den <= c.num * fees.owner.den
        <5>1. c.num * fees.owner.den =
                (fees.trade.num * fees.owner.den) * fees.owner.den
                  + fees.owner.num * (fees.trade.den * fees.owner.den)
          BY <1>4, <4>1, SMT
        <5>2. /\ (fees.trade.num * fees.owner.den) * fees.owner.den \in Nat
              /\ fees.owner.num * (fees.trade.den * fees.owner.den) \in Nat
          BY <1>4, SMT
        <5>3. QED
          BY <4>1, <5>1, <5>2, SMT
      <4>6. QED
        BY <1>1, <1>2, <1>4, <2>1, <3>1, <4>3, <4>4, <4>5, FeeWithinInverse
    <3>4. QED
      BY <3>2, <3>3
  <2>4. QED
    BY <2>1, <2>2, <2>3
<1>6. /\ WithdrawOwnerFee(amount, fees) = fee
      /\ WithdrawGross(amount, fees) = amount - half + pre
  BY DEF WithdrawOwnerFee, WithdrawGross, OwnerTradingFee, PreTradingFeeAmount
<1>7. QED
  BY <1>1, <1>3, <1>5, <1>6, SMT

-----------------------------------------------------------------------------
(* A single trading fee. *)

\* More is never charged less.
LEMMA FeeMonotone ==
  ASSUME NEW less \in Nat, NEW more \in Nat, less <= more,
         NEW f \in Fraction, ValidFraction(f)
  PROVE  CalculateFee(less, f) <= CalculateFee(more, f)
<1>1. f.num \in Nat /\ f.den \in Nat
  BY DEF Fraction
<1>2. CASE f.num = 0 \/ less = 0
  BY <1>2, FeeAtMostAmount, SMT DEF CalculateFee
<1>3. CASE f.num > 0 /\ less > 0
  <2> DEFINE q1 == (less * f.num) \div f.den
             q2 == (more * f.num) \div f.den
  <2>1. f.den \in Nat \ {0} /\ less * f.num \in Nat /\ more * f.num \in Nat
    BY <1>1, <1>3, SMT DEF ValidFraction
  <2>2. less * f.num <= more * f.num
    BY <1>1, MulMono
  <2>3. q1 \in Nat /\ q2 \in Nat /\ q1 * f.den <= less * f.num /\ q1 * f.den \in Nat
    BY <2>1, FloorBounds, SMT
  <2>4. q1 <= q2
    <3> HIDE DEF q1
    <3>1. q1 * f.den <= more * f.num
      BY <2>1, <2>2, <2>3, SMT
    <3>2. QED
      BY <2>1, <2>3, <3>1, FloorIsLargest
  <2>5. /\ CalculateFee(less, f) = (IF q1 = 0 THEN 1 ELSE q1)
        /\ CalculateFee(more, f) = (IF q2 = 0 THEN 1 ELSE q2)
    BY <1>1, <1>3, SMT DEF CalculateFee
  <2> HIDE DEF q1, q2
  <2>6. QED
    BY <2>3, <2>4, <2>5, SMT
<1>4. QED
  BY <1>1, <1>2, <1>3, SMT

(***************************************************************************)
(* An amount that leaves the curve something over after its fee: undoing   *)
(* the fee on what the curve used gives back no more than the amount.      *)
(***************************************************************************)
LEMMA GrossWithinAmount ==
  ASSUME NEW amount \in Nat, NEW used \in Nat, NEW f \in Fraction, ValidFraction(f),
         used < amount - CalculateFee(amount, f)
  PROVE  PreFeeAmountDefined(f) /\ PreFeeAmount(used, f) \in 0 .. amount
<1>1. f.num \in Nat /\ f.den \in Nat /\ CalculateFee(amount, f) \in Nat
  BY FeeAtMostAmount DEF Fraction
<1>2. CASE f.num = 0
  BY <1>1, <1>2, SMT DEF PreFeeAmount, PreFeeAmountDefined
<1>3. CASE f.num > 0
  <2> DEFINE q    == (amount * f.num) \div f.den
             rest == f.den - f.num
             top  == used * f.den + rest - 1
  <2>1. /\ f.den \in Nat \ {0} /\ rest \in Nat \ {0} /\ amount > 0
        /\ f.num \in Nat /\ f.den = f.num + rest
    BY <1>1, <1>3, SMT DEF ValidFraction
  <2>2. q \in Nat /\ amount * f.num < q * f.den + f.den
    <3>1. amount * f.num \in Nat
      BY <1>1, SMT
    <3>2. QED
      BY <2>1, <3>1, FloorBounds
  <2>3. q <= CalculateFee(amount, f)
    BY <1>1, <1>3, <2>1, <2>2, SMT DEF CalculateFee
  <2> HIDE DEF q, rest
  <2>4. used + q + 1 <= amount
    BY <1>1, <2>2, <2>3, SMT
  <2>5. used * f.den <= amount * rest
    <3>1. (used + q + 1) * f.den <= amount * f.den
      BY <2>1, <2>2, <2>4, MulMono, SMT
    <3>2. (used + q + 1) * f.den = used * f.den + q * f.den + f.den
      BY <2>1, <2>2, SMT
    <3>3. amount * f.den = amount * f.num + amount * rest
      BY <2>1, SMT
    <3>4. /\ used * f.den \in Nat /\ q * f.den \in Nat /\ amount * f.num \in Nat
          /\ amount * rest \in Nat /\ amount * f.den \in Nat
      BY <2>1, <2>2, SMT
    <3>5. QED
      BY <2>1, <2>2, <3>1, <3>2, <3>3, <3>4, SMT
  <2>6. top \in Nat /\ top < (amount + 1) * rest
    <3>1. (amount + 1) * rest = amount * rest + rest
      BY <2>1, SMT
    <3>2. used * f.den \in Nat /\ amount * rest \in Nat
      BY <2>1, SMT
    <3>3. QED
      BY <2>1, <2>5, <3>1, <3>2, SMT
  <2> HIDE DEF top
  <2>7. top \div rest \in Nat /\ (top \div rest) * rest <= top
    BY <2>1, <2>6, FloorBounds
  <2>8. ~(amount + 1 <= top \div rest)
    <3>1. SUFFICES ASSUME amount + 1 <= top \div rest PROVE FALSE
      OBVIOUS
    <3>2. (amount + 1) * rest <= (top \div rest) * rest
      BY <2>1, <2>7, <3>1, MulMono, SMT
    <3>3. (amount + 1) * rest \in Nat /\ (top \div rest) * rest \in Nat
      BY <2>1, <2>7, SMT
    <3>4. QED
      BY <2>6, <2>7, <3>2, <3>3, SMT
  <2>9. PreFeeAmount(used, f) = top \div rest
    BY <1>1, <1>3, <2>1, SMT DEF PreFeeAmount, top, rest
  <2>10. PreFeeAmountDefined(f)
    BY <1>1, <1>3, SMT DEF PreFeeAmountDefined, ValidFraction
  <2>11. QED
    BY <2>7, <2>8, <2>9, <2>10, SMT
<1>4. QED
  BY <1>1, <1>2, <1>3, SMT

\* With one of the two trading fees at zero, the fraction they are combined to
\* is the other one.
LEMMA OneFeeCombined ==
  ASSUME NEW fees \in FeeSchedule, ValidFees(fees),
         fees.trade.num = 0 \/ fees.owner.num = 0, NEW amount \in Nat
  PROVE  /\ CombinedTradingFee(fees) \in Fraction /\ ValidFraction(CombinedTradingFee(fees))
         /\ TradingFee(amount, fees) + OwnerTradingFee(amount, fees)
              = CalculateFee(amount, CombinedTradingFee(fees))
<1>1. /\ fees.trade \in Fraction /\ ValidFraction(fees.trade)
      /\ fees.owner \in Fraction /\ ValidFraction(fees.owner)
  BY DEF FeeSchedule, ValidFees
<1>2. \A f \in Fraction : ValidFraction(f) => (NoFee(f) <=> f.num = 0)
  BY SMT DEF Fraction, ValidFraction, NoFee
<1>3. CombinedTradingFee(fees) = IF fees.trade.num = 0 THEN fees.owner ELSE fees.trade
  BY <1>1, <1>2 DEF CombinedTradingFee
<1>4. /\ TradingFee(amount, fees) \in Nat /\ OwnerTradingFee(amount, fees) \in Nat
      /\ fees.trade.num = 0 => TradingFee(amount, fees) = 0
      /\ fees.owner.num = 0 => OwnerTradingFee(amount, fees) = 0
  BY FeesAtMostAmount DEF TradingFee, OwnerTradingFee, CalculateFee
<1>5. CASE fees.trade.num = 0
  BY <1>1, <1>3, <1>4, <1>5, SMT DEF OwnerTradingFee
<1>6. CASE fees.trade.num # 0 /\ fees.owner.num = 0
  BY <1>1, <1>3, <1>4, <1>6, SMT DEF TradingFee
<1>7. QED
  BY <1>5, <1>6

(***************************************************************************)
(* A pool that charges at most one of the two trading fees takes no more   *)
(* than the amount_in of a swap, also when the curve leaves some of it and *)
(* swap (base.rs) computes the fees again on the gross of what it used.    *)
(***************************************************************************)
THEOREM OneFeeSwapWithinAmount ==
  ASSUME NEW amount \in Nat, NEW reserve \in Nat, NEW dir \in Direction, NEW p \in Nat,
         NEW fees \in FeeSchedule, ValidFees(fees),
         fees.trade.num = 0 \/ fees.owner.num = 0,
         SwapDefined(amount, reserve, dir, fees, p)
  PROVE  SwapResult(amount, dir, fees, p).sourceAmount <= amount
<1> DEFINE f    == CombinedTradingFee(fees)
           net  == LessFees(amount, fees)
           base == FeeBase(amount, dir, fees, p)
           used == SwappedIn(net, dir, p)
<1>1. net \in Nat /\ base \in Nat
  BY FeeBaseType
<1>2. used \in 0 .. net
  BY <1>1, SMT DEF SwapDefined, SwapWithoutFeesDefined
<1>3. f \in Fraction /\ ValidFraction(f)
  BY OneFeeCombined
<1>4. net = amount - CalculateFee(amount, f)
  <2>1. TradingFee(amount, fees) + OwnerTradingFee(amount, fees) = CalculateFee(amount, f)
    BY OneFeeCombined
  <2>2. TradingFee(amount, fees) \in Nat /\ OwnerTradingFee(amount, fees) \in Nat
    BY FeesAtMostAmount
  <2>3. QED
    BY <2>1, <2>2, SMT DEF LessFees
<1>5. base <= amount
  <2>1. CASE used < net
    <3>1. base = PreFeeAmount(used, f)
      BY <2>1 DEF FeeBase, PreTradingFeeAmount
    <3>2. PreFeeAmount(used, f) \in 0 .. amount
      <4> HIDE DEF f, net, used
      <4>1. used \in Nat /\ used < amount - CalculateFee(amount, f)
        BY <1>1, <1>2, <1>4, <2>1, SMT
      <4>2. QED
        BY <1>3, <4>1, GrossWithinAmount
    <3> HIDE DEF base
    <3>3. QED
      BY <3>1, <3>2, SMT
  <2>2. CASE ~(used < net)
    BY <2>2, SMT DEF FeeBase
  <2>3. QED
    BY <2>1, <2>2
<1>6. CalculateFee(base, f) <= CalculateFee(amount, f)
  BY <1>1, <1>3, <1>5, FeeMonotone
<1>7. SwapResult(amount, dir, fees, p).sourceAmount = used + CalculateFee(base, f)
  <2>1. TradingFee(base, fees) + OwnerTradingFee(base, fees) = CalculateFee(base, f)
    BY <1>1, OneFeeCombined
  <2>2. TradingFee(base, fees) \in Nat /\ OwnerTradingFee(base, fees) \in Nat
    BY <1>1, FeesAtMostAmount
  <2>3. SwapResult(amount, dir, fees, p).sourceAmount
          = used + TradingFee(base, fees) + OwnerTradingFee(base, fees)
    BY DEF SwapResult
  <2> HIDE DEF used, base, f
  <2>4. QED
    BY <1>2, <2>1, <2>2, <2>3, <1>1, SMT
<1>8. CalculateFee(amount, f) \in Nat /\ CalculateFee(base, f) \in Nat
  BY <1>1, <1>3, FeeAtMostAmount
<1> HIDE DEF f, net, base, used
<1>9. QED
  BY <1>1, <1>2, <1>4, <1>6, <1>7, <1>8, SMT

-----------------------------------------------------------------------------
(* Squares. *)

LEMMA Squares ==
  ASSUME NEW x \in Nat, NEW y \in Nat, x < y
  PROVE  x * x < y * y
<1>1. x * x <= y * x
  BY MulMono
<1>2. y * x + 1 <= y * y
  <2>1. y * (x + 1) <= y * y
    BY MulMono, SMT
  <2>2. y * (x + 1) = y * x + y
    BY SMT
  <2>3. QED
    BY <2>1, <2>2, SMT
<1>3. x * x \in Nat /\ y * x \in Nat /\ y * y \in Nat
  BY SMT
<1>4. QED
  BY <1>1, <1>2, <1>3, SMT

LEMMA SquaresInOrder ==
  ASSUME NEW x \in Nat, NEW y \in Nat, x <= y
  PROVE  x * x <= y * y
<1>1. x * x <= y * x /\ y * x <= y * y
  BY MulMono
<1>2. x * x \in Nat /\ y * x \in Nat /\ y * y \in Nat
  BY SMT
<1>3. QED
  BY <1>1, <1>2, SMT

-----------------------------------------------------------------------------
(* PreciseNumber. *)

LEMMA OneIsNat == ONE \in Nat \ {0} /\ ONE >= 10
BY PreciseAssumption, SMT

LEMMA RatioBounds ==
  ASSUME NEW x \in Nat, NEW y \in Nat \ {0}
  PROVE  /\ Ratio(x, y) \in Nat
         /\ Ratio(x, y) * y <= x * ONE
         /\ x * ONE < Ratio(x, y) * y + y
<1>1. x * ONE \in Nat
  BY OneIsNat, SMT
<1>2. QED
  BY <1>1, FloorBounds DEF Ratio

\* The root of a number base, of which x times are at most total.
LEMMA RootOfPart ==
  ASSUME NEW base \in 0 .. MaxSqrtBase, NEW x \in Nat, NEW total \in Nat, base * x <= total
  PROVE  LET root == Sqrt(base)
         IN  root \in Nat /\ x * ((root - 1) * (root - 1)) <= total * ONE + x * ONE
<1> DEFINE root   == Sqrt(base)
           square == (root - 1) * (root - 1)
<1>1. root \in Nat /\ square <= (base + 1) * ONE
  BY PreciseAssumption
<1>2. base \in Nat /\ ONE \in Nat /\ square \in Int /\ (base + 1) * ONE \in Int
  BY <1>1, OneIsNat, SMT
<1> HIDE DEF square
<1>3. x * square <= x * ((base + 1) * ONE)
  BY <1>1, <1>2, MulMono
<1>4. x * ((base + 1) * ONE) = (base * x) * ONE + x * ONE
  BY <1>2, SMT
<1>5. (base * x) * ONE <= total * ONE
  <2>1. base * x \in Int /\ total \in Int
    BY <1>2, SMT
  <2>2. QED
    BY <1>2, <2>1, MulMono
<1>6. /\ x * square \in Int /\ (base * x) * ONE \in Int /\ x * ONE \in Int /\ total * ONE \in Int
  BY <1>2, SMT
<1>7. x * square <= total * ONE + x * ONE
  BY <1>3, <1>4, <1>5, <1>6, SMT
<1>8. QED
  BY <1>1, <1>7 DEF square

\* Twice a product is at most the sum of the squares.
LEMMA TwiceWithinSquares ==
  ASSUME NEW r \in Nat, NEW n \in Nat
  PROVE  2 * (r * n) <= r * r + n * n
<1>1. CASE r <= n
  <2> DEFINE d == n - r
  <2>1. d \in Nat /\ n = r + d
    BY <1>1, SMT
  <2> HIDE DEF d
  <2>2. r * r + n * n = 2 * (r * n) + d * d /\ d * d \in Nat /\ r * n \in Nat
    BY <2>1, SMT
  <2>3. QED
    BY <2>2, SMT
<1>2. CASE ~(r <= n)
  <2> DEFINE d == r - n
  <2>1. d \in Nat /\ r = n + d
    BY <1>2, SMT
  <2> HIDE DEF d
  <2>2. r * r + n * n = 2 * (r * n) + d * d /\ d * d \in Nat /\ r * n \in Nat
    BY <2>1, SMT
  <2>3. QED
    BY <2>2, SMT
<1>3. QED
  BY <1>1, <1>2

(***************************************************************************)
(* The root a deposit takes: next to the reserve x, its square is what the *)
(* reserve grows to and five units of ONE at most.                         *)
(***************************************************************************)
LEMMA DepositRoot ==
  ASSUME NEW x \in Nat \ {0}, NEW amount \in Nat,
         ONE + Ratio(amount, x) <= MaxSqrtBase, Sqrt(ONE + Ratio(amount, x)) >= ONE
  PROVE  LET root == Sqrt(ONE + Ratio(amount, x))
         IN  root \in Nat /\ x * (root * root) <= ((x + amount) * (ONE + 5)) * ONE
<1> DEFINE base == ONE + Ratio(amount, x)
           root == Sqrt(base)
           x2   == x + amount
           r    == root - 1
<1>1. ONE \in Nat \ {0} /\ ONE >= 10 /\ MaxSqrtBase \in Nat
  BY OneIsNat, PreciseAssumption
<1>2. Ratio(amount, x) \in Nat /\ Ratio(amount, x) * x <= amount * ONE
  BY RatioBounds
<1>3. base \in 0 .. MaxSqrtBase
  BY <1>1, <1>2, SMT
<1>4. x2 \in Nat /\ x <= x2 /\ x2 * ONE \in Nat /\ base * x <= x2 * ONE
  <2>1. base * x = x * ONE + Ratio(amount, x) * x /\ x2 * ONE = x * ONE + amount * ONE
    BY <1>1, <1>2, SMT
  <2>2. x * ONE \in Nat /\ Ratio(amount, x) * x \in Nat /\ amount * ONE \in Nat
    BY <1>1, <1>2, SMT
  <2>3. QED
    BY <1>2, <2>1, <2>2, SMT
<1>5. root \in Nat /\ root >= ONE
  BY <1>3, PreciseAssumption
<1> HIDE DEF base
<1>6. x * ((root - 1) * (root - 1)) <= (x2 * ONE) * ONE + x * ONE
  BY <1>3, <1>4, RootOfPart
<1> HIDE DEF root, x2
<1>7. r \in Nat /\ root = r + 1 /\ x * (r * r) <= (x2 * ONE) * ONE + x * ONE
  BY <1>1, <1>5, <1>6, SMT
<1> HIDE DEF r
<1> DEFINE t  == x * r
           xo == x * ONE
           yo == x2 * ONE
<1>8. t \in Nat /\ xo \in Nat /\ yo \in Nat /\ r * r \in Nat /\ ONE * ONE \in Nat
  BY <1>1, <1>4, <1>7, SMT
<1>9. 2 * t <= yo + x + xo
  <2>1. 2 * (r * ONE) <= r * r + ONE * ONE
    BY <1>1, <1>7, TwiceWithinSquares
  <2>2. x * (2 * (r * ONE)) <= x * (r * r + ONE * ONE)
    <3>1. 2 * (r * ONE) \in Int /\ r * r + ONE * ONE \in Int
      BY <1>1, <1>7, SMT
    <3>2. QED
      BY <2>1, <3>1, MulMono
  <2>3. /\ x * (2 * (r * ONE)) = (2 * t) * ONE
        /\ x * (r * r + ONE * ONE) = x * (r * r) + xo * ONE
        /\ (yo + x + xo) * ONE = yo * ONE + x * ONE + xo * ONE
    BY <1>1, <1>4, <1>7, SMT
  <2>4. x * (r * r) <= yo * ONE + x * ONE
    BY <1>7
  <2>5. /\ x * (r * r) \in Nat /\ xo * ONE \in Nat /\ yo * ONE \in Nat /\ x * ONE \in Nat
        /\ (2 * t) * ONE \in Nat
    BY <1>1, <1>8, SMT
  <2> DEFINE left  == 2 * t
             right == yo + x + xo
  <2>6. left \in Nat /\ right \in Nat
    BY <1>8, SMT
  <2>7. left * ONE <= right * ONE
    BY <2>2, <2>3, <2>4, <2>5, SMT
  <2> HIDE DEF left, right
  <2>8. left <= right
    BY <1>1, <2>6, <2>7, CancelFactor
  <2>9. QED
    BY <2>8 DEF left, right
<1>10. xo <= yo /\ 10 * x2 <= yo
  <2>1. x * ONE <= x2 * ONE
    BY <1>1, <1>4, MulMono
  <2>2. x2 * 10 <= x2 * ONE
    BY <1>1, <1>4, MulMono
  <2>3. QED
    BY <1>4, <1>8, <2>1, <2>2, SMT
<1>11. x * (root * root) = x * (r * r) + 2 * t + x
  BY <1>7, <1>8, SMT
<1>12. (x2 * (ONE + 5)) * ONE = yo * ONE + 5 * yo
  BY <1>1, <1>4, SMT
<1>13. /\ x * (r * r) \in Nat /\ yo * ONE \in Nat /\ x * (r * r) <= yo * ONE + xo
  BY <1>1, <1>7, <1>8, SMT
<1> HIDE DEF t, xo, yo
<1>14. x * (root * root) <= (x2 * (ONE + 5)) * ONE
  BY <1>4, <1>8, <1>9, <1>10, <1>11, <1>12, <1>13, SMT
<1>15. QED
  BY <1>5, <1>14 DEF root, base, x2

(***************************************************************************)
(* The root a withdrawal takes: next to the reserve x, its square is what  *)
(* is left of the reserve and four units of ONE at most, and nothing when  *)
(* nothing is left.                                                        *)
(***************************************************************************)
LEMMA WithdrawRoot ==
  ASSUME NEW x \in Nat \ {0}, NEW amount \in Nat, NEW left,
         left = IF amount < x THEN x - amount ELSE 0,
         BaseLeft(amount, x) <= MaxSqrtBase, Sqrt(BaseLeft(amount, x)) <= ONE
  PROVE  LET root == Sqrt(BaseLeft(amount, x))
         IN  /\ root \in Nat /\ root <= ONE
             /\ x * (root * root) <= ((left * ONE + 4 * x) * 1) * ONE
             /\ left = 0 => root = 0
<1> DEFINE base == BaseLeft(amount, x)
           root == Sqrt(base)
           q    == Ratio(amount, x)
           square == (root - 1) * (root - 1)
<1>1. ONE \in Nat \ {0} /\ MaxSqrtBase \in Nat /\ left \in Nat /\ 4 * x \in Nat
  BY OneIsNat, PreciseAssumption, SMT
<1>2. q \in Nat /\ q * x <= amount * ONE /\ amount * ONE < q * x + x
  BY RatioBounds
<1>3. base \in Nat /\ base = IF q > ONE THEN 0 ELSE ONE - q
  BY <1>1, <1>2, SMT DEF BaseLeft
<1>4. base \in 0 .. MaxSqrtBase
  BY <1>1, <1>3, SMT
<1>5. left = 0 => base = 0
  <2>1. SUFFICES ASSUME left = 0 PROVE base = 0
    OBVIOUS
  <2>2. x <= amount
    BY <2>1, SMT
  <2>3. ONE <= q
    <3>1. ONE * x <= amount * ONE /\ amount * ONE \in Nat
      BY <1>1, <2>2, MulMono, SMT
    <3>2. QED
      BY <1>1, <3>1, FloorIsLargest DEF Ratio
  <2> HIDE DEF q
  <2>4. QED
    BY <1>1, <1>2, <1>3, <2>3, SMT
<1>6. root \in Nat /\ root <= ONE /\ (base = 0 => root = 0)
  BY <1>4, PreciseAssumption
<1> DEFINE lo == left * ONE
           xo == x * ONE
<1>7. lo \in Nat /\ xo \in Nat /\ lo + x \in Nat
  BY <1>1, SMT
<1> HIDE DEF base
<1>8. base * x <= lo + x
  <2> HIDE DEF q
  <2>1. CASE base = 0
    <3>1. base * x = 0
      BY <2>1, SMT
    <3>2. QED
      BY <1>7, <3>1, SMT
  <2>2. CASE base # 0
    <3>1. base = ONE - q /\ left = x - amount
      BY <1>1, <1>2, <1>3, <1>5, <2>2, SMT
    <3>2. base * x = x * ONE - q * x /\ lo = x * ONE - amount * ONE
      BY <1>1, <1>2, <3>1, SMT
    <3>3. x * ONE \in Nat /\ q * x \in Nat /\ amount * ONE \in Nat
      BY <1>1, <1>2, SMT
    <3> HIDE DEF lo
    <3>4. QED
      BY <1>2, <1>7, <3>2, <3>3, SMT
  <2>3. QED
    BY <2>1, <2>2
<1>9. x * square <= (lo + x) * ONE + x * ONE
  <2> HIDE DEF lo
  <2>1. QED
    BY <1>4, <1>7, <1>8, RootOfPart
<1>10. x * (root * root) = x * square + 2 * (x * root) - x
  <2> HIDE DEF root
  <2>1. QED
    BY <1>6, SMT
<1>11. x * root <= xo
  BY <1>1, <1>6, MulMono, SMT
<1>12. /\ (lo + x) * ONE + x * ONE = lo * ONE + 2 * xo
       /\ ((left * ONE + 4 * x) * 1) * ONE = lo * ONE + 4 * xo
  BY <1>1, SMT
<1>13. /\ x * square \in Int /\ x * root \in Nat /\ lo * ONE \in Nat
  BY <1>1, <1>6, <1>7, SMT
<1> HIDE DEF lo, xo, square, root
<1>14. x * (root * root) <= ((left * ONE + 4 * x) * 1) * ONE
  BY <1>7, <1>9, <1>10, <1>11, <1>12, <1>13, SMT
<1>15. QED
  BY <1>5, <1>6, <1>14 DEF root, base

-----------------------------------------------------------------------------
(* The product curve. *)

\* A swap keeps the product, and gives less than the whole reserve.
LEMMA ProductSwapKeeps ==
  ASSUME NEW amount \in Nat, NEW source \in Nat \ {0}, NEW destination \in Nat,
         ProductSwap(amount, source, destination) # None
  PROVE  LET r == ProductSwap(amount, source, destination)
         IN  /\ r.in \in Nat /\ r.out \in Nat /\ r.out < destination
             /\ source * destination <= (source + r.in) * (destination - r.out)
<1> DEFINE inv    == source * destination
           y      == source + amount
           kept   == CeilDiv(inv, y)
           needed == AdjustedDivisor(inv, y, kept)
           r      == ProductSwap(amount, source, destination)
<1>1. inv \in Nat /\ y \in Nat \ {0}
  BY SMT
<1>2. r = [in |-> needed - source, out |-> destination - kept]
      /\ ~(needed < source) /\ ~(destination - kept <= 0)
  BY DEF ProductSwap
<1>3. kept \in Nat /\ (kept > 0 => kept * y >= inv) /\ 2 * kept * y + y >= 2 * inv
  BY <1>1, CeilDivBounds
<1>4. ~(inv < y)
  <2>1. SUFFICES ASSUME inv < y PROVE FALSE
    OBVIOUS
  <2>2. needed = 0
    BY <2>1 DEF AdjustedDivisor
  <2>3. QED
    BY <1>2, <2>2, SMT
<1>5. needed = IF inv % y = 0 THEN y ELSE CeilUp(inv, kept)
  BY <1>4 DEF AdjustedDivisor
<1> HIDE DEF inv, kept, needed, y, r
<1>6. kept # 0
  <2>1. SUFFICES ASSUME kept = 0 PROVE FALSE
    OBVIOUS
  <2>2. 2 * kept * y = 0
    BY <1>1, <2>1, SMT
  <2>3. QED
    BY <1>1, <1>3, <1>4, <2>2, SMT
<1>7. needed \in Nat /\ needed * kept >= inv
  <2>1. CASE inv % y = 0
    <3>1. needed = y
      BY <1>5, <2>1
    <3>2. kept * y = y * kept
      BY <1>1, <1>3, SMT
    <3>3. QED
      BY <1>1, <1>3, <1>6, <3>1, <3>2, SMT
  <2>2. CASE inv % y # 0
    <3>1. needed = (inv + kept - 1) \div kept
      BY <1>5, <2>2 DEF CeilUp
    <3>2. inv + kept - 1 \in Nat /\ kept \in Nat \ {0}
      BY <1>1, <1>3, <1>6, SMT
    <3>3. needed \in Nat /\ inv + kept - 1 < needed * kept + kept
      BY <3>1, <3>2, FloorBounds
    <3>4. needed * kept \in Nat
      BY <1>3, <3>3, SMT
    <3>5. QED
      BY <1>1, <1>3, <3>3, <3>4, SMT
  <2>3. QED
    BY <2>1, <2>2
<1>8. /\ r.in = needed - source /\ r.out = destination - kept
  BY <1>2
<1>9. /\ source + r.in = needed /\ destination - r.out = kept
      /\ r.in \in Nat /\ r.out \in Nat /\ r.out < destination
  BY <1>2, <1>3, <1>6, <1>7, <1>8, SMT
<1>10. inv <= (source + r.in) * (destination - r.out)
  BY <1>1, <1>3, <1>7, <1>9, SMT
<1>11. QED
  BY <1>9, <1>10 DEF inv, r

\* What a share is of one reserve: not below it when rounded up, unless it is
\* nothing, and not above it when rounded down.
LEMMA PartRoundedUp ==
  ASSUME NEW poolTokens \in Nat, NEW reserve \in Nat, NEW supply \in Nat \ {0}
  PROVE  LET part == ProductPart(poolTokens, reserve, supply, "Ceiling")
         IN  part \in Nat /\ (part > 0 => poolTokens * reserve <= part * supply)
<1> DEFINE x     == poolTokens * reserve
           whole == x \div supply
           part  == ProductPart(poolTokens, reserve, supply, "Ceiling")
<1>1. x \in Nat
  BY SMT
<1>2. part = IF whole > 0 /\ x % supply > 0 THEN whole + 1 ELSE whole
  BY DEF ProductPart
<1> HIDE DEF x
<1>3. /\ whole \in Nat /\ whole * supply <= x /\ x < whole * supply + supply
      /\ x % supply \in Nat /\ (x % supply = 0 => whole * supply = x)
  BY <1>1, FloorBounds, SMT
<1> HIDE DEF whole, part
<1>4. CASE whole > 0 /\ x % supply > 0
  <2>1. (whole + 1) * supply = whole * supply + supply /\ whole * supply \in Nat
    BY <1>3, SMT
  <2>2. part = whole + 1
    BY <1>2, <1>4
  <2>3. QED
    BY <1>1, <1>3, <2>1, <2>2, SMT DEF x, part
<1>5. CASE ~(whole > 0 /\ x % supply > 0)
  <2>1. part = whole
    BY <1>2, <1>5
  <2>2. whole > 0 => whole * supply = x
    BY <1>3, <1>5, SMT
  <2>3. QED
    BY <1>1, <1>3, <2>1, <2>2, SMT DEF x, part
<1>6. QED
  BY <1>4, <1>5

LEMMA PartRoundedDown ==
  ASSUME NEW poolTokens \in Nat, NEW reserve \in Nat, NEW supply \in Nat \ {0}
  PROVE  LET part == ProductPart(poolTokens, reserve, supply, "Floor")
         IN  part \in Nat /\ part * supply <= poolTokens * reserve
<1>1. poolTokens * reserve \in Nat
  BY SMT
<1>2. ProductPart(poolTokens, reserve, supply, "Floor") = (poolTokens * reserve) \div supply
  BY DEF ProductPart
<1>3. QED
  BY <1>1, <1>2, FloorBounds

-----------------------------------------------------------------------------
(***************************************************************************)
(* A reserve from x to x2 covers a supply from s to s2: what a pool token  *)
(* is worth, whose square goes with the reserve, does not fall.            *)
(***************************************************************************)
Covers(x, s, x2, s2) == x * (s2 * s2) <= x2 * (s * s)

LEMMA CoversTransitive ==
  ASSUME NEW x \in Nat, NEW k \in Nat \ {0}, NEW x2 \in Nat,
         NEW s \in Nat, NEW s2 \in Nat, NEW s3 \in Nat,
         Covers(x, s, k, s2), Covers(k, s2, x2, s3)
  PROVE  Covers(x, s, x2, s3)
<1> DEFINE q == s * s
           q2 == s2 * s2
           q3 == s3 * s3
<1>1. q \in Nat /\ q2 \in Nat /\ q3 \in Nat
  BY SMT
<1>2. x * q2 <= k * q /\ k * q3 <= x2 * q2
  BY DEF Covers
<1> HIDE DEF q, q2, q3
<1>3. q * k >= q2 * x /\ q2 * x2 >= q3 * k
  BY <1>1, <1>2, SMT
<1>4. q * x2 >= q3 * x
  BY <1>1, <1>3, RatioTransitive
<1>5. x * q3 <= x2 * q
  BY <1>1, <1>4, SMT
<1>6. QED
  BY <1>5 DEF Covers, q, q3

\* More of the reserve, or fewer pool tokens, cover as well.
LEMMA CoversMore ==
  ASSUME NEW x \in Nat, NEW x2 \in Nat, NEW x3 \in Nat,
         NEW s \in Nat, NEW s2 \in Nat, NEW s3 \in Nat,
         Covers(x, s, x2, s2), x2 <= x3, s3 <= s2
  PROVE  Covers(x, s, x3, s3)
<1>1. s3 * s3 <= s2 * s2
  <2>1. s3 * s3 <= s2 * s3 /\ s2 * s3 <= s2 * s2
    BY MulMono
  <2>2. s3 * s3 \in Nat /\ s2 * s3 \in Nat /\ s2 * s2 \in Nat
    BY SMT
  <2>3. QED
    BY <2>1, <2>2, SMT
<1>2. s3 * s3 \in Nat /\ s2 * s2 \in Nat /\ s * s \in Nat
  BY SMT
<1>3. x * (s3 * s3) <= x * (s2 * s2) /\ x2 * (s * s) <= x3 * (s * s)
  BY <1>1, <1>2, MulMono
<1>4. /\ x * (s3 * s3) \in Nat /\ x * (s2 * s2) \in Nat
      /\ x2 * (s * s) \in Nat /\ x3 * (s * s) \in Nat
  BY <1>2, SMT
<1>5. QED
  BY <1>3, <1>4, SMT DEF Covers

\* The other reserve of the product stays as it is, or grows.
LEMMA CoversProduct ==
  ASSUME NEW x \in Nat, NEW x2 \in Nat, NEW y \in Nat,
         NEW s \in Nat, NEW s2 \in Nat, Covers(x, s, x2, s2)
  PROVE  Covers(x * y, s, x2 * y, s2)
<1>1. s2 * s2 \in Nat /\ s * s \in Nat
  BY SMT
<1>2. x * (s2 * s2) \in Nat /\ x2 * (s * s) \in Nat
  BY <1>1, SMT
<1>3. (x * (s2 * s2)) * y <= (x2 * (s * s)) * y
  BY <1>2, MulMono DEF Covers
<1>4. (x * y) * (s2 * s2) = (x * (s2 * s2)) * y /\ (x2 * y) * (s * s) = (x2 * (s * s)) * y
  BY <1>1, SMT
<1>5. QED
  BY <1>3, <1>4 DEF Covers

\* Both reserves move in proportion to the supply, or better.
LEMMA CoversInProportion ==
  ASSUME NEW x \in Nat, NEW x2 \in Nat, NEW y \in Nat, NEW y2 \in Nat,
         NEW s \in Nat, NEW s2 \in Nat, x * s2 <= x2 * s, y * s2 <= y2 * s
  PROVE  Covers(x * y, s, x2 * y2, s2)
<1>1. x * s2 \in Nat /\ x2 * s \in Nat /\ y * s2 \in Nat /\ y2 * s \in Nat
  BY SMT
<1>2. (x * s2) * (y * s2) <= (x2 * s) * (y * s2)
  BY <1>1, MulMono
<1>3. (x2 * s) * (y * s2) <= (x2 * s) * (y2 * s)
  BY <1>1, MulMono
<1>4. /\ (x * s2) * (y * s2) \in Nat /\ (x2 * s) * (y * s2) \in Nat
      /\ (x2 * s) * (y2 * s) \in Nat
  BY <1>1, SMT
<1>5. /\ (x * y) * (s2 * s2) = (x * s2) * (y * s2)
      /\ (x2 * y2) * (s * s) = (x2 * s) * (y2 * s)
  BY SMT
<1>6. QED
  BY <1>2, <1>3, <1>4, <1>5, SMT DEF Covers

\* A common factor of the two reserves does not matter.
LEMMA CoversCancel ==
  ASSUME NEW x \in Nat, NEW x2 \in Nat, NEW s \in Nat, NEW s2 \in Nat, NEW d \in Nat \ {0},
         Covers(x * d, s, x2 * d, s2)
  PROVE  Covers(x, s, x2, s2)
<1> DEFINE left  == x * (s2 * s2)
           right == x2 * (s * s)
<1>1. s2 * s2 \in Nat /\ s * s \in Nat
  BY SMT
<1>2. left \in Nat /\ right \in Nat
  BY <1>1, SMT
<1>3. (x * d) * (s2 * s2) = left * d /\ (x2 * d) * (s * s) = right * d
  BY <1>1, SMT
<1>4. left * d <= right * d
  BY <1>3 DEF Covers
<1> HIDE DEF left, right
<1>5. left <= right
  BY <1>2, <1>4, CancelFactor
<1>6. QED
  BY <1>5 DEF Covers, left, right

(***************************************************************************)
(* The same up to the rounding of roots: the reserve covers the supply if  *)
(* it is counted num / den times.                                          *)
(***************************************************************************)
CoversBut(x, s, x2, s2, num, den) == Covers(x * den, s, x2 * num, s2)

\* Losses multiply.
LEMMA ButTransitive ==
  ASSUME NEW x \in Nat, NEW k \in Nat \ {0}, NEW x2 \in Nat,
         NEW s \in Nat, NEW s2 \in Nat, NEW s3 \in Nat,
         NEW num \in Nat \ {0}, NEW den \in Nat \ {0}, NEW num2 \in Nat, NEW den2 \in Nat \ {0},
         CoversBut(x, s, k, s2, num, den), CoversBut(k, s2, x2, s3, num2, den2)
  PROVE  CoversBut(x, s, x2, s3, num * num2, den * den2)
<1> DEFINE mid == (k * num) * den2
<1>1. x * den \in Nat /\ k * num \in Nat /\ k * den2 \in Nat /\ x2 * num2 \in Nat
  BY SMT
<1>2. mid \in Nat \ {0}
  <2>1. k * num \in Nat \ {0}
    BY SMT
  <2> DEFINE kn == k * num
  <2> HIDE DEF kn
  <2>2. kn * den2 \in Nat \ {0}
    BY <2>1, SMT DEF kn
  <2>3. QED
    BY <2>2 DEF kn
<1>3. Covers((x * den) * den2, s, mid, s2)
  BY <1>1, CoversProduct DEF CoversBut
<1>4. Covers((k * den2) * num, s2, (x2 * num2) * num, s3)
  BY <1>1, CoversProduct DEF CoversBut
<1>5. (k * den2) * num = mid
  BY SMT
<1>6. Covers(mid, s2, (x2 * num2) * num, s3)
  BY <1>4, <1>5
<1> HIDE DEF mid
<1>7. (x * den) * den2 \in Nat /\ (x2 * num2) * num \in Nat
  BY <1>1, SMT
<1>8. Covers((x * den) * den2, s, (x2 * num2) * num, s3)
  BY <1>2, <1>3, <1>6, <1>7, CoversTransitive
<1>9. (x * den) * den2 = x * (den * den2) /\ (x2 * num2) * num = x2 * (num * num2)
  BY SMT
<1>10. QED
  BY <1>8, <1>9 DEF CoversBut

\* A larger loss allows as much.
LEMMA ButWeaker ==
  ASSUME NEW x \in Nat, NEW x2 \in Nat, NEW s \in Nat, NEW s2 \in Nat,
         NEW num \in Nat, NEW den \in Nat \ {0}, NEW num2 \in Nat, NEW den2 \in Nat,
         CoversBut(x, s, x2, s2, num, den), num * den2 <= num2 * den
  PROVE  CoversBut(x, s, x2, s2, num2, den2)
<1>1. x * den \in Nat /\ x2 * num \in Nat /\ x * den2 \in Nat /\ x2 * num2 \in Nat
  BY SMT
<1>2. Covers((x * den) * den2, s, (x2 * num) * den2, s2)
  BY <1>1, CoversProduct DEF CoversBut
<1>3. (x2 * num) * den2 <= (x2 * num2) * den
  <2>1. num * den2 \in Nat /\ num2 * den \in Nat
    BY SMT
  <2>2. x2 * (num * den2) <= x2 * (num2 * den)
    BY <2>1, MulMono
  <2>3. (x2 * num) * den2 = x2 * (num * den2) /\ (x2 * num2) * den = x2 * (num2 * den)
    BY SMT
  <2>4. QED
    BY <2>2, <2>3
<1>4. /\ (x * den) * den2 \in Nat /\ (x2 * num) * den2 \in Nat /\ (x2 * num2) * den \in Nat
      /\ (x * den) * den2 = (x * den2) * den
  BY <1>1, SMT
<1>5. Covers((x * den2) * den, s, (x2 * num2) * den, s2)
  <2>1. s2 <= s2
    BY SMT
  <2>2. Covers((x * den) * den2, s, (x2 * num2) * den, s2)
    BY <1>2, <1>3, <1>4, <2>1, CoversMore
  <2>3. QED
    BY <1>4, <2>2
<1>6. QED
  BY <1>1, <1>5, CoversCancel DEF CoversBut

\* What covers without a loss covers with one.
LEMMA CoversWithLoss ==
  ASSUME NEW x \in Nat, NEW x2 \in Nat, NEW s \in Nat, NEW s2 \in Nat,
         NEW num \in Nat, NEW den \in Nat, Covers(x, s, x2, s2), den <= num
  PROVE  CoversBut(x, s, x2, s2, num, den)
<1>1. CoversBut(x, s, x2, s2, 1, 1)
  <2>1. x * 1 = x /\ x2 * 1 = x2
    BY SMT
  <2>2. QED
    BY <2>1 DEF CoversBut
<1>2. 1 * den <= num * 1 /\ 1 \in Nat /\ 1 \in Nat \ {0}
  BY SMT
<1>3. QED
  BY <1>1, <1>2, ButWeaker

LEMMA ButMore ==
  ASSUME NEW x \in Nat, NEW x2 \in Nat, NEW x3 \in Nat,
         NEW s \in Nat, NEW s2 \in Nat, NEW s3 \in Nat, NEW num \in Nat, NEW den \in Nat,
         CoversBut(x, s, x2, s2, num, den), x2 <= x3, s3 <= s2
  PROVE  CoversBut(x, s, x3, s3, num, den)
<1>1. x * den \in Nat /\ x2 * num \in Nat /\ x3 * num \in Nat
  BY SMT
<1>2. x2 * num <= x3 * num
  BY MulMono
<1>3. QED
  BY <1>1, <1>2, CoversMore DEF CoversBut

LEMMA ButProduct ==
  ASSUME NEW x \in Nat, NEW x2 \in Nat, NEW y \in Nat, NEW s \in Nat, NEW s2 \in Nat,
         NEW num \in Nat, NEW den \in Nat, CoversBut(x, s, x2, s2, num, den)
  PROVE  CoversBut(x * y, s, x2 * y, s2, num, den)
<1>1. x * den \in Nat /\ x2 * num \in Nat
  BY SMT
<1>2. Covers((x * den) * y, s, (x2 * num) * y, s2)
  BY <1>1, CoversProduct DEF CoversBut
<1>3. (x * den) * y = (x * y) * den /\ (x2 * num) * y = (x2 * y) * num
  BY SMT
<1>4. QED
  BY <1>2, <1>3 DEF CoversBut

\* A smaller pool is covered as well.
LEMMA CoversLess ==
  ASSUME NEW x \in Nat, NEW x1 \in Nat, NEW x2 \in Nat, NEW s \in Nat, NEW s2 \in Nat,
         x <= x1, Covers(x1, s, x2, s2)
  PROVE  Covers(x, s, x2, s2)
<1>1. s2 * s2 \in Nat /\ s * s \in Nat
  BY SMT
<1>2. x * (s2 * s2) <= x1 * (s2 * s2)
  BY <1>1, MulMono
<1>3. x * (s2 * s2) \in Nat /\ x1 * (s2 * s2) \in Nat /\ x2 * (s * s) \in Nat
  BY <1>1, SMT
<1>4. QED
  BY <1>2, <1>3, SMT DEF Covers

LEMMA ButLess ==
  ASSUME NEW x \in Nat, NEW x1 \in Nat, NEW x2 \in Nat, NEW s \in Nat, NEW s2 \in Nat,
         NEW num \in Nat, NEW den \in Nat, x <= x1, CoversBut(x1, s, x2, s2, num, den)
  PROVE  CoversBut(x, s, x2, s2, num, den)
<1>1. x * den \in Nat /\ x1 * den \in Nat /\ x2 * num \in Nat
  BY SMT
<1>2. x * den <= x1 * den
  BY MulMono
<1>3. QED
  BY <1>1, <1>2, CoversLess DEF CoversBut

-----------------------------------------------------------------------------
(* The one-sided deposits and withdrawals of the product curves. *)

\* A supply that goes with a root is covered as the root's square is.
LEMMA SharesCovered ==
  ASSUME NEW x \in Nat, NEW s \in Nat, NEW x2 \in Nat, NEW s2 \in Nat,
         NEW root \in Nat, NEW grown \in Nat,
         s2 * ONE <= s * root, x * (root * root) <= grown * ONE
  PROVE  (x * (s2 * s2)) * ONE <= grown * (s * s)
<1> DEFINE so  == s2 * ONE
           sr  == s * root
           ss  == s * s
           rr  == root * root
           p   == (x * (s2 * s2)) * ONE
           q   == grown * ss
<1>1. /\ ONE \in Nat \ {0} /\ so \in Nat /\ sr \in Nat /\ ss \in Nat /\ rr \in Nat
      /\ p \in Nat /\ q \in Nat
  BY OneIsNat, SMT
<1>2. so * so <= sr * sr
  <2> HIDE DEF so, sr
  <2>1. QED
    BY <1>1, SquaresInOrder DEF so, sr
<1>3. x * (so * so) <= x * (sr * sr)
  <2>1. so * so \in Int /\ sr * sr \in Int
    BY <1>1, SMT
  <2> HIDE DEF so, sr
  <2>2. QED
    BY <1>2, <2>1, MulMono
<1>4. (x * rr) * ss <= (grown * ONE) * ss
  <2>1. x * rr \in Int /\ grown * ONE \in Int
    BY <1>1, SMT
  <2>2. x * rr <= grown * ONE
    OBVIOUS
  <2> HIDE DEF rr, ss
  <2>3. QED
    BY <1>1, <2>1, <2>2, MulMono
<1>5. x * (so * so) = p * ONE
  BY <1>1, SMT
<1>6. x * (sr * sr) = (x * rr) * ss
  BY <1>1, SMT
<1>7. (grown * ONE) * ss = q * ONE
  <2> HIDE DEF ss
  <2>1. QED
    BY <1>1, SMT DEF q
<1>8. p * ONE \in Nat /\ q * ONE \in Nat /\ (x * rr) * ss \in Nat
  BY <1>1, SMT
<1> HIDE DEF p, q, so, sr, ss, rr
<1>9. p * ONE <= q * ONE
  BY <1>3, <1>4, <1>5, <1>6, <1>7, <1>8, SMT
<1>10. p <= q
  BY <1>1, <1>9, CancelFactor
<1>11. QED
  BY <1>10 DEF p, q, ss

\* What a deposit adds to the supply, with the root it is taken from.
LEMMA ProductDepositAs ==
  ASSUME NEW amount \in Nat, NEW x \in Nat, NEW s \in Nat, ProductDeposit(amount, x, s) # None
  PROVE  LET root == Sqrt(ONE + Ratio(amount, x))
             tokens == ProductDeposit(amount, x, s)
         IN  /\ x # 0 /\ tokens \in Nat
             /\ root \in Nat /\ (s + tokens) * ONE <= s * root
             /\ x * (root * root) <= ((x + amount) * (ONE + 5)) * ONE
<1> DEFINE base   == ONE + Ratio(amount, x)
           root   == Sqrt(base)
           tokens == ProductDeposit(amount, x, s)
           extra  == s * (root - ONE)
<1>1. x # 0 /\ ~(base > MaxSqrtBase) /\ ~(root < ONE) /\ tokens = Floored(s, root - ONE)
  BY DEF ProductDeposit
<1>2. ONE \in Nat \ {0} /\ MaxSqrtBase \in Nat
  BY OneIsNat, PreciseAssumption
<1>3. Ratio(amount, x) \in Nat
  BY <1>1, RatioBounds
<1>4. base \in 0 .. MaxSqrtBase
  BY <1>1, <1>2, <1>3, SMT
<1>5. root \in Nat /\ ONE <= root /\ base <= MaxSqrtBase
  BY <1>1, <1>2, <1>4, PreciseAssumption, SMT
<1>6. x * (root * root) <= ((x + amount) * (ONE + 5)) * ONE
  BY <1>1, <1>5, DepositRoot
<1> HIDE DEF root
<1>7. extra \in Nat /\ extra = s * root - s * ONE /\ s * root \in Nat /\ s * ONE \in Nat
  <2>1. root - ONE \in Nat
    BY <1>2, <1>5, SMT
  <2>2. QED
    BY <1>2, <1>5, <2>1, SMT
<1>8. tokens = extra \div ONE
  BY <1>1 DEF Floored
<1> HIDE DEF extra, tokens
<1>9. tokens \in Nat /\ tokens * ONE <= extra
  BY <1>2, <1>7, <1>8, FloorBounds
<1>10. (s + tokens) * ONE = s * ONE + tokens * ONE /\ tokens * ONE \in Nat
  BY <1>2, <1>9, SMT
<1>11. (s + tokens) * ONE <= s * root
  BY <1>7, <1>9, <1>10, SMT
<1>12. QED
  BY <1>1, <1>5, <1>6, <1>9, <1>11 DEF root, tokens

\* What a withdrawal leaves of the supply, with the root it is taken from.
LEMMA ProductWithdrawAs ==
  ASSUME NEW amount \in Nat, NEW x \in Nat, NEW s \in Nat, ProductWithdraw(amount, x, s) # None,
         NEW left, left = IF amount < x THEN x - amount ELSE 0
  PROVE  LET root == Sqrt(BaseLeft(amount, x))
             tokens == ProductWithdraw(amount, x, s)
         IN  /\ x # 0 /\ tokens \in Nat /\ s - tokens \in Nat
             /\ root \in Nat /\ (s - tokens) * ONE <= s * root
             /\ x * (root * root) <= ((left * ONE + 4 * x) * 1) * ONE
             /\ left = 0 => s - tokens = 0
<1> DEFINE base   == BaseLeft(amount, x)
           root   == Sqrt(base)
           tokens == ProductWithdraw(amount, x, s)
           gone   == s * (ONE - root)
<1>1. x # 0 /\ ~(base > MaxSqrtBase) /\ ~(root > ONE) /\ tokens = Ceiled(s, ONE - root)
  BY DEF ProductWithdraw
<1>2. ONE \in Nat \ {0} /\ MaxSqrtBase \in Nat
  BY OneIsNat, PreciseAssumption
<1>3. Ratio(amount, x) \in Nat
  BY <1>1, RatioBounds
<1>4. base \in 0 .. MaxSqrtBase
  BY <1>1, <1>2, <1>3, SMT DEF BaseLeft
<1>5. root \in Nat /\ root <= ONE /\ base <= MaxSqrtBase
  BY <1>1, <1>2, <1>4, PreciseAssumption, SMT
<1>6. /\ x * (root * root) <= ((left * ONE + 4 * x) * 1) * ONE
      /\ left = 0 => root = 0
  BY <1>1, <1>5, WithdrawRoot
<1> HIDE DEF root
<1>7. gone \in Nat /\ gone = s * ONE - s * root /\ s * root \in Nat /\ s * ONE \in Nat
  <2>1. ONE - root \in Nat
    BY <1>2, <1>5, SMT
  <2>2. QED
    BY <1>2, <1>5, <2>1, SMT
<1>8. tokens = (gone + ONE - 1) \div ONE
  BY <1>1 DEF Ceiled
<1> HIDE DEF gone, tokens
<1>9. tokens \in Nat /\ tokens * ONE <= gone + ONE - 1 /\ gone + ONE - 1 < tokens * ONE + ONE
  <2>1. gone + ONE - 1 \in Nat
    BY <1>2, <1>7, SMT
  <2>2. QED
    BY <1>2, <1>8, <2>1, FloorBounds
<1>10. tokens * ONE \in Nat /\ gone <= tokens * ONE
  BY <1>2, <1>7, <1>9, SMT
<1>11. tokens <= s
  <2>1. SUFFICES ASSUME s + 1 <= tokens PROVE FALSE
    BY <1>9, SMT
  <2>2. (s + 1) * ONE <= tokens * ONE
    BY <1>2, <1>9, <2>1, MulMono
  <2>3. (s + 1) * ONE = s * ONE + ONE
    BY <1>2, SMT
  <2>4. QED
    BY <1>2, <1>7, <1>9, <1>10, <2>2, <2>3, SMT
<1>12. s - tokens \in Nat /\ (s - tokens) * ONE = s * ONE - tokens * ONE
  BY <1>2, <1>9, <1>11, SMT
<1>13. (s - tokens) * ONE <= s * root
  BY <1>7, <1>10, <1>12, SMT
<1>14. left = 0 => s - tokens = 0
  <2>1. SUFFICES ASSUME left = 0 PROVE s - tokens = 0
    OBVIOUS
  <2>2. gone = s * ONE
    BY <1>2, <1>6, <1>7, <2>1, SMT
  <2>3. s <= tokens
    BY <1>2, <1>9, <1>10, <2>2, CancelFactor
  <2>4. QED
    BY <1>9, <1>11, <2>3, SMT
<1>15. QED
  BY <1>1, <1>5, <1>6, <1>9, <1>12, <1>13, <1>14 DEF root, tokens

\* What a deposit mints is covered by it, up to five units.
LEMMA DepositCovers ==
  ASSUME NEW amount \in Nat, NEW x \in Nat, NEW s \in Nat, ProductDeposit(amount, x, s) # None,
         NEW minted \in Nat, minted <= ProductDeposit(amount, x, s)
  PROVE  x # 0 /\ CoversBut(x, s, x + amount, s + minted, ONE + 5, ONE)
<1> DEFINE root   == Sqrt(ONE + Ratio(amount, x))
           tokens == ProductDeposit(amount, x, s)
           grown  == (x + amount) * (ONE + 5)
<1>1. /\ x # 0 /\ tokens \in Nat
      /\ root \in Nat /\ (s + tokens) * ONE <= s * root
      /\ x * (root * root) <= grown * ONE
  BY ProductDepositAs
<1>2. ONE \in Nat \ {0} /\ x + amount \in Nat /\ ONE + 5 \in Nat /\ grown \in Nat
  BY OneIsNat, SMT
<1> HIDE DEF root, tokens
<1>3. s + tokens \in Nat /\ s + minted \in Nat /\ s + minted <= s + tokens
  BY <1>1, SMT DEF tokens
<1>4. (x * ((s + tokens) * (s + tokens))) * ONE <= grown * (s * s)
  <2> HIDE DEF grown
  <2> DEFINE s2 == s + tokens
  <2> HIDE DEF s2
  <2>1. s2 \in Nat /\ s2 * ONE <= s * root
    BY <1>1, <1>3 DEF s2
  <2>2. (x * (s2 * s2)) * ONE <= grown * (s * s)
    BY <1>1, <1>2, <2>1, SharesCovered
  <2>3. QED
    BY <2>2 DEF s2
<1>5. CoversBut(x, s, x + amount, s + tokens, ONE + 5, ONE)
  <2> DEFINE s2 == s + tokens
  <2>1. (x * (s2 * s2)) * ONE = (x * ONE) * (s2 * s2)
    BY <1>2, <1>3, SMT
  <2>2. QED
    BY <1>4, <2>1 DEF CoversBut, Covers
<1>6. CoversBut(x, s, x + amount, s + minted, ONE + 5, ONE)
  <2>1. x + amount <= x + amount
    BY SMT
  <2>2. QED
    BY <1>2, <1>3, <1>5, <2>1, ButMore
<1>7. QED
  BY <1>1, <1>6

\* What a withdrawal leaves is covered, up to four units of what was there.
LEMMA WithdrawCovers ==
  ASSUME NEW amount \in Nat, NEW x \in Nat, NEW s \in Nat, ProductWithdraw(amount, x, s) # None,
         NEW left, left = IF amount < x THEN x - amount ELSE 0,
         NEW rest, rest = s - ProductWithdraw(amount, x, s)
  PROVE  /\ x # 0 /\ rest \in Nat /\ (left = 0 => rest = 0)
         /\ CoversBut(x, s, left * ONE + 4 * x, rest, 1, ONE)
<1> DEFINE root  == Sqrt(BaseLeft(amount, x))
           grown == (left * ONE + 4 * x) * 1
<1>1. /\ x # 0 /\ rest \in Nat /\ (left = 0 => rest = 0)
      /\ root \in Nat /\ rest * ONE <= s * root
      /\ x * (root * root) <= grown * ONE
  BY ProductWithdrawAs
<1>2. ONE \in Nat \ {0} /\ left \in Nat /\ grown \in Nat
  BY OneIsNat, SMT
<1> HIDE DEF root
<1>3. (x * (rest * rest)) * ONE <= grown * (s * s)
  <2> HIDE DEF grown
  <2>1. QED
    BY <1>1, <1>2, SharesCovered
<1>4. (x * (rest * rest)) * ONE = (x * ONE) * (rest * rest)
  BY <1>1, <1>2, SMT
<1>5. QED
  BY <1>1, <1>3, <1>4 DEF CoversBut, Covers

-----------------------------------------------------------------------------
(* The loop has a value: its recursion has exactly one solution. *)

\* One pass over n, given what the loop makes of the bits that are left.
Unrolled(n, rest) ==
  [x \in Nat |-> [z \in Nat |->
    IF n = 0 THEN z
    ELSE LET square  == RayMul(x, x)
             product == IF n % 2 = 1 THEN RayMul(z, square) ELSE z
         IN  IF square = NoRate \/ product = NoRate THEN NoRate ELSE rest[square][product]]]

\* f solves the recursion for exponents up to N.
Solves(f, N) == f = [n \in 0 .. N |-> Unrolled(n, f[n \div 2])]

LEMMA HalvesAreLess == \A n \in Nat : n \div 2 \in Nat /\ n \div 2 <= n /\ (n # 0 => n \div 2 < n)
BY SMT

LEMMA LastPass == \A f, g : Unrolled(0, f) = Unrolled(0, g)
BY Zenon DEF Unrolled

LEMMA SolutionsAgree ==
  ASSUME NEW f, NEW g, NEW M \in Nat, NEW N \in Nat, Solves(f, M), Solves(g, N)
  PROVE  \A n \in Nat : n <= M /\ n <= N => f[n] = g[n]
<1> DEFINE Good == {n \in Nat : n <= M /\ n <= N => f[n] = g[n]}
<1>1. ASSUME NEW n \in Nat, \A k \in Nat : k < n => k \in Good
      PROVE  n \in Good
  <2>1. SUFFICES ASSUME n <= M, n <= N PROVE f[n] = g[n]
    OBVIOUS
  <2>2. n \in 0 .. M /\ n \in 0 .. N
    BY <2>1, SMT
  <2>3. f[n] = Unrolled(n, f[n \div 2]) /\ g[n] = Unrolled(n, g[n \div 2])
    BY <2>2 DEF Solves
  <2>4. CASE n = 0
    BY <2>3, <2>4, LastPass
  <2>5. CASE n # 0
    <3>1. n \div 2 \in Nat /\ n \div 2 < n /\ n \div 2 <= M /\ n \div 2 <= N
      BY <2>1, <2>5, HalvesAreLess, SMT
    <3>2. f[n \div 2] = g[n \div 2]
      BY <1>1, <3>1
    <3>3. QED
      BY <2>3, <3>2
  <2>6. QED
    BY <2>4, <2>5
<1> HIDE DEF Good
<1>2. Good = Nat
  <2>1. Good \in SUBSET Nat
    BY DEF Good
  <2>2. QED
    BY <1>1, <2>1, NoLeastFailure
<1>3. QED
  BY <1>2 DEF Good

LEMMA SolutionsExist == \A N \in Nat : \E f : Solves(f, N)
<1> DEFINE Good == {N \in Nat : \E f : Solves(f, N)}
<1>1. ASSUME NEW N \in Nat, \A k \in Nat : k < N => k \in Good
      PROVE  N \in Good
  <2>1. CASE N = 0
    <3> DEFINE f == [n \in 0 .. 0 |-> Unrolled(n, 0)]
    <3>1. \A n \in 0 .. 0 : Unrolled(n, f[n \div 2]) = Unrolled(n, 0)
      <4>1. \A n \in 0 .. 0 : n = 0
        BY SMT
      <4>2. QED
        BY <4>1, LastPass
    <3>2. Solves(f, 0)
      BY <3>1 DEF Solves
    <3>3. QED
      BY <2>1, <3>2
  <2>2. CASE N # 0
    <3>1. N - 1 \in Nat /\ N - 1 < N
      BY <2>2, SMT
    <3>2. PICK g : Solves(g, N - 1)
      BY <1>1, <3>1
    <3> DEFINE f == [n \in 0 .. N |-> IF n = N THEN Unrolled(N, g[N \div 2]) ELSE g[n]]
    <3>3. \A n \in 0 .. N : /\ n \in Nat /\ n \div 2 \in 0 .. N
                            /\ (N # n => n \in 0 .. (N - 1) /\ n \div 2 \in 0 .. (N - 1) /\ n \div 2 # N)
                            /\ (N = n => n \div 2 # N)
      BY <2>2, HalvesAreLess, SMT
    <3>4. ASSUME NEW n \in 0 .. N PROVE f[n] = Unrolled(n, f[n \div 2])
      <4>1. f[n \div 2] = g[n \div 2]
        BY <3>3
      <4>2. CASE n = N
        BY <4>1, <4>2
      <4>3. CASE n # N
        <5>1. g[n] = Unrolled(n, g[n \div 2])
          BY <3>2, <3>3, <4>3 DEF Solves
        <5>2. QED
          BY <4>1, <4>3, <5>1
      <4>4. QED
        BY <4>2, <4>3
    <3>5. Solves(f, N)
      <4>1. f = [n \in 0 .. N |-> f[n]]
        OBVIOUS
      <4> HIDE DEF f
      <4>2. [n \in 0 .. N |-> f[n]] = [n \in 0 .. N |-> Unrolled(n, f[n \div 2])]
        BY <3>4
      <4>3. QED
        BY <4>1, <4>2, Zenon DEF Solves
    <3>6. QED
      BY <3>5
  <2>3. QED
    BY <2>1, <2>2
<1> HIDE DEF Good
<1>2. Good = Nat
  <2>1. Good \in SUBSET Nat
    BY DEF Good
  <2>2. QED
    BY <1>1, <2>1, NoLeastFailure
<1>3. QED
  BY <1>2 DEF Good

LEMMA LoopExists == \E f : f = [n \in Nat |-> Unrolled(n, f[n \div 2])]
<1> DEFINE upTo(N) == CHOOSE f : Solves(f, N)
           f == [n \in Nat |-> upTo(n)[n]]
<1>1. \A N \in Nat : Solves(upTo(N), N)
  BY SolutionsExist
<1> HIDE DEF upTo
<1>2. ASSUME NEW n \in Nat PROVE f[n] = Unrolled(n, f[n \div 2])
  <2>1. n \div 2 \in Nat /\ n \div 2 <= n /\ n \in 0 .. n /\ n <= n
    BY HalvesAreLess, SMT
  <2>2. upTo(n)[n] = Unrolled(n, upTo(n)[n \div 2])
    <3>1. Solves(upTo(n), n)
      BY <1>1
    <3> DEFINE g == upTo(n)
    <3> HIDE DEF g
    <3>2. Solves(g, n) => g[n] = Unrolled(n, g[n \div 2])
      BY <2>1 DEF Solves
    <3>3. QED
      BY <3>1, <3>2 DEF g
  <2>3. upTo(n)[n \div 2] = upTo(n \div 2)[n \div 2]
    <3>1. n \div 2 <= n \div 2
      BY <2>1, SMT
    <3>2. QED
      BY <1>1, <2>1, <3>1, SolutionsAgree
  <2>4. QED
    BY <2>1, <2>2, <2>3
<1>3. f = [n \in Nat |-> f[n]]
  OBVIOUS
<1> HIDE DEF f
<1>4. [n \in Nat |-> f[n]] = [n \in Nat |-> Unrolled(n, f[n \div 2])]
  BY <1>2
<1>5. QED
  BY <1>3, <1>4, Zenon

(***************************************************************************)
(* The loop is what its definition says: no value is assumed for it.       *)
(***************************************************************************)
LEMMA LoopUnrolled ==
  ASSUME NEW n \in Nat, NEW x \in Nat, NEW z \in Nat
  PROVE  RPowLoop[n][x][z] =
           IF n = 0 THEN z
           ELSE LET square  == RayMul(x, x)
                    product == IF n % 2 = 1 THEN RayMul(z, square) ELSE z
                IN  IF square = NoRate \/ product = NoRate THEN NoRate
                    ELSE RPowLoop[n \div 2][square][product]
<1>1. RPowLoop = CHOOSE f : f = [k \in Nat |-> Unrolled(k, f[k \div 2])]
  BY Zenon DEF RPowLoop, Unrolled
<1>2. RPowLoop = [k \in Nat |-> Unrolled(k, RPowLoop[k \div 2])]
  BY <1>1, LoopExists, Zenon
<1>3. RPowLoop[n] = Unrolled(n, RPowLoop[n \div 2])
  BY <1>2
<1> DEFINE rest == RPowLoop[n \div 2]
<1> HIDE DEF rest
<1>4. Unrolled(n, rest)[x][z] =
           IF n = 0 THEN z
           ELSE LET square  == RayMul(x, x)
                    product == IF n % 2 = 1 THEN RayMul(z, square) ELSE z
                IN  IF square = NoRate \/ product = NoRate THEN NoRate ELSE rest[square][product]
  BY DEF Unrolled
<1>5. QED
  BY <1>3, <1>4 DEF rest

-----------------------------------------------------------------------------
(* One product. *)

LEMMA RoundedQuotient ==
  ASSUME NEW top \in Nat
  PROVE  /\ top \div RAY \in Nat
         /\ (top \div RAY) * RAY <= top
         /\ top < (top \div RAY) * RAY + RAY
BY RAYAssumption, CompoundingAssumption, SMT

LEMMA LargestQuotient ==
  ASSUME NEW top \in Nat, NEW q \in Nat, q * RAY <= top
  PROVE  q <= top \div RAY
<1> DEFINE d == top \div RAY
<1>1. d \in Nat /\ top < d * RAY + RAY /\ RAY \in Nat \ {0}
  BY RoundedQuotient, RAYAssumption, CompoundingAssumption
<1> HIDE DEF d
<1>2. ~ (d + 1 <= q)
  <2>1. SUFFICES ASSUME d + 1 <= q PROVE FALSE
    OBVIOUS
  <2>2. (d + 1) * RAY <= q * RAY
    BY <1>1, <2>1, SMT
  <2>3. (d + 1) * RAY = d * RAY + RAY
    BY <1>1, SMT
  <2>4. q * RAY \in Nat /\ d * RAY \in Nat
    BY <1>1, SMT
  <2>5. QED
    BY <1>1, <2>2, <2>3, <2>4, SMT
<1>3. QED
  BY <1>1, <1>2, SMT DEF d

LEMMA QuotientMonotone ==
  ASSUME NEW less \in Nat, NEW more \in Nat, less <= more
  PROVE  less \div RAY <= more \div RAY
<1> DEFINE d == less \div RAY
<1>1. d \in Nat /\ d * RAY <= less
  BY RoundedQuotient
<1> HIDE DEF d
<1>2. d * RAY <= more
  <2>1. d * RAY \in Nat
    BY <1>1, RAYAssumption, CompoundingAssumption, SMT
  <2>2. QED
    BY <1>1, <2>1, SMT
<1>3. d <= more \div RAY
  BY <1>1, <1>2, LargestQuotient
<1>4. QED
  BY <1>3 DEF d

LEMMA ProductMonotone ==
  ASSUME NEW a \in Nat, NEW b \in Nat, NEW c \in Nat, NEW d \in Nat, a <= c, b <= d
  PROVE  a * b \in Nat /\ c * d \in Nat /\ a * b <= c * d
<1>1. a * b <= c * b /\ c * b <= c * d
  BY SMT
<1>2. a * b \in Nat /\ c * b \in Nat /\ c * d \in Nat
  BY SMT
<1>3. QED
  BY <1>1, <1>2, SMT

LEMMA HalfRay == RAY \div 2 \in Nat
BY RAYAssumption, CompoundingAssumption, SMT

\* A product is a number that fits, or NoRate.
LEMMA RayMulType ==
  ASSUME NEW a \in Nat, NEW b \in Nat
  PROVE  /\ RayMul(a, b) \in Nat \cup {NoRate}
         /\ RayMul(a, b) # NoRate => /\ a * b + RAY \div 2 <= U256_MAX
                                     /\ RayMul(a, b) = (a * b + RAY \div 2) \div RAY
         /\ a * b + RAY \div 2 <= U256_MAX => RayMul(a, b) # NoRate
<1>1. a * b + RAY \div 2 \in Nat
  BY HalfRay, SMT
<1>2. (a * b + RAY \div 2) \div RAY \in Nat
  BY <1>1, RoundedQuotient
<1>3. QED
  BY <1>1, <1>2, RAYAssumption, CompoundingAssumption, SMT DEF RayMul

\* Smaller factors have a product if larger ones do, and no larger one.
LEMMA RayMulMonotone ==
  ASSUME NEW a \in Nat, NEW b \in Nat, NEW c \in Nat, NEW d \in Nat, a <= c, b <= d,
         RayMul(c, d) # NoRate
  PROVE  RayMul(a, b) # NoRate /\ RayMul(a, b) <= RayMul(c, d)
<1> DEFINE ab == a * b + RAY \div 2
           cd == c * d + RAY \div 2
<1>1. ab \in Nat /\ cd \in Nat /\ ab <= cd
  <2>1. a * b \in Nat /\ c * d \in Nat /\ a * b <= c * d
    BY ProductMonotone
  <2>2. QED
    BY <2>1, HalfRay, SMT
<1>2. cd <= U256_MAX /\ RayMul(c, d) = cd \div RAY
  BY RayMulType
<1> HIDE DEF ab, cd
<1>3. ab <= U256_MAX
  BY <1>1, <1>2, RAYAssumption, CompoundingAssumption, SMT
<1>4. RayMul(a, b) # NoRate
  BY <1>3, RayMulType DEF ab
<1>5. RayMul(a, b) = ab \div RAY
  BY <1>4, RayMulType DEF ab
<1>6. ab \div RAY <= cd \div RAY
  BY <1>1, QuotientMonotone
<1>7. QED
  BY <1>2, <1>4, <1>5, <1>6

\* A factor that does not shrink: the product is not below the other factor.
LEMMA RayMulGrows ==
  ASSUME NEW a \in Nat, NEW b \in Nat, b >= RAY, RayMul(a, b) # NoRate
  PROVE  RayMul(a, b) \in Nat /\ RayMul(a, b) >= a
<1> DEFINE top == a * b + RAY \div 2
<1>1. RAY \in Nat
  BY RAYAssumption, CompoundingAssumption
<1>2. a * RAY \in Nat /\ a * b \in Nat /\ a * RAY <= a * b
  BY <1>1, ProductMonotone, SMT
<1>3. top \in Nat /\ a * RAY <= top
  BY <1>2, HalfRay, SMT
<1>4. RayMul(a, b) = top \div RAY
  BY RayMulType
<1> HIDE DEF top
<1>5. QED
  BY <1>3, <1>4, RoundedQuotient, LargestQuotient

\* One is neutral.
LEMMA RayMulNeutral ==
  ASSUME NEW a \in Nat, RayMul(RAY, a) # NoRate
  PROVE  RayMul(RAY, a) = a
<1> DEFINE top == RAY * a + RAY \div 2
           q   == top \div RAY
<1>1. RAY \in Nat \ {0} /\ RAY * a \in Nat /\ top \in Nat /\ RAY \div 2 < RAY
  BY RAYAssumption, CompoundingAssumption, HalfRay, SMT
<1>2. RayMul(RAY, a) = q
  BY <1>1, RayMulType
<1>3. q \in Nat /\ q * RAY <= top
  BY <1>1, RoundedQuotient
<1>4. a * RAY = RAY * a
  BY <1>1, SMT
<1>5. q >= a
  <2>1. a * RAY <= top
    BY <1>1, <1>4, HalfRay, SMT
  <2>2. QED
    BY <1>1, <2>1, LargestQuotient
<1> HIDE DEF q
<1>6. ~ (a + 1 <= q)
  <2>1. SUFFICES ASSUME a + 1 <= q PROVE FALSE
    OBVIOUS
  <2>2. (a + 1) * RAY <= q * RAY
    BY <1>1, <1>3, <2>1, ProductMonotone, SMT
  <2>3. (a + 1) * RAY = RAY * a + RAY
    BY <1>1, SMT
  <2>4. q * RAY \in Nat
    BY <1>1, <1>3, SMT
  <2>5. QED
    BY <1>1, <1>3, <2>2, <2>3, <2>4, HalfRay, SMT
<1>7. QED
  BY <1>2, <1>3, <1>5, <1>6, SMT

\* One times one fits, and is one.
LEMMA RayMulOne == RayMul(RAY, RAY) = RAY
<1>1. RAY \in Nat /\ RayMul(RAY, RAY) # NoRate
  BY RAYAssumption, CompoundingAssumption, RayMulType
<1>2. QED
  BY <1>1, RayMulNeutral

-----------------------------------------------------------------------------
(* The loop. *)

\* The loop ends with a number or without a rate.
LEMMA LoopType == 
  \A n \in Nat : \A x, z \in Nat : RPowLoop[n][x][z] \in Nat \cup {NoRate}
<1> DEFINE Good == {n \in Nat : \A x, z \in Nat : RPowLoop[n][x][z] \in Nat \cup {NoRate}}
<1>1. ASSUME NEW n \in Nat, \A k \in Nat : k < n => k \in Good
      PROVE  n \in Good
  <2>1. SUFFICES ASSUME NEW x \in Nat, NEW z \in Nat
                 PROVE  RPowLoop[n][x][z] \in Nat \cup {NoRate}
    OBVIOUS
  <2> DEFINE square  == RayMul(x, x)
             product == IF n % 2 = 1 THEN RayMul(z, square) ELSE z
  <2>2. CASE n = 0 \/ square = NoRate \/ product = NoRate
    BY <2>2, LoopUnrolled
  <2>3. CASE ~ (n = 0 \/ square = NoRate \/ product = NoRate)
    <3>1. square \in Nat /\ product \in Nat
      BY <2>3, RayMulType
    <3>2. n \div 2 \in Nat /\ n \div 2 < n
      BY <2>3, HalvesAreLess
    <3>3. RPowLoop[n \div 2][square][product] \in Nat \cup {NoRate}
      BY <1>1, <3>1, <3>2
    <3>4. QED
      BY <2>3, <3>3, LoopUnrolled
  <2>4. QED
    BY <2>2, <2>3
<1> HIDE DEF Good
<1>2. Good = Nat
  <2>1. Good \in SUBSET Nat
    BY DEF Good
  <2>2. QED
    BY <1>1, <2>1, NoLeastFailure
<1>3. QED
  BY <1>2 DEF Good

(***************************************************************************)
(* A larger base and a larger product so far end in a larger rate, and a   *)
(* base for which the loop finds no room leaves none for a larger one.     *)
(***************************************************************************)
LEMMA LoopMonotone == 
  \A n \in Nat : \A x, y, z, w \in Nat :
    x <= y /\ z <= w /\ RPowLoop[n][y][w] # NoRate =>
      RPowLoop[n][x][z] # NoRate /\ RPowLoop[n][x][z] <= RPowLoop[n][y][w]
<1> DEFINE Good == {n \in Nat : \A x, y, z, w \in Nat :
                         x <= y /\ z <= w /\ RPowLoop[n][y][w] # NoRate =>
                           RPowLoop[n][x][z] # NoRate /\ RPowLoop[n][x][z] <= RPowLoop[n][y][w]}
<1>1. ASSUME NEW n \in Nat, \A k \in Nat : k < n => k \in Good
      PROVE  n \in Good
  <2>1. SUFFICES ASSUME NEW x \in Nat, NEW y \in Nat, NEW z \in Nat, NEW w \in Nat,
                        x <= y, z <= w, RPowLoop[n][y][w] # NoRate
                 PROVE  /\ RPowLoop[n][x][z] # NoRate
                        /\ RPowLoop[n][x][z] <= RPowLoop[n][y][w]
    OBVIOUS
  <2> DEFINE squareX  == RayMul(x, x)
             squareY  == RayMul(y, y)
             productX == IF n % 2 = 1 THEN RayMul(z, squareX) ELSE z
             productY == IF n % 2 = 1 THEN RayMul(w, squareY) ELSE w
  <2>2. CASE n = 0
    BY <2>1, <2>2, RAYAssumption, CompoundingAssumption, LoopUnrolled
  <2>3. CASE n # 0
    <3>1. squareY # NoRate /\ productY # NoRate
          /\ RPowLoop[n][y][w] = RPowLoop[n \div 2][squareY][productY]
      BY <2>1, <2>3, LoopUnrolled
    <3>2. squareX # NoRate /\ squareX <= squareY /\ squareX \in Nat /\ squareY \in Nat
      BY <2>1, <3>1, RayMulMonotone, RayMulType
    <3>3. productX # NoRate /\ productX <= productY /\ productX \in Nat /\ productY \in Nat
      BY <2>1, <3>1, <3>2, RayMulMonotone, RayMulType, RAYAssumption, CompoundingAssumption
    <3>4. RPowLoop[n][x][z] = RPowLoop[n \div 2][squareX][productX]
      <4>1. RPowLoop[n][x][z] = IF squareX = NoRate \/ productX = NoRate THEN NoRate
                               ELSE RPowLoop[n \div 2][squareX][productX]
        BY <2>3, LoopUnrolled
      <4> HIDE DEF squareX, productX
      <4>2. QED
        BY <3>2, <3>3, <4>1
    <3>5. n \div 2 \in Nat /\ n \div 2 < n
      BY <2>3, HalvesAreLess
    <3> HIDE DEF squareX, squareY, productX, productY
    <3>6. QED
      BY <1>1, <2>1, <3>1, <3>2, <3>3, <3>4, <3>5
  <2>4. QED
    BY <2>2, <2>3
<1> HIDE DEF Good
<1>2. Good = Nat
  <2>1. Good \in SUBSET Nat
    BY DEF Good
  <2>2. QED
    BY <1>1, <2>1, NoLeastFailure
<1>3. QED
  BY <1>2 DEF Good

\* With a base that does not shrink the product never falls on the way.
LEMMA LoopGrows == 
  \A n \in Nat : \A x, z \in Nat :
    x >= RAY /\ RPowLoop[n][x][z] # NoRate => RPowLoop[n][x][z] >= z
<1> DEFINE Good == {n \in Nat : \A x, z \in Nat :
                         x >= RAY /\ RPowLoop[n][x][z] # NoRate => RPowLoop[n][x][z] >= z}
<1>1. ASSUME NEW n \in Nat, \A k \in Nat : k < n => k \in Good
      PROVE  n \in Good
  <2>1. SUFFICES ASSUME NEW x \in Nat, NEW z \in Nat, x >= RAY, RPowLoop[n][x][z] # NoRate
                 PROVE  RPowLoop[n][x][z] >= z
    OBVIOUS
  <2> DEFINE square  == RayMul(x, x)
             product == IF n % 2 = 1 THEN RayMul(z, square) ELSE z
             value   == RPowLoop[n \div 2][square][product]
  <2>2. CASE n = 0
    BY <2>1, <2>2, LoopUnrolled
  <2>3. CASE n # 0
    <3>1. square # NoRate /\ product # NoRate /\ RPowLoop[n][x][z] = value
      BY <2>1, <2>3, LoopUnrolled
    <3>2. square \in Nat /\ square >= RAY
      BY <2>1, <3>1, RayMulGrows, RAYAssumption, CompoundingAssumption, SMT
    <3>3. product \in Nat /\ product >= z
      BY <2>1, <3>1, <3>2, RayMulGrows, SMT
    <3>4. n \div 2 \in Nat /\ n \div 2 < n
      BY <2>3, HalvesAreLess
    <3>5. value \in Nat
      BY <2>1, <3>1, <3>2, <3>3, <3>4, LoopType
    <3> HIDE DEF square, product
    <3>6. value >= product
      BY <1>1, <2>1, <3>1, <3>2, <3>3, <3>4
    <3> HIDE DEF value
    <3>7. QED
      BY <3>1, <3>3, <3>5, <3>6, SMT
  <2>4. QED
    BY <2>2, <2>3
<1> HIDE DEF Good
<1>2. Good = Nat
  <2>1. Good \in SUBSET Nat
    BY DEF Good
  <2>2. QED
    BY <1>1, <2>1, NoLeastFailure
<1>3. QED
  BY <1>2 DEF Good

\* The bits of the next number: an even one gets its last, an odd one carries.
LEMMA NextNumber ==
  ASSUME NEW n \in Nat
  PROVE  /\ n % 2 = 1 => (n + 1) % 2 = 0 /\ (n + 1) \div 2 = n \div 2 + 1
         /\ n % 2 # 1 => (n + 1) % 2 = 1 /\ (n + 1) \div 2 = n \div 2
         /\ n + 1 \in Nat /\ n + 1 # 0
BY SMT

(***************************************************************************)
(* A pass that does not end the loop: both products fit.                   *)
(***************************************************************************)
LEMMA LoopGoesOn ==
  ASSUME NEW n \in Nat, NEW x \in Nat, NEW z \in Nat, n # 0, RPowLoop[n][x][z] # NoRate
  PROVE  LET square  == RayMul(x, x)
             product == IF n % 2 = 1 THEN RayMul(z, square) ELSE z
         IN  /\ square # NoRate /\ square \in Nat
             /\ product # NoRate /\ product \in Nat
             /\ RPowLoop[n][x][z] = RPowLoop[n \div 2][square][product]
<1> DEFINE square  == RayMul(x, x)
           product == IF n % 2 = 1 THEN RayMul(z, square) ELSE z
<1>1. RPowLoop[n][x][z] = IF square = NoRate \/ product = NoRate THEN NoRate
                         ELSE RPowLoop[n \div 2][square][product]
  BY LoopUnrolled
<1>2. square \in Nat \cup {NoRate}
  BY RayMulType
<1>3. square \in Nat => product \in Nat \cup {NoRate}
  BY RayMulType
<1> HIDE DEF square, product
<1>4. QED
  BY <1>1, <1>2, <1>3 DEF square, product

(***************************************************************************)
(* One more second: whatever product up to x squared the loop for n starts *)
(* with, the loop for n + 1 that starts with one ends with no less, and    *)
(* has room for n if it has for n + 1.  The two halve to the same number   *)
(* when n is even, and to two that follow each other when it is odd.       *)
(***************************************************************************)
LEMMA LoopOneMore ==
  \A n \in Nat : \A x, z \in Nat :
    x >= RAY /\ RPowLoop[n + 1][x][RAY] # NoRate /\ z <= RayMul(x, x) =>
      RPowLoop[n][x][z] # NoRate /\ RPowLoop[n][x][z] <= RPowLoop[n + 1][x][RAY]
<1> DEFINE Good == {n \in Nat : \A x, z \in Nat :
                     x >= RAY /\ RPowLoop[n + 1][x][RAY] # NoRate /\ z <= RayMul(x, x) =>
                       RPowLoop[n][x][z] # NoRate
                       /\ RPowLoop[n][x][z] <= RPowLoop[n + 1][x][RAY]}
<1>1. ASSUME NEW n \in Nat, \A k \in Nat : k < n => k \in Good
      PROVE  n \in Good
  <2>1. SUFFICES ASSUME NEW x \in Nat, NEW z \in Nat, x >= RAY,
                        RPowLoop[n + 1][x][RAY] # NoRate, z <= RayMul(x, x)
                 PROVE  /\ RPowLoop[n][x][z] # NoRate
                        /\ RPowLoop[n][x][z] <= RPowLoop[n + 1][x][RAY]
    OBVIOUS
  <2> DEFINE square == RayMul(x, x)
             half   == n \div 2
             more   == (n + 1) \div 2
  <2>2. RAY \in Nat /\ n + 1 \in Nat /\ n + 1 # 0 /\ half \in Nat /\ more \in Nat
    BY RAYAssumption, CompoundingAssumption, NextNumber, HalvesAreLess
  <2>3. square \in Nat /\ square # NoRate /\ square >= RAY
    <3>1. square \in Nat /\ square # NoRate
      BY <2>1, <2>2, LoopGoesOn
    <3>2. QED
      BY <2>1, <2>2, <3>1, RayMulGrows, SMT
  <2>4. CASE n % 2 # 1
    <3>1. RPowLoop[n + 1][x][RAY] = RPowLoop[half][square][square]
      <4>1. (n + 1) % 2 = 1 /\ more = half
        BY <2>4, NextNumber
      <4> DEFINE next == n + 1
      <4>2. next \in Nat /\ next # 0 /\ RPowLoop[next][x][RAY] # NoRate
            /\ next % 2 = 1 /\ next \div 2 = half
        BY <2>1, <2>2, <4>1
      <4> HIDE DEF next
      <4>3. /\ RayMul(RAY, square) # NoRate
            /\ RPowLoop[next][x][RAY] = RPowLoop[next \div 2][square][RayMul(RAY, square)]
        BY <2>2, <4>2, LoopGoesOn
      <4>4. RayMul(RAY, square) = square
        BY <2>3, <4>3, RayMulNeutral
      <4> HIDE DEF square, half
      <4>5. QED
        BY <4>2, <4>3, <4>4 DEF next
    <3>2. RPowLoop[half][square][z] # NoRate
          /\ RPowLoop[half][square][z] <= RPowLoop[half][square][square]
      BY <2>1, <2>2, <2>3, <3>1, LoopMonotone
    <3>3. CASE n = 0
      <4>1. half = 0
        BY <3>3, SMT
      <4>2. RPowLoop[n][x][z] = z /\ RPowLoop[half][square][square] = square
        BY <2>2, <2>3, <3>3, <4>1, LoopUnrolled
      <4>3. QED
        BY <2>1, <3>1, <4>2, RAYAssumption, CompoundingAssumption
    <3>4. CASE n # 0
      <4>1. RPowLoop[n][x][z] = RPowLoop[half][square][z]
        BY <2>3, <2>4, <3>4, LoopUnrolled, RAYAssumption, CompoundingAssumption
      <4>2. QED
        BY <3>1, <3>2, <4>1
    <3>5. QED
      BY <3>3, <3>4
  <2>5. CASE n % 2 = 1
    <3> DEFINE product == RayMul(z, square)
    <3>1. (n + 1) % 2 # 1 /\ more = half + 1 /\ n # 0
      BY <2>5, NextNumber, SMT
    <3>2. RPowLoop[n + 1][x][RAY] = RPowLoop[half + 1][square][RAY]
      <4> DEFINE next == n + 1
      <4>1. next \in Nat /\ next # 0 /\ RPowLoop[next][x][RAY] # NoRate
            /\ next % 2 # 1 /\ next \div 2 = half + 1
        BY <2>1, <2>2, <3>1
      <4> HIDE DEF next
      <4>2. RPowLoop[next][x][RAY] = RPowLoop[next \div 2][square][RAY]
        BY <2>2, <4>1, LoopGoesOn
      <4> HIDE DEF square, half
      <4>3. QED
        BY <4>1, <4>2 DEF next
    <3>3. RayMul(square, square) # NoRate
      BY <2>1, <2>2, <2>3, <3>2, LoopGoesOn, NextNumber
    <3>4. product # NoRate /\ product \in Nat /\ product <= RayMul(square, square)
      <4>1. square \in Nat /\ z <= square /\ square <= square
        BY <2>1, <2>3, SMT
      <4> HIDE DEF square
      <4>2. product # NoRate /\ product <= RayMul(square, square)
        BY <3>3, <4>1, RayMulMonotone
      <4>3. product \in Nat
        BY <4>1, <4>2, RayMulType
      <4>4. QED
        BY <4>2, <4>3
    <3>5. RPowLoop[n][x][z] = RPowLoop[half][square][product]
      <4>1. RPowLoop[n][x][z] = IF square = NoRate \/ product = NoRate THEN NoRate
                               ELSE RPowLoop[half][square][product]
        BY <2>5, <3>1, LoopUnrolled
      <4> HIDE DEF square, product, half
      <4>2. QED
        BY <2>3, <3>4, <4>1
    <3>6. half < n
      BY <3>1, HalvesAreLess
    <3> HIDE DEF square, product, half
    <3>7. half \in Good
      BY <1>1, <2>2, <3>6
    <3>8. QED
      BY <2>1, <2>2, <2>3, <3>2, <3>4, <3>5, <3>7
  <2>6. QED
    BY <2>4, <2>5
<1> HIDE DEF Good
<1>2. Good = Nat
  <2>1. Good \in SUBSET Nat
    BY DEF Good
  <2>2. QED
    BY <1>1, <2>1, NoLeastFailure
<1>3. QED
  BY <1>2 DEF Good

\* A rate that stands still stays one for any time.
LEMMA LoopOne == \A n \in Nat : RPowLoop[n][RAY][RAY] = RAY
<1> DEFINE Good == {n \in Nat : RPowLoop[n][RAY][RAY] = RAY}
<1>1. ASSUME NEW n \in Nat, \A k \in Nat : k < n => k \in Good
      PROVE  n \in Good
  <2>1. RAY \in Nat /\ RAY # NoRate /\ RayMul(RAY, RAY) = RAY
    BY RAYAssumption, CompoundingAssumption, RayMulOne
  <2>2. CASE n = 0
    BY <2>1, <2>2, LoopUnrolled
  <2>3. CASE n # 0
    <3>1. RPowLoop[n][RAY][RAY] = RPowLoop[n \div 2][RAY][RAY]
      BY <2>1, <2>3, LoopUnrolled
    <3>2. QED
      BY <1>1, <2>3, <3>1, HalvesAreLess
  <2>4. QED
    BY <2>2, <2>3
<1> HIDE DEF Good
<1>2. Good = Nat
  <2>1. Good \in SUBSET Nat
    BY DEF Good
  <2>2. QED
    BY <1>1, <2>1, NoLeastFailure
<1>3. QED
  BY <1>2 DEF Good

-----------------------------------------------------------------------------
(* _rpow, and the growth of a factor. *)

\* The product the loop starts with.
RPowStart(x, n) == IF n % 2 = 0 THEN RAY ELSE x

LEMMA RPowByLoop ==
  ASSUME NEW x \in Nat, NEW n \in Nat, x # 0
  PROVE  /\ RPowStart(x, n) \in Nat /\ n \div 2 \in Nat
         /\ RPow(x, n) = RPowLoop[n \div 2][x][RPowStart(x, n)]
BY RAYAssumption, CompoundingAssumption, HalvesAreLess DEF RPow, RPowStart

LEMMA RPowType ==
  ASSUME NEW x \in Nat, NEW n \in Nat
  PROVE  RPow(x, n) \in Nat \cup {NoRate}
<1>1. CASE x = 0
  BY <1>1, RAYAssumption, CompoundingAssumption DEF RPow
<1>2. CASE x # 0
  <2> DEFINE half == n \div 2
             z    == RPowStart(x, n)
  <2>1. z \in Nat /\ half \in Nat /\ RPow(x, n) = RPowLoop[half][x][z]
    BY <1>2, RPowByLoop
  <2> HIDE DEF half, z
  <2>2. QED
    BY <2>1, LoopType
<1>3. QED
  BY <1>1, <1>2

\* No time passed, nothing grew.
LEMMA RPowZero ==
  ASSUME NEW x \in Nat
  PROVE  RPow(x, 0) = RAY
<1>1. RPowLoop[0][x][RAY] = RAY
  BY LoopUnrolled, RAYAssumption, CompoundingAssumption
<1>2. 0 \div 2 = 0 /\ 0 % 2 = 0
  BY SMT
<1>3. QED
  BY <1>1, <1>2 DEF RPow

(***************************************************************************)
(* A higher rate compounds to more, and fits only if a lower one does.     *)
(***************************************************************************)
LEMMA RPowMonotone ==
  ASSUME NEW x \in Nat, NEW y \in Nat, NEW n \in Nat, x <= y, RPow(y, n) # NoRate
  PROVE  /\ RPow(x, n) \in Nat /\ RPow(y, n) \in Nat
         /\ RPow(x, n) <= RPow(y, n)
<1>1. RPow(y, n) \in Nat
  BY RPowType
<1>2. CASE n = 0
  BY <1>1, <1>2, RPowZero, RAYAssumption, CompoundingAssumption, SMT
<1>3. CASE n # 0 /\ x = 0
  BY <1>1, <1>3, SMT DEF RPow
<1>4. CASE n # 0 /\ x # 0
  <2>1. y # 0 /\ RPowStart(x, n) <= RPowStart(y, n)
    BY <1>4, RAYAssumption, CompoundingAssumption, SMT DEF RPowStart
  <2> DEFINE half == n \div 2
             z    == RPowStart(x, n)
             w    == RPowStart(y, n)
  <2>2. /\ z \in Nat /\ w \in Nat /\ half \in Nat /\ z <= w
        /\ RPow(x, n) = RPowLoop[half][x][z] /\ RPow(y, n) = RPowLoop[half][y][w]
    BY <1>4, <2>1, RPowByLoop
  <2> HIDE DEF half, z, w
  <2>3. RPowLoop[half][x][z] # NoRate /\ RPowLoop[half][x][z] <= RPowLoop[half][y][w]
    BY <2>2, LoopMonotone
  <2>4. QED
    BY <1>1, <2>2, <2>3, RPowType
<1>5. QED
  BY <1>2, <1>3, <1>4

\* A rate that does not shrink does not compound to less than one.
LEMMA RPowGrows ==
  ASSUME NEW x \in Nat, NEW n \in Nat, x >= RAY, RPow(x, n) # NoRate
  PROVE  RPow(x, n) \in Nat /\ RPow(x, n) >= RAY
<1>1. x # 0 /\ RPowStart(x, n) >= RAY /\ RPow(x, n) \in Nat
  BY RPowType, RAYAssumption, CompoundingAssumption, SMT DEF RPowStart
<1>2. RPow(x, n) >= RPowStart(x, n)
  <2> DEFINE half == n \div 2
             z    == RPowStart(x, n)
  <2>1. z \in Nat /\ half \in Nat /\ RPow(x, n) = RPowLoop[half][x][z]
    BY <1>1, RPowByLoop
  <2> HIDE DEF half
  <2>2. QED
    BY <2>1, LoopGrows
<1>3. QED
  BY <1>1, <1>2, RPowByLoop, RAYAssumption, CompoundingAssumption, SMT

LEMMA RPowOne ==
  ASSUME NEW n \in Nat
  PROVE  RPow(RAY, n) = RAY
<1>1. RAY \in Nat /\ RAY # 0 /\ RPowStart(RAY, n) = RAY
  BY RAYAssumption, CompoundingAssumption DEF RPowStart
<1> DEFINE half == n \div 2
<1>2. half \in Nat /\ RPow(RAY, n) = RPowLoop[half][RAY][RAY]
  BY <1>1, RPowByLoop
<1> HIDE DEF half
<1>3. QED
  BY <1>2, LoopOne

(***************************************************************************)
(* A rate that does not shrink compounds to more with every second, and    *)
(* fits for one second more only if it fits for this one.                  *)
(***************************************************************************)
LEMMA RPowOneMore ==
  ASSUME NEW x \in Nat, NEW n \in Nat, x >= RAY, RPow(x, n + 1) # NoRate
  PROVE  /\ RPow(x, n) \in Nat /\ RPow(x, n + 1) \in Nat
         /\ RPow(x, n) <= RPow(x, n + 1)
<1> DEFINE half == n \div 2
<1>1. /\ x # 0 /\ n + 1 \in Nat /\ RAY \in Nat /\ half \in Nat /\ half + 1 \in Nat
      /\ RPow(x, n + 1) \in Nat
  BY RPowType, RAYAssumption, CompoundingAssumption, HalvesAreLess, SMT
<1>2. CASE n % 2 # 1
  <2>1. n % 2 = 0 /\ (n + 1) % 2 # 0 /\ (n + 1) \div 2 = half
    BY <1>2, NextNumber, SMT
  <2>2. RPow(x, n) = RPowLoop[half][x][RAY] /\ RPow(x, n + 1) = RPowLoop[half][x][x]
    BY <1>1, <2>1, RPowByLoop DEF RPowStart
  <2> HIDE DEF half
  <2>3. RPowLoop[half][x][RAY] # NoRate /\ RPowLoop[half][x][RAY] <= RPowLoop[half][x][x]
    BY <1>1, <2>2, LoopMonotone
  <2>4. QED
    BY <1>1, <2>2, <2>3, LoopType
<1>3. CASE n % 2 = 1
  <2>1. n % 2 # 0 /\ (n + 1) % 2 = 0 /\ (n + 1) \div 2 = half + 1 /\ half + 1 # 0
    BY <1>1, <1>3, NextNumber, SMT
  <2>2. RPow(x, n) = RPowLoop[half][x][x] /\ RPow(x, n + 1) = RPowLoop[half + 1][x][RAY]
    BY <1>1, <2>1, RPowByLoop DEF RPowStart
  <2> HIDE DEF half
  <2>3. RayMul(x, x) # NoRate
    BY <1>1, <2>1, <2>2, LoopGoesOn
  <2>4. x <= RayMul(x, x)
    BY <2>3, RayMulGrows
  <2>5. RPowLoop[half][x][x] # NoRate /\ RPowLoop[half][x][x] <= RPowLoop[half + 1][x][RAY]
    BY <1>1, <2>2, <2>4, LoopOneMore
  <2>6. QED
    BY <1>1, <2>2, <2>5, LoopType
<1>4. QED
  BY <1>2, <1>3

LEMMA RPowLater ==
  ASSUME NEW x \in Nat, x >= RAY
  PROVE  \A more \in Nat : \A n \in Nat : RPow(x, n + more) # NoRate =>
           RPow(x, n) \in Nat /\ RPow(x, n) <= RPow(x, n + more)
<1> DEFINE Good == {more \in Nat : \A n \in Nat : RPow(x, n + more) # NoRate =>
                      RPow(x, n) \in Nat /\ RPow(x, n) <= RPow(x, n + more)}
<1>1. ASSUME NEW more \in Nat, \A k \in Nat : k < more => k \in Good
      PROVE  more \in Good
  <2>1. SUFFICES ASSUME NEW n \in Nat, RPow(x, n + more) # NoRate
                 PROVE  RPow(x, n) \in Nat /\ RPow(x, n) <= RPow(x, n + more)
    OBVIOUS
  <2>2. CASE more = 0
    <3>1. n + more = n
      BY <2>2, SMT
    <3>2. RPow(x, n) \in Nat
      BY <2>1, <3>1, RPowType
    <3>3. QED
      BY <3>1, <3>2, SMT
  <2>3. CASE more # 0
    <3> DEFINE less == more - 1
               last == n + less
    <3>1. less \in Nat /\ less < more /\ last \in Nat /\ n + more = last + 1
      BY <2>3, SMT
    <3>2. RPow(x, last) \in Nat /\ RPow(x, last + 1) \in Nat /\ RPow(x, last) <= RPow(x, last + 1)
      BY <2>1, <3>1, RPowOneMore
    <3>3. less \in Good
      BY <1>1, <3>1
    <3>4. RPow(x, n) \in Nat /\ RPow(x, n) <= RPow(x, last)
      BY <3>2, <3>3, RAYAssumption, CompoundingAssumption
    <3> HIDE DEF last
    <3>5. QED
      BY <3>1, <3>2, <3>4, SMT
  <2>4. QED
    BY <2>2, <2>3
<1> HIDE DEF Good
<1>2. Good = Nat
  <2>1. Good \in SUBSET Nat
    BY DEF Good
  <2>2. QED
    BY <1>1, <2>1, NoLeastFailure
<1>3. ASSUME NEW more \in Nat
      PROVE  \A n \in Nat : RPow(x, n + more) # NoRate =>
               RPow(x, n) \in Nat /\ RPow(x, n) <= RPow(x, n + more)
  <2>1. more \in Good
    BY <1>2
  <2>2. QED
    BY <2>1, Zenon DEF Good
<1>4. QED
  BY <1>3

LEMMA CompoundedType ==
  ASSUME NEW factor \in Nat, NEW x \in Nat, NEW n \in Nat
  PROVE  /\ Compounded(factor, x, n) \in Nat \cup {NoRate}
         /\ Compounded(factor, x, n) # NoRate =>
              /\ RPow(x, n) \in Nat
              /\ RPow(x, n) * factor \in Nat /\ RPow(x, n) * factor <= U256_MAX
              /\ Compounded(factor, x, n) = (RPow(x, n) * factor) \div RAY
<1> DEFINE power == RPow(x, n)
<1>1. power \in Nat \cup {NoRate}
  BY RPowType
<1>2. power \in Nat => power * factor \in Nat
  BY SMT
<1>3. power \in Nat => (power * factor) \div RAY \in Nat
  BY <1>2, RoundedQuotient
<1> HIDE DEF power
<1>4. Compounded(factor, x, n) = IF power = NoRate THEN NoRate
                                ELSE IF power * factor > U256_MAX THEN NoRate
                                ELSE (power * factor) \div RAY
  BY DEF Compounded, power
<1>5. (power * factor > U256_MAX \/ power * factor <= U256_MAX) \/ power \notin Nat
  BY <1>2, RAYAssumption, CompoundingAssumption, SMT
<1>6. QED
  BY <1>1, <1>2, <1>3, <1>4, <1>5, RAYAssumption, CompoundingAssumption, SMT DEF power

(***************************************************************************)
(* Under a higher rate a factor is at least as high at any later time.     *)
(***************************************************************************)
LEMMA CompoundedMonotone ==
  ASSUME NEW factor \in Nat, NEW x \in Nat, NEW y \in Nat, NEW n \in Nat, x <= y,
         Compounded(factor, x, n) # NoRate, Compounded(factor, y, n) # NoRate
  PROVE  Compounded(factor, x, n) <= Compounded(factor, y, n)
<1> DEFINE px == RPow(x, n)
           py == RPow(y, n)
<1>1. /\ px \in Nat /\ py \in Nat
      /\ px * factor \in Nat /\ py * factor \in Nat
      /\ Compounded(factor, x, n) = (px * factor) \div RAY
      /\ Compounded(factor, y, n) = (py * factor) \div RAY
  BY CompoundedType
<1>2. px <= py
  BY <1>1, RAYAssumption, CompoundingAssumption, RPowMonotone
<1> HIDE DEF px, py
<1>3. px * factor <= py * factor
  BY <1>1, <1>2, ProductMonotone, SMT
<1>4. QED
  BY <1>1, <1>3, QuotientMonotone

\* What compounds without shrinking is never below what it was.
LEMMA CompoundedGrows ==
  ASSUME NEW factor \in Nat, NEW x \in Nat, NEW n \in Nat, x >= RAY,
         Compounded(factor, x, n) # NoRate
  PROVE  Compounded(factor, x, n) \in Nat /\ Compounded(factor, x, n) >= factor
<1> DEFINE power == RPow(x, n)
<1>1. /\ power \in Nat /\ power * factor \in Nat
      /\ Compounded(factor, x, n) = (power * factor) \div RAY
  BY CompoundedType
<1>2. power >= RAY /\ RAY \in Nat
  BY <1>1, RAYAssumption, CompoundingAssumption, RPowGrows
<1> HIDE DEF power
<1>3. factor * RAY <= power * factor
  <2>1. factor * RAY <= factor * power
    BY <1>1, <1>2, ProductMonotone, SMT
  <2>2. factor * power = power * factor
    BY <1>1, SMT
  <2>3. QED
    BY <2>1, <2>2
<1>4. QED
  BY <1>1, <1>3, RoundedQuotient, LargestQuotient

\* A power of one leaves the factor as it is.
LEMMA CompoundedByOne ==
  ASSUME NEW factor \in Nat, NEW x \in Nat, NEW n \in Nat,
         RPow(x, n) = RAY, RAY * factor <= U256_MAX
  PROVE  Compounded(factor, x, n) = factor
<1> DEFINE top == RAY * factor
           q   == top \div RAY
<1>1. RAY \in Nat \ {0} /\ top \in Nat /\ factor * RAY = top /\ RAY # NoRate /\ U256_MAX \in Nat
  BY RAYAssumption, CompoundingAssumption, SMT
<1>2. Compounded(factor, x, n) = q
  BY <1>1, SMT DEF Compounded
<1>3. q \in Nat /\ q * RAY <= top /\ factor <= q
  BY <1>1, RoundedQuotient, LargestQuotient, SMT
<1> HIDE DEF q
<1>4. ~ (factor + 1 <= q)
  <2>1. SUFFICES ASSUME factor + 1 <= q PROVE FALSE
    OBVIOUS
  <2>2. (factor + 1) * RAY <= q * RAY
    BY <1>1, <1>3, <2>1, ProductMonotone, SMT
  <2>3. (factor + 1) * RAY = top + RAY
    BY <1>1, SMT
  <2>4. q * RAY \in Nat
    BY <1>1, <1>3, SMT
  <2> HIDE DEF top
  <2>5. QED
    BY <1>1, <1>3, <2>2, <2>3, <2>4, SMT
<1>5. QED
  BY <1>2, <1>3, <1>4, SMT

(***************************************************************************)
(* A factor that does not shrink is at least as high at any later time.    *)
(***************************************************************************)
LEMMA CompoundedLater ==
  ASSUME NEW factor \in Nat, NEW x \in Nat, NEW n \in Nat, NEW m \in Nat, x >= RAY, n <= m,
         Compounded(factor, x, n) # NoRate, Compounded(factor, x, m) # NoRate
  PROVE  Compounded(factor, x, n) <= Compounded(factor, x, m)
<1> DEFINE pn == RPow(x, n)
           pm == RPow(x, m)
<1>1. /\ pn \in Nat /\ pm \in Nat
      /\ pn * factor \in Nat /\ pm * factor \in Nat
      /\ Compounded(factor, x, n) = (pn * factor) \div RAY
      /\ Compounded(factor, x, m) = (pm * factor) \div RAY
  BY CompoundedType
<1>2. pn <= pm
  <2> DEFINE more == m - n
  <2>1. more \in Nat /\ n + more = m
    BY SMT
  <2> HIDE DEF more
  <2>2. RPow(x, n + more) # NoRate
    BY <1>1, <2>1, RAYAssumption, CompoundingAssumption
  <2>3. QED
    BY <2>1, <2>2, RPowLater
<1> HIDE DEF pn, pm
<1>3. pn * factor <= pm * factor
  BY <1>1, <1>2, ProductMonotone, SMT
<1>4. QED
  BY <1>1, <1>3, QuotientMonotone

-----------------------------------------------------------------------------
(* Exact powers. *)

\* One factor more, given the power so far.
Factored(k, rest) == [b \in Nat |-> IF k = 0 THEN 1 ELSE b * rest[b]]

RaisedUpTo(f, N) == f = [k \in 0 .. N |-> Factored(k, f[k - 1])]

LEMMA NothingRaised == \A f, g : Factored(0, f) = Factored(0, g)
BY Zenon DEF Factored

LEMMA RaisedAgree ==
  ASSUME NEW f, NEW g, NEW M \in Nat, NEW N \in Nat, RaisedUpTo(f, M), RaisedUpTo(g, N)
  PROVE  \A k \in Nat : k <= M /\ k <= N => f[k] = g[k]
<1> DEFINE Good == {k \in Nat : k <= M /\ k <= N => f[k] = g[k]}
<1>1. ASSUME NEW k \in Nat, \A i \in Nat : i < k => i \in Good
      PROVE  k \in Good
  <2>1. SUFFICES ASSUME k <= M, k <= N PROVE f[k] = g[k]
    OBVIOUS
  <2>2. k \in 0 .. M /\ k \in 0 .. N
    BY <2>1, SMT
  <2>3. f[k] = Factored(k, f[k - 1]) /\ g[k] = Factored(k, g[k - 1])
    BY <2>2 DEF RaisedUpTo
  <2>4. CASE k = 0
    BY <2>3, <2>4, NothingRaised
  <2>5. CASE k # 0
    <3>1. k - 1 \in Nat /\ k - 1 < k /\ k - 1 <= M /\ k - 1 <= N
      BY <2>1, <2>5, SMT
    <3>2. f[k - 1] = g[k - 1]
      BY <1>1, <3>1
    <3>3. QED
      BY <2>3, <3>2
  <2>6. QED
    BY <2>4, <2>5
<1> HIDE DEF Good
<1>2. Good = Nat
  <2>1. Good \in SUBSET Nat
    BY DEF Good
  <2>2. QED
    BY <1>1, <2>1, NoLeastFailure
<1>3. QED
  BY <1>2 DEF Good

LEMMA RaisedUpToExists == \A N \in Nat : \E f : RaisedUpTo(f, N)
<1> DEFINE Good == {N \in Nat : \E f : RaisedUpTo(f, N)}
<1>1. ASSUME NEW N \in Nat, \A i \in Nat : i < N => i \in Good
      PROVE  N \in Good
  <2>1. CASE N = 0
    <3> DEFINE f == [k \in 0 .. 0 |-> Factored(k, 0)]
    <3>1. \A k \in 0 .. 0 : Factored(k, f[k - 1]) = Factored(k, 0)
      <4>1. \A k \in 0 .. 0 : k = 0
        BY SMT
      <4>2. QED
        BY <4>1, NothingRaised
    <3>2. RaisedUpTo(f, 0)
      BY <3>1 DEF RaisedUpTo
    <3>3. QED
      BY <2>1, <3>2
  <2>2. CASE N # 0
    <3>1. N - 1 \in Nat /\ N - 1 < N
      BY <2>2, SMT
    <3>2. PICK g : RaisedUpTo(g, N - 1)
      BY <1>1, <3>1
    <3> DEFINE f == [k \in 0 .. N |-> IF k = N THEN Factored(N, g[N - 1]) ELSE g[k]]
    <3>3. ASSUME NEW k \in 0 .. N PROVE f[k] = Factored(k, f[k - 1])
      <4>1. CASE k = 0
        <5>1. 0 \in 0 .. (N - 1) /\ k # N
          BY <2>2, <4>1, SMT
        <5>2. f[k] = g[0] /\ g[0] = Factored(0, g[0 - 1])
          BY <3>2, <4>1, <5>1 DEF RaisedUpTo
        <5>3. QED
          BY <4>1, <5>2, NothingRaised
      <4>2. CASE k # 0
        <5>1. /\ k - 1 \in 0 .. N /\ k - 1 # N
              /\ k # N => k \in 0 .. (N - 1)
          BY <4>2, SMT
        <5>2. f[k - 1] = g[k - 1]
          BY <5>1
        <5>3. k # N => g[k] = Factored(k, g[k - 1])
          BY <3>2, <5>1 DEF RaisedUpTo
        <5>4. CASE k = N
          BY <5>2, <5>4
        <5>5. CASE k # N
          BY <5>2, <5>3, <5>5
        <5>6. QED
          BY <5>4, <5>5
      <4>3. QED
        BY <4>1, <4>2
    <3>4. RaisedUpTo(f, N)
      <4>1. f = [k \in 0 .. N |-> f[k]]
        OBVIOUS
      <4> HIDE DEF f
      <4>2. [k \in 0 .. N |-> f[k]] = [k \in 0 .. N |-> Factored(k, f[k - 1])]
        BY <3>3
      <4>3. QED
        BY <4>1, <4>2, Zenon DEF RaisedUpTo
    <3>5. QED
      BY <3>4
  <2>3. QED
    BY <2>1, <2>2
<1> HIDE DEF Good
<1>2. Good = Nat
  <2>1. Good \in SUBSET Nat
    BY DEF Good
  <2>2. QED
    BY <1>1, <2>1, NoLeastFailure
<1>3. QED
  BY <1>2 DEF Good

LEMMA RaisedExists == \E f : f = [k \in Nat |-> Factored(k, f[k - 1])]
<1> DEFINE upTo(N) == CHOOSE f : RaisedUpTo(f, N)
           f == [k \in Nat |-> upTo(k)[k]]
<1>1. \A N \in Nat : RaisedUpTo(upTo(N), N)
  BY RaisedUpToExists
<1> HIDE DEF upTo
<1>2. ASSUME NEW k \in Nat PROVE f[k] = Factored(k, f[k - 1])
  <2>1. upTo(k)[k] = Factored(k, upTo(k)[k - 1])
    <3> DEFINE g == upTo(k)
    <3>1. RaisedUpTo(g, k)
      BY <1>1
    <3>2. k \in 0 .. k
      BY SMT
    <3> HIDE DEF g
    <3>3. RaisedUpTo(g, k) => g[k] = Factored(k, g[k - 1])
      BY <3>2 DEF RaisedUpTo
    <3>4. QED
      BY <3>1, <3>3 DEF g
  <2>2. CASE k = 0
    BY <2>1, <2>2, NothingRaised
  <2>3. CASE k # 0
    <3>1. k - 1 \in Nat /\ k - 1 <= k /\ k - 1 <= k - 1
      BY <2>3, SMT
    <3>2. upTo(k)[k - 1] = upTo(k - 1)[k - 1]
      BY <1>1, <3>1, RaisedAgree
    <3>3. QED
      BY <2>1, <3>1, <3>2
  <2>4. QED
    BY <2>2, <2>3
<1>3. f = [k \in Nat |-> f[k]]
  OBVIOUS
<1> HIDE DEF f
<1>4. [k \in Nat |-> f[k]] = [k \in Nat |-> Factored(k, f[k - 1])]
  BY <1>2
<1>5. QED
  BY <1>3, <1>4, Zenon

LEMMA RaisedUnrolled ==
  ASSUME NEW k \in Nat, NEW b \in Nat
  PROVE  Raised[k][b] = IF k = 0 THEN 1 ELSE b * Raised[k - 1][b]
<1>1. Raised = CHOOSE f : f = [i \in Nat |-> Factored(i, f[i - 1])]
  BY Zenon DEF Raised, Factored
<1>2. Raised = [i \in Nat |-> Factored(i, Raised[i - 1])]
  BY <1>1, RaisedExists, Zenon
<1>3. Raised[k] = Factored(k, Raised[k - 1])
  BY <1>2
<1> DEFINE rest == Raised[k - 1]
<1> HIDE DEF rest
<1>4. Factored(k, rest)[b] = IF k = 0 THEN 1 ELSE b * rest[b]
  BY DEF Factored
<1>5. QED
  BY <1>3, <1>4 DEF rest

LEMMA RaisedSteps ==
  ASSUME NEW b \in Nat
  PROVE  /\ Raised[0][b] = 1
         /\ \A k \in Nat : Raised[k + 1][b] = b * Raised[k][b]
<1>1. Raised[0][b] = 1
  BY RaisedUnrolled
<1>2. ASSUME NEW k \in Nat PROVE Raised[k + 1][b] = b * Raised[k][b]
  <2>1. k + 1 \in Nat /\ k + 1 # 0 /\ (k + 1) - 1 = k
    BY SMT
  <2>2. Raised[k + 1][b] = b * Raised[(k + 1) - 1][b]
    BY <2>1, RaisedUnrolled
  <2>3. QED
    BY <2>1, <2>2
<1>3. QED
  BY <1>1, <1>2

\* What holds of 0 and goes on holds of every number.
LEMMA GoesOn ==
  ASSUME NEW Good \in SUBSET Nat, 0 \in Good, \A k \in Good : k + 1 \in Good
  PROVE  Good = Nat
<1>1. ASSUME NEW m \in Nat, \A k \in Nat : k < m => k \in Good
      PROVE  m \in Good
  <2>1. CASE m = 0
    BY <2>1
  <2>2. CASE m # 0
    <3>1. m - 1 \in Nat /\ m - 1 < m /\ (m - 1) + 1 = m
      BY <2>2, SMT
    <3>2. m - 1 \in Good
      BY <1>1, <3>1
    <3>3. QED
      BY <3>1, <3>2
  <2>3. QED
    BY <2>1, <2>2
<1>2. QED
  BY <1>1, NoLeastFailure

LEMMA RaisedType ==
  ASSUME NEW b \in Nat \ {0}
  PROVE  \A k \in Nat : Raised[k][b] \in Nat \ {0}
<1> DEFINE Good == {k \in Nat : Raised[k][b] \in Nat \ {0}}
<1>1. 0 \in Good
  BY RaisedSteps
<1>2. ASSUME NEW k \in Good PROVE k + 1 \in Good
  <2> DEFINE r == Raised[k][b]
  <2>1. r \in Nat \ {0} /\ k \in Nat /\ Raised[k + 1][b] = b * r
    BY RaisedSteps
  <2> HIDE DEF r
  <2>2. b * r \in Nat \ {0} /\ k + 1 \in Nat
    BY <2>1, SMT
  <2>3. QED
    BY <2>1, <2>2
<1> HIDE DEF Good
<1>3. Good = Nat
  <2>1. Good \in SUBSET Nat
    BY DEF Good
  <2>2. QED
    BY <1>1, <1>2, <2>1, GoesOn
<1>4. QED
  BY <1>3 DEF Good

LEMMA RaisedAdds ==
  ASSUME NEW b \in Nat \ {0}, NEW i \in Nat
  PROVE  \A j \in Nat : Raised[i + j][b] = Raised[i][b] * Raised[j][b]
<1> DEFINE Good == {j \in Nat : Raised[i + j][b] = Raised[i][b] * Raised[j][b]}
<1>1. 0 \in Good
  <2>1. i + 0 = i /\ Raised[0][b] = 1 /\ Raised[i][b] \in Nat
    BY RaisedSteps, RaisedType, SMT
  <2>2. QED
    BY <2>1, SMT
<1>2. ASSUME NEW j \in Good PROVE j + 1 \in Good
  <2> DEFINE p == Raised[i][b]
             q == Raised[j][b]
  <2>1. j \in Nat /\ i + j \in Nat /\ i + (j + 1) = (i + j) + 1 /\ j + 1 \in Nat
    BY SMT
  <2>2. p \in Nat /\ q \in Nat /\ Raised[i + j][b] = p * q
    BY <2>1, RaisedType
  <2>3. Raised[i + (j + 1)][b] = b * (p * q) /\ Raised[j + 1][b] = b * q
    BY <2>1, <2>2, RaisedSteps
  <2> HIDE DEF p, q
  <2>4. b * (p * q) = p * (b * q)
    BY <2>2, SMT
  <2>5. QED
    BY <2>1, <2>3, <2>4 DEF p
<1> HIDE DEF Good
<1>3. Good = Nat
  <2>1. Good \in SUBSET Nat
    BY DEF Good
  <2>2. QED
    BY <1>1, <1>2, <2>1, GoesOn
<1>4. QED
  BY <1>3 DEF Good

-----------------------------------------------------------------------------
(* How far the roundings take a product from the power. *)

Unit(k)    == Raised[k - 1][RAY * 2 * RAY]
Upper(b, k) == Raised[k][b] * Raised[k - 1][2 * RAY + 1]
Lower(b, k) == Raised[k][b] * Raised[k - 1][2 * RAY - 1]

\* v is b to the power of k, after k - 1 roundings.
Nearly(v, b, k) == Lower(b, k) <= v * Unit(k) /\ v * Unit(k) <= Upper(b, k)

LEMMA Bases3 ==
  /\ RAY \in Nat \ {0}
  /\ RAY * 2 * RAY \in Nat \ {0} /\ 2 * RAY + 1 \in Nat \ {0} /\ 2 * RAY - 1 \in Nat \ {0}
BY RAYAssumption, CompoundingAssumption, SMT

LEMMA OneLessAdds ==
  ASSUME NEW b \in Nat \ {0}, NEW i \in Nat \ {0}, NEW j \in Nat \ {0}
  PROVE  Raised[(i + j) - 1][b] = (Raised[i - 1][b] * Raised[j - 1][b]) * b
<1> DEFINE p == Raised[i - 1][b]
           q == Raised[j - 1][b]
<1>1. /\ i - 1 \in Nat /\ j - 1 \in Nat /\ (i - 1) + (j - 1) \in Nat
      /\ (i + j) - 1 = ((i - 1) + (j - 1)) + 1
  BY SMT
<1>2. Raised[(i - 1) + (j - 1)][b] = p * q /\ p \in Nat /\ q \in Nat
  BY <1>1, RaisedAdds, RaisedType
<1>3. Raised[(i + j) - 1][b] = b * (p * q)
  BY <1>1, <1>2, RaisedSteps
<1> HIDE DEF p, q
<1>4. b * (p * q) = (p * q) * b
  BY <1>2, SMT
<1>5. QED
  BY <1>3, <1>4 DEF p, q

\* The parts of a bound.
LEMMA BoundTypes ==
  ASSUME NEW b \in Nat \ {0}, NEW k \in Nat \ {0}
  PROVE  /\ Unit(k) \in Nat \ {0} /\ Upper(b, k) \in Nat \ {0} /\ Lower(b, k) \in Nat
<1>1. k - 1 \in Nat /\ k \in Nat
  BY SMT
<1> DEFINE p == Raised[k][b]
           q == Raised[k - 1][2 * RAY + 1]
           r == Raised[k - 1][2 * RAY - 1]
<1>2. Unit(k) \in Nat \ {0} /\ p \in Nat \ {0} /\ q \in Nat \ {0} /\ r \in Nat
  BY <1>1, Bases3, RaisedType DEF Unit
<1>3. Upper(b, k) = p * q /\ Lower(b, k) = p * r
  BY DEF Upper, Lower
<1> HIDE DEF p, q, r
<1>4. p * q \in Nat \ {0} /\ p * r \in Nat
  BY <1>2, SMT
<1>5. QED
  BY <1>2, <1>3, <1>4

LEMMA Regrouped ==
  ASSUME NEW p \in Nat, NEW q \in Nat, NEW s \in Nat, NEW t \in Nat, NEW c \in Nat
  PROVE  (p * q) * ((s * t) * c) = ((p * s) * (q * t)) * c
BY SMT

LEMMA BoundsAdd ==
  ASSUME NEW b \in Nat \ {0}, NEW i \in Nat \ {0}, NEW j \in Nat \ {0}
  PROVE  /\ Unit(i + j)     = (Unit(i) * Unit(j)) * (RAY * 2 * RAY)
         /\ Upper(b, i + j) = (Upper(b, i) * Upper(b, j)) * (2 * RAY + 1)
         /\ Lower(b, i + j) = (Lower(b, i) * Lower(b, j)) * (2 * RAY - 1)
<1>1. i - 1 \in Nat /\ j - 1 \in Nat /\ i \in Nat /\ j \in Nat
  BY SMT
<1>2. Unit(i + j) = (Unit(i) * Unit(j)) * (RAY * 2 * RAY)
  BY Bases3, OneLessAdds DEF Unit
<1>3. ASSUME NEW c \in Nat \ {0}
      PROVE  Raised[i + j][b] * Raised[(i + j) - 1][c]
               = ((Raised[i][b] * Raised[i - 1][c]) * (Raised[j][b] * Raised[j - 1][c])) * c
  <2>1. Raised[i + j][b] = Raised[i][b] * Raised[j][b]
    BY <1>1, RaisedAdds
  <2>2. Raised[(i + j) - 1][c] = (Raised[i - 1][c] * Raised[j - 1][c]) * c
    BY OneLessAdds
  <2>3. /\ Raised[i][b] \in Nat /\ Raised[j][b] \in Nat
        /\ Raised[i - 1][c] \in Nat /\ Raised[j - 1][c] \in Nat
    BY <1>1, RaisedType
  <2>4. QED
    BY <2>1, <2>2, <2>3, Regrouped
<1>4. Upper(b, i + j) = (Upper(b, i) * Upper(b, j)) * (2 * RAY + 1)
  BY <1>3, Bases3 DEF Upper
<1>5. Lower(b, i + j) = (Lower(b, i) * Lower(b, j)) * (2 * RAY - 1)
  BY <1>3, Bases3 DEF Lower
<1>6. QED
  BY <1>2, <1>4, <1>5

\* One product of two numbers of at least one: half a unit in at least RAY.
LEMMA OneRounding ==
  ASSUME NEW v \in Nat, NEW w \in Nat, v >= RAY, w >= RAY, RayMul(v, w) # NoRate
  PROVE  /\ RayMul(v, w) \in Nat /\ RayMul(v, w) >= RAY
         /\ RayMul(v, w) * (RAY * 2 * RAY) <= (v * w) * (2 * RAY + 1)
         /\ RayMul(v, w) * (RAY * 2 * RAY) >= (v * w) * (2 * RAY - 1)
<1> DEFINE vw   == v * w
           half == RAY \div 2
           top  == vw + half
           r    == top \div RAY
           rr   == r * RAY
<1>1. RAY \in Nat \ {0} /\ RAY \in Nat
  BY RAYAssumption, CompoundingAssumption
<1>2. vw \in Nat /\ RAY * RAY \in Nat /\ RAY * RAY <= vw
  BY <1>1, ProductMonotone
<1>3. half \in Nat /\ 2 * half <= RAY /\ RAY - 1 <= 2 * half
  BY <1>1, SMT
<1>4. RayMul(v, w) = r /\ RayMul(v, w) \in Nat /\ RayMul(v, w) >= v
  BY RayMulType, RayMulGrows
<1>5. top \in Nat
  BY <1>2, <1>3, SMT
<1>6. r \in Nat /\ rr <= top /\ top < rr + RAY
  BY <1>5, RoundedQuotient
<1> HIDE DEF r
<1>7. rr \in Nat
  BY <1>1, <1>6, SMT
<1>8. r * (RAY * 2 * RAY) = (2 * rr) * RAY
  BY <1>1, <1>6, SMT
<1> HIDE DEF rr
<1>9. 2 * rr <= 2 * vw + RAY /\ 2 * rr >= 2 * vw - RAY
  BY <1>1, <1>2, <1>3, <1>6, <1>7, SMT
<1> HIDE DEF top, half, vw
<1>10. /\ (2 * rr) * RAY <= (2 * vw + RAY) * RAY
       /\ (2 * rr) * RAY >= (2 * vw - RAY) * RAY
  BY <1>1, <1>2, <1>7, <1>9, SMT
<1>11. /\ (2 * vw + RAY) * RAY = 2 * (vw * RAY) + RAY * RAY
       /\ (2 * vw - RAY) * RAY = 2 * (vw * RAY) - RAY * RAY
       /\ vw * (2 * RAY + 1) = 2 * (vw * RAY) + vw
       /\ vw * (2 * RAY - 1) = 2 * (vw * RAY) - vw
       /\ vw * RAY \in Nat /\ (2 * rr) * RAY \in Nat
  BY <1>1, <1>2, <1>7, SMT
<1>12. /\ (2 * rr) * RAY <= vw * (2 * RAY + 1)
       /\ (2 * rr) * RAY >= vw * (2 * RAY - 1)
  BY <1>2, <1>10, <1>11, SMT
<1>13. RayMul(v, w) >= RAY
  BY <1>1, <1>4, <1>6, SMT
<1>14. QED
  BY <1>4, <1>8, <1>12, <1>13 DEF vw

\* The roundings of a product are those of its factors and one more.
LEMMA NearlyMultiplies ==
  ASSUME NEW b \in Nat \ {0}, NEW i \in Nat \ {0}, NEW j \in Nat \ {0},
         NEW v \in Nat, NEW w \in Nat, v >= RAY, w >= RAY,
         Nearly(v, b, i), Nearly(w, b, j), RayMul(v, w) # NoRate
  PROVE  Nearly(RayMul(v, w), b, i + j)
<1> DEFINE r == RayMul(v, w)
           c == RAY * 2 * RAY
           s == Unit(i)
           t == Unit(j)
           up == Upper(b, i) * Upper(b, j)
           lo == Lower(b, i) * Lower(b, j)
           mid == (v * s) * (w * t)
           more == 2 * RAY + 1
           less == 2 * RAY - 1
<1>1. /\ r \in Nat /\ c \in Nat /\ s \in Nat /\ t \in Nat /\ more \in Nat /\ less \in Nat
      /\ r * c <= (v * w) * more /\ r * c >= (v * w) * less
  BY Bases3, BoundTypes, OneRounding
<1>2. lo \in Nat /\ mid \in Nat /\ up \in Nat /\ lo <= mid /\ mid <= up
  <2>1. /\ Upper(b, i) \in Nat /\ Upper(b, j) \in Nat /\ Lower(b, i) \in Nat /\ Lower(b, j) \in Nat
        /\ v * s \in Nat /\ w * t \in Nat
    BY <1>1, BoundTypes, SMT
  <2>2. Lower(b, i) <= v * s /\ v * s <= Upper(b, i) /\ Lower(b, j) <= w * t /\ w * t <= Upper(b, j)
    BY DEF Nearly
  <2> HIDE DEF s, t
  <2>3. QED
    BY <2>1, <2>2, ProductMonotone
<1>3. r * Unit(i + j) = (r * c) * (s * t)
  <2>1. Unit(i + j) = (s * t) * c
    BY BoundsAdd
  <2> HIDE DEF r, c, s, t
  <2>2. r * ((s * t) * c) = (r * c) * (s * t)
    BY <1>1, SMT
  <2>3. QED
    BY <2>1, <2>2
<1>4. Upper(b, i + j) = up * more /\ Lower(b, i + j) = lo * less
  BY BoundsAdd
<1> HIDE DEF r, c, s, t, up, lo, more, less
<1>5. ((v * w) * more) * (s * t) = mid * more /\ ((v * w) * less) * (s * t) = mid * less
  BY <1>1, SMT
<1>6. s * t \in Nat /\ r * c \in Nat /\ (v * w) * more \in Nat /\ (v * w) * less \in Nat
  BY <1>1, SMT
<1>7. (r * c) * (s * t) <= mid * more /\ (r * c) * (s * t) >= mid * less
  BY <1>1, <1>5, <1>6, ProductMonotone
<1> HIDE DEF mid
<1>8. mid * more <= up * more /\ lo * less <= mid * less
  BY <1>1, <1>2, ProductMonotone
<1>9. /\ (r * c) * (s * t) \in Nat /\ mid * more \in Nat /\ mid * less \in Nat
      /\ up * more \in Nat /\ lo * less \in Nat
  BY <1>1, <1>2, <1>6, SMT
<1>10. (r * c) * (s * t) <= up * more /\ lo * less <= (r * c) * (s * t)
  BY <1>7, <1>8, <1>9, SMT
<1>11. QED
  BY <1>3, <1>4, <1>10 DEF Nearly, r

LEMMA NearlyOnce == ASSUME NEW b \in Nat \ {0} PROVE Nearly(b, b, 1)
<1>1. /\ 1 - 1 = 0 /\ 1 = 0 + 1
      /\ Raised[0][RAY * 2 * RAY] = 1 /\ Raised[0][2 * RAY + 1] = 1 /\ Raised[0][2 * RAY - 1] = 1
  BY Bases3, RaisedSteps, SMT
<1>2. Raised[1][b] = b * Raised[0][b] /\ Raised[0][b] = 1
  BY <1>1, RaisedSteps
<1>3. Unit(1) = 1 /\ Upper(b, 1) = b * 1 /\ Lower(b, 1) = b * 1
  BY <1>1, <1>2, SMT DEF Unit, Upper, Lower
<1>4. QED
  BY <1>3, SMT DEF Nearly

-----------------------------------------------------------------------------
(* Growing: v is no more than w, n times as large by p / u every time.     *)

AtMostGrown(v, w, p, u, n) == v * Raised[n][u] <= w * Raised[n][p]

LEMMA RaisedNat ==
  ASSUME NEW b \in Nat
  PROVE  \A k \in Nat : Raised[k][b] \in Nat
<1> DEFINE Good == {k \in Nat : Raised[k][b] \in Nat}
<1>1. 0 \in Good
  BY RaisedSteps
<1>2. ASSUME NEW k \in Good PROVE k + 1 \in Good
  <2> DEFINE r == Raised[k][b]
  <2>1. r \in Nat /\ k \in Nat /\ Raised[k + 1][b] = b * r
    BY RaisedSteps
  <2> HIDE DEF r
  <2>2. b * r \in Nat /\ k + 1 \in Nat
    BY <2>1, SMT
  <2>3. QED
    BY <2>1, <2>2
<1> HIDE DEF Good
<1>3. Good = Nat
  <2>1. Good \in SUBSET Nat
    BY DEF Good
  <2>2. QED
    BY <1>1, <1>2, <2>1, GoesOn
<1>4. QED
  BY <1>3 DEF Good

LEMMA RaisedSum ==
  ASSUME NEW b \in Nat, NEW i \in Nat
  PROVE  \A j \in Nat : Raised[i + j][b] = Raised[i][b] * Raised[j][b]
<1>1. CASE b # 0
  BY <1>1, RaisedAdds
<1>2. CASE b = 0
  <2>1. ASSUME NEW j \in Nat PROVE Raised[i + j][b] = Raised[i][b] * Raised[j][b]
    <3>1. ASSUME NEW k \in Nat, k # 0 PROVE Raised[k][b] = 0
      <4>1. k - 1 \in Nat /\ (k - 1) + 1 = k
        BY <3>1, SMT
      <4>2. Raised[(k - 1) + 1][b] = b * Raised[k - 1][b] /\ Raised[k - 1][b] \in Nat
        BY <4>1, RaisedSteps, RaisedNat
      <4>3. QED
        BY <1>2, <4>1, <4>2, SMT
    <3>2. Raised[0][b] = 1 /\ Raised[i][b] \in Nat /\ Raised[j][b] \in Nat
      BY RaisedSteps, RaisedNat
    <3>3. CASE j = 0
      <4>1. i + j = i
        BY <3>3, SMT
      <4>2. QED
        BY <3>2, <3>3, <4>1, SMT
    <3>4. CASE j # 0
      <4>1. i + j \in Nat /\ i + j # 0
        BY <3>4, SMT
      <4>2. Raised[i + j][b] = 0 /\ Raised[j][b] = 0
        BY <3>1, <3>4, <4>1
      <4>3. QED
        BY <3>2, <4>2, SMT
    <3>5. QED
      BY <3>3, <3>4
  <2>2. QED
    BY <2>1
<1>3. QED
  BY <1>1, <1>2

LEMMA RaisedTimes ==
  ASSUME NEW a \in Nat, NEW b \in Nat
  PROVE  \A k \in Nat : Raised[k][a * b] = Raised[k][a] * Raised[k][b]
<1> DEFINE c == a * b
           Good == {k \in Nat : Raised[k][c] = Raised[k][a] * Raised[k][b]}
<1>1. c \in Nat
  BY SMT
<1>2. 0 \in Good
  <2> HIDE DEF c
  <2>1. Raised[0][a] = 1 /\ Raised[0][b] = 1 /\ Raised[0][c] = 1
    BY <1>1, RaisedSteps
  <2>2. QED
    BY <2>1, SMT
<1>3. ASSUME NEW k \in Good PROVE k + 1 \in Good
  <2> DEFINE p == Raised[k][a]
             q == Raised[k][b]
  <2>1. k \in Nat /\ k + 1 \in Nat /\ p \in Nat /\ q \in Nat /\ Raised[k][c] = p * q
    BY RaisedNat, SMT
  <2> HIDE DEF c
  <2>2. Raised[k + 1][a] = a * p /\ Raised[k + 1][b] = b * q /\ Raised[k + 1][c] = c * Raised[k][c]
    BY <1>1, <2>1, RaisedSteps
  <2> HIDE DEF p, q
  <2>3. (a * b) * (p * q) = (a * p) * (b * q)
    BY <2>1, SMT
  <2>4. Raised[k + 1][c] = Raised[k + 1][a] * Raised[k + 1][b]
    BY <2>1, <2>2, <2>3 DEF c
  <2>5. QED
    BY <2>1, <2>4
<1> HIDE DEF Good
<1>4. Good = Nat
  <2>1. Good \in SUBSET Nat
    BY DEF Good
  <2>2. QED
    BY <1>2, <1>3, <2>1, GoesOn
<1>5. QED
  BY <1>4 DEF Good

LEMMA RaisedMonotone ==
  ASSUME NEW a \in Nat, NEW b \in Nat, a <= b
  PROVE  \A k \in Nat : Raised[k][a] <= Raised[k][b]
<1> DEFINE Good == {k \in Nat : Raised[k][a] <= Raised[k][b]}
<1>1. 0 \in Good
  BY RaisedSteps, SMT
<1>2. ASSUME NEW k \in Good PROVE k + 1 \in Good
  <2> DEFINE p == Raised[k][a]
             q == Raised[k][b]
  <2>1. k \in Nat /\ k + 1 \in Nat /\ p \in Nat /\ q \in Nat /\ p <= q
    BY RaisedNat, SMT
  <2>2. Raised[k + 1][a] = a * p /\ Raised[k + 1][b] = b * q
    BY <2>1, RaisedSteps
  <2> HIDE DEF p, q
  <2>3. a * p <= b * q
    BY <2>1, ProductMonotone
  <2>4. QED
    BY <2>1, <2>2, <2>3
<1> HIDE DEF Good
<1>3. Good = Nat
  <2>1. Good \in SUBSET Nat
    BY DEF Good
  <2>2. QED
    BY <1>1, <1>2, <2>1, GoesOn
<1>4. QED
  BY <1>3 DEF Good

(***************************************************************************)
(* Bernoulli's inequality: what falls n times by d in c loses no more than *)
(* n * d in c.                                                             *)
(***************************************************************************)
LEMMA LossesAdd ==
  ASSUME NEW c \in Nat, NEW d \in Nat, d <= c
  PROVE  \A k \in Nat : Raised[k][c] * (c - k * d) <= Raised[k][c - d] * c
<1> DEFINE a == c - d
           Good == {k \in Nat : Raised[k][c] * (c - k * d) <= Raised[k][a] * c}
<1>1. a \in Nat /\ c = a + d
  BY SMT
<1> HIDE DEF a
<1>2. 0 \in Good
  <2>1. Raised[0][c] = 1 /\ Raised[0][a] = 1
    BY <1>1, RaisedSteps
  <2>2. QED
    BY <2>1, SMT
<1>3. ASSUME NEW k \in Good PROVE k + 1 \in Good
  <2> DEFINE p == Raised[k][c]
             q == Raised[k][a]
             l == k * d
  <2>1. k \in Nat /\ k + 1 \in Nat /\ p \in Nat /\ q \in Nat /\ l \in Nat /\ p * (c - l) <= q * c
    BY <1>1, RaisedNat, SMT
  <2>2. Raised[k + 1][c] = c * p /\ Raised[k + 1][a] = a * q
    BY <1>1, <2>1, RaisedSteps
  <2>3. (k + 1) * d = l + d
    BY <2>1, SMT
  <2>4. l * d \in Nat
    BY <2>1, SMT
  <2> HIDE DEF p, q, l
  <2>5. a * (p * (c - l)) <= a * (q * c)
    BY <1>1, <2>1, SMT
  <2>6. p * (l * d) \in Nat
    BY <2>1, <2>4, SMT
  <2>7. (c * p) * (c - (l + d)) <= (a * p) * (c - l)
    <3>1. (c * p) * (c - (l + d)) = p * (c * (a - l))
      BY <1>1, <2>1, SMT
    <3>2. (a * p) * (c - l) = p * (a * (c - l))
      BY <1>1, <2>1, SMT
    <3>3. a * (c - l) = c * (a - l) + l * d
      BY <1>1, <2>1, SMT
    <3>4. c * (a - l) \in Int
      BY <1>1, <2>1, SMT
    <3>5. p * (a * (c - l)) = p * (c * (a - l)) + p * (l * d)
      BY <2>1, <2>4, <3>3, <3>4, SMT
    <3>6. p * (c * (a - l)) \in Int
      BY <2>1, <3>4, SMT
    <3>7. QED
      BY <2>6, <3>1, <3>2, <3>5, <3>6, SMT
  <2>8. (a * p) * (c - l) = a * (p * (c - l)) /\ a * (q * c) = (a * q) * c
    BY <1>1, <2>1, SMT
  <2>9. (c * p) * (c - (l + d)) \in Int /\ a * (p * (c - l)) \in Int /\ a * (q * c) \in Int
    BY <1>1, <2>1, SMT
  <2>10. (c * p) * (c - (l + d)) <= (a * q) * c
    BY <2>5, <2>7, <2>8, <2>9, SMT
  <2>11. QED
    BY <2>1, <2>2, <2>3, <2>10
<1> HIDE DEF Good
<1>4. Good = Nat
  <2>1. Good \in SUBSET Nat
    BY DEF Good
  <2>2. QED
    BY <1>2, <1>3, <2>1, GoesOn
<1>5. QED
  BY <1>4 DEF Good, a

\* Less than what has not grown more has not grown more.
LEMMA LessGrown ==
  ASSUME NEW v \in Nat, NEW x \in Nat, NEW w \in Nat, NEW p \in Nat, NEW u \in Nat, NEW n \in Nat,
         x <= v, AtMostGrown(v, w, p, u, n)
  PROVE  AtMostGrown(x, w, p, u, n)
<1> DEFINE un == Raised[n][u]
           pn == Raised[n][p]
<1>1. un \in Nat /\ pn \in Nat
  BY RaisedNat
<1>2. v * un <= w * pn
  BY DEF AtMostGrown
<1> HIDE DEF un, pn
<1>3. x * un <= v * un /\ x * un \in Nat /\ v * un \in Nat /\ w * pn \in Nat
  BY <1>1, ProductMonotone, SMT
<1>4. x * un <= w * pn
  BY <1>2, <1>3, SMT
<1>5. QED
  BY <1>4 DEF AtMostGrown, un, pn

\* First for i times, then for j.
LEMMA GrownOn ==
  ASSUME NEW v \in Nat, NEW w \in Nat, NEW x \in Nat, NEW p \in Nat, NEW u \in Nat,
         NEW i \in Nat, NEW j \in Nat, AtMostGrown(v, w, p, u, i), AtMostGrown(x, v, p, u, j)
  PROVE  AtMostGrown(x, w, p, u, i + j)
<1> DEFINE pi == Raised[i][p]
           pj == Raised[j][p]
           ui == Raised[i][u]
           uj == Raised[j][u]
<1>1. pi \in Nat /\ pj \in Nat /\ ui \in Nat /\ uj \in Nat
  BY RaisedNat
<1>2. Raised[i + j][p] = pi * pj /\ Raised[i + j][u] = ui * uj
  BY RaisedSum
<1>3. v * ui <= w * pi /\ x * uj <= v * pj
  BY DEF AtMostGrown
<1> HIDE DEF pi, pj, ui, uj
<1>4. /\ (x * uj) * ui <= (v * pj) * ui
      /\ (v * ui) * pj <= (w * pi) * pj
  <2>1. x * uj \in Nat /\ v * pj \in Nat /\ v * ui \in Nat /\ w * pi \in Nat
    BY <1>1, SMT
  <2>2. QED
    BY <1>1, <1>3, <2>1, ProductMonotone, SMT
<1>5. /\ (x * uj) * ui = x * (ui * uj) /\ (v * pj) * ui = (v * ui) * pj
      /\ (w * pi) * pj = w * (pi * pj)
      /\ x * (ui * uj) \in Nat /\ (v * ui) * pj \in Nat /\ w * (pi * pj) \in Nat
  BY <1>1, SMT
<1>6. x * (ui * uj) <= w * (pi * pj)
  BY <1>4, <1>5, SMT
<1>7. QED
  BY <1>2, <1>6 DEF AtMostGrown

\* What grows by more grows to more.
LEMMA GrownFaster ==
  ASSUME NEW v \in Nat, NEW w \in Nat, NEW n \in Nat,
         NEW p \in Nat, NEW u \in Nat \ {0}, NEW q \in Nat, NEW t \in Nat,
         AtMostGrown(v, w, p, u, n), p * t <= q * u
  PROVE  AtMostGrown(v, w, q, t, n)
<1> DEFINE pn == Raised[n][p]
           un == Raised[n][u]
           qn == Raised[n][q]
           tn == Raised[n][t]
<1>1. /\ pn \in Nat /\ qn \in Nat /\ un \in Nat \ {0} /\ tn \in Nat
      /\ v * un <= w * pn
  BY RaisedNat, RaisedType DEF AtMostGrown
<1>2. pn * tn <= qn * un
  <2>1. p * t \in Nat /\ q * u \in Nat
    BY SMT
  <2>2. Raised[n][p * t] <= Raised[n][q * u]
    BY <2>1, RaisedMonotone
  <2>3. Raised[n][p * t] = Raised[n][p] * Raised[n][t]
    BY RaisedTimes, Zenon
  <2>4. Raised[n][q * u] = Raised[n][q] * Raised[n][u]
    <3>1. u \in Nat
      OBVIOUS
    <3>2. QED
      BY <3>1, RaisedTimes, Zenon
  <2>5. QED
    BY <2>2, <2>3, <2>4
<1> HIDE DEF pn, un, qn, tn
<1>3. (v * un) * tn <= (w * pn) * tn /\ w * (pn * tn) <= w * (qn * un)
  <2>1. v * un \in Nat /\ w * pn \in Nat /\ pn * tn \in Nat /\ qn * un \in Nat
    BY <1>1, SMT
  <2>2. QED
    BY <1>1, <1>2, <2>1, ProductMonotone, SMT
<1>4. /\ (v * un) * tn = (v * tn) * un /\ (w * pn) * tn = w * (pn * tn)
      /\ w * (qn * un) = (w * qn) * un
      /\ (v * tn) * un \in Nat /\ w * (pn * tn) \in Nat /\ (w * qn) * un \in Nat
      /\ v * tn \in Nat /\ w * qn \in Nat
  BY <1>1, SMT
<1>5. (v * tn) * un <= (w * qn) * un
  BY <1>3, <1>4, SMT
<1>6. v * tn <= w * qn
  BY <1>1, <1>4, <1>5, CancelFactor
<1>7. QED
  BY <1>6 DEF AtMostGrown, qn, tn

\* One bound from above and one from below.
LEMMA GrownBetween ==
  ASSUME NEW v \in Nat, NEW w \in Nat, NEW x \in Nat, NEW n \in Nat,
         NEW p \in Nat, NEW u \in Nat, NEW q \in Nat, NEW t \in Nat,
         AtMostGrown(v, w, p, u, n), AtMostGrown(w, x, t, q, n)
  PROVE  AtMostGrown(v, x, p * t, u * q, n)
<1> DEFINE pn == Raised[n][p]
           un == Raised[n][u]
           qn == Raised[n][q]
           tn == Raised[n][t]
<1>1. /\ pn \in Nat /\ qn \in Nat /\ un \in Nat /\ tn \in Nat
      /\ v * un <= w * pn /\ w * qn <= x * tn
  BY RaisedNat DEF AtMostGrown
<1>2. Raised[n][p * t] = pn * tn /\ Raised[n][u * q] = un * qn
  <2>1. Raised[n][p * t] = Raised[n][p] * Raised[n][t]
    BY RaisedTimes
  <2>2. Raised[n][u * q] = Raised[n][u] * Raised[n][q]
    BY RaisedTimes
  <2>3. QED
    BY <2>1, <2>2
<1> HIDE DEF pn, un, qn, tn
<1>3. (v * un) * qn <= (w * pn) * qn /\ (w * qn) * pn <= (x * tn) * pn
  <2>1. v * un \in Nat /\ w * pn \in Nat /\ w * qn \in Nat /\ x * tn \in Nat
    BY <1>1, SMT
  <2>2. QED
    BY <1>1, <2>1, ProductMonotone, SMT
<1>4. /\ (v * un) * qn = v * (un * qn) /\ (w * pn) * qn = (w * qn) * pn
      /\ (x * tn) * pn = x * (pn * tn)
      /\ v * (un * qn) \in Nat /\ (w * qn) * pn \in Nat /\ x * (pn * tn) \in Nat
  BY <1>1, SMT
<1>5. v * (un * qn) <= x * (pn * tn)
  BY <1>3, <1>4, SMT
<1>6. QED
  BY <1>2, <1>5 DEF AtMostGrown

\* What is apart by c / (c - d) every time is not apart by more than c / (c - n * d).
LEMMA GrownApart ==
  ASSUME NEW v \in Nat, NEW x \in Nat, NEW n \in Nat, NEW c \in Nat \ {0}, NEW d \in Nat, d <= c,
         AtMostGrown(v, x, c, c - d, n)
  PROVE  v * (c - n * d) <= x * c
<1> DEFINE cn   == Raised[n][c]
           an   == Raised[n][c - d]
           left == c - n * d
<1>1. /\ cn \in Nat \ {0} /\ an \in Nat /\ left \in Int /\ c - d \in Nat
      /\ v * an <= x * cn /\ cn * left <= an * c
  <2>1. c - d \in Nat /\ n * d \in Nat
    BY SMT
  <2>2. cn * left <= an * c
    BY LossesAdd
  <2>3. cn \in Nat \ {0} /\ an \in Nat
    BY <2>1, RaisedNat, RaisedType
  <2>4. left \in Int
    BY <2>1, SMT
  <2>5. QED
    BY <2>1, <2>2, <2>3, <2>4 DEF AtMostGrown
<1> HIDE DEF cn, an, left
<1>2. CASE left < 0
  <2>1. v * left <= 0 /\ x * c \in Nat /\ v * left \in Int
    BY <1>1, <1>2, SMT
  <2>2. QED
    BY <2>1, SMT DEF left
<1>3. CASE left >= 0
  <2>1. left \in Nat /\ cn * left \in Nat /\ an * c \in Nat /\ v * an \in Nat /\ x * cn \in Nat
    BY <1>1, <1>3, SMT
  <2>2. v * (cn * left) <= v * (an * c) /\ (v * an) * c <= (x * cn) * c
    BY <1>1, <2>1, ProductMonotone, SMT
  <2>3. /\ v * (cn * left) = (v * left) * cn /\ v * (an * c) = (v * an) * c
        /\ (x * cn) * c = (x * c) * cn
        /\ (v * left) * cn \in Nat /\ (v * an) * c \in Nat /\ (x * c) * cn \in Nat
        /\ v * left \in Nat /\ x * c \in Nat
    BY <1>1, <2>1, SMT
  <2>4. (v * left) * cn <= (x * c) * cn
    BY <2>2, <2>3, SMT
  <2>5. v * left <= x * c
    BY <1>1, <2>3, <2>4, CancelFactor
  <2>6. QED
    BY <2>5 DEF left
<1>4. QED
  BY <1>1, <1>2, <1>3, SMT

-----------------------------------------------------------------------------
(* How the roundings of _rpow and of the factor make it grow.              *)

\* A second's growth with everything rounded up, with everything rounded
\* down, and with the factor rounded down as well; and what they are parts of.
MostOf(b)     == b * (2 * RAY + 1)
LeastOf(b)    == b * (2 * RAY - 1)
Parts         == RAY * 2 * RAY
LessThanOf(b) == LeastOf(b) * (RAY - 1)
SmallParts    == Parts * RAY

LEMMA SecondsPartsType ==
  ASSUME NEW b \in Nat
  PROVE  /\ RAY \in Nat \ {0} /\ RAY - 1 \in Nat
         /\ MostOf(b) \in Nat /\ LeastOf(b) \in Nat /\ LessThanOf(b) \in Nat
         /\ Parts \in Nat \ {0} /\ SmallParts \in Nat \ {0}
<1>1. /\ RAY \in Nat \ {0} /\ RAY - 1 \in Nat /\ 2 * RAY + 1 \in Nat /\ 2 * RAY - 1 \in Nat
      /\ Parts \in Nat \ {0}
  BY Bases3, SMT DEF Parts
<1>2. MostOf(b) \in Nat /\ LeastOf(b) \in Nat
  BY <1>1, SMT DEF MostOf, LeastOf
<1>3. LessThanOf(b) \in Nat /\ SmallParts \in Nat \ {0}
  BY <1>1, <1>2, SMT DEF LessThanOf, SmallParts
<1>4. QED
  BY <1>1, <1>2, <1>3

\* What is rounded up is not apart from what is rounded down by more than a part in RAY.
LEMMA RoundingsApart ==
  ASSUME NEW v \in Nat, NEW w \in Nat, NEW x \in Nat, NEW b \in Nat \ {0}, NEW n \in Nat,
         AtMostGrown(v, w, MostOf(b), Parts, n), AtMostGrown(w, x, Parts, LeastOf(b), n)
  PROVE  v * (RAY - n) <= x * RAY
<1> DEFINE most  == MostOf(b)
           least == LeastOf(b)
           c     == 2 * RAY + 1
<1>1. /\ RAY \in Nat \ {0} /\ most \in Nat /\ least \in Nat /\ Parts \in Nat \ {0}
  BY SecondsPartsType
<1>2. /\ least # 0 /\ most = b * c /\ least = b * (c - 2)
      /\ c \in Nat \ {0} /\ c - 2 \in Nat \ {0} /\ 2 <= c
  <2>1. c \in Nat \ {0} /\ c - 2 = 2 * RAY - 1 /\ c - 2 \in Nat \ {0} /\ 2 <= c
    BY <1>1, SMT
  <2> HIDE DEF c
  <2>2. b * (c - 2) # 0
    BY <2>1, SMT
  <2>3. QED
    BY <2>1, <2>2 DEF MostOf, LeastOf, c
<1>3. AtMostGrown(v, x, most * Parts, Parts * least, n)
  BY <1>1, GrownBetween
<1> HIDE DEF most, least, c
<1> DEFINE a == c - 2
<1> HIDE DEF a
<1>4. AtMostGrown(v, x, c, a, n)
  <2>1. a \in Nat \ {0} /\ least = b * a
    BY <1>2 DEF a
  <2>2. /\ most * Parts \in Nat /\ Parts * least \in Nat \ {0}
        /\ (most * Parts) * a = c * (Parts * least)
        /\ c * (Parts * least) \in Nat
    BY <1>1, <1>2, <2>1, SMT
  <2>3. (most * Parts) * a <= c * (Parts * least)
    BY <2>2, SMT
  <2>4. QED
    BY <1>2, <1>3, <2>1, <2>2, <2>3, GrownFaster
<1>5. v * (c - n * 2) <= x * c
  BY <1>2, <1>4, GrownApart DEF a
<1>6. c = 2 * RAY + 1
  BY DEF c
<1>7. CASE RAY - n < 0
  <2>1. v * (RAY - n) <= 0 /\ x * RAY \in Nat /\ v * (RAY - n) \in Int
    BY <1>1, <1>7, SMT
  <2>2. QED
    BY <2>1, SMT
<1>8. CASE RAY - n >= 0
  <2> DEFINE left == RAY - n
  <2>1. left \in Nat /\ c * left \in Nat /\ RAY * (c - n * 2) \in Int /\ c - n * 2 \in Nat
        /\ c * left <= RAY * (c - n * 2)
    <3>1. left \in Nat /\ c - n * 2 = 2 * left + 1
      BY <1>1, <1>6, <1>8, SMT
    <3>2. RAY * (2 * left + 1) = 2 * (RAY * left) + RAY /\ (2 * RAY + 1) * left = 2 * (RAY * left) + left
      BY <1>1, <3>1, SMT
    <3>3. RAY * left \in Nat /\ left <= RAY
      BY <1>1, <3>1, SMT
    <3> HIDE DEF left
    <3>4. QED
      BY <1>1, <1>6, <3>1, <3>2, <3>3, SMT
  <2> HIDE DEF left
  <2> DEFINE rest == c - n * 2
  <2> HIDE DEF rest
  <2>2. rest \in Nat /\ c * left <= RAY * rest /\ v * rest <= x * c
    BY <1>5, <2>1 DEF rest
  <2>3. v * (c * left) <= v * (RAY * rest) /\ (v * rest) * RAY <= (x * c) * RAY
    <3>1. v * rest \in Nat /\ x * c \in Nat /\ c * left \in Nat /\ RAY * rest \in Nat
      BY <1>1, <1>2, <2>1, <2>2, SMT
    <3>2. QED
      BY <1>1, <2>2, <3>1, ProductMonotone, SMT
  <2>4. /\ v * (c * left) = (v * left) * c /\ v * (RAY * rest) = (v * rest) * RAY
        /\ (x * c) * RAY = (x * RAY) * c
        /\ (v * left) * c \in Nat /\ (v * rest) * RAY \in Nat /\ (x * RAY) * c \in Nat
        /\ v * left \in Nat /\ x * RAY \in Nat
    BY <1>1, <1>2, <2>1, <2>2, SMT
  <2>5. (v * left) * c <= (x * RAY) * c
    BY <2>3, <2>4, SMT
  <2>6. v * left <= x * RAY
    BY <1>2, <2>4, <2>5, CancelFactor
  <2>7. QED
    BY <2>6 DEF left
<1>9. QED
  BY <1>1, <1>7, <1>8, SMT

\* With a factor rounded down every second it may be two parts.
LEMMA FloorsApart ==
  ASSUME NEW v \in Nat, NEW w \in Nat, NEW x \in Nat, NEW b \in Nat \ {0}, NEW n \in Nat,
         AtMostGrown(v, w, MostOf(b), Parts, n), AtMostGrown(w, x, SmallParts, LessThanOf(b), n)
  PROVE  v * (RAY - 2 * n) <= x * RAY
<1> DEFINE most == MostOf(b)
           less == LessThanOf(b)
           e    == 2 * RAY + 1
           c    == RAY * e
           d    == 4 * RAY - 1
<1>1. /\ RAY \in Nat \ {0} /\ most \in Nat /\ less \in Nat
      /\ Parts \in Nat \ {0} /\ SmallParts \in Nat \ {0}
  BY SecondsPartsType
<1>2. CASE RAY - 2 * n < 0
  <2>1. v * (RAY - 2 * n) <= 0 /\ x * RAY \in Nat /\ v * (RAY - 2 * n) \in Int
    BY <1>1, <1>2, SMT
  <2>2. QED
    BY <2>1, SMT
<1>3. CASE n = 0
  <2>1. /\ Raised[0][Parts] = 1 /\ Raised[0][SmallParts] = 1
        /\ Raised[0][MostOf(b)] = 1 /\ Raised[0][LessThanOf(b)] = 1
    BY <1>1, RaisedSteps
  <2>2. v * 1 <= w * 1 /\ w * 1 <= x * 1
    BY <1>3, <2>1 DEF AtMostGrown
  <2>3. v <= x /\ RAY - 2 * n = RAY
    BY <1>1, <1>3, <2>2, SMT
  <2>4. QED
    BY <1>1, <2>3, ProductMonotone, SMT
<1>4. CASE RAY - 2 * n >= 0 /\ n # 0
  <2>1. RAY - 1 \in Nat \ {0} /\ e \in Nat \ {0} /\ 2 * RAY - 1 \in Nat \ {0} /\ d \in Nat
    BY <1>1, <1>4, SMT
  <2>2. /\ c \in Nat \ {0} /\ d <= c /\ c - d = (2 * RAY - 1) * (RAY - 1)
        /\ (2 * RAY - 1) * (RAY - 1) \in Nat \ {0}
    <3>1. c = 2 * (RAY * RAY) + RAY /\ RAY * RAY \in Nat
          /\ (2 * RAY - 1) * (RAY - 1) = 2 * (RAY * RAY) - 3 * RAY + 1
      BY <1>1, SMT
    <3>2. (2 * RAY - 1) * (RAY - 1) \in Nat \ {0}
      <4> DEFINE f == 2 * RAY - 1
                 g == RAY - 1
      <4>1. f \in Nat \ {0} /\ g \in Nat \ {0}
        BY <2>1
      <4> HIDE DEF f, g
      <4>2. f * g \in Nat \ {0}
        BY <4>1, SMT
      <4>3. QED
        BY <4>2 DEF f, g
    <3>3. QED
      BY <1>1, <3>1, <3>2, SMT
  <2>3. most = b * e /\ less = b * (c - d) /\ less # 0 /\ SmallParts = Parts * RAY
    <3>1. less = (b * (2 * RAY - 1)) * (RAY - 1)
      BY DEF LessThanOf, LeastOf
    <3>2. (b * (2 * RAY - 1)) * (RAY - 1) = b * ((2 * RAY - 1) * (RAY - 1))
      BY <2>1, SMT
    <3>3. b * ((2 * RAY - 1) * (RAY - 1)) # 0
      BY <2>2, SMT
    <3>4. QED
      BY <2>2, <3>1, <3>2, <3>3 DEF MostOf, SmallParts
  <2>4. AtMostGrown(v, x, most * SmallParts, Parts * less, n)
    BY <1>1, GrownBetween
  <2>5. c = RAY * e
    OBVIOUS
  <2> DEFINE a == c - d
  <2> HIDE DEF most, less, c, d, e, a
  <2>6. a \in Nat \ {0} /\ less = b * a
    BY <2>2, <2>3 DEF a
  <2>7. AtMostGrown(v, x, c, a, n)
    <3>1. /\ most * SmallParts \in Nat /\ Parts * less \in Nat \ {0}
      BY <1>1, <2>3, SMT
    <3>2. (most * SmallParts) * a = c * (Parts * less) /\ c * (Parts * less) \in Nat
      <4>1. ((b * e) * (Parts * RAY)) * a = (RAY * e) * (Parts * (b * a))
        BY <1>1, <2>1, <2>6, SMT
      <4>2. c * (Parts * less) \in Nat
        BY <1>1, <2>2, SMT
      <4>3. QED
        BY <2>3, <2>5, <2>6, <4>1, <4>2
    <3>3. (most * SmallParts) * a <= c * (Parts * less)
      BY <3>2, SMT
    <3>4. QED
      BY <2>2, <2>4, <2>6, <3>1, <3>3, GrownFaster
  <2>8. v * (c - n * d) <= x * c
    BY <2>1, <2>2, <2>7, GrownApart DEF a
  <2> DEFINE left == RAY - 2 * n
             rest == c - n * d
  <2>9. left \in Nat /\ rest \in Nat /\ e * left <= rest
    <3>1. left \in Nat
      BY <1>1, <1>4, SMT
    <3>2. n * RAY \in Nat /\ RAY * RAY \in Nat
      BY <1>1, SMT
    <3>3. e * left = 2 * (RAY * RAY) + RAY - 4 * (n * RAY) - 2 * n
      BY <1>1, SMT DEF e
    <3>4. rest = 2 * (RAY * RAY) + RAY - 4 * (n * RAY) + n
      BY <1>1, SMT DEF c, d, e
    <3>5. e * left \in Nat
      BY <2>1, <3>1, SMT
    <3> HIDE DEF rest, left
    <3>6. QED
      BY <1>1, <3>1, <3>2, <3>3, <3>4, <3>5, SMT
  <2> HIDE DEF left, rest
  <2>10. v * (e * left) <= v * rest /\ v * rest <= x * c
    <3>1. e * left \in Nat
      BY <2>1, <2>9, SMT
    <3>2. v * (e * left) <= v * rest
      BY <2>9, <3>1, ProductMonotone, SMT
    <3>3. QED
      BY <2>8, <3>2 DEF rest
  <2>11. /\ v * (e * left) = (v * left) * e /\ x * c = (x * RAY) * e
         /\ (v * left) * e \in Nat /\ (x * RAY) * e \in Nat
         /\ v * left \in Nat /\ x * RAY \in Nat /\ v * rest \in Nat
    BY <1>1, <2>1, <2>5, <2>9, SMT
  <2>12. (v * left) * e <= (x * RAY) * e
    BY <2>10, <2>11, SMT
  <2>13. v * left <= x * RAY
    BY <2>1, <2>11, <2>12, CancelFactor
  <2>14. QED
    BY <2>13 DEF left
<1>5. QED
  BY <1>1, <1>2, <1>3, <1>4, SMT

(***************************************************************************)
(* What the loop ends with has the roundings of the multiplications that   *)
(* its exponent takes: as in module PowerLoop, of the function itself.     *)
(***************************************************************************)
NearlyOrOne(v, b, k) == IF k = 0 THEN v = RAY ELSE Nearly(v, b, k)

LEMMA LoopIsNearly ==
  ASSUME NEW b \in Nat \ {0}
  PROVE  \A n \in Nat : \A x, z \in Nat, i \in Nat \ {0}, k \in Nat :
           /\ x >= RAY /\ z >= RAY /\ Nearly(x, b, i) /\ NearlyOrOne(z, b, k)
           /\ RPowLoop[n][x][z] # NoRate
           => NearlyOrOne(RPowLoop[n][x][z], b, k + (2 * i) * n)
<1> DEFINE Holds(n) ==
             \A x, z \in Nat, i \in Nat \ {0}, k \in Nat :
               /\ x >= RAY /\ z >= RAY /\ Nearly(x, b, i) /\ NearlyOrOne(z, b, k)
               /\ RPowLoop[n][x][z] # NoRate
               => NearlyOrOne(RPowLoop[n][x][z], b, k + (2 * i) * n)
           Good == {n \in Nat : Holds(n)}
<1>1. ASSUME NEW n \in Nat, \A m \in Nat : m < n => m \in Good
      PROVE  n \in Good
  <2>1. SUFFICES ASSUME NEW x \in Nat, NEW z \in Nat, NEW i \in Nat \ {0}, NEW k \in Nat,
                        x >= RAY, z >= RAY, Nearly(x, b, i), NearlyOrOne(z, b, k),
                        RPowLoop[n][x][z] # NoRate
                 PROVE  NearlyOrOne(RPowLoop[n][x][z], b, k + (2 * i) * n)
    BY Zenon
  <2>2. CASE n = 0
    <3>1. RPowLoop[n][x][z] = z
      BY <2>2, LoopUnrolled
    <3>2. k + (2 * i) * n = k
      BY <2>2, SMT
    <3>3. QED
      BY <2>1, <3>1, <3>2
  <2>3. CASE n # 0
    <3> DEFINE square  == RayMul(x, x)
               product == IF n % 2 = 1 THEN RayMul(z, square) ELSE z
               half    == n \div 2
               m       == i + i
               l       == IF n % 2 = 1 THEN k + m ELSE k
    <3>1. /\ square # NoRate /\ square \in Nat /\ product # NoRate /\ product \in Nat
          /\ RPowLoop[n][x][z] = RPowLoop[half][square][product]
      BY <2>1, <2>3, LoopGoesOn
    <3>2. half \in Nat /\ half < n /\ (n % 2 = 0 \/ n % 2 = 1)
          /\ (n % 2 = 0 => n = 2 * half) /\ (n % 2 = 1 => n = 2 * half + 1)
      BY <2>3, HalvesAreLess, SMT
    <3>3. m \in Nat \ {0} /\ k + m \in Nat \ {0} /\ l \in Nat /\ 2 * i = m
      BY SMT
    <3>4. square >= RAY /\ Nearly(square, b, m)
      BY <2>1, <3>1, OneRounding, NearlyMultiplies
    <3> HIDE DEF square, half, m
    <3>5. product >= RAY /\ NearlyOrOne(product, b, l)
      <4>1. CASE n % 2 = 0
        BY <2>1, <3>2, <4>1, SMT
      <4>2. CASE n % 2 = 1
        <5>1. product = RayMul(z, square) /\ l = k + m
          BY <4>2
        <5> HIDE DEF product, l
        <5>2. product >= RAY
          BY <2>1, <3>1, <3>4, <5>1, OneRounding
        <5>3. Nearly(product, b, k + m)
          <6>1. CASE k = 0
            <7>1. z = RAY /\ k + m = m
              BY <2>1, <3>3, <6>1, SMT DEF NearlyOrOne
            <7>2. product = square
              BY <3>1, <5>1, <7>1, RayMulNeutral
            <7>3. QED
              BY <3>4, <7>1, <7>2
          <6>2. CASE k # 0
            <7>1. Nearly(z, b, k)
              BY <2>1, <6>2 DEF NearlyOrOne
            <7>2. QED
              BY <2>1, <3>1, <3>3, <3>4, <5>1, <6>2, <7>1, NearlyMultiplies
          <6>3. QED
            BY <6>1, <6>2
        <5>4. QED
          BY <3>3, <5>1, <5>2, <5>3 DEF NearlyOrOne
      <4>3. QED
        BY <3>2, <4>1, <4>2
    <3>6. l + (2 * m) * half = k + (2 * i) * n
      <4>1. m * (2 * half) = (2 * m) * half /\ m * (2 * half + 1) = m + (2 * m) * half
            /\ (2 * m) * half \in Nat
        BY <3>2, <3>3, SMT
      <4>2. CASE n % 2 = 0
        <5>1. l = k
          BY <4>2, SMT
        <5>2. QED
          BY <3>2, <3>3, <4>1, <4>2, <5>1
      <4>3. CASE n % 2 = 1
        <5>1. l = k + m /\ m * n = m + (2 * m) * half
          BY <3>2, <4>1, <4>3
        <5> HIDE DEF l
        <5>2. (k + m) + (2 * m) * half = k + (m + (2 * m) * half)
          BY <3>3, <4>1, SMT
        <5>3. QED
          BY <3>3, <5>1, <5>2
      <4>4. QED
        BY <3>2, <4>2, <4>3
    <3> HIDE DEF product, l
    <3>7. Holds(half)
      BY <1>1, <3>2
    <3> HIDE DEF Good
    <3>8. RPowLoop[half][square][product] # NoRate
      BY <2>1, <3>1
    <3>9. NearlyOrOne(RPowLoop[half][square][product], b, l + (2 * m) * half)
      BY <3>1, <3>3, <3>4, <3>5, <3>7, <3>8, Zenon
    <3>10. QED
      BY <3>1, <3>6, <3>9
  <2>4. QED
    BY <2>2, <2>3
<1> HIDE DEF Good
<1>2. Good = Nat
  <2>1. Good \in SUBSET Nat
    BY DEF Good
  <2>2. QED
    BY <1>1, <2>1, NoLeastFailure
<1>3. ASSUME NEW n \in Nat PROVE Holds(n)
  <2>1. n \in Good
    BY <1>2
  <2>2. QED
    BY <2>1 DEF Good
<1>4. QED
  BY <1>3

LEMMA RPowNearly ==
  ASSUME NEW b \in Nat, b >= RAY, NEW n \in Nat, RPow(b, n) # NoRate
  PROVE  NearlyOrOne(RPow(b, n), b, n)
<1> DEFINE half == n \div 2
           z    == RPowStart(b, n)
           k    == n % 2
<1>1. b \in Nat \ {0} /\ RAY \in Nat
  BY RAYAssumption, CompoundingAssumption, SMT
<1>2. z \in Nat /\ half \in Nat /\ RPow(b, n) = RPowLoop[half][b][z]
  BY <1>1, RPowByLoop
<1>3. k \in Nat /\ (k = 0 \/ k = 1) /\ k + (2 * 1) * half = n
  BY SMT
<1>4. z >= RAY /\ z = IF k = 0 THEN RAY ELSE b
  BY <1>1, SMT DEF RPowStart
<1>5. Nearly(b, b, 1)
  BY <1>1, NearlyOnce
<1> HIDE DEF half, z, k
<1>6. NearlyOrOne(z, b, k)
  BY <1>3, <1>4, <1>5 DEF NearlyOrOne
<1>7. 1 \in Nat \ {0}
  OBVIOUS
<1>8. NearlyOrOne(RPowLoop[half][b][z], b, k + (2 * 1) * half)
  BY <1>1, <1>2, <1>3, <1>4, <1>5, <1>6, <1>7, LoopIsNearly
<1>9. QED
  BY <1>2, <1>3, <1>8

LEMMA RPowBetween ==
  ASSUME NEW b \in Nat, b >= RAY, NEW n \in Nat, RPow(b, n) # NoRate
  PROVE  /\ RPow(b, n) \in Nat /\ RPow(b, n) >= RAY
         /\ AtMostGrown(RPow(b, n), RAY, MostOf(b), Parts, n)
         /\ AtMostGrown(RAY, RPow(b, n), Parts, LeastOf(b), n)
<1> DEFINE power == RPow(b, n)
<1>1. power \in Nat /\ power >= RAY /\ RAY \in Nat \ {0} /\ b \in Nat \ {0}
  BY RPowGrows, RAYAssumption, CompoundingAssumption, SMT
<1>2. NearlyOrOne(power, b, n)
  BY RPowNearly
<1> HIDE DEF power
<1>3. MostOf(b) \in Nat /\ LeastOf(b) \in Nat /\ Parts \in Nat \ {0}
  BY SecondsPartsType
<1>4. CASE n = 0
  <2>1. Raised[0][MostOf(b)] = 1 /\ Raised[0][LeastOf(b)] = 1 /\ Raised[0][Parts] = 1
    BY <1>3, RaisedSteps
  <2>2. power = RAY /\ RAY * 1 <= RAY * 1
    BY <1>1, <1>2, <1>4, SMT DEF NearlyOrOne
  <2>3. QED
    BY <1>1, <1>4, <2>1, <2>2 DEF AtMostGrown, power
<1>5. CASE n # 0
  <2> DEFINE r    == Raised[n][b]
             unit == Raised[n - 1][Parts]
             up   == Raised[n - 1][2 * RAY + 1]
             down == Raised[n - 1][2 * RAY - 1]
             more == 2 * RAY + 1
             less == 2 * RAY - 1
  <2>1. n - 1 \in Nat /\ (n - 1) + 1 = n /\ more \in Nat /\ less \in Nat /\ less <= 2 * RAY /\ 2 * RAY <= more
    BY <1>1, <1>5, SMT
  <2>2. r \in Nat /\ unit \in Nat /\ up \in Nat /\ down \in Nat
    BY <1>1, <1>3, <2>1, RaisedNat
  <2>3. r * down <= power * unit /\ power * unit <= r * up
    BY <1>2, <1>5 DEF NearlyOrOne, Nearly, Upper, Lower, Unit, Parts
  <2>4. /\ Raised[n][Parts] = Parts * unit
        /\ Raised[n][MostOf(b)] = r * (more * up)
        /\ Raised[n][LeastOf(b)] = r * (less * down)
    <3>1. Raised[n][Parts] = Parts * unit
      BY <1>3, <2>1, RaisedSteps
    <3>2. Raised[n][more] = more * up /\ Raised[n][less] = less * down
      BY <2>1, RaisedSteps
    <3>3. Raised[n][b * more] = Raised[n][b] * Raised[n][more]
      BY <2>1, RaisedTimes
    <3>4. Raised[n][b * less] = Raised[n][b] * Raised[n][less]
      BY <2>1, RaisedTimes
    <3>5. QED
      BY <3>1, <3>2, <3>3, <3>4 DEF MostOf, LeastOf
  <2>5. Parts = RAY * (2 * RAY)
    BY <1>1, SMT DEF Parts
  <2> HIDE DEF r, unit, up, down, more, less
  <2> DEFINE double == 2 * RAY
  <2>6. double \in Nat /\ less <= double /\ double <= more
    BY <1>1, <2>1, SMT
  <2>7. Parts = RAY * double
    BY <2>5
  <2> HIDE DEF double
  <2>8. /\ (power * unit) * double <= (r * up) * more
        /\ (r * down) * less <= (power * unit) * double
    <3>1. power * unit \in Nat /\ r * up \in Nat /\ r * down \in Nat
      BY <1>1, <2>2, SMT
    <3>2. QED
      BY <2>1, <2>3, <2>6, <3>1, ProductMonotone
  <2>9. /\ RAY * ((power * unit) * double) <= RAY * ((r * up) * more)
        /\ RAY * ((r * down) * less) <= RAY * ((power * unit) * double)
    <3>1. /\ (power * unit) * double \in Nat /\ (r * up) * more \in Nat /\ (r * down) * less \in Nat
      BY <1>1, <2>1, <2>2, <2>6, SMT
    <3>2. QED
      BY <1>1, <2>8, <3>1, ProductMonotone, SMT
  <2>10. /\ power * ((RAY * double) * unit) = RAY * ((power * unit) * double)
         /\ RAY * (r * (more * up)) = RAY * ((r * up) * more)
         /\ RAY * (r * (less * down)) = RAY * ((r * down) * less)
    BY <1>1, <2>1, <2>2, <2>6, SMT
  <2>11. /\ power * (Parts * unit) <= RAY * (r * (more * up))
         /\ RAY * (r * (less * down)) <= power * (Parts * unit)
    BY <2>7, <2>9, <2>10
  <2>12. QED
    BY <1>1, <2>4, <2>11 DEF AtMostGrown, power
<1>6. QED
  BY <1>4, <1>5

\* A factor that compounds, rounded down at the end.
LEMMA CompoundedBetween ==
  ASSUME NEW factor \in Nat, NEW b \in Nat, b >= RAY, NEW n \in Nat,
         Compounded(factor, b, n) # NoRate
  PROVE  /\ Compounded(factor, b, n) \in Nat
         /\ AtMostGrown(Compounded(factor, b, n), factor, MostOf(b), Parts, n)
         /\ AtMostGrown(factor, Compounded(factor, b, n) + 1, Parts, LeastOf(b), n)
<1> DEFINE power == RPow(b, n)
           top   == power * factor
           v     == top \div RAY
           unit  == Raised[n][Parts]
           up    == Raised[n][MostOf(b)]
           down  == Raised[n][LeastOf(b)]
<1>1. power \in Nat /\ top \in Nat /\ Compounded(factor, b, n) = v /\ RAY \in Nat \ {0}
  BY CompoundedType, RAYAssumption, CompoundingAssumption
<1>2. v \in Nat /\ v * RAY <= top /\ top < v * RAY + RAY
  BY <1>1, RoundedQuotient
<1>3. power * unit <= RAY * up /\ RAY * down <= power * unit
  <2>1. power # NoRate
    BY <1>1, RAYAssumption, CompoundingAssumption
  <2>2. QED
    BY <2>1, RPowBetween DEF AtMostGrown
<1>4. unit \in Nat /\ up \in Nat /\ down \in Nat
  BY SecondsPartsType, RaisedNat
<1>5. top = power * factor
  OBVIOUS
<1> HIDE DEF power, top, v, unit, up, down
<1>6. /\ (v * RAY) * unit <= top * unit
      /\ top * unit <= ((v + 1) * RAY) * unit
  <2>1. v * RAY \in Nat /\ (v + 1) * RAY = v * RAY + RAY /\ (v + 1) * RAY \in Nat
    BY <1>1, <1>2, SMT
  <2>2. top <= (v + 1) * RAY
    BY <1>1, <1>2, <2>1, SMT
  <2>3. QED
    BY <1>1, <1>2, <1>4, <2>1, <2>2, ProductMonotone, SMT
<1>7. /\ factor * (power * unit) <= factor * (RAY * up)
      /\ factor * (RAY * down) <= factor * (power * unit)
  <2>1. power * unit \in Nat /\ RAY * up \in Nat /\ RAY * down \in Nat
    BY <1>1, <1>4, SMT
  <2>2. QED
    BY <1>3, <2>1, ProductMonotone, SMT
<1>8. /\ (v * RAY) * unit = (v * unit) * RAY /\ ((v + 1) * RAY) * unit = ((v + 1) * unit) * RAY
      /\ top * unit = factor * (power * unit)
      /\ factor * (RAY * up) = (factor * up) * RAY /\ factor * (RAY * down) = (factor * down) * RAY
  BY <1>1, <1>2, <1>4, <1>5, SMT
<1>9. /\ v * unit \in Nat /\ (v + 1) * unit \in Nat /\ factor * up \in Nat /\ factor * down \in Nat
      /\ (v * unit) * RAY \in Nat /\ ((v + 1) * unit) * RAY \in Nat /\ top * unit \in Nat
      /\ (factor * up) * RAY \in Nat /\ (factor * down) * RAY \in Nat
  BY <1>1, <1>2, <1>4, SMT
<1>10. (v * unit) * RAY <= (factor * up) * RAY /\ (factor * down) * RAY <= ((v + 1) * unit) * RAY
  BY <1>6, <1>7, <1>8, <1>9, SMT
<1>11. v * unit <= factor * up /\ factor * down <= (v + 1) * unit
  BY <1>1, <1>9, <1>10, CancelFactor
<1>12. QED
  BY <1>1, <1>2, <1>11 DEF AtMostGrown, unit, up, down

\* A factor of at least one that compounds for a second or more: rounding it
\* down takes less than a part in RAY of it.
LEMMA CompoundedFloor ==
  ASSUME NEW factor \in Nat, factor >= RAY, NEW b \in Nat, b >= RAY, NEW n \in Nat \ {0},
         Compounded(factor, b, n) # NoRate
  PROVE  AtMostGrown(factor, Compounded(factor, b, n), SmallParts, LessThanOf(b), n)
<1> DEFINE power == RPow(b, n)
           top   == power * factor
           v     == top \div RAY
           less  == RAY - 1
           unit  == Raised[n][Parts]
           down  == Raised[n][LeastOf(b)]
           rays  == Raised[n - 1][RAY]
           lower == Raised[n - 1][less]
<1>1. /\ power \in Nat /\ top \in Nat /\ Compounded(factor, b, n) = v
      /\ RAY \in Nat \ {0} /\ RAY \in Nat /\ less \in Nat /\ less <= RAY
  BY CompoundedType, RAYAssumption, CompoundingAssumption, SMT
<1>2. v \in Nat /\ v * RAY <= top /\ top < v * RAY + RAY
  BY <1>1, RoundedQuotient
<1>3. power >= RAY /\ RAY * down <= power * unit
  <2>1. power # NoRate
    BY <1>1, RAYAssumption, CompoundingAssumption
  <2>2. QED
    BY <2>1, RPowBetween DEF AtMostGrown
<1>4. n - 1 \in Nat /\ n \in Nat /\ (n - 1) + 1 = n
  BY SMT
<1>5. unit \in Nat /\ down \in Nat /\ rays \in Nat /\ lower \in Nat /\ lower <= rays
  BY <1>1, <1>4, SecondsPartsType, RaisedNat, RaisedMonotone
<1>6. /\ Raised[n][SmallParts] = unit * (RAY * rays)
      /\ Raised[n][LessThanOf(b)] = down * (less * lower)
  <2> DEFINE parts == Parts
             least == LeastOf(b)
  <2>8. parts \in Nat /\ least \in Nat
    BY SecondsPartsType
  <2>9. less \in Nat /\ n \in Nat /\ RAY \in Nat
    BY <1>1, <1>4
  <2> HIDE DEF parts, least, less
  <2>1. \A k \in Nat : Raised[k][parts * RAY] = Raised[k][parts] * Raised[k][RAY]
    BY <2>8, <2>9, RaisedTimes
  <2>2. \A k \in Nat : Raised[k][least * less] = Raised[k][least] * Raised[k][less]
    BY <2>8, <2>9, RaisedTimes
  <2>3. Raised[n][RAY] = RAY * rays /\ Raised[n][less] = less * lower
    BY <1>1, <1>4, RaisedSteps
  <2>4. QED
    BY <2>1, <2>2, <2>3, <2>9 DEF SmallParts, LessThanOf, parts, least, less
<1>7. top = power * factor
  OBVIOUS
<1>8. less = RAY - 1
  OBVIOUS
<1> HIDE DEF power, top, v, less, unit, down, rays, lower
<1>9. top * less <= (v * RAY) * RAY
  <2>1. RAY * RAY <= top /\ RAY * RAY \in Nat
    BY <1>1, <1>3, <1>7, ProductMonotone
  <2>2. v * RAY \in Nat /\ top <= v * RAY + less
    BY <1>1, <1>2, <1>8, SMT
  <2> DEFINE vr == v * RAY
  <2> HIDE DEF vr
  <2>3. vr \in Nat /\ top <= vr + less
    BY <2>2 DEF vr
  <2>4. top * RAY <= (vr + less) * RAY
    BY <1>1, <2>3, ProductMonotone, SMT
  <2>5. (vr + less) * RAY = vr * RAY + (RAY * RAY - RAY)
    BY <1>1, <1>8, <2>3, SMT
  <2>6. top * less = top * RAY - top /\ top * RAY \in Nat /\ vr * RAY \in Nat
    BY <1>1, <1>8, <2>3, SMT
  <2>7. top * less <= vr * RAY
    BY <1>1, <2>1, <2>4, <2>5, <2>6, SMT
  <2>8. QED
    BY <2>7 DEF vr
<1>10. factor * (RAY * down) <= factor * (power * unit)
  <2>1. power * unit \in Nat /\ RAY * down \in Nat
    BY <1>1, <1>5, SMT
  <2>2. QED
    BY <1>3, <2>1, ProductMonotone, SMT
<1> DEFINE fd == factor * down
           vu == v * unit
<1>11. fd \in Nat /\ vu \in Nat
  BY <1>2, <1>5, SMT
<1>12. fd * RAY <= top * unit
  <2>1. factor * (RAY * down) = (factor * down) * RAY /\ factor * (power * unit) = (power * factor) * unit
    BY <1>1, <1>5, SMT
  <2>2. QED
    BY <1>7, <1>10, <2>1
<1>13. (top * unit) * less <= (vu * RAY) * RAY
  <2>1. top * less \in Nat /\ (v * RAY) * RAY \in Nat
    BY <1>1, <1>2, SMT
  <2>2. (top * less) * unit <= ((v * RAY) * RAY) * unit
    BY <1>5, <1>9, <2>1, ProductMonotone, SMT
  <2>3. (top * less) * unit = (top * unit) * less /\ ((v * RAY) * RAY) * unit = ((v * unit) * RAY) * RAY
    BY <1>1, <1>2, <1>5, SMT
  <2>4. QED
    BY <2>2, <2>3
<1> HIDE DEF fd, vu
<1>14. fd * less <= vu * RAY
  <2>1. fd * RAY \in Nat /\ top * unit \in Nat /\ fd * less \in Nat /\ vu * RAY \in Nat
    BY <1>1, <1>5, <1>11, SMT
  <2>2. (fd * RAY) * less <= (top * unit) * less
    BY <1>1, <1>12, <2>1, ProductMonotone, SMT
  <2>3. (fd * RAY) * less = (fd * less) * RAY
    BY <1>1, <1>11, SMT
  <2>4. (fd * less) * RAY \in Nat /\ (top * unit) * less \in Nat /\ (vu * RAY) * RAY \in Nat
    BY <1>1, <2>1, SMT
  <2>5. (fd * less) * RAY <= (vu * RAY) * RAY
    BY <1>13, <2>2, <2>3, <2>4, SMT
  <2>6. QED
    BY <1>1, <2>1, <2>5, CancelFactor
<1>15. (fd * less) * lower <= (vu * RAY) * rays
  <2>1. fd * less \in Nat /\ vu * RAY \in Nat
    BY <1>1, <1>11, SMT
  <2>2. QED
    BY <1>5, <1>14, <2>1, ProductMonotone
<1>16. factor * (down * (less * lower)) = (fd * less) * lower
  <2>1. factor * (down * (less * lower)) = ((factor * down) * less) * lower
    BY <1>1, <1>5, SMT
  <2>2. QED
    BY <2>1 DEF fd
<1>17. v * (unit * (RAY * rays)) = (vu * RAY) * rays
  <2>1. v * (unit * (RAY * rays)) = ((v * unit) * RAY) * rays
    BY <1>1, <1>2, <1>5, SMT
  <2>2. QED
    BY <2>1 DEF vu
<1>18. factor * (down * (less * lower)) <= v * (unit * (RAY * rays))
  BY <1>15, <1>16, <1>17
<1>19. QED
  BY <1>1, <1>6, <1>18 DEF AtMostGrown

\* What grows by no more than b with everything rounded down is within the factor's growth.
LEMMA GrownWithinFloor ==
  ASSUME NEW v \in Nat, NEW factor \in Nat, NEW b \in Nat, b >= RAY, NEW n \in Nat,
         AtMostGrown(v, factor, LeastOf(b), Parts, n), Compounded(factor, b, n) # NoRate
  PROVE  v <= Compounded(factor, b, n)
<1> DEFINE power == RPow(b, n)
           top   == power * factor
           unit  == Raised[n][Parts]
           down  == Raised[n][LeastOf(b)]
<1>1. power \in Nat /\ top \in Nat /\ Compounded(factor, b, n) = top \div RAY /\ RAY \in Nat \ {0}
  BY CompoundedType, RAYAssumption, CompoundingAssumption
<1>2. RAY * down <= power * unit
  <2>1. power # NoRate
    BY <1>1, RAYAssumption, CompoundingAssumption
  <2>2. QED
    BY <2>1, RPowBetween DEF AtMostGrown
<1>3. unit \in Nat \ {0} /\ down \in Nat /\ v * unit <= factor * down
  BY SecondsPartsType, RaisedNat, RaisedType DEF AtMostGrown
<1>4. top = power * factor
  OBVIOUS
<1> HIDE DEF power, top, unit, down
<1>5. (v * unit) * RAY <= (factor * down) * RAY /\ factor * (RAY * down) <= factor * (power * unit)
  <2>1. v * unit \in Nat /\ factor * down \in Nat /\ RAY * down \in Nat /\ power * unit \in Nat
    BY <1>1, <1>3, SMT
  <2>2. QED
    BY <1>1, <1>2, <1>3, <2>1, ProductMonotone, SMT
<1>6. /\ (v * unit) * RAY = (v * RAY) * unit /\ (factor * down) * RAY = factor * (RAY * down)
      /\ factor * (power * unit) = top * unit
      /\ (v * RAY) * unit \in Nat /\ factor * (RAY * down) \in Nat /\ top * unit \in Nat
      /\ v * RAY \in Nat
  BY <1>1, <1>3, <1>4, SMT
<1>7. (v * RAY) * unit <= top * unit
  BY <1>5, <1>6, SMT
<1>8. v * RAY <= top
  BY <1>1, <1>3, <1>6, <1>7, CancelFactor
<1>9. QED
  BY <1>1, <1>8, LargestQuotient
=============================================================================
