-------------------------- MODULE CurveChecksProofs -------------------------
(***************************************************************************)
(* What the tests of the curves ask of random pools, for all pools,        *)
(* amounts, prices and offsets and every RAY: a swap keeps the value and   *)
(* gains less than the rounding it is allowed, and moving both tokens      *)
(* keeps the others' share.  No detour is cheaper than the direct way      *)
(* under a priced curve; under a product curve the one-sided calls take    *)
(* roots, whose precision bounds what holds of every size, and the theorem *)
(* on the fees is about the amounts those roots are taken of.              *)
(***************************************************************************)
EXTENDS CurveChecks, CurveProofs

Sample == [amount : Amounts, dir : Direction]

\* A pool and what was drawn for it.
SampleInv ==
  /\ curve \in TestCurves /\ fees \in Schedules
  /\ a \in Reserves /\ b \in Reserves /\ supply \in Supplies
  /\ sample = NoSample \/ sample \in Sample

LEMMA SampleIsInvariant == Spec => []SampleInv
<1>1. Init => SampleInv
  BY DEF Init, SampleInv
<1>2. SampleInv /\ [Draw]_vars => SampleInv'
  BY DEF SampleInv, Draw, vars, Sample
<1>3. QED
  BY <1>1, <1>2, PTL DEF Spec

\* The numbers of a pool and its sample.
LEMMA Numbers ==
  ASSUME SampleInv, Drawn
  PROVE  /\ curve \in Curve /\ curve.price \in Nat /\ curve.offset \in Nat
         /\ a \in Nat \ {0} /\ b \in Nat \ {0} /\ supply \in Nat \ {0}
         /\ Amount \in Nat \ {0} /\ sample.dir \in Direction
         /\ WithOffset(curve, b) \in Nat \ {0} /\ WithOffset(curve, b) >= b
<1>1. curve \in Curve /\ sample \in Sample
  BY CurveChecksAssumption DEF SampleInv, Drawn
<1>2. curve.price \in Nat /\ curve.offset \in Nat
  BY <1>1 DEF Curve
<1>3. a \in Nat \ {0} /\ b \in Nat \ {0} /\ supply \in Nat \ {0}
      /\ Amount \in Nat \ {0} /\ sample.dir \in Direction
  BY <1>1, CurveChecksAssumption DEF SampleInv, Sample, Amount
<1>4. WithOffset(curve, b) \in Nat \ {0} /\ WithOffset(curve, b) >= b
  BY <1>2, <1>3, SMT DEF WithOffset
<1>5. QED
  BY <1>1, <1>2, <1>3, <1>4

-----------------------------------------------------------------------------
(* Numbers. *)

\* A factor is cancelled from an inequality.
LEMMA Cancels ==
  ASSUME NEW x \in Int, NEW y \in Int, NEW z \in Nat, x * z < y * z
  PROVE  x < y
<1>1. SUFFICES ASSUME y <= x PROVE FALSE
  BY SMT
<1>2. y * z <= x * z
  BY <1>1, MulMono
<1>3. x * z \in Int /\ y * z \in Int
  BY SMT
<1>4. QED
  BY <1>2, <1>3, SMT

LEMMA CancelsEqual ==
  ASSUME NEW x \in Int, NEW y \in Int, NEW z \in Nat \ {0}, x * z <= y * z
  PROVE  x <= y
<1>1. SUFFICES ASSUME y + 1 <= x PROVE FALSE
  BY SMT
<1>2. (y + 1) * z <= x * z
  BY <1>1, MulMono
<1>3. x * z \in Int /\ y * z \in Int /\ (y + 1) * z = y * z + z
  BY SMT
<1>4. QED
  BY <1>2, <1>3, SMT

\* Every number has the integer root that is chosen.
LEMMA RootBounds ==
  ASSUME NEW y \in Nat
  PROVE  LET root == IntegerRoot(y)
         IN  root \in Nat /\ root * root <= y /\ y < (root + 1) * (root + 1)
<1> DEFINE Larger == {n \in Nat : n * n > y}
<1>1. y + 1 \in Larger
  <2>1. y + 1 \in Nat /\ (y + 1) * (y + 1) = y * y + 2 * y + 1 /\ y * y \in Nat
    BY SMT
  <2>2. QED
    BY <2>1, SMT
<1>2. PICK m \in Larger : \A k \in Larger : m <= k
  BY <1>1, LeastNumber
<1>3. m # 0
  BY <1>2, SMT
<1>4. m - 1 \in Nat /\ m - 1 \notin Larger /\ (m - 1) + 1 = m
  BY <1>2, <1>3, SMT
<1> DEFINE n == m - 1
<1>5. n \in Nat /\ n * n <= y /\ (n + 1) * (n + 1) > y
  <2>1. n * n \in Nat
    BY <1>4, SMT
  <2>2. n * n <= y
    BY <1>4, <2>1, SMT
  <2>3. m * m > y
    BY <1>2
  <2>4. QED
    BY <1>4, <2>2, <2>3
<1> HIDE DEF n
<1>6. n \in 0 .. y
  <2>1. n <= n * n
    <3>1. CASE n = 0
      BY <3>1, SMT
    <3>2. CASE n # 0
      <4>1. 1 * n <= n * n
        BY <1>5, <3>2, MulMono, SMT
      <4>2. QED
        BY <1>5, <4>1, SMT
    <3>3. QED
      BY <3>1, <3>2
  <2>2. n * n \in Nat
    BY <1>5, SMT
  <2>3. QED
    BY <1>5, <2>1, <2>2, SMT
<1>7. IntegerRoot(y) \in 0 .. y /\ IntegerRoot(y) * IntegerRoot(y) <= y
      /\ (IntegerRoot(y) + 1) * (IntegerRoot(y) + 1) > y
  <2>1. \E k \in 0 .. y : k * k <= y /\ (k + 1) * (k + 1) > y
    BY <1>5, <1>6
  <2>2. QED
    BY <2>1, Zenon DEF IntegerRoot
<1>8. QED
  BY <1>7, SMT

\* A number whose square fits is no larger than the root.
LEMMA RootIsLargest ==
  ASSUME NEW y \in Nat, NEW n \in Nat, n * n <= y
  PROVE  n <= IntegerRoot(y)
<1> DEFINE root == IntegerRoot(y)
<1>1. root \in Nat /\ y < (root + 1) * (root + 1)
  BY RootBounds
<1> HIDE DEF root
<1>2. SUFFICES ASSUME root + 1 <= n PROVE FALSE
  BY <1>1, SMT DEF root
<1>3. (root + 1) * (root + 1) <= n * n
  <2>1. root + 1 = n \/ root + 1 < n
    BY <1>1, <1>2, SMT
  <2>2. CASE root + 1 = n
    BY <1>1, <2>2, SMT
  <2>3. CASE root + 1 < n
    <3>1. (root + 1) * (root + 1) < n * n
      BY <1>1, <2>3, Squares, SMT
    <3>2. QED
      BY <1>1, <3>1, SMT
  <2>4. QED
    BY <2>1, <2>2, <2>3
<1>4. QED
  BY <1>1, <1>3, SMT

\* A product that exceeds a number by less than its smaller factor exceeds it
\* by no more than the root.
LEMMA WithinRoot ==
  ASSUME NEW n \in Nat \ {0}, NEW k \in Nat \ {0}, NEW y \in Nat \ {0},
         n <= k, n * k <= y + n - 1
  PROVE  n * k <= y + IntegerRoot(y)
<1>1. n * n <= n * k /\ n * n \in Nat /\ n * k \in Nat
  BY MulMono, SMT
<1>2. (n - 1) * (n - 1) = n * n - 2 * n + 1
  BY SMT
<1>3. (n - 1) * (n - 1) <= y /\ n - 1 \in Nat
  BY <1>1, <1>2, SMT
<1>4. n - 1 <= IntegerRoot(y)
  BY <1>3, RootIsLargest
<1>5. IntegerRoot(y) \in Nat
  BY RootBounds
<1>6. QED
  BY <1>1, <1>4, <1>5, SMT

LEMMA ProductWithinRoot ==
  ASSUME NEW n \in Nat \ {0}, NEW k \in Nat \ {0}, NEW y \in Nat \ {0},
         n * k <= y + n - 1, n * k <= y + k - 1
  PROVE  n * k <= y + IntegerRoot(y)
<1>1. CASE n <= k
  BY <1>1, WithinRoot
<1>2. CASE k <= n
  <2>1. k * n = n * k
    BY SMT
  <2>2. QED
    BY <1>2, <2>1, WithinRoot, SMT
<1>3. QED
  BY <1>1, <1>2, SMT

-----------------------------------------------------------------------------
(* A swap under a product curve. *)

(***************************************************************************)
(* What a swap takes is no more than the amount, and the product it leaves *)
(* exceeds the invariant by no more than its root: both what the other     *)
(* reserve keeps and what that needs are rounded up as little as possible. *)
(* It gives something, for which one token less would not have done.       *)
(***************************************************************************)
LEMMA ProductSwapRounds ==
  ASSUME NEW amount \in Nat, NEW source \in Nat \ {0}, NEW destination \in Nat \ {0},
         ProductSwap(amount, source, destination) # None
  PROVE  LET r   == ProductSwap(amount, source, destination)
             inv == source * destination
         IN  /\ r.in <= amount
             /\ (source + r.in) * (destination - r.out) <= inv + IntegerRoot(inv)
             /\ r.out > 0 /\ ((source + r.in) - 1) * (destination - r.out) < inv
<1> DEFINE inv    == source * destination
           y      == source + amount
           kept   == CeilDiv(inv, y)
           needed == AdjustedDivisor(inv, y, kept)
           r      == ProductSwap(amount, source, destination)
<1>1. inv \in Nat \ {0} /\ y \in Nat \ {0}
  BY SMT
<1>2. r = [in |-> needed - source, out |-> destination - kept]
      /\ ~(needed < source) /\ ~(destination - kept <= 0)
  BY DEF ProductSwap
<1>3. kept \in Nat /\ (kept > 0 => kept * y >= inv)
  BY <1>1, CeilDivBounds
<1>4. ~(inv < y)
  <2>1. SUFFICES ASSUME inv < y PROVE FALSE
    OBVIOUS
  <2>2. needed = 0
    BY <2>1 DEF AdjustedDivisor
  <2>3. QED
    BY <1>2, <2>2, SMT
<1>5. needed = IF inv % y = 0 THEN y ELSE CeilUp(inv, kept)
  BY <1>4 DEF AdjustedDivisor
<1>6. kept = (inv + y - 1) \div y
  BY <1>4 DEF CeilDiv
<1> HIDE DEF inv, kept, needed, y, r
<1>7. kept * y <= inv + y - 1 /\ kept \in Nat \ {0}
  <2>1. inv + y - 1 \in Nat
    BY <1>1, SMT
  <2>2. kept * y <= inv + y - 1 /\ inv + y - 1 < kept * y + y
    BY <1>1, <1>6, <2>1, FloorBounds
  <2>3. kept # 0
    BY <1>1, <1>4, <2>2, SMT
  <2>4. QED
    BY <1>3, <2>2, <2>3
<1>8. /\ needed \in Nat \ {0} /\ needed <= y
      /\ needed * kept <= inv + needed - 1 /\ needed * kept <= inv + kept - 1
  <2>1. CASE inv % y = 0
    <3>1. needed = y
      BY <1>5, <2>1
    <3> DEFINE q == inv \div y
    <3>2. q \in Nat /\ q * y = inv
      BY <1>1, <2>1, SMT
    <3> HIDE DEF q
    <3>3. (q + 1) * y = q * y + y
      BY <1>1, <3>2, SMT
    <3>4. kept * y < (q + 1) * y
      BY <1>1, <1>7, <3>2, <3>3, SMT
    <3>5. kept < q + 1
      BY <1>1, <1>7, <3>2, <3>4, Cancels
    <3>6. kept * y <= q * y
      BY <1>1, <1>7, <3>2, <3>5, MulMono, SMT
    <3>7. needed * kept = kept * y
      BY <1>1, <1>7, <3>1, SMT
    <3>8. QED
      BY <1>1, <1>7, <3>1, <3>2, <3>6, <3>7, SMT
  <2>2. CASE inv % y # 0
    <3>1. needed = (inv + kept - 1) \div kept
      BY <1>5, <2>2 DEF CeilUp
    <3>2. inv + kept - 1 \in Nat
      BY <1>1, <1>7, SMT
    <3>3. needed \in Nat /\ needed * kept <= inv + kept - 1
          /\ inv + kept - 1 < needed * kept + kept
      BY <1>7, <3>1, <3>2, FloorBounds
    <3>4. needed # 0
      BY <1>1, <1>7, <3>3, SMT
    <3>5. kept * y \in Nat /\ (y + 1) * kept = kept * y + kept
      BY <1>1, <1>7, SMT
    <3>6. needed * kept < (y + 1) * kept
      BY <1>1, <1>3, <1>7, <3>3, <3>5, SMT
    <3>7. needed < y + 1
      BY <1>1, <1>7, <3>3, <3>6, Cancels
    <3>8. needed <= y
      BY <1>1, <3>3, <3>7, SMT
    <3>9. needed * (kept - 1) <= y * (kept - 1)
      BY <1>1, <1>7, <3>3, <3>8, MulMono, SMT
    <3>10. needed * (kept - 1) = needed * kept - needed /\ y * (kept - 1) = kept * y - y
      BY <1>1, <1>7, <3>3, SMT
    <3>11. needed * kept \in Nat
      BY <1>7, <3>3, SMT
    <3>12. needed * kept <= inv + needed - 1
      BY <1>1, <1>7, <3>3, <3>5, <3>9, <3>10, <3>11, SMT
    <3>13. QED
      BY <3>3, <3>4, <3>8, <3>12
  <2>3. QED
    BY <2>1, <2>2
<1>9. needed * kept <= inv + IntegerRoot(inv)
  BY <1>1, <1>7, <1>8, ProductWithinRoot
<1>10. r.in = needed - source /\ r.out = destination - kept
  BY <1>2
<1>11. /\ source + r.in = needed /\ destination - r.out = kept /\ r.in <= amount
       /\ r.out > 0
  BY <1>2, <1>7, <1>8, <1>10, SMT DEF y
<1>12. (needed - 1) * kept < inv
  <2>1. (needed - 1) * kept = needed * kept - kept /\ needed * kept \in Nat
    BY <1>7, <1>8, SMT
  <2>2. QED
    BY <1>1, <1>7, <1>8, <2>1, SMT
<1>13. ((source + r.in) - 1) * (destination - r.out) < inv
  BY <1>11, <1>12
<1>14. (source + r.in) * (destination - r.out) <= inv + IntegerRoot(inv)
  BY <1>9, <1>11
<1>15. QED
  BY <1>11, <1>13, <1>14 DEF inv, r

-----------------------------------------------------------------------------
(* A swap under a priced curve. *)

\* What the reserves are worth, in RAYs of a token A.
Worth(x, y, p) == x * RAY + y * p

LEMMA WorthOfTotal ==
  ASSUME NEW x \in Nat, NEW y \in Nat, NEW p \in Nat
  PROVE  /\ TotalValue(x, y, p) \in Nat /\ Worth(x, y, p) \in Nat
         /\ TotalValue(x, y, p) * RAY <= Worth(x, y, p)
         /\ Worth(x, y, p) < TotalValue(x, y, p) * RAY + RAY
<1> DEFINE q == (y * p) \div RAY
<1>1. y * p \in Nat /\ x * RAY \in Nat
  BY RAYAssumption, SMT
<1>2. q \in Nat /\ q * RAY <= y * p /\ y * p < q * RAY + RAY
  BY <1>1, RAYAssumption, FloorBounds
<1>3. TotalValue(x, y, p) = x + q
  BY DEF TotalValue
<1> HIDE DEF q
<1>4. (x + q) * RAY = x * RAY + q * RAY /\ q * RAY \in Nat /\ x + q \in Nat
  BY <1>2, RAYAssumption, SMT
<1>5. QED
  BY <1>1, <1>2, <1>3, <1>4, RAYAssumption, SMT DEF Worth

\* A worth that grows by less than a token A moves the total by at most one.
LEMMA TotalsNear ==
  ASSUME NEW t \in Nat, NEW t2 \in Nat, NEW v \in Nat, NEW v2 \in Nat,
         t * RAY <= v, v < t * RAY + RAY, t2 * RAY <= v2, v2 < t2 * RAY + RAY,
         v <= v2
  PROVE  t <= t2 /\ (v2 < v + RAY => t2 <= t + 1)
<1>1. t * RAY \in Nat /\ t2 * RAY \in Nat /\ (t2 + 1) * RAY = t2 * RAY + RAY
      /\ (t + 2) * RAY = t * RAY + 2 * RAY
  BY RAYAssumption, SMT
<1>2. t * RAY < (t2 + 1) * RAY
  BY <1>1, RAYAssumption, SMT
<1>3. t < t2 + 1
  BY <1>2, RAYAssumption, Cancels
<1>4. v2 < v + RAY => t2 * RAY < (t + 2) * RAY
  BY <1>1, RAYAssumption, SMT
<1>5. v2 < v + RAY => t2 < t + 2
  BY <1>4, RAYAssumption, Cancels
<1>6. QED
  BY <1>3, <1>5, SMT

\* What a swap takes in and gives out, and how near they are in worth.
LEMMA PricedSwapRounds ==
  ASSUME NEW amount \in Nat, NEW p \in Nat, NEW dir \in Direction,
         ~Bad(PricedSwap(amount, dir, p))
  PROVE  LET r    == PricedSwap(amount, dir, p)
             gain == r.in * Weight(dir, p) - r.out * OtherWeight(dir, p)
         IN  /\ r.in \in Nat \ {0} /\ r.out \in Nat \ {0} /\ r.in <= amount
             /\ gain >= 0 /\ gain < RAY
             /\ r.out * OtherWeight(dir, p) <= amount * Weight(dir, p)
             /\ dir = "BtoA" => r.in = amount
<1> DEFINE in  == SwappedIn(amount, dir, p)
           out == SwappedOut(amount, dir, p)
           r   == PricedSwap(amount, dir, p)
<1>1. /\ ~(dir = "AtoB" /\ p = 0) /\ in <= amount /\ in # 0 /\ out # 0
      /\ r = [in |-> in, out |-> out]
  <2>1. ~(dir = "AtoB" /\ p = 0)
    BY DEF PricedSwap, Bad
  <2>2. ~(in > amount \/ in = 0)
    BY <2>1 DEF PricedSwap, Bad
  <2>3. AsU128(out) # Panics
    BY <2>1, <2>2 DEF PricedSwap, Bad
  <2>4. out # 0
    BY <2>1, <2>2, <2>3 DEF PricedSwap, Bad
  <2>5. in \in Nat
    BY <2>1, AmountTypes, SMT
  <2>6. QED
    BY <2>1, <2>2, <2>3, <2>4, <2>5, SMT DEF PricedSwap
<1>2. in \in Nat /\ out \in Nat
  BY <1>1, AmountTypes, SMT
<1>3. r.in = in /\ r.out = out
  BY <1>1
<1>4. CASE dir = "AtoB"
  <2>1. out = (amount * RAY) \div p /\ in = CeilDiv(out * p, RAY)
    BY <1>4 DEF SwappedOut, SwappedIn
  <2> HIDE DEF in, out, r
  <2>2. out * p \in Nat /\ out * p <= amount * RAY /\ p \in Nat \ {0} /\ out * p > 0
    <3>1. amount * RAY \in Nat /\ p \in Nat \ {0}
      BY <1>1, <1>4, RAYAssumption, SMT
    <3>2. out * p <= amount * RAY
      BY <2>1, <3>1, FloorBounds
    <3>3. 1 * p <= out * p
      BY <1>1, <1>2, <3>1, MulMono, SMT
    <3>4. QED
      BY <1>2, <3>1, <3>2, <3>3, SMT
  <2>3. in * RAY >= out * p
    BY <1>1, <1>2, <2>1, <2>2, RAYAssumption, CeilDivBounds, SMT
  <2>4. in * RAY < out * p + RAY
    <3>1. CASE out * p < RAY
      <4>1. in = 1
        BY <1>1, <2>1, <3>1, SMT DEF CeilDiv
      <4>2. QED
        BY <2>2, <4>1, RAYAssumption, SMT
    <3>2. CASE ~(out * p < RAY)
      <4>1. in = (out * p + RAY - 1) \div RAY
        BY <2>1, <3>2 DEF CeilDiv
      <4>2. out * p + RAY - 1 \in Nat
        BY <2>2, RAYAssumption, SMT
      <4>3. in * RAY <= out * p + RAY - 1
        BY <4>1, <4>2, RAYAssumption, FloorBounds
      <4>4. QED
        BY <1>2, <2>2, <4>3, RAYAssumption, SMT
    <3>3. QED
      BY <3>1, <3>2
  <2>5. Weight(dir, p) = RAY /\ OtherWeight(dir, p) = p
    BY <1>4 DEF Weight, OtherWeight
  <2>6. in * RAY \in Nat
    BY <1>2, RAYAssumption, SMT
  <2>7. /\ in * Weight(dir, p) - out * OtherWeight(dir, p) >= 0
        /\ in * Weight(dir, p) - out * OtherWeight(dir, p) < RAY
        /\ out * OtherWeight(dir, p) <= amount * Weight(dir, p)
    BY <2>2, <2>3, <2>4, <2>5, <2>6, RAYAssumption, SMT
  <2>8. QED
    BY <1>1, <1>2, <1>3, <1>4, <2>7 DEF r, in, out
<1>5. CASE dir = "BtoA"
  <2>1. out = (amount * p) \div RAY /\ in = amount
    BY <1>5 DEF SwappedOut, SwappedIn
  <2> HIDE DEF in, out, r
  <2>2. amount * p \in Nat
    BY SMT
  <2>3. out * RAY <= amount * p /\ amount * p < out * RAY + RAY
    BY <2>1, <2>2, RAYAssumption, FloorBounds
  <2>4. Weight(dir, p) = p /\ OtherWeight(dir, p) = RAY
    BY <1>5 DEF Weight, OtherWeight
  <2>5. out * RAY \in Nat
    BY <1>2, RAYAssumption, SMT
  <2>6. /\ in * Weight(dir, p) - out * OtherWeight(dir, p) >= 0
        /\ in * Weight(dir, p) - out * OtherWeight(dir, p) < RAY
        /\ out * OtherWeight(dir, p) <= amount * Weight(dir, p)
    BY <2>1, <2>2, <2>3, <2>4, <2>5, RAYAssumption, SMT
  <2>7. QED
    BY <1>1, <1>2, <1>3, <2>1, <2>6 DEF r, in, out
<1>6. QED
  BY <1>4, <1>5 DEF Direction

-----------------------------------------------------------------------------
(* SwapKeepsValue. *)

\* A swap that SwapOf answers is the curve's, and the reserve can pay it.
LEMMA SwapOfCurve ==
  ASSUME NEW pool, NEW amount, NEW dir, SwapOf(pool, amount, dir) # None
  PROVE  LET r == SwapWithoutFees(curve, amount, pool[dir], pool[Opposite(dir)], dir)
         IN  /\ SwapOf(pool, amount, dir) = r /\ ~Bad(r)
             /\ ~(r.out > pool[Opposite(dir)])
  BY DEF SwapOf

\* What the curve takes a reserve for, and the reserve the other token is in.
CurveReserve(c, pool, dir) == IF dir = "AtoB" THEN pool.AtoB ELSE WithOffset(c, pool.BtoA)

\* A product curve's swap: its product does not fall, and rises by its root at most.
LEMMA ProductSwapOf ==
  ASSUME NEW x \in Nat, NEW y \in Nat, NEW amount \in Nat, NEW dir \in Direction,
         curve \in Curve, ~Priced(curve),
         CurveReserve(curve, Pool(x, y), dir) # 0,
         CurveReserve(curve, Pool(x, y), Opposite(dir)) # 0,
         SwapOf(Pool(x, y), amount, dir) # None
  PROVE  LET r   == SwapOf(Pool(x, y), amount, dir)
             src == CurveReserve(curve, Pool(x, y), dir)
             dst == CurveReserve(curve, Pool(x, y), Opposite(dir))
             inv == src * dst
             new == (src + r.in) * (dst - r.out)
         IN  /\ src \in Nat \ {0} /\ dst \in Nat \ {0}
             /\ r.in \in Nat /\ r.out \in Nat /\ r.in <= amount
             /\ r.out < dst /\ r.out <= Pool(x, y)[Opposite(dir)]
             /\ inv <= new /\ new <= inv + IntegerRoot(inv)
<1> DEFINE pool == Pool(x, y)
           r    == SwapOf(pool, amount, dir)
           src  == CurveReserve(curve, pool, dir)
           dst  == CurveReserve(curve, pool, Opposite(dir))
<1>1. pool.AtoB = x /\ pool.BtoA = y
  BY DEF Pool
<1>2. src \in Nat \ {0} /\ dst \in Nat \ {0}
  <2>1. WithOffset(curve, y) \in Nat
    BY SMT DEF WithOffset, Curve
  <2>2. QED
    BY <1>1, <2>1 DEF CurveReserve
<1>3. r = SwapWithoutFees(curve, amount, pool[dir], pool[Opposite(dir)], dir)
      /\ ~Bad(r) /\ ~(r.out > pool[Opposite(dir)])
  BY SwapOfCurve
<1>4. r = ProductSwap(amount, src, dst)
  BY <1>3 DEF SwapWithoutFees, CurveReserve, Opposite, Direction
<1>5. ProductSwap(amount, src, dst) # None
  BY <1>3, <1>4 DEF Bad
<1>6. pool[Opposite(dir)] \in Nat
  BY <1>1 DEF Opposite, Direction
<1> HIDE DEF pool, r, src, dst
<1>7. /\ r.in \in Nat /\ r.out \in Nat /\ r.out < dst
      /\ src * dst <= (src + r.in) * (dst - r.out)
  BY <1>2, <1>4, <1>5, ProductSwapKeeps
<1>8. r.in <= amount /\ (src + r.in) * (dst - r.out) <= src * dst + IntegerRoot(src * dst)
  BY <1>2, <1>4, <1>5, ProductSwapRounds
<1>9. r.out <= pool[Opposite(dir)]
  BY <1>3, <1>6, <1>7, SMT
<1>10. QED
  BY <1>2, <1>7, <1>8, <1>9 DEF pool, r, src, dst

\* The pool a swap leaves, and what the curve takes its reserves for.
LEMMA SwappedPool ==
  ASSUME NEW x \in Int, NEW y \in Int, NEW in \in Int, NEW out \in Int, NEW r, NEW dir \in Direction,
         r.in = in, r.out = out
  PROVE  Swapped(Pool(x, y), r, dir)
           = IF dir = "AtoB" THEN Pool(x + in, y - out) ELSE Pool(x - out, y + in)
<1>1. CASE dir = "AtoB"
  BY <1>1 DEF Swapped, Pool, Opposite
<1>2. CASE dir = "BtoA"
  BY <1>2 DEF Swapped, Pool, Opposite
<1>3. QED
  BY <1>1, <1>2 DEF Direction

LEMMA OffsetMoves ==
  ASSUME curve \in Curve, NEW y \in Int, NEW d \in Int
  PROVE  WithOffset(curve, y + d) = WithOffset(curve, y) + d /\ WithOffset(curve, y) \in Int
         /\ WithOffset(curve, y - d) = WithOffset(curve, y) - d /\ WithOffset(curve, y) >= y
  BY SMT DEF WithOffset, Curve

LEMMA ProductSwapKeepsValue ==
  ASSUME SampleInv, Drawn, ~Priced(curve), SwapOf(Whole, Amount, sample.dir) # None
  PROVE  LET new == Value(Swapped(Whole, SwapOf(Whole, Amount, sample.dir), sample.dir))
         IN  new >= Value(Whole) /\ WithinOne(new, Value(Whole))
<1> DEFINE dir == sample.dir
           r   == SwapOf(Whole, Amount, dir)
           y   == WithOffset(curve, b)
           src == CurveReserve(curve, Pool(a, b), dir)
           dst == CurveReserve(curve, Pool(a, b), Opposite(dir))
           inv == src * dst
           new == (src + r.in) * (dst - r.out)
<1>1. /\ curve \in Curve /\ a \in Nat \ {0} /\ b \in Nat \ {0}
      /\ Amount \in Nat \ {0} /\ dir \in Direction /\ y \in Nat \ {0}
  BY Numbers
<1>2. /\ dir = "AtoB" => src = a /\ dst = y
      /\ dir = "BtoA" => src = y /\ dst = a
  BY DEF CurveReserve, Pool, Opposite
<1>3. src # 0 /\ dst # 0
  BY <1>1, <1>2 DEF Direction
<1>4. /\ src \in Nat \ {0} /\ dst \in Nat \ {0} /\ r.in \in Nat /\ r.out \in Nat
      /\ inv <= new /\ new <= inv + IntegerRoot(inv)
  BY <1>1, <1>3, ProductSwapOf DEF Whole
<1>5. Value(Whole) = inv
  <2>1. Value(Whole) = a * y
    BY DEF Value, NormalizedValue, ProductValue, Whole, Pool
  <2>2. a * y = y * a
    BY <1>1, SMT
  <2>3. QED
    BY <1>1, <1>2, <2>1, <2>2 DEF Direction
<1>6. Value(Swapped(Whole, r, dir)) = new
  <2> HIDE DEF r
  <2>1. Swapped(Whole, r, dir) = IF dir = "AtoB" THEN Pool(a + r.in, b - r.out)
                                 ELSE Pool(a - r.out, b + r.in)
    BY <1>1, <1>4, SwappedPool DEF Whole
  <2>2. CASE dir = "AtoB"
    <3>1. Value(Swapped(Whole, r, dir)) = (a + r.in) * WithOffset(curve, b - r.out)
      BY <2>1, <2>2 DEF Value, NormalizedValue, ProductValue, Pool
    <3>2. WithOffset(curve, b - r.out) = y - r.out
      <4>1. b \in Int /\ r.out \in Int
        BY <1>1, <1>4
      <4>2. QED
        BY <1>1, <4>1, OffsetMoves, Zenon
    <3>3. QED
      BY <1>2, <2>2, <3>1, <3>2
  <2>3. CASE dir = "BtoA"
    <3>1. Value(Swapped(Whole, r, dir)) = (a - r.out) * WithOffset(curve, b + r.in)
      BY <2>1, <2>3 DEF Value, NormalizedValue, ProductValue, Pool
    <3>2. WithOffset(curve, b + r.in) = y + r.in
      <4>1. b \in Int /\ r.in \in Int
        BY <1>1, <1>4
      <4>2. QED
        BY <1>1, <4>1, OffsetMoves, Zenon
    <3>3. (a - r.out) * (y + r.in) = (y + r.in) * (a - r.out)
      BY <1>1, <1>4, SMT
    <3>4. QED
      BY <1>2, <2>3, <3>1, <3>2, <3>3
  <2>4. QED
    BY <1>1, <2>2, <2>3 DEF Direction
<1>7. inv \in Nat /\ new \in Int
  BY <1>4, SMT
<1>8. IntegerRoot(inv) \in Nat
  BY <1>7, RootBounds
<1>9. new >= inv /\ new <= inv + 2 * IntegerRoot(inv) + 1
  BY <1>4, <1>7, <1>8, SMT
<1> HIDE DEF inv, new
<1>10. WithinOne(new, inv)
  BY <1>9 DEF WithinOne
<1>11. QED
  BY <1>5, <1>6, <1>9, <1>10

(***************************************************************************)
(* A priced curve's swap that the pool can pay: the worth of the reserves  *)
(* does not fall, and rises by less than a token A.                        *)
(***************************************************************************)
LEMMA PricedSwapOf ==
  ASSUME NEW x \in Nat, NEW y \in Nat, NEW amount \in Nat, NEW dir \in Direction,
         curve \in Curve, Priced(curve), SwapOf(Pool(x, y), amount, dir) # None
  PROVE  LET r  == SwapOf(Pool(x, y), amount, dir)
             p  == curve.price
             x2 == IF dir = "AtoB" THEN x + r.in ELSE x - r.out
             y2 == IF dir = "AtoB" THEN y - r.out ELSE y + r.in
         IN  /\ r.in \in Nat \ {0} /\ r.out \in Nat \ {0} /\ r.in <= amount
             /\ dir = "BtoA" => r.in = amount
             /\ r.out <= Pool(x, y)[Opposite(dir)]
             /\ r.out * OtherWeight(dir, p) <= amount * Weight(dir, p)
             /\ r.out * OtherWeight(dir, p) <= r.in * Weight(dir, p)
             /\ x2 \in Nat /\ y2 \in Nat /\ Swapped(Pool(x, y), r, dir) = Pool(x2, y2)
             /\ Worth(x2, y2, p) >= Worth(x, y, p)
             /\ Worth(x2, y2, p) < Worth(x, y, p) + RAY
<1> DEFINE pool == Pool(x, y)
           r    == SwapOf(pool, amount, dir)
           p    == curve.price
           x2   == IF dir = "AtoB" THEN x + r.in ELSE x - r.out
           y2   == IF dir = "AtoB" THEN y - r.out ELSE y + r.in
           gain == r.in * Weight(dir, p) - r.out * OtherWeight(dir, p)
<1>1. p \in Nat
  BY DEF Curve
<1>2. r = SwapWithoutFees(curve, amount, pool[dir], pool[Opposite(dir)], dir)
      /\ ~Bad(r) /\ ~(r.out > pool[Opposite(dir)])
  BY SwapOfCurve
<1>3. r = PricedSwap(amount, dir, p) /\ ~Bad(PricedSwap(amount, dir, p))
  BY <1>2 DEF SwapWithoutFees
<1> HIDE DEF r
<1>4. /\ r.in \in Nat \ {0} /\ r.out \in Nat \ {0} /\ r.in <= amount
      /\ gain >= 0 /\ gain < RAY
      /\ r.out * OtherWeight(dir, p) <= amount * Weight(dir, p)
      /\ dir = "BtoA" => r.in = amount
  BY <1>1, <1>3, PricedSwapRounds
<1>5. pool[Opposite(dir)] = IF dir = "AtoB" THEN y ELSE x
  BY DEF Pool, Opposite, Direction
<1>6. r.out <= pool[Opposite(dir)]
  BY <1>2, <1>4, <1>5, SMT
<1>7. x2 \in Nat /\ y2 \in Nat
  BY <1>4, <1>5, <1>6, SMT
<1>8. Swapped(pool, r, dir) = Pool(x2, y2)
  BY <1>4, SwappedPool
<1>9. Worth(x2, y2, p) = Worth(x, y, p) + gain
  <2>1. CASE dir = "AtoB"
    <3>1. (x + r.in) * RAY + (y - r.out) * p = (x * RAY + y * p) + (r.in * RAY - r.out * p)
      BY <1>1, <1>4, RAYAssumption, SMT
    <3>2. QED
      BY <2>1, <3>1 DEF Worth, Weight, OtherWeight
  <2>2. CASE dir = "BtoA"
    <3>1. (x - r.out) * RAY + (y + r.in) * p = (x * RAY + y * p) + (r.in * p - r.out * RAY)
      BY <1>1, <1>4, RAYAssumption, SMT
    <3>2. QED
      BY <2>2, <3>1 DEF Worth, Weight, OtherWeight
  <2>3. QED
    BY <2>1, <2>2 DEF Direction
<1>10. Worth(x, y, p) \in Nat
  BY <1>1, WorthOfTotal
<1>11. gain \in Int
  <2>1. Weight(dir, p) \in Nat /\ OtherWeight(dir, p) \in Nat
    BY <1>1, RAYAssumption DEF Weight, OtherWeight
  <2>2. QED
    BY <1>4, <2>1, SMT
<1>12. r.out * OtherWeight(dir, p) <= r.in * Weight(dir, p)
  <2>1. Weight(dir, p) \in Nat /\ OtherWeight(dir, p) \in Nat
    BY <1>1, RAYAssumption DEF Weight, OtherWeight
  <2>2. r.out * OtherWeight(dir, p) \in Nat /\ r.in * Weight(dir, p) \in Nat
    BY <1>4, <2>1, SMT
  <2>3. QED
    BY <1>4, <2>2, SMT
<1> HIDE DEF x2, y2, gain
<1>13. Worth(x2, y2, p) >= Worth(x, y, p) /\ Worth(x2, y2, p) < Worth(x, y, p) + RAY
  BY <1>4, <1>9, <1>10, <1>11, RAYAssumption, SMT
<1>14. QED
  BY <1>4, <1>6, <1>7, <1>8, <1>12, <1>13 DEF r, x2, y2

LEMMA PricedSwapWorth ==
  ASSUME NEW x \in Nat, NEW y \in Nat, NEW amount \in Nat, NEW dir \in Direction,
         curve \in Curve, Priced(curve), NEW r, r # None, r = SwapOf(Pool(x, y), amount, dir)
  PROVE  /\ r.out \in Nat
         /\ r.out * OtherWeight(dir, curve.price) <= amount * Weight(dir, curve.price)
  BY PricedSwapOf

LEMMA PricedSwapKeepsValue ==
  ASSUME SampleInv, Drawn, Priced(curve), SwapOf(Whole, Amount, sample.dir) # None
  PROVE  LET new == Value(Swapped(Whole, SwapOf(Whole, Amount, sample.dir), sample.dir))
         IN  new >= Value(Whole) /\ WithinOne(new, Value(Whole))
<1> DEFINE dir == sample.dir
           r   == SwapOf(Whole, Amount, dir)
           p   == curve.price
           x2  == IF dir = "AtoB" THEN a + r.in ELSE a - r.out
           y2  == IF dir = "AtoB" THEN b - r.out ELSE b + r.in
           t   == TotalValue(a, b, p)
           t2  == TotalValue(x2, y2, p)
<1>1. /\ curve \in Curve /\ p \in Nat /\ a \in Nat /\ b \in Nat
      /\ Amount \in Nat /\ dir \in Direction
  BY Numbers
<1>2. /\ x2 \in Nat /\ y2 \in Nat /\ Swapped(Whole, r, dir) = Pool(x2, y2)
      /\ Worth(x2, y2, p) >= Worth(a, b, p)
      /\ Worth(x2, y2, p) < Worth(a, b, p) + RAY
  BY <1>1, PricedSwapOf DEF Whole
<1> HIDE DEF x2, y2
<1>3. /\ t \in Nat /\ t2 \in Nat /\ Worth(a, b, p) \in Nat /\ Worth(x2, y2, p) \in Nat
      /\ t * RAY <= Worth(a, b, p) /\ Worth(a, b, p) < t * RAY + RAY
      /\ t2 * RAY <= Worth(x2, y2, p) /\ Worth(x2, y2, p) < t2 * RAY + RAY
  BY <1>1, <1>2, WorthOfTotal
<1> HIDE DEF t, t2
<1>4. t <= t2 /\ t2 <= t + 1
  <2>1. Worth(a, b, p) <= Worth(x2, y2, p)
    BY <1>2, <1>3, SMT
  <2>2. QED
    BY <1>2, <1>3, <2>1, TotalsNear
<1>5. Value(Whole) = t \div 2 /\ Value(Swapped(Whole, r, dir)) = t2 \div 2
  BY <1>2 DEF Value, NormalizedValue, PricedValue, Whole, Pool, t, t2
<1>6. t2 \div 2 >= t \div 2 /\ t2 \div 2 <= t \div 2 + 1
  BY <1>3, <1>4, SMT
<1>7. WithinOne(t2 \div 2, t \div 2)
  BY <1>6 DEF WithinOne
<1>8. QED
  BY <1>5, <1>6, <1>7

(***************************************************************************)
(* Of every calculator, pool and amount: a swap never lowers the           *)
(* normalized value of the pool and raises it by at most one token.        *)
(***************************************************************************)
THEOREM SwapsKeepTheValue == Spec => []SwapKeepsValue
<1>1. SampleInv => SwapKeepsValue
  BY ProductSwapKeepsValue, PricedSwapKeepsValue DEF SwapKeepsValue
<1>2. QED
  BY <1>1, SampleIsInvariant, PTL

-----------------------------------------------------------------------------
(* SharesKeepTheirValue. *)

\* What pool tokens take in, rounded up, covers their share of a reserve.
LEMMA CeilingCovers ==
  ASSUME NEW poolTokens \in Nat, NEW reserve \in Nat, NEW s \in Nat \ {0},
         poolTokens * reserve >= s
  PROVE  /\ ProductPart(poolTokens, reserve, s, "Ceiling") \in Nat
         /\ ProductPart(poolTokens, reserve, s, "Ceiling") * s >= poolTokens * reserve
         /\ PoolTokensToTradingTokens(poolTokens, reserve, s, "Ceiling") \in Nat
         /\ PoolTokensToTradingTokens(poolTokens, reserve, s, "Ceiling") * s
              >= poolTokens * reserve
<1> DEFINE x     == poolTokens * reserve
           part  == ProductPart(poolTokens, reserve, s, "Ceiling")
           whole == x \div s
<1>1. x \in Nat
  BY SMT
<1>2. part \in Nat /\ (part > 0 => poolTokens * reserve <= part * s)
  BY PartRoundedUp
<1>3. part >= whole
  <2>1. whole \in Nat
    BY <1>1, FloorBounds
  <2>2. part = IF whole > 0 /\ x % s > 0 THEN whole + 1 ELSE whole
    BY DEF ProductPart
  <2> HIDE DEF part, whole
  <2>3. QED
    BY <2>1, <2>2, SMT
<1>4. whole >= 1
  <2>1. 1 * s <= x
    BY SMT
  <2> HIDE DEF x
  <2>2. QED
    BY <1>1, <2>1, FloorIsLargest
<1>5. part > 0
  <2>1. whole \in Nat
    BY <1>1, FloorBounds
  <2> HIDE DEF part, whole
  <2>2. QED
    BY <1>2, <1>3, <1>4, <2>1, SMT
<1>6. part * s >= x
  <2> HIDE DEF part
  <2>1. part * s \in Nat
    BY <1>2, SMT
  <2>2. QED
    BY <1>1, <1>2, <1>5, <2>1, SMT
<1>7. CeilDiv(x, s) \in Nat /\ CeilDiv(x, s) * s >= x
  <2>1. CeilDiv(x, s) = (x + s - 1) \div s
    BY SMT DEF CeilDiv
  <2> HIDE DEF x
  <2>2. x + s - 1 \in Nat
    BY <1>1, SMT
  <2>3. CeilDiv(x, s) \in Nat /\ x + s - 1 < CeilDiv(x, s) * s + s
    BY <2>1, <2>2, FloorBounds
  <2>4. CeilDiv(x, s) * s \in Nat
    BY <2>3, SMT
  <2>5. QED
    BY <1>1, <2>3, <2>4, SMT
<1>8. PoolTokensToTradingTokens(poolTokens, reserve, s, "Ceiling") = CeilDiv(x, s)
  BY DEF PoolTokensToTradingTokens, Divide
<1>9. QED
  BY <1>2, <1>6, <1>7, <1>8

\* A reserve that grows by the share of new pool tokens, or by more.
LEMMA ShareGrows ==
  ASSUME NEW x \in Nat, NEW y \in Nat, NEW in \in Nat, NEW s \in Nat, NEW poolTokens \in Nat,
         in * s >= poolTokens * y, y >= x
  PROVE  (x + in) * s >= x * (s + poolTokens)
<1>1. poolTokens * x <= poolTokens * y
  BY MulMono
<1>2. (x + in) * s = x * s + in * s /\ x * (s + poolTokens) = x * s + poolTokens * x
  BY SMT
<1>3. x * s \in Nat /\ in * s \in Nat /\ poolTokens * x \in Nat /\ poolTokens * y \in Nat
  BY SMT
<1>4. QED
  BY <1>1, <1>2, <1>3, SMT

LEMMA DepositsKeepShares == SampleInv => DepositKeepsShare
<1> DEFINE in == TradingTokens(curve, Amount, a, b, supply, "Ceiling")
           y  == WithOffset(curve, b)
<1>1. SUFFICES ASSUME SampleInv, Drawn, WorthOneOfEach(Whole, Amount, supply), ~Bad(in),
                      NEW d \in Direction
               PROVE  Deposited(Whole, in)[d] * supply >= Whole[d] * (supply + Amount)
  BY DEF DepositKeepsShare
<1>2. /\ curve \in Curve /\ a \in Nat /\ b \in Nat /\ supply \in Nat \ {0}
      /\ Amount \in Nat /\ y \in Nat /\ y >= b
  BY <1>1, Numbers
<1>3. Amount * a >= supply /\ Amount * y >= supply
  BY <1>1 DEF WorthOneOfEach, Whole, Pool
<1>4. supply # 0
  BY <1>2
<1> HIDE DEF y
<1>5. /\ in.a \in Nat /\ in.a * supply >= Amount * a
      /\ in.b \in Nat /\ in.b * supply >= Amount * y
  <2>1. CASE Priced(curve)
    <3>1. in = [a |-> PoolTokensToTradingTokens(Amount, a, supply, "Ceiling"),
                b |-> PoolTokensToTradingTokens(Amount, b, supply, "Ceiling")]
      BY <1>4, <2>1 DEF TradingTokens, PricedTradingTokens
    <3>2. y = b
      BY <2>1 DEF y, WithOffset, Priced
    <3>3. QED
      BY <1>2, <1>3, <3>1, <3>2, CeilingCovers
  <2>2. CASE ~Priced(curve)
    <3>1. ~(Amount * y > U128_MAX)
      BY <1>1, <1>4, <2>2 DEF TradingTokens, Bad, y
    <3>2. in = [a |-> ProductPart(Amount, a, supply, "Ceiling"),
                b |-> ProductPart(Amount, y, supply, "Ceiling")]
      BY <1>4, <2>2, <3>1 DEF TradingTokens, y
    <3>3. QED
      BY <1>2, <1>3, <3>2, CeilingCovers
  <2>3. QED
    BY <2>1, <2>2
<1> HIDE DEF in
<1>6. /\ (a + in.a) * supply >= a * (supply + Amount)
      /\ (b + in.b) * supply >= b * (supply + Amount)
  <2>1. a >= a
    BY <1>2, SMT
  <2>2. QED
    BY <1>2, <1>5, <2>1, ShareGrows
<1>7. CASE d = "AtoB"
  BY <1>6, <1>7 DEF Deposited, Whole, Pool
<1>8. CASE d = "BtoA"
  BY <1>6, <1>8 DEF Deposited, Whole, Pool
<1>9. QED
  BY <1>7, <1>8 DEF Direction

\* A reserve keeps at least the share of the pool tokens that are left.
LEMMA ShareLeft ==
  ASSUME NEW x \in Nat \ {0}, NEW out \in Nat, NEW s \in Nat \ {0}, NEW poolTokens \in Nat,
         out * s <= poolTokens * x, poolTokens < s
  PROVE  /\ x - out \in Nat \ {0} /\ s - poolTokens \in Nat \ {0}
         /\ x * (s - poolTokens) <= (x - out) * s
<1>1. s - poolTokens \in Nat \ {0}
  BY SMT
<1>2. x * (s - poolTokens) = x * s - poolTokens * x /\ (x - out) * s = x * s - out * s
  BY SMT
<1>3. x * s \in Nat /\ poolTokens * x \in Nat /\ out * s \in Nat
  BY SMT
<1>4. x * (s - poolTokens) <= (x - out) * s
  BY <1>2, <1>3, SMT
<1>5. 1 * 1 <= x * (s - poolTokens)
  <2>1. 1 * (s - poolTokens) <= x * (s - poolTokens)
    BY <1>1, MulMono, SMT
  <2>2. QED
    BY <1>1, <1>3, <2>1, SMT
<1>6. 0 * s < (x - out) * s
  BY <1>2, <1>3, <1>4, <1>5, SMT
<1>7. 0 < x - out
  BY <1>6, Cancels, SMT
<1>8. QED
  BY <1>1, <1>4, <1>7, SMT

\* What a withdrawal of both tokens under a product curve takes out.
LEMMA ProductTaken ==
  ASSUME NEW poolTokens \in Nat, NEW x \in Nat \ {0}, NEW y \in Nat \ {0}, NEW s \in Nat \ {0},
         curve \in Curve, ~Priced(curve), ~Bad(TradingTokens(curve, poolTokens, x, y, s, "Floor")),
         poolTokens < s
  PROVE  LET out  == TradingTokens(curve, poolTokens, x, y, s, "Floor")
             whole == WithOffset(curve, y)
         IN  /\ out.a \in Nat /\ out.b \in Nat /\ whole \in Nat \ {0}
             /\ x - out.a \in Nat \ {0} /\ whole - out.b \in Nat \ {0}
             /\ x * (s - poolTokens) <= (x - out.a) * s
             /\ whole * (s - poolTokens) <= (whole - out.b) * s
<1> DEFINE out   == TradingTokens(curve, poolTokens, x, y, s, "Floor")
           whole == WithOffset(curve, y)
<1>1. whole \in Nat \ {0}
  BY SMT DEF WithOffset, Curve
<1>2. out = [a |-> ProductPart(poolTokens, x, s, "Floor"),
             b |-> ProductPart(poolTokens, whole, s, "Floor")]
  <2>1. s # 0
    OBVIOUS
  <2>2. ~(poolTokens * whole > U128_MAX)
    BY <2>1 DEF TradingTokens, Bad
  <2>3. QED
    BY <2>1, <2>2 DEF TradingTokens
<1>3. /\ out.a \in Nat /\ out.a * s <= poolTokens * x
      /\ out.b \in Nat /\ out.b * s <= poolTokens * whole
  <2>1. out.a = ProductPart(poolTokens, x, s, "Floor")
        /\ out.b = ProductPart(poolTokens, whole, s, "Floor")
    BY <1>2
  <2> HIDE DEF out, whole
  <2>2. QED
    BY <1>1, <2>1, PartRoundedDown
<1> HIDE DEF out, whole
<1>4. /\ x - out.a \in Nat \ {0} /\ x * (s - poolTokens) <= (x - out.a) * s
      /\ whole - out.b \in Nat \ {0} /\ whole * (s - poolTokens) <= (whole - out.b) * s
  BY <1>1, <1>3, ShareLeft
<1>5. QED
  BY <1>1, <1>3, <1>4 DEF out, whole

LEMMA WithdrawalsKeepShares == SampleInv => WithdrawalKeepsShare
<1> DEFINE out  == TradingTokens(curve, Amount, a, b, supply, "Floor")
           left == Withdrawn(Whole, out)
           y    == WithOffset(curve, b)
           part == supply - Amount
<1>1. SUFFICES ASSUME SampleInv, Drawn, ~Priced(curve), Amount < supply, ~Bad(out)
               PROVE  AtLeast(Value(left), Value(Whole), part, supply)
  BY DEF WithdrawalKeepsShare
<1>2. /\ curve \in Curve /\ a \in Nat \ {0} /\ b \in Nat \ {0} /\ supply \in Nat \ {0}
      /\ Amount \in Nat
  BY <1>1, Numbers
<1>3. /\ out.a \in Nat /\ out.b \in Nat /\ y \in Nat \ {0}
      /\ a - out.a \in Nat \ {0} /\ y - out.b \in Nat \ {0}
      /\ a * part <= (a - out.a) * supply /\ y * part <= (y - out.b) * supply
  BY <1>1, <1>2, ProductTaken
<1> HIDE DEF out
<1>4. Value(Whole) = a * y
  BY <1>1 DEF Value, NormalizedValue, ProductValue, Whole, Pool
<1>5. Value(left) = (a - out.a) * (y - out.b)
  <2>1. Value(left) = (a - out.a) * WithOffset(curve, b - out.b)
    BY <1>1 DEF Value, NormalizedValue, ProductValue, Withdrawn, Whole, Pool
  <2>2. b \in Int /\ out.b \in Int
    BY <1>2, <1>3
  <2>3. WithOffset(curve, b - out.b) = y - out.b
    BY <1>2, <2>2, OffsetMoves, Zenon
  <2>4. QED
    BY <2>1, <2>3
<1>6. part \in Nat
  BY <1>1, <1>2, SMT
<1>7. Covers(a * y, supply, (a - out.a) * (y - out.b), part)
  <2> HIDE DEF y, part
  <2>1. QED
    BY <1>2, <1>3, <1>6, CoversInProportion
<1>8. (a * y) * (part * part) <= ((a - out.a) * (y - out.b)) * (supply * supply)
  BY <1>7 DEF Covers
<1> DEFINE v  == a * y
           v2 == (a - out.a) * (y - out.b)
<1>9. v \in Nat /\ v2 \in Nat
  BY <1>2, <1>3, SMT
<1> HIDE DEF v, v2, part
<1>10. v * part * part = v * (part * part) /\ v2 * supply * supply = v2 * (supply * supply)
       /\ v * (part * part) \in Nat /\ v2 * (supply * supply) \in Nat
  BY <1>2, <1>6, <1>9, SMT
<1>11. v2 * supply * supply >= v * part * part
  BY <1>8, <1>10, SMT DEF v, v2
<1>12. AtLeast(v2, v, part, supply)
  BY <1>1, <1>11 DEF AtLeast
<1>13. QED
  BY <1>4, <1>5, <1>12 DEF v, v2

(***************************************************************************)
(* Of every calculator, pool and amount: moving both tokens, in or out,    *)
(* takes nothing from the pool tokens of the others.                       *)
(***************************************************************************)
THEOREM SharesAlwaysKeepTheirValue == Spec => []SharesKeepTheirValue
<1>1. SampleInv => SharesKeepTheirValue
  BY DepositsKeepShares, WithdrawalsKeepShares DEF SharesKeepTheirValue
<1>2. QED
  BY <1>1, SampleIsInvariant, PTL

-----------------------------------------------------------------------------
(* NoWayIsCheaper: there and back. *)

\* Any quotient that fits is at most the ceiling.
LEMMA CeilingIsNotBelow ==
  ASSUME NEW x \in Nat, NEW y \in Nat \ {0}, NEW q \in Nat, q * y <= x
  PROVE  q <= CeilDiv(x, y)
<1>1. CASE x < y
  <2>1. q * y < 1 * y
    BY <1>1, SMT
  <2>2. q < 1
    BY <2>1, Cancels, SMT
  <2>3. CeilDiv(x, y) \in Nat
    BY CeilDivBounds
  <2>4. QED
    BY <2>2, <2>3, SMT
<1>2. CASE ~(x < y)
  <2>1. CeilDiv(x, y) = (x + y - 1) \div y
    BY <1>2 DEF CeilDiv
  <2>2. x + y - 1 \in Nat /\ q * y <= x + y - 1
    BY SMT
  <2>3. QED
    BY <2>1, <2>2, FloorIsLargest
<1>3. QED
  BY <1>1, <1>2

LEMMA PricedRoundTrip ==
  ASSUME NEW s \in Nat, NEW g \in Nat, NEW t \in Nat \ {0}
  PROVE  LET earned == (s * g) \div t
         IN  CeilDiv((s + earned) * g, t + g) >= earned
<1> DEFINE earned == (s * g) \div t
<1>1. s * g \in Nat
  BY SMT
<1>2. earned \in Nat /\ earned * t <= s * g
  BY <1>1, FloorBounds
<1> HIDE DEF earned
<1>3. earned * (t + g) = earned * t + earned * g /\ (s + earned) * g = s * g + earned * g
      /\ earned * t \in Nat /\ earned * g \in Nat
  BY <1>2, SMT
<1>4. earned * (t + g) <= (s + earned) * g
  BY <1>1, <1>2, <1>3, SMT
<1>5. (s + earned) * g \in Nat /\ t + g \in Nat \ {0}
  BY <1>2, SMT
<1>6. earned <= CeilDiv((s + earned) * g, t + g)
  BY <1>2, <1>4, <1>5, CeilingIsNotBelow
<1>7. CeilDiv((s + earned) * g, t + g) \in Nat
  BY <1>5, CeilDivBounds
<1>8. QED
  BY <1>2, <1>6, <1>7, SMT DEF earned

\* Under a priced curve a call that is answered is the formula's.
LEMMA PricedCalls ==
  ASSUME Priced(curve), NEW pool, NEW amount, NEW tokens, NEW dir
  PROVE  LET p == curve.price
             t == TotalValue(pool.AtoB, pool.BtoA, p)
             g == GivenValue(amount, dir, p)
         IN  /\ ~Bad(DepositOf(pool, amount, tokens, dir))
                  => t # 0 /\ DepositOf(pool, amount, tokens, dir) = (tokens * g) \div t
             /\ ~Bad(WithdrawalOf(pool, amount, tokens, dir))
                  => t # 0 /\ WithdrawalOf(pool, amount, tokens, dir) = CeilDiv(tokens * g, t)
<1> DEFINE p == curve.price
           t == TotalValue(pool.AtoB, pool.BtoA, p)
           g == GivenValue(amount, dir, p)
<1>1. DepositOf(pool, amount, tokens, dir) = IF t = 0 THEN None ELSE AsU128((tokens * g) \div t)
  BY DEF DepositOf, DepositSingleTokenType, PricedDeposit, PricedPoolTokens,
         TradingTokensToPoolTokens, Divide
<1>2. WithdrawalOf(pool, amount, tokens, dir) = IF t = 0 THEN None ELSE AsU128(CeilDiv(tokens * g, t))
  BY DEF WithdrawalOf, WithdrawSingleTokenType, PricedWithdraw, PricedPoolTokens,
         TradingTokensToPoolTokens, Divide
<1> HIDE DEF t, g
<1>3. \A x : ~Bad(AsU128(x)) => AsU128(x) = x
  BY DEF AsU128, Bad
<1>4. Bad(None)
  BY DEF Bad
<1>5. QED
  BY <1>1, <1>2, <1>3, <1>4 DEF t, g

\* At a price of whole tokens A nothing is lost by turning tokens B into value.
LEMMA WholePriceGiven ==
  ASSUME NEW p \in Nat, p % RAY = 0, NEW y \in Nat
  PROVE  (y * p) \div RAY = y * (p \div RAY) /\ p \div RAY \in Nat
<1> DEFINE q == p \div RAY
<1>1. q \in Nat /\ p = q * RAY
  BY RAYAssumption, SMT
<1> HIDE DEF q
<1>2. y * p = (y * q) * RAY /\ y * q \in Nat /\ (y * q) * RAY \in Nat
  BY <1>1, RAYAssumption, SMT
<1> DEFINE z == y * q
           f == (z * RAY) \div RAY
<1>3. f \in Nat /\ f * RAY <= z * RAY
  BY <1>2, RAYAssumption, FloorBounds
<1>4. z <= f
  BY <1>2, RAYAssumption, FloorIsLargest
<1> HIDE DEF f, z
<1>5. f <= z
  <2>1. z \in Nat
    BY <1>2 DEF z
  <2>2. QED
    BY <1>3, <2>1, RAYAssumption, CancelsEqual
<1>6. f = z
  <2>1. z \in Nat
    BY <1>2 DEF z
  <2>2. QED
    BY <1>3, <1>4, <1>5, <2>1, SMT
<1>7. QED
  BY <1>1, <1>2, <1>6 DEF q, f, z

LEMMA TotalGrows ==
  ASSUME NEW p \in Nat, p % RAY = 0, NEW x \in Nat, NEW y \in Nat, NEW amount \in Nat
  PROVE  /\ TotalValue(x + amount, y, p) = TotalValue(x, y, p) + GivenValue(amount, "AtoB", p)
         /\ TotalValue(x, y + amount, p) = TotalValue(x, y, p) + GivenValue(amount, "BtoA", p)
         /\ GivenValue(amount, "AtoB", p) \in Nat /\ GivenValue(amount, "BtoA", p) \in Nat
<1> DEFINE q == p \div RAY
<1>1. q \in Nat /\ y + amount \in Nat /\ (y * p) \div RAY = y * q
      /\ (amount * p) \div RAY = amount * q /\ ((y + amount) * p) \div RAY = (y + amount) * q
  BY WholePriceGiven, SMT
<1> HIDE DEF q
<1>2. TotalValue(x + amount, y, p) = x + amount + y * q /\ TotalValue(x, y, p) = x + y * q
      /\ TotalValue(x, y + amount, p) = x + (y + amount) * q
      /\ GivenValue(amount, "AtoB", p) = amount /\ GivenValue(amount, "BtoA", p) = amount * q
  BY <1>1 DEF TotalValue, GivenValue
<1>3. (y + amount) * q = y * q + amount * q /\ y * q \in Nat /\ amount * q \in Nat
  BY <1>1, SMT
<1>4. QED
  BY <1>2, <1>3, SMT

LEMMA RoundTripsNeverGain == SampleInv /\ Priced(curve) => RoundTripNeverGains
<1> DEFINE dir    == sample.dir
           earned == DepositOf(Whole, Amount, supply, dir)
           grown  == [Whole EXCEPT ![dir] = @ + Amount]
           cost   == WithdrawalOf(grown, Amount, supply + earned, dir)
<1>1. SUFFICES ASSUME SampleInv, Drawn, Priced(curve), WholePrice, ~Bad(earned), ~Bad(cost)
               PROVE  cost >= earned
  BY DEF RoundTripNeverGains
<1>2. /\ curve \in Curve /\ curve.price \in Nat /\ a \in Nat \ {0} /\ b \in Nat \ {0}
      /\ supply \in Nat \ {0} /\ Amount \in Nat /\ dir \in Direction
      /\ WithOffset(curve, b) \in Nat \ {0}
  BY <1>1, Numbers
<1>3. grown = IF dir = "AtoB" THEN Pool(a + Amount, b) ELSE Pool(a, b + Amount)
  BY <1>2 DEF Whole, Pool, Direction
<1> DEFINE p  == curve.price
           t  == TotalValue(a, b, p)
           t2 == TotalValue(grown.AtoB, grown.BtoA, p)
           g  == GivenValue(Amount, dir, p)
<1>4. Whole.AtoB = a /\ Whole.BtoA = b
  BY DEF Whole, Pool
<1>5. t # 0 /\ earned = (supply * g) \div t
  BY <1>1, <1>4, PricedCalls
<1>6. cost = CeilDiv((supply + earned) * g, t2)
  BY <1>1, PricedCalls
<1> HIDE DEF earned, cost
<1>7. t \in Nat \ {0}
  BY <1>2, <1>5, WorthOfTotal
<1>8. p % RAY = 0 /\ p \in Nat
  BY <1>1, <1>2 DEF WholePrice
<1> HIDE DEF p
<1>9. t2 = t + g /\ g \in Nat
  <2>1. a \in Nat /\ b \in Nat /\ Amount \in Nat
    BY <1>2
  <2>2. CASE dir = "AtoB"
    <3>1. grown.AtoB = a + Amount /\ grown.BtoA = b
      BY <1>3, <2>2 DEF Pool
    <3>2. TotalValue(a + Amount, b, p) = TotalValue(a, b, p) + GivenValue(Amount, "AtoB", p)
          /\ GivenValue(Amount, "AtoB", p) \in Nat
      BY <1>8, <2>1, RAYAssumption, TotalGrows
    <3>3. QED
      BY <2>2, <3>1, <3>2
  <2>3. CASE dir = "BtoA"
    <3>1. grown.AtoB = a /\ grown.BtoA = b + Amount
      BY <1>3, <2>3 DEF Pool
    <3>2. TotalValue(a, b + Amount, p) = TotalValue(a, b, p) + GivenValue(Amount, "BtoA", p)
          /\ GivenValue(Amount, "BtoA", p) \in Nat
      BY <1>8, <2>1, RAYAssumption, TotalGrows
    <3>3. QED
      BY <2>3, <3>1, <3>2
  <2>4. QED
    BY <1>2, <2>2, <2>3 DEF Direction
<1> HIDE DEF t, t2, g
<1>10. supply \in Nat
  BY <1>2
<1>11. QED
  BY <1>5, <1>6, <1>7, <1>9, <1>10, PricedRoundTrip

-----------------------------------------------------------------------------
(* NoWayIsCheaper: a swap and two deposits. *)

\* The floors of two deposits, the second into a grown pool, against one.
LEMMA TwoDeposits ==
  ASSUME NEW s \in Nat, NEW g \in Nat, NEW g1 \in Nat, NEW g2 \in Nat,
         NEW t \in Nat \ {0}, NEW t1 \in Nat, NEW t2 \in Nat,
         t <= t1, t1 + g1 <= t2, g1 + g2 <= g
  PROVE  LET first  == (s * g1) \div t1
             second == ((s + first) * g2) \div t2
         IN  first + second <= (s * g) \div t
<1> DEFINE first  == (s * g1) \div t1
           second == ((s + first) * g2) \div t2
<1>1. t1 \in Nat \ {0} /\ t2 \in Nat \ {0}
  BY SMT
<1>2. first \in Nat /\ first * t1 <= s * g1
  <2>1. s * g1 \in Nat
    BY SMT
  <2>2. QED
    BY <1>1, <2>1, FloorBounds
<1> HIDE DEF first
<1>3. second \in Nat /\ second * t2 <= (s + first) * g2
  <2>1. (s + first) * g2 \in Nat
    BY <1>2, SMT
  <2>2. QED
    BY <1>1, <2>1, FloorBounds
<1> HIDE DEF second
<1>4. (s + first) * t1 <= s * t2
  <2>1. (s + first) * t1 = s * t1 + first * t1 /\ s * (t1 + g1) = s * t1 + s * g1
    BY <1>2, SMT
  <2>2. s * (t1 + g1) <= s * t2
    BY MulMono, SMT
  <2>3. s * t1 \in Nat /\ first * t1 \in Nat /\ s * g1 \in Nat /\ s * t2 \in Nat
    BY <1>2, SMT
  <2>4. QED
    BY <1>2, <2>1, <2>2, <2>3, SMT
<1>5. second * t1 <= s * g2
  <2>1. second * t2 \in Nat /\ (s + first) * g2 \in Nat /\ (s + first) * t1 \in Nat /\ s * t2 \in Nat
    BY <1>2, <1>3, SMT
  <2>2. (second * t2) * t1 <= ((s + first) * g2) * t1
    BY <1>3, <2>1, MulMono
  <2>3. ((s + first) * t1) * g2 <= (s * t2) * g2
    BY <1>4, <2>1, MulMono
  <2>4. (second * t2) * t1 = (second * t1) * t2 /\ ((s + first) * g2) * t1 = ((s + first) * t1) * g2
        /\ (s * t2) * g2 = (s * g2) * t2
    BY <1>2, <1>3, SMT
  <2>5. (second * t1) * t2 \in Nat /\ ((s + first) * t1) * g2 \in Nat /\ (s * g2) * t2 \in Nat
        /\ second * t1 \in Nat /\ s * g2 \in Nat
    BY <1>2, <1>3, SMT
  <2>6. (second * t1) * t2 <= (s * g2) * t2
    BY <2>2, <2>3, <2>4, <2>5, SMT
  <2>7. QED
    BY <1>1, <2>5, <2>6, CancelsEqual
<1>6. (first + second) * t <= s * g
  <2>1. (first + second) * t <= (first + second) * t1
    BY <1>2, <1>3, MulMono, SMT
  <2>2. (first + second) * t1 = first * t1 + second * t1 /\ s * (g1 + g2) = s * g1 + s * g2
    BY <1>2, <1>3, SMT
  <2>3. s * (g1 + g2) <= s * g
    BY MulMono, SMT
  <2>4. first * t1 \in Nat /\ second * t1 \in Nat /\ s * g1 \in Nat /\ s * g2 \in Nat
        /\ (first + second) * t \in Nat /\ s * g \in Nat
    BY <1>2, <1>3, SMT
  <2>5. QED
    BY <1>2, <1>5, <2>1, <2>2, <2>3, <2>4, SMT
<1>7. first + second \in Nat /\ s * g \in Nat
  BY <1>2, <1>3, SMT
<1>8. first + second <= (s * g) \div t
  BY <1>6, <1>7, FloorIsLargest
<1>9. QED
  BY <1>8 DEF first, second

LEMMA FloorsAdd ==
  ASSUME NEW u \in Nat, NEW v \in Nat, NEW z \in Nat \ {0}
  PROVE  u \div z + v \div z <= (u + v) \div z
<1> DEFINE qu == u \div z
           qv == v \div z
<1>1. qu \in Nat /\ qv \in Nat /\ qu * z <= u /\ qv * z <= v
  BY FloorBounds
<1> HIDE DEF qu, qv
<1>2. (qu + qv) * z = qu * z + qv * z /\ qu * z \in Nat /\ qv * z \in Nat
  BY <1>1, SMT
<1>3. (qu + qv) * z <= u + v /\ qu + qv \in Nat /\ u + v \in Nat
  BY <1>1, <1>2, SMT
<1>4. QED
  BY <1>3, FloorIsLargest DEF qu, qv

LEMMA PricedDetours ==
  ASSUME SampleInv, Drawn, Priced(curve), NEW part \in 1 .. Amount,
         ~Bad(DepositOf(Whole, Amount, supply, sample.dir)),
         DepositSeparately(Whole, Amount, part, supply, sample.dir) # None
  PROVE  DepositSeparately(Whole, Amount, part, supply, sample.dir)
           <= DepositOf(Whole, Amount, supply, sample.dir)
<1> DEFINE dir    == sample.dir
           p      == curve.price
           r      == SwapOf(Whole, part, dir)
           after  == Swapped(Whole, r, dir)
           rest   == Amount - r.in
           before == [after EXCEPT ![dir] = @ + rest]
           x2     == IF dir = "AtoB" THEN a + r.in ELSE a - r.out
           y2     == IF dir = "AtoB" THEN b - r.out ELSE b + r.in
           t      == TotalValue(a, b, p)
           t1     == TotalValue(x2, y2, p)
           t2     == TotalValue(before.AtoB, before.BtoA, p)
           g      == GivenValue(Amount, dir, p)
           g1     == GivenValue(rest, dir, p)
           g2     == GivenValue(r.out, Opposite(dir), p)
           first  == DepositOf(after, rest, supply, dir)
           second == DepositOf(before, r.out, supply + first, Opposite(dir))
<1>1. /\ curve \in Curve /\ p \in Nat /\ a \in Nat /\ b \in Nat /\ a # 0
      /\ supply \in Nat /\ Amount \in Nat /\ dir \in Direction
  BY Numbers
<1>2. part \in Nat /\ part <= Amount
  BY <1>1, SMT
<1>3. r # None
  BY Zenon DEF DepositSeparately
<1>4. /\ ~Bad(first) /\ ~Bad(second)
      /\ DepositSeparately(Whole, Amount, part, supply, dir) = first + second
  BY <1>3, Zenon DEF DepositSeparately
<1>5. /\ r.in \in Nat \ {0} /\ r.out \in Nat \ {0} /\ r.in <= part
      /\ r.out * OtherWeight(dir, p) <= r.in * Weight(dir, p)
      /\ x2 \in Nat /\ y2 \in Nat /\ after = Pool(x2, y2)
      /\ Worth(x2, y2, p) >= Worth(a, b, p)
  BY <1>1, <1>2, <1>3, PricedSwapOf DEF Whole
<1>6. rest \in Nat /\ r.in + rest = Amount
  <2> HIDE DEF r
  <2>1. QED
    BY <1>1, <1>2, <1>5, SMT
<1>7. /\ t # 0 /\ DepositOf(Whole, Amount, supply, dir) = (supply * g) \div t
      /\ first = (supply * g1) \div t1
      /\ second = ((supply + first) * g2) \div t2
  <2>1. Whole.AtoB = a /\ Whole.BtoA = b
    BY DEF Whole, Pool
  <2>2. t # 0 /\ DepositOf(Whole, Amount, supply, dir) = (supply * g) \div t
    BY <2>1, PricedCalls
  <2>3. after.AtoB = x2 /\ after.BtoA = y2
    <3> HIDE DEF after, x2, y2
    <3>1. QED
      BY <1>5 DEF Pool
  <2> HIDE DEF r, after, before, rest, x2, y2
  <2>4. first = (supply * g1) \div t1
    BY <1>4, <2>3, PricedCalls
  <2> HIDE DEF first
  <2>5. second = ((supply + first) * g2) \div t2
    BY <1>4, PricedCalls
  <2>6. QED
    BY <2>2, <2>4, <2>5
<1>8. before = IF dir = "AtoB" THEN Pool(x2 + rest, y2) ELSE Pool(x2, y2 + rest)
  <2> HIDE DEF after, rest, x2, y2
  <2>1. CASE dir = "AtoB"
    BY <1>5, <2>1 DEF Pool
  <2>2. CASE dir = "BtoA"
    BY <1>5, <2>2 DEF Pool
  <2>3. QED
    BY <1>1, <2>1, <2>2 DEF Direction
<1> HIDE DEF r, after, rest, before, x2, y2, first, second, p, dir
<1>9. /\ t \in Nat \ {0} /\ t1 \in Nat /\ t <= t1
  <2>1. /\ t \in Nat /\ t1 \in Nat /\ Worth(a, b, p) \in Nat /\ Worth(x2, y2, p) \in Nat
        /\ t * RAY <= Worth(a, b, p) /\ Worth(a, b, p) < t * RAY + RAY
        /\ t1 * RAY <= Worth(x2, y2, p) /\ Worth(x2, y2, p) < t1 * RAY + RAY
    BY <1>1, <1>5, WorthOfTotal
  <2>2. t # 0
    BY <1>7
  <2> HIDE DEF t, t1
  <2>3. Worth(a, b, p) <= Worth(x2, y2, p)
    BY <1>5, <2>1, SMT
  <2>4. t <= t1
    BY <2>1, <2>3, TotalsNear
  <2>5. QED
    BY <2>1, <2>2, <2>4
<1>10. CASE dir = "AtoB"
  <2>1. Opposite(dir) = "BtoA"
    BY <1>10 DEF Opposite
  <2>2. g = Amount /\ g1 = rest /\ g2 = (r.out * p) \div RAY
    BY <1>10, <2>1 DEF GivenValue
  <2>3. t2 = t1 + rest /\ t2 \in Nat
    <3>1. before.AtoB = x2 + rest /\ before.BtoA = y2
      BY <1>8, <1>10 DEF Pool
    <3> DEFINE q == (y2 * p) \div RAY
    <3>2. q \in Nat
      <4>1. y2 * p \in Nat
        BY <1>1, <1>5, SMT
      <4>2. QED
        BY <4>1, RAYAssumption, FloorBounds
    <3>3. t2 = (x2 + rest) + q /\ t1 = x2 + q
      BY <3>1 DEF TotalValue
    <3> HIDE DEF q, t1, t2
    <3>4. QED
      BY <1>5, <1>6, <3>2, <3>3, SMT
  <2>4. g2 \in Nat /\ g2 <= r.in
    <3>1. r.out * p \in Nat
      BY <1>1, <1>5, SMT
    <3> DEFINE q == (r.out * p) \div RAY
    <3>2. q \in Nat /\ q * RAY <= r.out * p
      BY <3>1, RAYAssumption, FloorBounds
    <3>3. r.out * p <= r.in * RAY
      BY <1>5, <1>10 DEF Weight, OtherWeight
    <3> HIDE DEF q
    <3>4. q * RAY \in Nat /\ r.in * RAY \in Nat
      BY <1>5, <3>2, RAYAssumption, SMT
    <3>5. q * RAY <= r.in * RAY
      BY <3>1, <3>2, <3>3, <3>4, SMT
    <3>6. q <= r.in
      BY <1>5, <3>2, <3>5, RAYAssumption, CancelsEqual
    <3>7. QED
      BY <2>2, <3>2, <3>6 DEF q
  <2> HIDE DEF t, t1, t2, g, g1, g2
  <2>5. g \in Nat /\ g1 \in Nat /\ t1 + g1 <= t2 /\ g1 + g2 <= g
    BY <1>1, <1>5, <1>6, <1>9, <2>2, <2>3, <2>4, SMT
  <2>6. first + second <= (supply * g) \div t
    BY <1>1, <1>7, <1>9, <2>3, <2>4, <2>5, TwoDeposits
  <2>7. QED
    BY <1>4, <1>7, <2>6 DEF dir
<1>11. CASE dir = "BtoA"
  <2>1. Opposite(dir) = "AtoB"
    BY <1>11 DEF Opposite
  <2>2. g = (Amount * p) \div RAY /\ g1 = (rest * p) \div RAY /\ g2 = r.out
    BY <1>11, <2>1 DEF GivenValue
  <2>3. rest * p \in Nat /\ y2 * p \in Nat /\ Amount * p \in Nat
    BY <1>1, <1>5, <1>6, SMT
  <2>4. g \in Nat /\ g1 \in Nat /\ g1 * RAY <= rest * p
    BY <2>2, <2>3, RAYAssumption, FloorBounds
  <2>5. t2 \in Nat /\ t1 + g1 <= t2
    <3>1. before.AtoB = x2 /\ before.BtoA = y2 + rest
      BY <1>8, <1>11 DEF Pool
    <3>2. t2 = x2 + ((y2 + rest) * p) \div RAY /\ t1 = x2 + (y2 * p) \div RAY
      BY <3>1 DEF TotalValue
    <3>3. (y2 + rest) * p = y2 * p + rest * p
      BY <1>1, <1>5, <1>6, SMT
    <3>4. (y2 * p) \div RAY + (rest * p) \div RAY <= (y2 * p + rest * p) \div RAY
      BY <2>3, RAYAssumption, FloorsAdd
    <3>5. (y2 * p) \div RAY \in Nat /\ (y2 * p + rest * p) \div RAY \in Nat
      <4>1. y2 * p + rest * p \in Nat
        BY <2>3, SMT
      <4>2. QED
        BY <2>3, <4>1, RAYAssumption, FloorBounds
    <3> DEFINE u == (y2 * p) \div RAY
               v == (y2 * p + rest * p) \div RAY
    <3>6. t2 = x2 + v /\ t1 = x2 + u /\ u + g1 <= v /\ u \in Nat /\ v \in Nat
      BY <2>2, <3>2, <3>3, <3>4, <3>5
    <3> HIDE DEF u, v, t1, t2, g1
    <3>7. QED
      BY <1>5, <2>4, <3>6, SMT
  <2>6. g1 + g2 <= g
    <3>1. r.out * RAY <= r.in * p
      BY <1>5, <1>11 DEF Weight, OtherWeight
    <3> HIDE DEF g1
    <3>2. (g1 + r.out) * RAY = g1 * RAY + r.out * RAY /\ Amount * p = r.in * p + rest * p
          /\ g1 * RAY \in Nat /\ r.out * RAY \in Nat /\ r.in * p \in Nat
      <4>1. (r.in + rest) * p = r.in * p + rest * p
        BY <1>1, <1>5, <1>6, SMT
      <4>2. (g1 + r.out) * RAY = g1 * RAY + r.out * RAY
        BY <1>5, <2>4, RAYAssumption, SMT
      <4>3. g1 * RAY \in Nat /\ r.out * RAY \in Nat /\ r.in * p \in Nat
        BY <1>1, <1>5, <2>4, RAYAssumption, SMT
      <4>4. QED
        BY <1>6, <4>1, <4>2, <4>3
    <3>3. (g1 + r.out) * RAY <= Amount * p /\ g1 + r.out \in Nat
      BY <1>5, <2>3, <2>4, <3>1, <3>2, SMT
    <3>4. g1 + r.out <= (Amount * p) \div RAY
      BY <2>3, <3>3, RAYAssumption, FloorIsLargest
    <3>5. QED
      BY <2>2, <3>4
  <2> HIDE DEF t, t1, t2, g, g1, g2
  <2>7. g2 \in Nat
    BY <1>5, <2>2
  <2>8. first + second <= (supply * g) \div t
    BY <1>1, <1>7, <1>9, <2>4, <2>5, <2>6, <2>7, TwoDeposits
  <2>9. QED
    BY <1>4, <1>7, <2>8 DEF dir
<1>12. QED
  BY <1>1, <1>10, <1>11 DEF Direction

LEMMA DetoursEarnNoMore == SampleInv /\ Priced(curve) => DetourEarnsNoMore
  BY PricedDetours DEF DetourEarnsNoMore

-----------------------------------------------------------------------------
(* NoWayIsCheaper: a withdrawal of both tokens and a swap. *)

\* A ceiling is at most any whole number that covers the quotient, once that is not 0.
LEMMA CeilingIsLeast ==
  ASSUME NEW x \in Nat, NEW y \in Nat \ {0}, NEW q \in Nat \ {0}, x <= q * y
  PROVE  CeilDiv(x, y) \in Nat /\ CeilDiv(x, y) <= q
<1>1. CASE x < y
  BY <1>1, SMT DEF CeilDiv
<1>2. CASE ~(x < y)
  <2> DEFINE c == (x + y - 1) \div y
  <2>1. CeilDiv(x, y) = c
    BY <1>2 DEF CeilDiv
  <2>2. x + y - 1 \in Nat
    BY SMT
  <2>3. c \in Nat /\ c * y <= x + y - 1
    BY <2>2, FloorBounds
  <2> HIDE DEF c
  <2>4. (q + 1) * y = q * y + y /\ q * y \in Nat /\ c * y \in Nat
    BY <2>3, SMT
  <2>5. c * y < (q + 1) * y
    BY <2>3, <2>4, SMT
  <2>6. c < q + 1
    BY <2>3, <2>5, Cancels
  <2>7. QED
    BY <2>1, <2>3, <2>6, SMT
<1>3. QED
  BY <1>1, <1>2

\* What the slack of a fractional price covers.
LEMMA SlackCovers ==
  ASSUME NEW x \in Nat, NEW t \in Nat \ {0}, NEW amount \in Nat, x <= amount * (t + 1)
  PROVE  CeilDiv(x, t) \in Nat /\ CeilDiv(x, t) <= amount + (1 + amount \div t)
<1> DEFINE q == amount \div t
<1>1. q \in Nat /\ amount < q * t + t
  BY FloorBounds
<1> HIDE DEF q
<1>2. /\ (amount + (1 + q)) * t = amount * t + (q * t + t)
      /\ amount * (t + 1) = amount * t + amount
      /\ amount * t \in Nat /\ q * t \in Nat
  BY <1>1, SMT
<1>3. x <= (amount + (1 + q)) * t
  BY <1>1, <1>2, SMT
<1>4. amount + (1 + q) \in Nat \ {0}
  BY <1>1, SMT
<1>5. CeilDiv(x, t) \in Nat /\ CeilDiv(x, t) <= amount + (1 + q)
  BY <1>3, <1>4, CeilingIsLeast
<1>6. QED
  BY <1>5 DEF q

\* What pool tokens take out under a priced curve, both sides rounded down.
LEMMA PricedTaken ==
  ASSUME NEW poolTokens \in Nat, NEW x \in Nat, NEW y \in Nat, NEW s \in Nat \ {0},
         curve \in Curve, Priced(curve), poolTokens < s
  PROVE  LET out == TradingTokens(curve, poolTokens, x, y, s, "Floor")
             p   == curve.price
         IN  /\ out.a \in Nat /\ out.b \in Nat
             /\ x - out.a \in Nat /\ y - out.b \in Nat
             /\ Worth(out.a, out.b, p) \in Nat
             /\ Worth(out.a, out.b, p) * s <= poolTokens * Worth(x, y, p)
<1> DEFINE out == TradingTokens(curve, poolTokens, x, y, s, "Floor")
           p   == curve.price
           qx  == (poolTokens * x) \div s
           qy  == (poolTokens * y) \div s
<1>1. out.a = qx /\ out.b = qy
  <2>1. s # 0
    OBVIOUS
  <2>2. out = [a |-> PoolTokensToTradingTokens(poolTokens, x, s, "Floor"),
               b |-> PoolTokensToTradingTokens(poolTokens, y, s, "Floor")]
    BY <2>1 DEF TradingTokens, PricedTradingTokens
  <2>3. QED
    BY <2>2 DEF PoolTokensToTradingTokens, Divide
<1>2. p \in Nat
  BY DEF Curve
<1>3. poolTokens * x \in Nat /\ poolTokens * y \in Nat
  BY SMT
<1>4. qx \in Nat /\ qx * s <= poolTokens * x /\ qy \in Nat /\ qy * s <= poolTokens * y
  BY <1>3, FloorBounds
<1> HIDE DEF out, p, qx, qy
<1>5. qx <= x /\ qy <= y
  <2>1. poolTokens * x <= s * x /\ poolTokens * y <= s * y
    BY MulMono, SMT
  <2>2. s * x = x * s /\ s * y = y * s /\ s * x \in Nat /\ s * y \in Nat
        /\ qx * s \in Nat /\ qy * s \in Nat
    BY <1>4, SMT
  <2>3. qx * s <= x * s /\ qy * s <= y * s
    BY <1>3, <1>4, <2>1, <2>2, SMT
  <2>4. QED
    BY <1>4, <2>3, CancelsEqual
<1>6. Worth(qx, qy, p) * s <= poolTokens * Worth(x, y, p)
  <2>1. (qx * s) * RAY <= (poolTokens * x) * RAY /\ (qy * s) * p <= (poolTokens * y) * p
    <3>1. qx * s \in Nat /\ qy * s \in Nat
      BY <1>4, SMT
    <3>2. QED
      BY <1>2, <1>3, <1>4, <3>1, RAYAssumption, MulMono
  <2>2. (qx * RAY + qy * p) * s = (qx * s) * RAY + (qy * s) * p
    BY <1>2, <1>4, RAYAssumption, SMT
  <2>3. poolTokens * (x * RAY + y * p) = (poolTokens * x) * RAY + (poolTokens * y) * p
    BY <1>2, RAYAssumption, SMT
  <2>4. /\ (qx * s) * RAY \in Nat /\ (qy * s) * p \in Nat
        /\ (poolTokens * x) * RAY \in Nat /\ (poolTokens * y) * p \in Nat
    BY <1>2, <1>4, RAYAssumption, SMT
  <2>5. (qx * RAY + qy * p) * s <= poolTokens * (x * RAY + y * p)
    BY <2>1, <2>2, <2>3, <2>4, SMT
  <2>6. QED
    BY <2>5 DEF Worth
<1>7. Worth(qx, qy, p) \in Nat
  BY <1>2, <1>4, WorthOfTotal
<1>8. x - qx \in Nat /\ y - qy \in Nat
  BY <1>4, <1>5, SMT
<1>9. QED
  BY <1>1, <1>4, <1>6, <1>7, <1>8 DEF out, p

\* The parts the sum is made of.
LEMMA SumParts ==
  ASSUME NEW pool, NEW poolTokens, NEW s, NEW dir, ~Bad(SumCost(pool, poolTokens, s, dir))
  PROVE  LET out  == TradingTokens(curve, poolTokens, pool.AtoB, pool.BtoA, s, "Floor")
             took == Pool(out.a, out.b)
             left == Withdrawn(pool, out)
             r    == SwapOf(left, took[dir], dir)
         IN  /\ ~Bad(out) /\ ~(out.b > pool.BtoA) /\ r # None
             /\ SumCost(pool, poolTokens, s, dir)
                  = WithdrawalOf(pool, took[Opposite(dir)] + r.out, s, Opposite(dir))
<1>1. SumCost(pool, poolTokens, s, dir) # None
  BY DEF Bad
<1>2. QED
  BY <1>1, Zenon DEF SumCost

(***************************************************************************)
(* The sum of a priced curve is worth no more than the two tokens taken,   *)
(* and those no more than the pool tokens' share of the whole reserves.    *)
(***************************************************************************)
LEMMA PricedSumWorth ==
  ASSUME SampleInv, Drawn, Priced(curve), Amount < supply,
         ~Bad(SumCost(Whole, Amount, supply, sample.dir))
  PROVE  LET p == curve.price
             t == TotalValue(a, b, p)
         IN  /\ t \in Nat \ {0}
             /\ \E g \in Nat :
                  /\ SumCost(Whole, Amount, supply, sample.dir) = CeilDiv(supply * g, t)
                  /\ (supply * g) * RAY <= Amount * Worth(a, b, p)
<1> DEFINE dir  == sample.dir
           opp  == Opposite(dir)
           p    == curve.price
           t    == TotalValue(a, b, p)
           out  == TradingTokens(curve, Amount, a, b, supply, "Floor")
           took == Pool(out.a, out.b)
           left == Withdrawn(Whole, out)
           r    == SwapOf(left, took[dir], dir)
           w    == took[opp] + r.out
           g    == GivenValue(w, opp, p)
<1>1. /\ curve \in Curve /\ p \in Nat /\ a \in Nat \ {0} /\ b \in Nat \ {0}
      /\ supply \in Nat \ {0} /\ Amount \in Nat /\ dir \in Direction
  BY Numbers
<1>2. r # None /\ SumCost(Whole, Amount, supply, dir) = WithdrawalOf(Whole, w, supply, opp)
  <2>1. Whole.AtoB = a /\ Whole.BtoA = b
    BY DEF Whole, Pool
  <2>2. QED
    BY <2>1, SumParts
<1>3. /\ t # 0 /\ WithdrawalOf(Whole, w, supply, opp) = CeilDiv(supply * g, t)
  <2>1. Whole.AtoB = a /\ Whole.BtoA = b
    BY DEF Whole, Pool
  <2> HIDE DEF w, opp
  <2>2. ~Bad(WithdrawalOf(Whole, w, supply, opp))
    BY <1>2 DEF dir
  <2>3. QED
    BY <2>1, <2>2, PricedCalls
<1>4. /\ out.a \in Nat /\ out.b \in Nat /\ a - out.a \in Nat /\ b - out.b \in Nat
      /\ Worth(out.a, out.b, p) \in Nat
      /\ Worth(out.a, out.b, p) * supply <= Amount * Worth(a, b, p)
  BY <1>1, PricedTaken
<1> HIDE DEF out
<1>5. left = Pool(a - out.a, b - out.b)
  BY DEF Withdrawn, Whole, Pool
<1>6. /\ dir = "AtoB" => took[dir] = out.a /\ took[opp] = out.b /\ opp = "BtoA"
      /\ dir = "BtoA" => took[dir] = out.b /\ took[opp] = out.a /\ opp = "AtoB"
  BY DEF Opposite, Pool
<1>7. took[dir] \in Nat /\ took[opp] \in Nat /\ opp \in Direction
  BY <1>1, <1>4, <1>6 DEF Direction
<1>8. r.out \in Nat /\ r.out * OtherWeight(dir, p) <= took[dir] * Weight(dir, p)
  <2>1. SwapOf(Pool(a - out.a, b - out.b), took[dir], dir) # None
        /\ r = SwapOf(Pool(a - out.a, b - out.b), took[dir], dir)
    BY <1>2, <1>5
  <2> HIDE DEF r, took, p
  <2>2. QED
    BY <1>1, <1>2, <1>4, <1>7, <2>1, PricedSwapWorth DEF p
<1> DEFINE given == r.out
           tx    == took[dir]
           ty    == took[opp]
<1>9. w = ty + given /\ w \in Nat
  <2>1. w = ty + given
    OBVIOUS
  <2>2. ty \in Nat /\ given \in Nat
    BY <1>7, <1>8
  <2> HIDE DEF w, ty, given
  <2>3. QED
    BY <2>1, <2>2, SMT
<1>10. w * Weight(opp, p) <= Worth(out.a, out.b, p) /\ w * Weight(opp, p) \in Nat
  <2>1. CASE dir = "AtoB"
    <3>1. tx = out.a /\ ty = out.b /\ opp = "BtoA"
      BY <1>6, <2>1
    <3>2. given * p <= out.a * RAY /\ given \in Nat
      BY <1>8, <2>1, <3>1 DEF Weight, OtherWeight
    <3>3. Weight(opp, p) = p
      BY <3>1 DEF Weight
    <3> HIDE DEF w, given
    <3>4. (out.b + given) * p = out.b * p + given * p
      BY <1>1, <1>4, <3>2, SMT
    <3>5. out.b * p \in Nat /\ given * p \in Nat /\ out.a * RAY \in Nat
      BY <1>1, <1>4, <3>2, RAYAssumption, SMT
    <3>6. (out.b + given) * p <= out.a * RAY + out.b * p /\ (out.b + given) * p \in Nat
      BY <3>2, <3>4, <3>5, SMT
    <3>7. QED
      BY <1>9, <3>1, <3>3, <3>6 DEF Worth
  <2>2. CASE dir = "BtoA"
    <3>1. tx = out.b /\ ty = out.a /\ opp = "AtoB"
      BY <1>6, <2>2
    <3>2. given * RAY <= out.b * p /\ given \in Nat
      BY <1>8, <2>2, <3>1 DEF Weight, OtherWeight
    <3>3. Weight(opp, p) = RAY
      BY <3>1 DEF Weight
    <3> HIDE DEF w, given
    <3>4. (out.a + given) * RAY = out.a * RAY + given * RAY
      BY <1>4, <3>2, RAYAssumption, SMT
    <3>5. out.b * p \in Nat /\ given * RAY \in Nat /\ out.a * RAY \in Nat
      BY <1>1, <1>4, <3>2, RAYAssumption, SMT
    <3>6. (out.a + given) * RAY <= out.a * RAY + out.b * p /\ (out.a + given) * RAY \in Nat
      BY <3>2, <3>4, <3>5, SMT
    <3>7. QED
      BY <1>9, <3>1, <3>3, <3>6 DEF Worth
  <2>3. QED
    BY <1>1, <2>1, <2>2 DEF Direction
<1> HIDE DEF w, opp, t, p
<1>11. g \in Nat /\ g * RAY <= w * Weight(opp, p)
  BY <1>1, <1>7, <1>9, GivenValueBounds
<1> HIDE DEF g
<1> DEFINE taken == Worth(out.a, out.b, p)
           share == Worth(a, b, p)
<1>12. (supply * g) * RAY <= Amount * share
  <2>1. taken \in Nat /\ taken * supply <= Amount * share
    BY <1>4
  <2>2. share \in Nat
    BY <1>1, WorthOfTotal
  <2>3. g * RAY <= taken /\ g * RAY \in Nat
    <3>1. g * RAY \in Nat
      BY <1>11, RAYAssumption, SMT
    <3>2. QED
      BY <1>10, <1>11, <2>1, <3>1, SMT
  <2> HIDE DEF taken, share
  <2>4. (g * RAY) * supply <= taken * supply
    BY <1>1, <2>1, <2>3, MulMono
  <2>5. (g * RAY) * supply = (supply * g) * RAY
    BY <1>1, <1>11, RAYAssumption, SMT
  <2>6. (g * RAY) * supply \in Nat /\ taken * supply \in Nat /\ Amount * share \in Nat
    BY <1>1, <2>1, <2>2, <2>3, SMT
  <2>7. QED
    BY <2>1, <2>4, <2>5, <2>6, SMT
<1>13. t \in Nat \ {0}
  <2>1. t \in Nat
    BY <1>1, WorthOfTotal DEF t
  <2>2. QED
    BY <1>3, <2>1
<1>14. QED
  BY <1>2, <1>3, <1>11, <1>12, <1>13 DEF dir, p, t

LEMMA PricedOneSides ==
  ASSUME SampleInv, Drawn, Priced(curve), Amount < supply,
         ~Bad(SumCost(Whole, Amount, supply, sample.dir))
  PROVE  LET t     == TotalValue(a, b, curve.price)
             slack == IF WholePrice THEN 0 ELSE 1 + Amount \div t
         IN  SumCost(Whole, Amount, supply, sample.dir) <= Amount + slack
<1> DEFINE p    == curve.price
           t    == TotalValue(a, b, p)
           cost == SumCost(Whole, Amount, supply, sample.dir)
           v    == Worth(a, b, p)
<1>1. /\ p \in Nat /\ a \in Nat /\ b \in Nat
      /\ supply \in Nat /\ Amount \in Nat \ {0}
  BY Numbers
<1>2. PICK g \in Nat : cost = CeilDiv(supply * g, t) /\ (supply * g) * RAY <= Amount * v
  BY PricedSumWorth
<1>3. t \in Nat \ {0}
  BY PricedSumWorth
<1>4. v \in Nat /\ v < t * RAY + RAY
  BY <1>1, WorthOfTotal
<1>5. supply * g \in Nat
  BY <1>1, SMT
<1>6. CASE WholePrice
  <2>1. p % RAY = 0
    BY <1>6 DEF WholePrice
  <2>2. v = t * RAY
    <3> DEFINE k == p \div RAY
    <3>1. (b * p) \div RAY = b * k /\ k \in Nat
      BY <1>1, <2>1, WholePriceGiven
    <3>2. p = k * RAY
      BY <1>1, <2>1, RAYAssumption, SMT
    <3> HIDE DEF k
    <3>3. t = a + b * k
      BY <3>1 DEF TotalValue
    <3>4. a * RAY + b * (k * RAY) = (a + b * k) * RAY
      BY <1>1, <3>1, RAYAssumption, SMT
    <3>5. QED
      BY <3>2, <3>3, <3>4 DEF Worth
  <2> HIDE DEF t, v, p, cost
  <2>3. (supply * g) * RAY <= (Amount * t) * RAY
    <3>1. Amount * (t * RAY) = (Amount * t) * RAY
      BY <1>1, <1>3, RAYAssumption, SMT
    <3>2. QED
      BY <1>2, <2>2, <3>1
  <2>4. Amount * t \in Nat
    BY <1>1, <1>3, SMT
  <2>5. supply * g <= Amount * t
    BY <1>5, <2>3, <2>4, RAYAssumption, CancelsEqual
  <2>6. cost \in Nat /\ cost <= Amount
    BY <1>1, <1>2, <1>3, <1>5, <2>5, CeilingIsLeast
  <2>7. cost <= Amount + 0
    BY <1>1, <2>6, SMT
  <2>8. QED
    BY <1>6, <2>7 DEF cost, t, p
<1>7. CASE ~WholePrice
  <2> HIDE DEF t, v, p, cost
  <2>1. supply * g <= Amount * (t + 1)
    <3>1. v <= (t + 1) * RAY
      <4>1. (t + 1) * RAY = t * RAY + RAY /\ t * RAY \in Nat
        BY <1>3, RAYAssumption, SMT
      <4>2. QED
        BY <1>4, <4>1, RAYAssumption, SMT
    <3>2. (t + 1) * RAY \in Nat
      BY <1>3, RAYAssumption, SMT
    <3>3. Amount * v <= Amount * ((t + 1) * RAY)
      BY <1>1, <1>4, <3>1, <3>2, MulMono
    <3>4. Amount * ((t + 1) * RAY) = (Amount * (t + 1)) * RAY
      BY <1>1, <1>3, RAYAssumption, SMT
    <3>5. Amount * v \in Nat /\ (supply * g) * RAY \in Nat /\ (Amount * (t + 1)) * RAY \in Nat
          /\ Amount * (t + 1) \in Nat
      BY <1>1, <1>3, <1>4, <1>5, RAYAssumption, SMT
    <3>6. (supply * g) * RAY <= (Amount * (t + 1)) * RAY
      BY <1>2, <3>3, <3>4, <3>5, SMT
    <3>7. QED
      BY <1>5, <3>5, <3>6, RAYAssumption, CancelsEqual
  <2>2. CeilDiv(supply * g, t) <= Amount + (1 + Amount \div t)
    BY <1>1, <1>3, <1>5, <2>1, SlackCovers
  <2>3. QED
    BY <1>2, <1>7, <2>2 DEF cost, t, p
<1>8. QED
  BY <1>6, <1>7

LEMMA OneSidesCostNoMore == SampleInv /\ Priced(curve) => OneSideCostsNoMore
  BY PricedOneSides DEF OneSideCostsNoMore

(***************************************************************************)
(* Of every priced calculator, pool and amount: the pool loses by no       *)
(* detour, there and back, with a swap before a deposit or after a         *)
(* withdrawal.  (The one-sided calls of a product curve take roots.)       *)
(***************************************************************************)
THEOREM NoWayIsEverCheaper == Spec => [](Priced(curve) => NoWayIsCheaper)
<1>1. SampleInv => (Priced(curve) => NoWayIsCheaper)
  BY RoundTripsNeverGain, DetoursEarnNoMore, OneSidesCostNoMore DEF NoWayIsCheaper
<1>2. QED
  BY <1>1, SampleIsInvariant, PTL

-----------------------------------------------------------------------------
(* AmountsBarelyAvoidFees. *)

\* A fee nobody charges, as a fraction to calculate with.
Plain(f) == IF NoFee(f) THEN [num |-> 0, den |-> 1] ELSE f

LEMMA PlainFee ==
  ASSUME NEW f \in Fraction, ValidFraction(f)
  PROVE  /\ Plain(f) \in Fraction /\ Plain(f).num \in Nat /\ Plain(f).den \in Nat \ {0}
         /\ Plain(f).num < Plain(f).den
         /\ \A x \in Nat : CalculateFee(x, f) = CalculateFee(x, Plain(f))
<1>1. f.num \in Nat /\ f.den \in Nat /\ (NoFee(f) => f.num = 0)
  BY SMT DEF Fraction, ValidFraction, NoFee
<1>2. CASE NoFee(f)
  <2>1. Plain(f) = [num |-> 0, den |-> 1]
    BY <1>2 DEF Plain
  <2>2. \A x \in Nat : CalculateFee(x, f) = CalculateFee(x, Plain(f))
    BY <1>1, <1>2, <2>1 DEF CalculateFee
  <2>3. QED
    BY <2>1, <2>2, SMT DEF Fraction
<1>3. CASE ~NoFee(f)
  <2>1. Plain(f) = f
    BY <1>3 DEF Plain
  <2>2. f.num < f.den /\ f.den # 0
    BY <1>1, <1>3, SMT DEF ValidFraction, NoFee
  <2>3. QED
    BY <1>1, <2>1, <2>2, SMT
<1>4. QED
  BY <1>2, <1>3

\* What both trading fees take of a whole, as one fraction num / den.
BothNum(fs) == Plain(fs.trade).num * Plain(fs.owner).den
                   + Plain(fs.owner).num * Plain(fs.trade).den
BothDen(fs) == Plain(fs.trade).den * Plain(fs.owner).den
Rest(fs)    == BothDen(fs) - BothNum(fs)

\* The gross of an amount is the least that leaves it after both fractions.
LEMMA GrossOfBoth ==
  ASSUME NEW fs \in FeeSchedule, ValidFees(fs), PreTradingFeeDefined(fs), NEW x \in Nat
  PROVE  /\ BothNum(fs) \in Nat /\ BothDen(fs) \in Nat \ {0} /\ Rest(fs) \in Nat \ {0}
         /\ PreTradingFeeAmount(x, fs) \in Nat
         /\ x * BothDen(fs) <= PreTradingFeeAmount(x, fs) * Rest(fs)
         /\ PreTradingFeeAmount(x, fs) * Rest(fs) < x * BothDen(fs) + Rest(fs)
<1> DEFINE t == Plain(fs.trade)
           o == Plain(fs.owner)
           n == BothNum(fs)
           d == BothDen(fs)
           q == Rest(fs)
           c == CombinedTradingFee(fs)
<1>1. /\ fs.trade \in Fraction /\ ValidFraction(fs.trade)
      /\ fs.owner \in Fraction /\ ValidFraction(fs.owner)
  BY DEF FeeSchedule, ValidFees
<1>2. /\ t.num \in Nat /\ t.den \in Nat \ {0} /\ t.num < t.den
      /\ o.num \in Nat /\ o.den \in Nat \ {0} /\ o.num < o.den
  BY <1>1, PlainFee
<1>3. n \in Nat /\ d \in Nat \ {0} /\ n = t.num * o.den + o.num * t.den /\ d = t.den * o.den
      /\ q = d - n
  <2> HIDE DEF t, o
  <2>1. t.num * o.den \in Nat /\ o.num * t.den \in Nat /\ t.den * o.den \in Nat \ {0}
    BY <1>2, SMT
  <2>2. QED
    BY <2>1, SMT DEF BothNum, BothDen, Rest, t, o
<1>4. /\ n < d
      /\ PreTradingFeeAmount(x, fs) = (x * d + q - 1) \div q
  <2>1. CASE NoFee(fs.trade) /\ NoFee(fs.owner)
    <3>1. t.num = 0 /\ t.den = 1 /\ o.num = 0 /\ o.den = 1
      BY <2>1 DEF Plain
    <3>2. n = 0 /\ d = 1 /\ q = 1
      BY <1>3, <3>1, SMT
    <3>3. c = fs.owner
      BY <2>1 DEF CombinedTradingFee
    <3>4. PreTradingFeeAmount(x, fs) = x
      BY <2>1, <3>3 DEF PreTradingFeeAmount, PreFeeAmount, NoFee
    <3> HIDE DEF n, d, q
    <3>5. (x * d + q - 1) \div q = x
      BY <3>2, SMT
    <3>6. QED
      BY <3>2, <3>4, <3>5
  <2>2. CASE NoFee(fs.trade) /\ ~NoFee(fs.owner)
    <3>1. t.num = 0 /\ t.den = 1 /\ o = fs.owner
      BY <2>2 DEF Plain
    <3>2. c = o
      BY <2>2, <3>1 DEF CombinedTradingFee
    <3>3. n = o.num /\ d = o.den
      BY <1>2, <1>3, <3>1, SMT
    <3>4. ~NoFee(c) /\ c.num = n /\ c.den = d /\ n < d
      BY <1>2, <2>2, <3>1, <3>2, <3>3
    <3>5. PreTradingFeeAmount(x, fs) = (x * c.den + (c.den - c.num) - 1) \div (c.den - c.num)
      BY <3>4 DEF PreTradingFeeAmount, PreFeeAmount, NoFee
    <3>6. QED
      BY <1>3, <3>4, <3>5
  <2>3. CASE ~NoFee(fs.trade) /\ NoFee(fs.owner)
    <3>1. o.num = 0 /\ o.den = 1 /\ t = fs.trade
      BY <2>3 DEF Plain
    <3>2. c = t
      BY <2>3, <3>1 DEF CombinedTradingFee
    <3>3. n = t.num /\ d = t.den
      BY <1>2, <1>3, <3>1, SMT
    <3>4. ~NoFee(c) /\ c.num = n /\ c.den = d /\ n < d
      BY <1>2, <2>3, <3>1, <3>2, <3>3
    <3>5. PreTradingFeeAmount(x, fs) = (x * c.den + (c.den - c.num) - 1) \div (c.den - c.num)
      BY <3>4 DEF PreTradingFeeAmount, PreFeeAmount, NoFee
    <3>6. QED
      BY <1>3, <3>4, <3>5
  <2>4. CASE ~NoFee(fs.trade) /\ ~NoFee(fs.owner)
    <3>1. t = fs.trade /\ o = fs.owner
      BY <2>4 DEF Plain
    <3>2. c = [num |-> n, den |-> d]
      BY <2>4, <3>1, <1>3 DEF CombinedTradingFee
    <3>3. c.num = n /\ c.den = d
      BY <3>2
    <3>4. n > 0
      <4>1. t.num # 0
        BY <2>4, <3>1 DEF NoFee
      <4> HIDE DEF t, o
      <4>2. t.num * o.den > 0 /\ o.num * t.den >= 0
        BY <1>2, <4>1, SMT
      <4>3. QED
        BY <1>2, <1>3, <4>2, SMT
    <3>5. n < d
      BY <1>3, <3>3, <3>4, SMT DEF PreTradingFeeDefined, PreFeeAmountDefined
    <3>6. ~(c.num = 0 \/ c.den = 0)
      BY <1>3, <3>3, <3>4, SMT
    <3>7. PreTradingFeeAmount(x, fs) = (x * c.den + (c.den - c.num) - 1) \div (c.den - c.num)
      BY <3>6 DEF PreTradingFeeAmount, PreFeeAmount
    <3>8. QED
      BY <1>3, <3>3, <3>5, <3>7
  <2>5. QED
    BY <2>1, <2>2, <2>3, <2>4
<1> DEFINE g == PreTradingFeeAmount(x, fs)
<1> HIDE DEF n, d, q, g
<1>5. q \in Nat \ {0} /\ x * d \in Nat
  BY <1>3, <1>4, SMT
<1>6. x * d + q - 1 \in Nat
  BY <1>5, SMT
<1>7. g \in Nat /\ g * q <= x * d + q - 1 /\ x * d + q - 1 < g * q + q
  BY <1>4, <1>5, <1>6, FloorBounds DEF g
<1>8. g * q \in Nat
  BY <1>5, <1>7, SMT
<1>9. x * d <= g * q /\ g * q < x * d + q
  BY <1>5, <1>7, <1>8, SMT
<1>10. QED
  BY <1>3, <1>5, <1>7, <1>9 DEF n, d, q, g
(***************************************************************************)
(* What a fraction n / d takes of x: its floor, or the least fee of one.   *)
(***************************************************************************)
LEMMA FeeKinds ==
  ASSUME NEW f \in Fraction, f.den # 0, f.num < f.den, NEW x \in Nat
  PROVE  LET fee == CalculateFee(x, f)
         IN  /\ fee \in Nat /\ x * f.num < fee * f.den + f.den
             /\ \/ fee = (x * f.num) \div f.den /\ fee * f.den <= x * f.num
                \/ fee = 1 /\ f.num > 0 /\ (x * f.num) \div f.den = 0
             /\ f.num > 0 /\ x > 0 => fee >= 1
<1> DEFINE n == f.num
           d == f.den
           fee == CalculateFee(x, f)
           q == (x * n) \div d
<1>1. n \in Nat /\ d \in Nat \ {0} /\ n < d
  BY SMT DEF Fraction
<1> HIDE DEF n, d
<1>2. x * n \in Nat /\ ((n = 0 \/ x = 0) => x * n = 0)
  BY <1>1, SMT
<1>3. q \in Nat /\ q * d <= x * n /\ x * n < q * d + d
  BY <1>1, <1>2, FloorBounds
<1>4. fee = IF n = 0 \/ x = 0 THEN 0 ELSE IF q = 0 THEN 1 ELSE q
  BY DEF CalculateFee, n, d
<1> HIDE DEF fee, q
<1>5. CASE n = 0 \/ x = 0
  <2>1. fee = 0 /\ x * n = 0
    BY <1>2, <1>4, <1>5
  <2>2. q = 0
    <3>1. q * d = 0
      BY <1>1, <1>3, <2>1, SMT
    <3>2. QED
      BY <1>1, <1>3, <3>1, SMT
  <2>3. QED
    BY <1>1, <1>5, <2>1, <2>2, SMT DEF n, d, fee, q
<1>6. CASE ~(n = 0 \/ x = 0) /\ q = 0
  <2>1. fee = 1
    BY <1>4, <1>6
  <2>2. x * n < d
    BY <1>1, <1>2, <1>3, <1>6, SMT
  <2>3. x * n < 1 * d + d
    BY <1>1, <1>2, <2>2, SMT
  <2>4. n > 0
    BY <1>1, <1>6, SMT
  <2>5. QED
    BY <1>6, <2>1, <2>3, <2>4 DEF n, d, fee, q
<1>7. CASE ~(n = 0 \/ x = 0) /\ q # 0
  <2>1. fee = q
    BY <1>4, <1>7
  <2>2. q >= 1
    BY <1>3, <1>7, SMT
  <2>3. QED
    BY <1>3, <2>1, <2>2 DEF n, d, fee, q
<1>8. QED
  BY <1>5, <1>6, <1>7

(***************************************************************************)
(* A fee of x and the same fee of some half of it: what is charged besides *)
(* the half's is half of the fraction, but for their roundings.            *)
(***************************************************************************)
LEMMA FeeOfHalf ==
  ASSUME NEW f \in Fraction, f.den # 0, f.num < f.den,
         NEW x \in Nat, NEW h \in Nat \ {0}, NEW p \in Nat, p <= x, p <= 2 * h + 1
  PROVE  LET q == (x * f.num) \div f.den
         IN  /\ q \in Nat /\ q <= CalculateFee(x, f) /\ q * f.den <= x * f.num
             /\ 2 * (f.den * (CalculateFee(x, f) - CalculateFee(h, f))) + p * f.num
                  <= 2 * (f.den * q) + f.num + 2 * f.den
<1> DEFINE n  == f.num
           d  == f.den
           fx == CalculateFee(x, f)
           fh == CalculateFee(h, f)
           q  == (x * n) \div d
<1>1. n \in Nat /\ d \in Nat \ {0} /\ n < d
  BY SMT DEF Fraction
<1>2. /\ fx \in Nat
      /\ \/ fx = q /\ fx * d <= x * n
         \/ fx = 1 /\ n > 0 /\ q = 0
  BY FeeKinds
<1>3. fh \in Nat /\ h * n < fh * d + d /\ (n > 0 => fh >= 1)
  <2>1. h > 0
    BY SMT
  <2>2. QED
    BY <2>1, FeeKinds
<1> HIDE DEF fx, fh, n, d
<1>4. /\ x * n \in Nat /\ h * n \in Nat /\ fh * d \in Nat /\ fx * d \in Nat /\ p * n \in Nat
      /\ p * n <= x * n /\ p * n <= 2 * (h * n) + n
  <2>1. p * n <= x * n
    BY <1>1, MulMono
  <2>2. p * n <= (2 * h + 1) * n
    BY <1>1, MulMono, SMT
  <2>3. (2 * h + 1) * n = 2 * (h * n) + n
    BY <1>1, SMT
  <2>4. /\ x * n \in Nat /\ h * n \in Nat /\ p * n \in Nat
        /\ fh * d \in Nat /\ fx * d \in Nat
    BY <1>1, <1>2, <1>3, SMT
  <2>5. QED
    BY <2>1, <2>2, <2>3, <2>4
<1>5. d * (fx - fh) = fx * d - fh * d
  BY <1>1, <1>2, <1>3, SMT
<1>6. q \in Nat /\ q * d <= x * n /\ x * n < q * d + d
  BY <1>1, <1>4, FloorBounds
<1> HIDE DEF q
<1>7. d * q = q * d /\ q * d \in Nat
  BY <1>1, <1>6, SMT
<1>8. q <= fx /\ 2 * (d * (fx - fh)) + p * n <= 2 * (d * q) + n + 2 * d
  <2>1. CASE fx = q
    <3>1. 2 * (d * (fx - fh)) + p * n = 2 * (q * d) + (p * n - 2 * (fh * d))
      BY <1>3, <1>4, <1>5, <1>7, <2>1, SMT
    <3> DEFINE A == p * n
               B == fh * d
               C == h * n
               E == q * d
    <3>2. A <= 2 * C + n /\ C < B + d /\ A \in Nat /\ B \in Nat /\ C \in Nat /\ E \in Nat
      BY <1>3, <1>4, <1>7
    <3> HIDE DEF A, B, C, E
    <3>3. 2 * E + (A - 2 * B) <= 2 * E + n + 2 * d
      BY <1>1, <3>2, SMT
    <3>4. QED
      BY <1>2, <1>7, <2>1, <3>1, <3>3, SMT DEF A, B, E
  <2>2. CASE fx = 1 /\ n > 0 /\ q = 0
    <3>1. d <= fh * d
      <4>1. 1 * d <= fh * d
        BY <1>1, <1>3, <2>2, MulMono, SMT
      <4>2. QED
        BY <1>1, <4>1, SMT
    <3>2. fx * d = d /\ q * d = 0
      BY <1>1, <2>2, SMT
    <3>3. p * n < d
      <4>1. x * n < 0 + d
        BY <1>6, <3>2
      <4>2. QED
        BY <1>1, <1>4, <4>1, SMT
    <3>4. d * (fx - fh) <= 0 /\ d * (fx - fh) \in Int
      BY <1>1, <1>4, <1>5, <3>1, <3>2, SMT
    <3>5. QED
      BY <1>1, <1>4, <1>7, <2>2, <3>2, <3>3, <3>4, SMT
  <2>3. QED
    BY <1>2, <2>1, <2>2
<1>9. QED
  BY <1>6, <1>8 DEF fx, fh, n, d, q

\* Both fees of x rounded down, without the least fees.
Floors(fs, x) == (x * Plain(fs.trade).num) \div Plain(fs.trade).den
                   + (x * Plain(fs.owner).num) \div Plain(fs.owner).den

(***************************************************************************)
(* Both fees together: F on x, H on the half, of the fraction n / d.       *)
(***************************************************************************)
LEMMA BothFeesOfHalf ==
  ASSUME NEW fs \in FeeSchedule, ValidFees(fs), PreTradingFeeDefined(fs),
         NEW x \in Nat, NEW h \in Nat \ {0}, NEW p \in Nat, p <= x, p <= 2 * h + 1,
         NEW F, F = TradingFee(x, fs) + OwnerTradingFee(x, fs),
         NEW H, H = TradingFee(h, fs) + OwnerTradingFee(h, fs)
  PROVE  LET n == BothNum(fs)
             d == BothDen(fs)
             q == Floors(fs, x)
         IN  /\ F \in Nat /\ H \in Nat /\ q \in Nat /\ q <= F /\ q * d <= x * n
             /\ 2 * (d * (F - H)) + p * n <= 2 * (d * q) + n + 4 * d
<1> DEFINE t == Plain(fs.trade)
           o == Plain(fs.owner)
           tx == CalculateFee(x, t)
           ox == CalculateFee(x, o)
           th == CalculateFee(h, t)
           oh == CalculateFee(h, o)
           tn == t.num
           td == t.den
           on == o.num
           od == o.den
           n  == BothNum(fs)
           d  == BothDen(fs)
<1>1. /\ fs.trade \in Fraction /\ ValidFraction(fs.trade)
      /\ fs.owner \in Fraction /\ ValidFraction(fs.owner)
  BY DEF FeeSchedule, ValidFees
<1>2. /\ t \in Fraction /\ tn \in Nat /\ td \in Nat \ {0} /\ tn < td
      /\ o \in Fraction /\ on \in Nat /\ od \in Nat \ {0} /\ on < od
      /\ F = tx + ox /\ H = th + oh
  BY <1>1, PlainFee DEF TradingFee, OwnerTradingFee
<1>3. n = tn * od + on * td /\ d = td * od
  BY DEF BothNum, BothDen
<1> DEFINE tq == (x * tn) \div td
           oq == (x * on) \div od
<1>4.   /\ tq \in Nat /\ tq <= tx /\ tq * td <= x * tn
        /\ 2 * (td * (tx - th)) + p * tn <= 2 * (td * tq) + tn + 2 * td
  BY <1>2, FeeOfHalf
<1>5.   /\ oq \in Nat /\ oq <= ox /\ oq * od <= x * on
        /\ 2 * (od * (ox - oh)) + p * on <= 2 * (od * oq) + on + 2 * od
  BY <1>2, FeeOfHalf
<1>6. /\ tx \in Nat /\ ox \in Nat /\ th \in Nat /\ oh \in Nat
      /\ tq \in Nat /\ oq \in Nat
  BY <1>2, <1>4, <1>5, FeeKinds
<1> HIDE DEF t, o, tx, ox, th, oh, tn, td, on, od, n, d, tq, oq
<1>7. F \in Nat /\ H \in Nat /\ tq + oq \in Nat /\ tq + oq <= F
  BY <1>2, <1>4, <1>5, <1>6, SMT
<1>8. (tq + oq) * d <= x * n
  <2>1. (tq * td) * od <= (x * tn) * od
    BY <1>2, <1>4, MulMono, SMT
  <2>2. (oq * od) * td <= (x * on) * td
    BY <1>2, <1>5, MulMono, SMT
  <2>3. (tq + oq) * d = (tq * td) * od + (oq * od) * td
    BY <1>2, <1>3, <1>6, SMT
  <2>4. x * n = (x * tn) * od + (x * on) * td
    BY <1>2, <1>3, SMT
  <2>5. /\ (tq * td) * od \in Nat /\ (oq * od) * td \in Nat
        /\ (x * tn) * od \in Nat /\ (x * on) * td \in Nat
    BY <1>2, <1>6, SMT
  <2>6. QED
    BY <2>1, <2>2, <2>3, <2>4, <2>5, SMT
<1>9. 2 * (d * (F - H)) + p * n <= 2 * (d * (tq + oq)) + n + 4 * d
  <2> DEFINE L1 == 2 * (td * (tx - th)) + p * tn
             R1 == 2 * (td * tq) + tn + 2 * td
             L2 == 2 * (od * (ox - oh)) + p * on
             R2 == 2 * (od * oq) + on + 2 * od
  <2>1. L1 \in Int /\ R1 \in Int /\ L2 \in Int /\ R2 \in Int
    BY <1>2, <1>6, SMT
  <2>2. L1 <= R1 /\ L2 <= R2
    BY <1>4, <1>5
  <2> HIDE DEF L1, R1, L2, R2
  <2>3. L1 * od <= R1 * od
    BY <1>2, <2>1, <2>2, MulMono
  <2>4. L2 * td <= R2 * td
    BY <1>2, <2>1, <2>2, MulMono
  <2>5. 2 * (d * (F - H)) + p * n = L1 * od + L2 * td
    BY <1>2, <1>3, <1>6, SMT DEF L1, L2
  <2>6. 2 * (d * (tq + oq)) + n + 4 * d = R1 * od + R2 * td
    BY <1>2, <1>3, <1>6, SMT DEF R1, R2
  <2>7. /\ L1 * od \in Int /\ L2 * td \in Int /\ R1 * od \in Int /\ R2 * td \in Int
    BY <1>2, <2>1, SMT
  <2>8. QED
    BY <2>3, <2>4, <2>5, <2>6, <2>7, SMT
<1>10. Floors(fs, x) = tq + oq
  BY DEF Floors, tq, oq, tn, td, on, od, t, o
<1>11. QED
  BY <1>7, <1>8, <1>9, <1>10 DEF n, d

(***************************************************************************)
(* What a net amount is the part q / d of, for the gross p.  A deposit of  *)
(* the gross is credited at most half of the difference more than the net, *)
(* but for the roundings: in proportion at most (d + q) / 2 * q of one     *)
(* token more than the net, and one token.                                 *)
(***************************************************************************)
LEMMA CreditWithinGross ==
  ASSUME NEW d \in Nat \ {0}, NEW q \in Nat \ {0}, NEW n \in Nat, d = q + n,
         NEW i \in Nat, NEW p \in Nat, NEW c \in Int,
         2 * (d * c) <= p * (d + q) + n + 4 * d, p * q <= i * d
  PROVE  2 * (q * c) <= (i + 1) * (d + q) + 2 * q
<1>1. (2 * (d * c)) * q <= (p * (d + q) + n + 4 * d) * q
  BY MulMono, SMT
<1>2. (p * q) * (d + q) <= (i * d) * (d + q)
  BY MulMono, SMT
<1>3. (p * (d + q) + n + 4 * d) * q = (p * q) * (d + q) + n * q + 4 * (d * q)
  BY SMT
<1>4. (2 * (d * c)) * q = (2 * (q * c)) * d
  BY SMT
<1>5. n * q <= n * d
  BY MulMono, SMT
<1>6. ((i + 1) * (d + q) + 2 * q) * d = (i * d) * (d + q) + d * d + q * d + 2 * (q * d)
  BY SMT
<1>7. d * d = q * d + n * d
  BY SMT
<1>8. /\ (2 * (d * c)) * q \in Int /\ (p * q) * (d + q) \in Int /\ (i * d) * (d + q) \in Int
      /\ n * q \in Int /\ d * q \in Int /\ d * q = q * d /\ n * d \in Int /\ d * d \in Int
      /\ (2 * (q * c)) * d \in Int /\ ((i + 1) * (d + q) + 2 * q) * d \in Int
      /\ 2 * (q * c) \in Int /\ (i + 1) * (d + q) + 2 * q \in Int
  BY SMT
<1>9. (2 * (q * c)) * d <= ((i + 1) * (d + q) + 2 * q) * d
  BY <1>1, <1>2, <1>3, <1>4, <1>5, <1>6, <1>7, <1>8, SMT
<1>10. QED
  BY <1>8, <1>9, CancelsEqual

\* The net and the fees of its gross, without the least fees, are worth no more than the net.
LEMMA GrossIsWorthNet ==
  ASSUME NEW d \in Nat \ {0}, NEW q \in Nat \ {0}, NEW n \in Nat, d = q + n,
         NEW i \in Nat, NEW x \in Nat, NEW f \in Nat,
         i * d <= x * q, x * q < i * d + q, f * d <= x * n
  PROVE  i + f <= x /\ (i + f) * q <= i * d
<1>1. /\ i * d \in Nat /\ x * q \in Nat /\ f * d \in Nat /\ x * n \in Nat
      /\ (i + f) * q \in Nat
      /\ (i + f) * d = i * d + f * d /\ x * d = x * q + x * n
  BY SMT
<1>2. (i + f) * d <= x * d
  BY <1>1, SMT
<1>3. i + f <= x
  BY <1>2, CancelsEqual, SMT
<1>4. CASE i + f = x
  <2>1. x * d <= i * d + x * n
    BY <1>1, <1>4, SMT
  <2>2. x * q <= i * d
    BY <1>1, <2>1, SMT
  <2>3. QED
    BY <1>3, <1>4, <2>2
<1>5. CASE i + f # x
  <2>1. i + f <= x - 1
    BY <1>3, <1>5, SMT
  <2>2. (i + f) * q <= (x - 1) * q
    BY <2>1, MulMono, SMT
  <2>3. (x - 1) * q = x * q - q
    BY SMT
  <2>4. QED
    BY <1>1, <1>3, <2>2, <2>3, SMT
<1>6. QED
  BY <1>4, <1>5

\* The half a deposit is charged on.
LEMMA HalfDownBounds ==
  ASSUME NEW x \in Nat
  PROVE  HalfDown(x) \in Nat \ {0} /\ x <= 2 * HalfDown(x) + 1
  BY SMT DEF HalfDown

(***************************************************************************)
(* A swap that used the amount i and charged the fees of its gross x: what *)
(* a deposit of both is credited.                                          *)
(***************************************************************************)
LEMMA CreditOfGross ==
  ASSUME NEW fs \in FeeSchedule, ValidFees(fs), PreTradingFeeDefined(fs),
         NEW i \in Nat, NEW x, x = PreTradingFeeAmount(i, fs),
         NEW paid, paid = i + TradingFee(x, fs) + OwnerTradingFee(x, fs)
  PROVE  LET d == BothDen(fs)
             q == Rest(fs)
         IN  /\ paid \in Nat /\ DepositNet(paid, fs) \in Int
             /\ 2 * (q * DepositNet(paid, fs)) <= (i + 1) * (d + q) + 2 * q
<1> DEFINE n == BothNum(fs)
           d == BothDen(fs)
           q == Rest(fs)
           F == TradingFee(x, fs) + OwnerTradingFee(x, fs)
           h == HalfDown(paid)
           H == TradingFee(h, fs) + OwnerTradingFee(h, fs)
           c == DepositNet(paid, fs)
<1>1. /\ n \in Nat /\ d \in Nat \ {0} /\ q \in Nat \ {0} /\ d = q + n /\ x \in Nat
      /\ i * d <= x * q /\ x * q < i * d + q
  <2>1. /\ n \in Nat /\ d \in Nat \ {0} /\ q \in Nat \ {0} /\ x \in Nat
        /\ i * d <= x * q /\ x * q < i * d + q
    BY GrossOfBoth
  <2>2. d = q + n
    BY <2>1, SMT DEF Rest
  <2>3. QED
    BY <2>1, <2>2
<1>2. TradingFee(x, fs) \in Nat /\ OwnerTradingFee(x, fs) \in Nat /\ F \in Nat
      /\ paid = i + F /\ paid \in Nat
  <2>1. TradingFee(x, fs) \in Nat /\ OwnerTradingFee(x, fs) \in Nat
    BY <1>1, FeesAtMostAmount
  <2>2. QED
    BY <2>1, SMT
<1>3. h \in Nat \ {0} /\ paid <= 2 * h + 1
  BY <1>2, HalfDownBounds
<1>4. TradingFee(h, fs) \in Nat /\ OwnerTradingFee(h, fs) \in Nat /\ H \in Nat
  <2>1. TradingFee(h, fs) \in Nat /\ OwnerTradingFee(h, fs) \in Nat
    BY <1>3, FeesAtMostAmount
  <2>2. QED
    BY <2>1, SMT
<1>5. c = paid - H
  BY <1>2, <1>4, SMT DEF DepositNet
<1> DEFINE f == Floors(fs, x)
<1>6. f \in Nat /\ f <= F /\ f * d <= x * n
  BY <1>1, <1>3, BothFeesOfHalf, SMT
<1>7. i + f <= x /\ (i + f) * q <= i * d
  <2> HIDE DEF n, d, q, F, h, H, c, f
  <2>1. QED
    BY <1>1, <1>6, GrossIsWorthNet
<1>8. i + f \in Nat /\ i + f <= 2 * h + 1
  <2> HIDE DEF n, d, q, F, h, H, c, f
  <2>1. QED
    BY <1>2, <1>3, <1>6, SMT
<1>9. 2 * (d * (F - H)) + (i + f) * n <= 2 * (d * f) + n + 4 * d
  BY <1>1, <1>3, <1>7, <1>8, BothFeesOfHalf
<1> HIDE DEF n, d, q, F, h, H, c, f
<1>10. c \in Int /\ 2 * (d * c) <= (i + f) * (d + q) + n + 4 * d
  <2>1. c = i + (F - H) /\ F - H \in Int
    BY <1>2, <1>4, <1>5, SMT
  <2>2. 2 * (d * c) = 2 * (d * i) + 2 * (d * (F - H))
    BY <1>1, <2>1, SMT
  <2>3. (i + f) * (d + q) = 2 * (d * i) + 2 * (d * f) - (i + f) * n
    BY <1>1, <1>6, SMT
  <2>4. d * i \in Int /\ d * f \in Int /\ (i + f) * n \in Int /\ d * (F - H) \in Int
    BY <1>1, <1>6, <2>1, SMT
  <2>5. QED
    BY <1>1, <1>9, <2>1, <2>2, <2>3, <2>4, SMT
<1>11. 2 * (q * c) <= (i + 1) * (d + q) + 2 * q
  BY <1>1, <1>7, <1>8, <1>10, CreditWithinGross
<1>12. QED
  BY <1>2, <1>10, <1>11 DEF d, q, c

(***************************************************************************)
(* A swap of all of x of which one fee was the least fee, 1, the other the *)
(* floor f of the fraction m / e; g the other fee of the half h.           *)
(***************************************************************************)
LEMMA CreditAfterLeastFee ==
  ASSUME NEW d \in Nat \ {0}, NEW q \in Nat \ {0}, NEW e \in Nat \ {0}, NEW m \in Nat,
         m < e, e * q <= d * (e - m),
         NEW i \in Nat, NEW f \in Nat, NEW x \in Nat, x = i + 1 + f, f * e <= x * m,
         NEW h \in Nat, x <= 2 * h + 1, NEW g \in Nat, h * m < g * e + e,
         NEW c \in Int, c <= x - (1 + g)
  PROVE  2 * (q * c) <= (i + 1) * (d + q) + 2 * q
<1> DEFINE v == e - m
           k == x - (1 + g)
<1>1. v \in Nat \ {0} /\ v <= e /\ e = v + m /\ k \in Int /\ c <= k
  BY SMT
<1>2. x * v <= e * (i + 1)
  <2>1. x * e = (i + 1) * e + f * e /\ x * e = x * v + x * m /\ (i + 1) * e = e * (i + 1)
    BY <1>1, SMT
  <2>2. (i + 1) * e \in Nat /\ f * e \in Nat /\ x * v \in Nat /\ x * m \in Nat
    BY <1>1, SMT
  <2>3. QED
    BY <2>1, <2>2, SMT
<1>3. 2 * (e * k) <= x * (e + v) + m
  <2>1. x * m <= (2 * h + 1) * m
    BY MulMono, SMT
  <2>2. (2 * h + 1) * m = 2 * (h * m) + m
    BY SMT
  <2>3. e * k = x * e - e - g * e
    BY SMT
  <2>4. x * (e + v) = 2 * (x * e) - x * m
    BY <1>1, SMT
  <2>5. h * m \in Nat /\ g * e \in Nat /\ x * e \in Nat /\ x * m \in Nat
    BY SMT
  <2>6. x * m <= 2 * (g * e) + 2 * e + m
    BY <2>1, <2>2, <2>5, SMT
  <2> HIDE DEF k, v
  <2>7. QED
    BY <2>3, <2>4, <2>5, <2>6, SMT
<1> HIDE DEF v, k
<1>4. 2 * (v * k) <= (i + 1) * (e + v) + v
  <2>1. (2 * (e * k)) * v <= (x * (e + v) + m) * v
    <3>1. 2 * (e * k) \in Int /\ x * (e + v) + m \in Int
      BY <1>1, SMT
    <3>2. QED
      BY <1>1, <1>3, <3>1, MulMono
  <2>2. (x * v) * (e + v) <= (e * (i + 1)) * (e + v)
    <3>1. x * v \in Int /\ e * (i + 1) \in Int /\ e + v \in Nat
      BY <1>1, SMT
    <3>2. QED
      BY <1>2, <3>1, MulMono
  <2>3. (x * (e + v) + m) * v = (x * v) * (e + v) + m * v
    BY <1>1, SMT
  <2>4. m * v <= e * v
    BY <1>1, MulMono, SMT
  <2>5. (2 * (e * k)) * v = (2 * (v * k)) * e
    BY <1>1, SMT
  <2>6. ((i + 1) * (e + v) + v) * e = (e * (i + 1)) * (e + v) + e * v
    BY <1>1, SMT
  <2>7. /\ (2 * (v * k)) * e \in Int /\ ((i + 1) * (e + v) + v) * e \in Int
        /\ (x * v) * (e + v) \in Int /\ m * v \in Int /\ e * v \in Int
        /\ (e * (i + 1)) * (e + v) \in Int
        /\ 2 * (v * k) \in Int /\ (i + 1) * (e + v) + v \in Int
    BY <1>1, SMT
  <2>8. (2 * (v * k)) * e <= ((i + 1) * (e + v) + v) * e
    BY <2>1, <2>2, <2>3, <2>4, <2>5, <2>6, <2>7, SMT
  <2>9. QED
    BY <2>7, <2>8, CancelsEqual
<1>5. 2 * (q * k) <= (i + 1) * (d + q) + q
  <2>1. (2 * (v * k)) * q <= ((i + 1) * (e + v) + v) * q
    <3>1. 2 * (v * k) \in Int /\ (i + 1) * (e + v) + v \in Int
      BY <1>1, SMT
    <3>2. QED
      BY <1>4, <3>1, MulMono
  <2>2. (i + 1) * (e * q) <= (i + 1) * (d * v)
    <3>1. e * q \in Int /\ d * v \in Int
      BY <1>1, SMT
    <3>2. e * q <= d * v
      BY DEF v
    <3>3. QED
      BY <3>1, <3>2, MulMono, SMT
  <2>3. ((i + 1) * (e + v) + v) * q = (i + 1) * (e * q) + (i + 1) * (v * q) + v * q
    BY <1>1, SMT
  <2>4. ((i + 1) * (d + q) + q) * v = (i + 1) * (d * v) + (i + 1) * (v * q) + v * q
    BY <1>1, SMT
  <2>5. (2 * (v * k)) * q = (2 * (q * k)) * v
    BY <1>1, SMT
  <2>6. /\ (2 * (q * k)) * v \in Int /\ ((i + 1) * (d + q) + q) * v \in Int
        /\ (i + 1) * (e * q) \in Int /\ (i + 1) * (d * v) \in Int
        /\ (i + 1) * (v * q) \in Int /\ v * q \in Int
        /\ 2 * (q * k) \in Int /\ (i + 1) * (d + q) + q \in Int
    BY <1>1, SMT
  <2>7. (2 * (q * k)) * v <= ((i + 1) * (d + q) + q) * v
    BY <2>1, <2>2, <2>3, <2>4, <2>5, <2>6, SMT
  <2>8. QED
    BY <1>1, <2>6, <2>7, CancelsEqual
<1>6. q * c <= q * k
  BY <1>1, MulMono, SMT
<1>7. /\ q * c \in Int /\ q * k \in Int /\ (i + 1) * (d + q) \in Int
  BY <1>1, SMT
<1>8. QED
  BY <1>5, <1>6, <1>7, SMT

\* A swap that used all that the fees left of x: what a deposit of x is credited.
LEMMA CreditOfAll ==
  ASSUME NEW fs \in FeeSchedule, ValidFees(fs), PreTradingFeeDefined(fs),
         NEW x \in Nat, NEW i \in Nat, i = LessFees(x, fs)
  PROVE  LET d == BothDen(fs)
             q == Rest(fs)
         IN  /\ DepositNet(x, fs) \in Int
             /\ 2 * (q * DepositNet(x, fs)) <= (i + 1) * (d + q) + 2 * q
<1> DEFINE n == BothNum(fs)
           d == BothDen(fs)
           q == Rest(fs)
           F == TradingFee(x, fs) + OwnerTradingFee(x, fs)
           h == HalfDown(x)
           H == TradingFee(h, fs) + OwnerTradingFee(h, fs)
           c == DepositNet(x, fs)
           t == Plain(fs.trade)
           o == Plain(fs.owner)
           tx == CalculateFee(x, t)
           ox == CalculateFee(x, o)
           th == CalculateFee(h, t)
           oh == CalculateFee(h, o)
           tn == t.num
           td == t.den
           on == o.num
           od == o.den
<1>1. /\ n \in Nat /\ d \in Nat \ {0} /\ q \in Nat \ {0} /\ d = q + n /\ q <= d
  <2>1. /\ n \in Nat /\ d \in Nat \ {0} /\ q \in Nat \ {0}
    BY GrossOfBoth
  <2>2. d = q + n
    BY <2>1, SMT DEF Rest
  <2> HIDE DEF n, d, q
  <2>3. QED
    BY <2>1, <2>2, SMT
<1>2. h \in Nat \ {0} /\ x <= 2 * h + 1
  BY HalfDownBounds
<1>3. /\ fs.trade \in Fraction /\ ValidFraction(fs.trade)
      /\ fs.owner \in Fraction /\ ValidFraction(fs.owner)
  BY DEF FeeSchedule, ValidFees
<1>4. /\ t \in Fraction /\ tn \in Nat /\ td \in Nat \ {0} /\ tn < td
      /\ o \in Fraction /\ on \in Nat /\ od \in Nat \ {0} /\ on < od
      /\ TradingFee(x, fs) = tx /\ OwnerTradingFee(x, fs) = ox
      /\ TradingFee(h, fs) = th /\ OwnerTradingFee(h, fs) = oh
  BY <1>2, <1>3, PlainFee DEF TradingFee, OwnerTradingFee
<1>5. n = tn * od + on * td /\ d = td * od
  BY DEF BothNum, BothDen
<1>6. /\ tx \in Nat /\ (tx * td <= x * tn \/ (tx = 1 /\ tn > 0))
      /\ ox \in Nat /\ (ox * od <= x * on \/ (ox = 1 /\ on > 0))
  BY <1>4, FeeKinds
<1>7. /\ th \in Nat /\ (tn > 0 => th >= 1) /\ h * tn < th * td + td
      /\ oh \in Nat /\ (on > 0 => oh >= 1) /\ h * on < oh * od + od
  <2>1. h > 0
    BY <1>2, SMT
  <2>2. QED
    BY <1>2, <1>4, <2>1, FeeKinds
<1>8. F = tx + ox /\ H = th + oh /\ F \in Nat /\ H \in Nat
  <2>1. F = tx + ox /\ H = th + oh
    BY <1>4
  <2> HIDE DEF tx, ox, th, oh, F, H
  <2>2. QED
    BY <1>6, <1>7, <2>1, SMT
<1>9. c = x - H /\ x = i + F
  <2> HIDE DEF tx, ox, th, oh, t, o, tn, td, on, od
  <2>1. c = x - th - oh /\ i = x - tx - ox
    BY <1>4 DEF DepositNet, LessFees
  <2>2. QED
    BY <1>6, <1>7, <1>8, <2>1, SMT
<1> DEFINE f == Floors(fs, x)
<1>10. /\ f \in Nat /\ f <= F
       /\ 2 * (d * (F - H)) + x * n <= 2 * (d * f) + n + 4 * d
  BY <1>2, BothFeesOfHalf
<1> HIDE DEF n, d, q, F, h, H, c, f, t, o, tx, ox, th, oh, tn, td, on, od
<1>11. c \in Int
  BY <1>8, <1>9, SMT
<1>12. CASE F * d <= x * n
  <2>1. x * q <= i * d
    <3>1. i * d = x * d - F * d /\ x * d = x * q + x * n
      BY <1>1, <1>8, <1>9, SMT
    <3>2. x * d \in Int /\ F * d \in Int /\ x * q \in Int /\ x * n \in Int
      BY <1>1, <1>8, SMT
    <3>3. QED
      BY <1>12, <3>1, <3>2, SMT
  <2>2. 2 * (d * c) <= x * (d + q) + n + 4 * d
    <3>1. c = i + (F - H) /\ F - H \in Int
      BY <1>8, <1>9, SMT
    <3>2. 2 * (d * c) = 2 * (d * i) + 2 * (d * (F - H))
      BY <1>1, <3>1, SMT
    <3>3. d * (i + f) <= d * x
      BY <1>1, <1>8, <1>9, <1>10, MulMono, SMT
    <3>4. d * (i + f) = d * i + d * f /\ x * (d + q) = 2 * (d * x) - x * n
      BY <1>1, <1>10, SMT
    <3>5. /\ d * i \in Int /\ d * f \in Int /\ x * n \in Int /\ d * (F - H) \in Int
          /\ d * x \in Int
      BY <1>1, <1>10, <3>1, SMT
    <3>6. QED
      BY <1>1, <1>10, <3>2, <3>3, <3>4, <3>5, SMT
  <2>3. QED
    BY <1>1, <1>11, <2>1, <2>2, CreditWithinGross DEF d, q, c
<1>13. od * q <= d * (od - on) /\ td * q <= d * (td - tn)
  <2>1. /\ d * (od - on) = od * q + tn * (od * od)
        /\ d * (td - tn) = td * q + on * (td * td)
    <3>1. q = td * od - (tn * od + on * td)
      BY <1>1, <1>4, <1>5, SMT
    <3>2. QED
      BY <1>4, <1>5, <3>1, SMT
  <2>2. /\ tn * (od * od) \in Nat /\ on * (td * td) \in Nat
        /\ od * q \in Nat /\ td * q \in Nat
    BY <1>1, <1>4, SMT
  <2>3. QED
    BY <2>1, <2>2, SMT
<1>14. CASE tx = 1 /\ tn > 0 /\ ox * od <= x * on
  <2>1. c <= x - (1 + oh) /\ x = i + 1 + ox
    <3>1. th >= 1 /\ th \in Nat /\ oh \in Nat /\ ox \in Nat /\ tx = 1
      BY <1>6, <1>7, <1>14, Zenon
    <3>2. QED
      BY <1>8, <1>9, <3>1, SMT
  <2>2. 2 * (q * c) <= (i + 1) * (d + q) + 2 * q
    BY <1>1, <1>2, <1>4, <1>6, <1>7, <1>11, <1>13, <1>14, <2>1, CreditAfterLeastFee
  <2>3. QED
    BY <1>11, <2>2 DEF d, q, c
<1>15. CASE ox = 1 /\ on > 0 /\ tx * td <= x * tn
  <2>1. c <= x - (1 + th) /\ x = i + 1 + tx
    <3>1. oh >= 1 /\ oh \in Nat /\ th \in Nat /\ tx \in Nat /\ ox = 1
      BY <1>6, <1>7, <1>15, Zenon
    <3>2. QED
      BY <1>8, <1>9, <3>1, SMT
  <2>2. 2 * (q * c) <= (i + 1) * (d + q) + 2 * q
    BY <1>1, <1>2, <1>4, <1>6, <1>7, <1>11, <1>13, <1>15, <2>1, CreditAfterLeastFee
  <2>3. QED
    BY <1>11, <2>2 DEF d, q, c
<1>16. CASE tx = 1 /\ tn > 0 /\ ox = 1 /\ on > 0
  <2>1. c <= i
    BY <1>7, <1>8, <1>9, <1>16, SMT
  <2>2. q * c <= q * i /\ i * q <= i * d
    BY <1>1, <1>11, <2>1, MulMono, SMT
  <2>3. (i + 1) * (d + q) = i * d + i * q + d + q /\ q * i = i * q
    BY <1>1, SMT
  <2>4. q * c \in Int /\ i * d \in Int /\ i * q \in Int
    BY <1>1, <1>11, SMT
  <2>5. 2 * (q * c) <= (i + 1) * (d + q) + 2 * q
    BY <1>1, <2>2, <2>3, <2>4, SMT
  <2>6. QED
    BY <1>11, <2>5 DEF d, q, c
<1>17. CASE tx * td <= x * tn /\ ox * od <= x * on
  <2>1. (tx * td) * od <= (x * tn) * od
    BY <1>4, <1>6, <1>17, MulMono, SMT
  <2>2. (ox * od) * td <= (x * on) * td
    BY <1>4, <1>6, <1>17, MulMono, SMT
  <2>3. F * d = (tx * td) * od + (ox * od) * td
    BY <1>4, <1>5, <1>6, <1>8, SMT
  <2>4. x * n = (x * tn) * od + (x * on) * td
    BY <1>4, <1>5, SMT
  <2>5. /\ (tx * td) * od \in Int /\ (ox * od) * td \in Int
        /\ (x * tn) * od \in Int /\ (x * on) * td \in Int
    BY <1>4, <1>6, SMT
  <2>6. F * d <= x * n
    BY <2>1, <2>2, <2>3, <2>4, <2>5, SMT
  <2>7. QED
    BY <1>12, <2>6
<1>18. QED
  BY <1>6, <1>14, <1>15, <1>16, <1>17

\* What a withdrawal of out is charged with: half of what the fees' gross of it would be.
LEMMA WithdrawalGross ==
  ASSUME NEW fs \in FeeSchedule, ValidFees(fs), PreTradingFeeDefined(fs), NEW out \in Nat
  PROVE  LET d == BothDen(fs)
             q == Rest(fs)
         IN  /\ WithdrawGross(out, fs) \in Nat
             /\ out * (d + q) <= 2 * (q * WithdrawGross(out, fs))
<1> DEFINE d == BothDen(fs)
           q == Rest(fs)
           h == HalfUp(out)
           g == PreTradingFeeAmount(h, fs)
           w == WithdrawGross(out, fs)
<1>1. h \in Nat /\ h <= out /\ out <= 2 * h
  BY SMT DEF HalfUp
<1>2. /\ d \in Nat \ {0} /\ q \in Nat \ {0} /\ q <= d
      /\ g \in Nat /\ h * d <= g * q
  <2>1. /\ BothNum(fs) \in Nat /\ d \in Nat \ {0} /\ q \in Nat \ {0}
        /\ g \in Nat /\ h * d <= g * q
    BY <1>1, GrossOfBoth
  <2>2. q = d - BothNum(fs)
    BY DEF Rest
  <2> HIDE DEF d, q, g, h
  <2>3. QED
    BY <2>1, <2>2, SMT
<1>3. w = out - h + g
  BY DEF WithdrawGross
<1> HIDE DEF d, q, h, g, w
<1>4. w \in Nat
  BY <1>1, <1>2, <1>3, SMT
<1>5. q * w = q * out - q * h + g * q
  BY <1>1, <1>2, <1>3, SMT
<1>6. out * (d - q) <= (2 * h) * (d - q)
  BY <1>1, <1>2, MulMono, SMT
<1>7. /\ out * (d - q) = out * d - q * out /\ (2 * h) * (d - q) = 2 * (h * d) - 2 * (q * h)
      /\ out * (d + q) = out * d + q * out
  BY <1>1, <1>2, SMT
<1>8. /\ q * out \in Int /\ q * h \in Int /\ g * q \in Int /\ out * d \in Int /\ h * d \in Int
      /\ q * w \in Int
  BY <1>1, <1>2, <1>4, SMT
<1>9. out * (d + q) <= 2 * (q * w)
  BY <1>2, <1>5, <1>6, <1>7, <1>8, SMT
<1>10. QED
  BY <1>4, <1>9 DEF d, q, w

(***************************************************************************)
(* The reserves x and y, a swap of i for out that takes no token too many, *)
(* a credit c in proportion of i and a gross w in proportion of out: the   *)
(* product they would leave exceeds x * y by less than the slack's share.  *)
(***************************************************************************)
LEMMA CreditAndGrossBalance ==
  ASSUME NEW d \in Nat \ {0}, NEW q \in Nat \ {0}, NEW n \in Nat, d = q + n,
         NEW x \in Nat \ {0}, NEW y \in Nat \ {0}, NEW i \in Nat \ {0}, NEW out \in Nat,
         ((x + i) - 1) * (y - out) < x * y,
         NEW c \in Nat, 2 * (q * c) <= (i + 1) * (d + q) + 2 * q,
         NEW w \in Nat, out * (d + q) <= 2 * (q * w), w <= y,
         NEW k \in Nat, d + 2 * q <= k * q
  PROVE  (x + c) * (y - w) <= (x + k) * y
<1> DEFINE j == i - 1
           m == d + q
<1>1. j \in Nat /\ i = j + 1 /\ m \in Nat /\ m = 2 * q + n
  BY SMT
<1> HIDE DEF j, m
<1>2. y * j <= out * (x + j)
  <2>1. ((x + i) - 1) = x + j
    BY <1>1, SMT
  <2>2. (x + j) * (y - out) = x * y + y * j - out * (x + j)
    BY <1>1, SMT
  <2>3. x * y \in Int /\ y * j \in Int /\ out * (x + j) \in Int
    BY <1>1, SMT
  <2>4. (x + j) * (y - out) < x * y
    BY <2>1
  <2>5. QED
    BY <2>2, <2>3, <2>4, SMT
\* The output's share of the credit.
<1>3. y * (m * j) <= 2 * ((q * w) * (x + j))
  <2>1. (y * j) * m <= (out * (x + j)) * m
    <3>1. y * j \in Int /\ out * (x + j) \in Int
      BY <1>1, SMT
    <3>2. QED
      BY <1>1, <1>2, <3>1, MulMono
  <2>2. (out * m) * (x + j) <= (2 * (q * w)) * (x + j)
    <3>1. out * m \in Int /\ 2 * (q * w) \in Int /\ x + j \in Nat /\ out * m <= 2 * (q * w)
      BY <1>1, SMT DEF m
    <3>2. QED
      BY <3>1, MulMono
  <2>3. (out * (x + j)) * m = (out * m) * (x + j) /\ (y * j) * m = y * (m * j)
    BY <1>1, SMT
  <2>4. (2 * (q * w)) * (x + j) = 2 * ((q * w) * (x + j))
    BY <1>1, SMT
  <2>5. (y * j) * m \in Int /\ (out * m) * (x + j) \in Int /\ (2 * (q * w)) * (x + j) \in Int
    BY <1>1, SMT
  <2>6. QED
    BY <2>1, <2>2, <2>3, <2>4, <2>5, SMT
\* The credit beyond the slack is no more than what that share takes of it.
<1>4. 2 * (q * ((c - k) * (x + j))) <= (x + c) * (m * j)
  <2>1. x * (2 * (q * c)) <= x * ((j + 2) * m + 2 * q)
    <3>1. 2 * (q * c) <= (j + 2) * m + 2 * q
      BY <1>1, SMT DEF m
    <3>2. 2 * (q * c) \in Int /\ (j + 2) * m + 2 * q \in Int
      BY <1>1, SMT
    <3>3. QED
      BY <3>1, <3>2, MulMono
  <2>2. x * (2 * m + 2 * q) <= x * (2 * (k * q))
    <3>1. 2 * m + 2 * q <= 2 * (k * q) /\ k * q \in Int
      BY <1>1, SMT DEF m
    <3>2. 2 * m + 2 * q \in Int /\ 2 * (k * q) \in Int
      BY <1>1, <3>1, SMT
    <3>3. QED
      BY <3>1, <3>2, MulMono
  <2>3. x * ((j + 2) * m + 2 * q) = x * (m * j) + x * (2 * m + 2 * q)
    BY <1>1, SMT
  <2>4. 2 * (q * ((c - k) * (x + j)))
          = x * (2 * (q * c)) + (2 * q) * (c * j) - x * (2 * (k * q)) - (2 * q) * (k * j)
    BY <1>1, SMT
  <2>5. (x + c) * (m * j) = x * (m * j) + (2 * q) * (c * j) + n * (c * j)
    BY <1>1, SMT
  <2>6. /\ (2 * q) * (k * j) \in Nat /\ n * (c * j) \in Nat /\ (2 * q) * (c * j) \in Nat
        /\ x * (2 * (q * c)) \in Int /\ x * (2 * (k * q)) \in Int /\ x * (m * j) \in Int
        /\ x * (2 * m + 2 * q) \in Int
    BY <1>1, SMT
  <2>7. QED
    BY <2>1, <2>2, <2>3, <2>4, <2>5, <2>6, SMT
<1>5. ((c - k) * y) * (2 * (q * (x + j))) <= ((x + c) * w) * (2 * (q * (x + j)))
  <2>1. (2 * (q * ((c - k) * (x + j)))) * y <= ((x + c) * (m * j)) * y
    <3>1. 2 * (q * ((c - k) * (x + j))) \in Int /\ (x + c) * (m * j) \in Int
      BY <1>1, SMT
    <3>2. QED
      BY <1>4, <3>1, MulMono
  <2>2. (x + c) * (y * (m * j)) <= (x + c) * (2 * ((q * w) * (x + j)))
    <3>1. y * (m * j) \in Int /\ 2 * ((q * w) * (x + j)) \in Int /\ x + c \in Nat
      BY <1>1, SMT
    <3>2. QED
      BY <1>3, <3>1, MulMono
  <2>3. (2 * (q * ((c - k) * (x + j)))) * y = ((c - k) * y) * (2 * (q * (x + j)))
    BY <1>1, SMT
  <2>4. ((x + c) * (m * j)) * y = (x + c) * (y * (m * j))
    BY <1>1, SMT
  <2>5. (x + c) * (2 * ((q * w) * (x + j))) = ((x + c) * w) * (2 * (q * (x + j)))
    BY <1>1, SMT
  <2>6. /\ ((c - k) * y) * (2 * (q * (x + j))) \in Int
        /\ ((x + c) * w) * (2 * (q * (x + j))) \in Int
        /\ (x + c) * (y * (m * j)) \in Int
    BY <1>1, SMT
  <2>7. QED
    BY <2>1, <2>2, <2>3, <2>4, <2>5, <2>6, SMT
<1>6. (c - k) * y <= (x + c) * w
  <2>1. x + j \in Nat \ {0}
    BY <1>1, SMT
  <2>2. q * (x + j) \in Nat \ {0}
    BY <2>1, SMT
  <2>3. 2 * (q * (x + j)) \in Nat \ {0} /\ (c - k) * y \in Int /\ (x + c) * w \in Int
    BY <2>2, SMT
  <2>4. QED
    BY <1>5, <2>3, CancelsEqual
<1>7. (x + c) * (y - w) = (x + k) * y + (c - k) * y - (x + c) * w
  BY SMT
<1>8. (c - k) * y \in Int /\ (x + c) * w \in Int /\ (x + k) * y \in Int
  BY SMT
<1>9. QED
  BY <1>6, <1>7, <1>8, SMT

\* A swap with fees that is answered, under the ConstantProduct curve.
LEMMA SwapTakenApart ==
  ASSUME curve.type = "ConstantProduct", ~Bad(CurveSwap(curve, Amount, a, b, "AtoB", fees))
  PROVE  LET net  == LessFees(Amount, fees)
             r    == ProductSwap(net, a, b)
             base == IF r.in < net THEN PreTradingFeeAmount(r.in, fees) ELSE Amount
             paid == r.in + TradingFee(base, fees) + OwnerTradingFee(base, fees)
             cs   == CurveSwap(curve, Amount, a, b, "AtoB", fees)
         IN  /\ ~(net < 0) /\ r # None
             /\ cs.sourceAmount = paid /\ cs.destinationAmount = r.out
<1> DEFINE net  == LessFees(Amount, fees)
           r    == ProductSwap(net, a, b)
           base == IF r.in < net THEN PreTradingFeeAmount(r.in, fees) ELSE Amount
           paid == r.in + TradingFee(base, fees) + OwnerTradingFee(base, fees)
           cs   == CurveSwap(curve, Amount, a, b, "AtoB", fees)
<1>1. ~Priced(curve) /\ WithOffset(curve, b) = b
  BY DEF Priced, WithOffset
<1>2. SwapWithoutFees(curve, net, a, b, "AtoB") = r
  BY <1>1 DEF SwapWithoutFees
<1>3. cs = IF net < 0 THEN None ELSE IF Bad(r) THEN r
           ELSE IF (r.in < net /\ ~PreTradingFeeDefined(fees)) \/ r.out > b THEN None
           ELSE [sourceAmount |-> paid, destinationAmount |-> r.out,
                 ownerFee |-> OwnerTradingFee(base, fees)]
  BY <1>2, Zenon DEF CurveSwap
<1>4. ~Bad(cs)
  OBVIOUS
<1> HIDE DEF net, r, base, paid, cs
<1>5. /\ ~(net < 0) /\ ~Bad(r)
      /\ cs = [sourceAmount |-> paid, destinationAmount |-> r.out,
               ownerFee |-> OwnerTradingFee(base, fees)]
  BY <1>3, <1>4, Zenon DEF Bad
<1>6. r # None /\ cs.sourceAmount = paid /\ cs.destinationAmount = r.out
  BY <1>5 DEF Bad
<1>7. QED
  BY <1>5, <1>6 DEF net, r, base, paid, cs

LEMMA AmountsAvoidBarely == SampleInv => AmountsBarelyAvoidFees
<1> DEFINE cs == CurveSwap(curve, Amount, a, b, "AtoB", fees)
           k  == PreTradingFeeAmount(1, fees) + 2
<1>1. SUFFICES ASSUME SampleInv, Drawn, curve.type = "ConstantProduct", PreTradingFeeDefined(fees),
                      ~Bad(cs), DepositNet(cs.sourceAmount, fees) >= 0,
                      WithdrawGross(cs.destinationAmount, fees) <= b
               PROVE  (a + DepositNet(cs.sourceAmount, fees))
                          * (b - WithdrawGross(cs.destinationAmount, fees)) <= (a + k) * b
  BY Zenon DEF AmountsBarelyAvoidFees
<1> DEFINE net  == LessFees(Amount, fees)
           r    == ProductSwap(net, a, b)
           base == IF r.in < net THEN PreTradingFeeAmount(r.in, fees) ELSE Amount
           paid == r.in + TradingFee(base, fees) + OwnerTradingFee(base, fees)
           c    == DepositNet(paid, fees)
           w    == WithdrawGross(r.out, fees)
           d == BothDen(fees)
           q == Rest(fees)
           n == BothNum(fees)
<1>2. /\ a \in Nat \ {0} /\ b \in Nat \ {0} /\ supply \in Nat \ {0} /\ Amount \in Nat
  BY <1>1, Numbers
<1>3. fees \in FeeSchedule /\ ValidFees(fees)
  BY <1>1, CurveChecksAssumption DEF SampleInv
<1>4. /\ ~(net < 0) /\ r # None
      /\ cs.sourceAmount = paid /\ cs.destinationAmount = r.out
  BY <1>1, SwapTakenApart
<1>5. net \in Nat
  <2>1. TradingFee(Amount, fees) \in Nat /\ OwnerTradingFee(Amount, fees) \in Nat
    BY <1>2, <1>3, FeesAtMostAmount
  <2>2. net \in Int
    BY <1>2, <2>1, SMT DEF LessFees
  <2> HIDE DEF net
  <2>3. QED
    BY <1>4, <2>2, SMT
<1>6. /\ r.in \in Nat /\ r.out \in Nat /\ r.in <= net
      /\ a * b <= (a + r.in) * (b - r.out)
      /\ r.out > 0 /\ ((a + r.in) - 1) * (b - r.out) < a * b
  <2> HIDE DEF net
  <2>1. /\ r.in \in Nat /\ r.out \in Nat /\ a * b <= (a + r.in) * (b - r.out)
    BY <1>2, <1>4, <1>5, ProductSwapKeeps
  <2>2. r.in <= net /\ r.out > 0 /\ ((a + r.in) - 1) * (b - r.out) < a * b
    BY <1>2, <1>4, <1>5, ProductSwapRounds
  <2>3. QED
    BY <2>1, <2>2
<1>7. r.in # 0
  <2>1. SUFFICES ASSUME r.in = 0 PROVE FALSE
    OBVIOUS
  <2> HIDE DEF r
  <2>2. a * b <= a * (b - r.out)
    BY <1>2, <1>6, <2>1, SMT
  <2>3. a * (b - r.out) = a * b - a * r.out /\ a * r.out > 0 /\ a * b \in Int /\ a * r.out \in Int
    BY <1>2, <1>6, SMT
  <2>4. QED
    BY <2>2, <2>3, SMT
<1>8. PreTradingFeeDefined(fees)
  BY <1>1
<1>9. /\ n \in Nat /\ d \in Nat \ {0} /\ q \in Nat \ {0} /\ d = q + n
      /\ k \in Nat /\ d + 2 * q <= k * q
  <2> DEFINE g == PreTradingFeeAmount(1, fees)
  <2>1. /\ n \in Nat /\ d \in Nat \ {0} /\ q \in Nat \ {0} /\ g \in Nat /\ 1 * d <= g * q
    BY <1>3, <1>8, GrossOfBoth
  <2>2. q = d - n
    BY DEF Rest
  <2>3. k = g + 2
    OBVIOUS
  <2> HIDE DEF n, d, q, g, k
  <2>4. (g + 2) * q = g * q + 2 * q /\ g * q \in Int /\ g + 2 \in Nat
    BY <2>1, SMT
  <2>5. QED
    BY <2>1, <2>2, <2>3, <2>4, SMT
<1>10. /\ paid \in Nat /\ c \in Int
       /\ 2 * (q * c) <= (r.in + 1) * (d + q) + 2 * q
  <2>1. CASE r.in < net
    <3>1. base = PreTradingFeeAmount(r.in, fees)
      BY <2>1
    <3> HIDE DEF r, base, net
    <3>2. QED
      BY <1>3, <1>6, <1>8, <3>1, CreditOfGross
  <2>2. CASE ~(r.in < net)
    <3>1. base = Amount
      BY <2>2
    <3>2. r.in = net
      <4> HIDE DEF r, net
      <4>1. QED
        BY <1>5, <1>6, <2>2, SMT
    <3>3. TradingFee(Amount, fees) \in Nat /\ OwnerTradingFee(Amount, fees) \in Nat
      BY <1>2, <1>3, FeesAtMostAmount
    <3>4. paid = Amount
      <4>1. r.in = Amount - TradingFee(Amount, fees) - OwnerTradingFee(Amount, fees)
        BY <3>2 DEF LessFees
      <4> HIDE DEF r, base, net
      <4>2. QED
        BY <1>2, <3>1, <3>3, <4>1, SMT
    <3> HIDE DEF r, base, paid
    <3>5. /\ DepositNet(Amount, fees) \in Int
          /\ 2 * (q * DepositNet(Amount, fees)) <= (r.in + 1) * (d + q) + 2 * q
      BY <1>2, <1>3, <1>6, <1>8, <3>2, CreditOfAll
    <3>6. QED
      BY <1>2, <3>4, <3>5
  <2>3. QED
    BY <2>1, <2>2
<1>11. w \in Nat /\ r.out * (d + q) <= 2 * (q * w)
  <2> HIDE DEF r
  <2>1. QED
    BY <1>3, <1>6, <1>8, WithdrawalGross
<1>12. c = DepositNet(cs.sourceAmount, fees) /\ w = WithdrawGross(cs.destinationAmount, fees)
  BY <1>4
<1>13. c \in Nat /\ w <= b
  <2> HIDE DEF c, paid, w, cs
  <2>1. QED
    BY <1>1, <1>10, <1>12, SMT
<1> DEFINE i   == r.in
           out == r.out
<1> HIDE DEF k, c, w, d, q, n, i, out, cs
<1>14. (a + c) * (b - w) <= (a + k) * b
  <2>1. /\ i \in Nat \ {0} /\ out \in Nat /\ ((a + i) - 1) * (b - out) < a * b
        /\ 2 * (q * c) <= (i + 1) * (d + q) + 2 * q
        /\ out * (d + q) <= 2 * (q * w)
    BY <1>6, <1>7, <1>10, <1>11 DEF i, out
  <2>2. QED
    BY <1>2, <1>9, <1>11, <1>13, <2>1, CreditAndGrossBalance
<1>15. QED
  BY <1>12, <1>14

(***************************************************************************)
(* Of every pool, amount and valid schedule: what a trade through pool     *)
(* tokens is credited with and what it takes move the product of the       *)
(* reserves, against a swap, by no more than one token A with its fees and *)
(* one for each of the two fees' roundings: of base.rs's fees no more than *)
(* that can be avoided, but for the roots of the calculator.               *)
(***************************************************************************)
THEOREM AmountsAlwaysBarelyAvoidFees == Spec => []AmountsBarelyAvoidFees
<1>1. QED
  BY AmountsAvoidBarely, SampleIsInvariant, PTL
=============================================================================
