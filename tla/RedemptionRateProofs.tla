------------------------ MODULE RedemptionRateProofs ------------------------
(***************************************************************************)
(* For every clock, rate and precision: the anchor of the curve is never   *)
(* ahead of the clock and never moves back, the rate only grows with time  *)
(* and stays between the factor committed last and the ceiling max_ssr     *)
(* promises, posting often does not raise that ceiling, and a pool that    *)
(* outgrew the 256 bits can be revived.  Over the relay, the pool          *)
(* replicates the source's rate and welcomes its newest reading, whatever  *)
(* is lost, delayed and reordered on the way.  What _rpow contributes,     *)
(* that it is monotone and how near it is to exact growth, is proved in    *)
(* module CurveProofs; that its loop computes that power, at the end here. *)
(***************************************************************************)
EXTENDS RateRelay, PowerLoop, CurveProofs

\* The anchor is in the past once there is one.
RateInv == TypeOK /\ (initialized => curve.rho <= now)

LEMMA InstructionCurveType ==
  ASSUME NEW c \in InstructionCurves
  PROVE  c \in RedemptionRateCurve
<1>1. Times \subseteq Nat
  BY RateAssumption, SMT DEF Times
<1>2. /\ c.max_ssr \in Ssrs \cup {0} /\ c.ssr \in Ssrs /\ c.rho \in Times /\ c.chi \in Chis
      /\ c = [max_ssr |-> c.max_ssr, ssr |-> c.ssr, rho |-> c.rho, chi |-> c.chi]
  BY DEF InstructionCurves
<1>3. /\ c.max_ssr \in Nat /\ c.ssr \in Nat /\ c.rho \in Nat /\ c.chi \in Nat
  BY <1>1, <1>2, RateAssumption
<1>4. QED
  BY <1>2, <1>3 DEF RedemptionRateCurve

LEMMA InitRateInv == Init => RateInv
<1>1. [max_ssr |-> 0, ssr |-> 0, rho |-> 0, chi |-> 0] \in RedemptionRateCurve
  BY SMT DEF RedemptionRateCurve
<1>2. QED
  BY <1>1 DEF Init, RateInv, TypeOK

(***************************************************************************)
(* validate has no comparison of rho with the clock: an anchor ahead of it *)
(* is rejected because the subtraction in get_conversion_rate fails.       *)
(***************************************************************************)
LEMMA InitializeKeepsInv ==
  ASSUME RateInv, NEW c \in RedemptionRateCurve, Initialize(c)
  PROVE  RateInv'
<1>1. c.rho \in Nat /\ now \in Nat
  BY RateAssumption, SMT DEF RedemptionRateCurve, RateInv, TypeOK, Times
<1>2. ~(now < c.rho)
  BY <1>1, SMT DEF Initialize, ConversionRate
<1>3. QED
  BY <1>1, <1>2, SMT DEF Initialize, RateInv, TypeOK

LEMMA SetRatesKeepsInv ==
  ASSUME RateInv, NEW ssr \in Nat, NEW rho \in Nat, NEW chi \in Nat,
         SetRates(ssr, rho, chi)
  PROVE  /\ RateInv'
         /\ curve'.ssr = ssr /\ curve'.rho = rho /\ curve'.chi = chi
<1>1. curve' = [curve EXCEPT !.ssr = ssr, !.rho = rho, !.chi = chi] /\ rho <= now
      /\ UNCHANGED <<now, initialized>>
  BY DEF SetRates, RatesAllowed
<1>2. curve' \in RedemptionRateCurve /\ curve'.ssr = ssr /\ curve'.rho = rho /\ curve'.chi = chi
  BY <1>1 DEF RateInv, TypeOK, RedemptionRateCurve
<1>3. QED
  BY <1>1, <1>2 DEF RateInv, TypeOK

LEMMA TickKeepsInv ==
  ASSUME RateInv, Tick \/ UNCHANGED vars
  PROVE  RateInv'
<1>1. curve.rho \in Nat /\ now \in Nat
  BY RateAssumption, SMT DEF RateInv, TypeOK, RedemptionRateCurve, Times
<1>2. CASE Tick
  <2>1. now' \in Times /\ now' > now
    BY <1>1, <1>2, RateAssumption, SMT DEF Tick, Times
  <2>2. now' \in Nat
    BY <2>1, RateAssumption, SMT DEF Times
  <2>3. QED
    BY <1>1, <1>2, <2>1, <2>2, SMT DEF Tick, RateInv, TypeOK
<1>3. CASE UNCHANGED vars
  BY <1>3 DEF vars, RateInv, TypeOK
<1>4. QED
  BY <1>2, <1>3

LEMMA StepKeepsRateInv == RateInv /\ [Next]_vars => RateInv'
<1>1. SUFFICES ASSUME RateInv, [Next]_vars PROVE RateInv'
  OBVIOUS
<1>2. Ssrs \subseteq Nat /\ Times \subseteq Nat /\ Chis \subseteq Nat
  BY RateAssumption, SMT DEF Times
<1>3. ASSUME NEW c \in InstructionCurves, Initialize(c) PROVE RateInv'
  BY <1>1, <1>3, InstructionCurveType, InitializeKeepsInv
<1>4. ASSUME NEW ssr \in Ssrs, NEW rho \in Times, NEW chi \in Chis, SetRates(ssr, rho, chi)
      PROVE  RateInv'
  BY <1>1, <1>2, <1>4, SetRatesKeepsInv
<1>5. QED
  BY <1>1, <1>3, <1>4, TickKeepsInv DEF Next

(***************************************************************************)
(* The four numbers stay what their types say, and no anchor is ahead of   *)
(* the clock, which get_conversion_rate subtracts it from.                 *)
(***************************************************************************)
THEOREM RateIsTypeCorrect == Spec => []RateInv
BY InitRateInv, StepKeepsRateInv, PTL DEF Spec

(***************************************************************************)
(* A pool whose curve does not quote has outgrown the 256 bits; waiting    *)
(* for the clock would not help, SetRates with a new anchor may.           *)
(***************************************************************************)
THEOREM QuotesUntilItOverflows == Spec => []QuotesUntilOverflow
<1>1. RateInv => QuotesUntilOverflow
  <2>1. SUFFICES ASSUME RateInv, initialized, Rate = NoRate
                 PROVE  /\ curve.rho < now
                        /\ Compounded(curve.chi, curve.ssr, now - curve.rho) = NoRate
    BY DEF QuotesUntilOverflow
  <2>2. /\ curve.rho \in Nat /\ now \in Nat /\ curve.chi \in Nat
        /\ curve.rho <= now
    BY <2>1, RateAssumption, SMT DEF RateInv, TypeOK, RedemptionRateCurve, Times
  <2>3. curve.rho # now
    BY <2>1, <2>2, RAYAssumption, CompoundingAssumption DEF Rate, ConversionRate
  <2>4. QED
    BY <2>1, <2>2, <2>3, SMT DEF Rate, ConversionRate
<1>2. QED
  BY InitRateInv, StepKeepsRateInv, <1>1, PTL DEF Spec

\* No step moves an anchor back that is set, in time or in its factor.
LEMMA AnchorForward ==
  ASSUME RateInv, Next \/ UNCHANGED vars, initialized, curve.rho # 0
  PROVE  curve'.rho >= curve.rho /\ curve'.chi >= curve.chi
<1>1. curve \in RedemptionRateCurve /\ curve.rho \in Nat /\ curve.chi \in Nat
  BY DEF RateInv, TypeOK, RedemptionRateCurve
<1>2. ASSUME NEW ssr \in Ssrs, NEW rho \in Times, NEW chi \in Chis,
             SetRates(ssr, rho, chi)
      PROVE  curve'.rho >= curve.rho /\ curve'.chi >= curve.chi
  <2>1. curve'.rho = rho /\ curve'.chi = chi
    BY <1>1, <1>2 DEF SetRates, RatesAllowed, RedemptionRateCurve
  <2>2. QED
    BY <1>2, <2>1 DEF SetRates, RatesAllowed, AnchorAllowed
<1>3. CASE Tick \/ UNCHANGED vars
  <2>1. curve' = curve
    BY <1>3 DEF Tick, vars
  <2>2. QED
    BY <1>1, <2>1, SMT
<1>4. QED
  BY <1>2, <1>3 DEF Next, Initialize

(***************************************************************************)
(* The anchor only moves forward once it is set: neither its time nor its  *)
(* factor ever falls again, for any values SetRates is called with.        *)
(***************************************************************************)
THEOREM AnchorNeverMovesBack ==
  Spec => [][initialized /\ curve.rho # 0
               => curve'.rho >= curve.rho /\ curve'.chi >= curve.chi]_vars
<1> DEFINE Forward == initialized /\ curve.rho # 0
                        => curve'.rho >= curve.rho /\ curve'.chi >= curve.chi
<1>1. RateInv /\ [Next]_vars => [Forward]_vars
  BY AnchorForward
<1>2. QED
  BY InitRateInv, StepKeepsRateInv, <1>1, PTL DEF Spec

-----------------------------------------------------------------------------
(* What a rate is worth. *)

\* A curve quotes its own factor at its own second, and NoRate is no number.
LEMMA RateType ==
  ASSUME NEW c \in RedemptionRateCurve, NEW time \in Nat
  PROVE  /\ c.max_ssr \in Nat /\ c.ssr \in Nat /\ c.rho \in Nat /\ c.chi \in Nat
         /\ ConversionRate(c, time) \in Nat \cup {NoRate}
         /\ ConversionRate(c, time) # NoRate /\ time # c.rho =>
              /\ time - c.rho \in Nat
              /\ ConversionRate(c, time) = Compounded(c.chi, c.ssr, time - c.rho)
<1>1. c.max_ssr \in Nat /\ c.ssr \in Nat /\ c.rho \in Nat /\ c.chi \in Nat
  BY DEF RedemptionRateCurve
<1>2. CASE time = c.rho
  BY <1>1, <1>2 DEF ConversionRate
<1>3. CASE time # c.rho /\ time < c.rho
  BY <1>1, <1>3 DEF ConversionRate
<1>4. CASE time # c.rho /\ ~(time < c.rho)
  <2>1. time - c.rho \in Nat
    BY <1>1, <1>4, SMT
  <2>2. Compounded(c.chi, c.ssr, time - c.rho) \in Nat \cup {NoRate}
    BY <1>1, <2>1, CompoundedType
  <2>3. QED
    BY <1>1, <1>4, <2>1, <2>2 DEF ConversionRate
<1>5. QED
  BY <1>2, <1>3, <1>4

\* A ceiling that fits 256 bits is, at the anchor's own second, its factor.
LEMMA StillAtAnchor ==
  ASSUME NEW factor \in Nat, NEW grown \in Nat, Compounded(factor, grown, 0) # NoRate
  PROVE  Compounded(factor, grown, 0) = factor
<1>1. RPow(grown, 0) = RAY
  BY RPowZero
<1>2. RAY * factor <= U256_MAX
  BY <1>1, CompoundedType
<1>3. QED
  BY <1>1, <1>2, CompoundedByOne

\* A rate that does not shrink is never below the factor it started from.
LEMMA RateAtLeastFactor ==
  ASSUME NEW c \in RedemptionRateCurve, NEW time \in Nat, c.ssr >= RAY, ConversionRate(c, time) # NoRate
  PROVE  ConversionRate(c, time) \in Nat /\ ConversionRate(c, time) >= c.chi
<1>1. CASE time = c.rho
  BY <1>1, RateType, SMT DEF ConversionRate
<1>2. CASE time # c.rho
  BY <1>2, RateType, CompoundedGrows
<1>3. QED
  BY <1>1, <1>2

\* A rate that does not shrink is at least as high at any later time.
LEMMA RateLater ==
  ASSUME NEW c \in RedemptionRateCurve, NEW time \in Nat, NEW later \in Nat, c.ssr >= RAY, time <= later,
         ConversionRate(c, time) # NoRate, ConversionRate(c, later) # NoRate
  PROVE  ConversionRate(c, time) <= ConversionRate(c, later)
<1>1. c.ssr \in Nat /\ c.rho \in Nat /\ c.chi \in Nat
  BY RateType
<1>2. CASE time = c.rho
  <2>1. ConversionRate(c, time) = c.chi
    BY <1>2 DEF ConversionRate
  <2>2. QED
    BY <1>1, <2>1, RateAtLeastFactor, SMT
<1>3. CASE time # c.rho
  <2>1. ~(time < c.rho)
    BY <1>3 DEF ConversionRate
  <2>2. later # c.rho
    BY <1>1, <1>3, <2>1, SMT
  <2>3. /\ time - c.rho \in Nat /\ later - c.rho \in Nat
        /\ ConversionRate(c, time) = Compounded(c.chi, c.ssr, time - c.rho)
        /\ ConversionRate(c, later) = Compounded(c.chi, c.ssr, later - c.rho)
    BY <1>3, <2>2, RateType
  <2>4. time - c.rho <= later - c.rho
    BY <1>1, SMT
  <2>5. QED
    BY <1>1, <2>3, <2>4, CompoundedLater
<1>4. QED
  BY <1>2, <1>3

(***************************************************************************)
(* As long as SetRates does not move the anchor the rate never falls: each *)
(* second adds to what _rpow computes, although an odd exponent and the    *)
(* even one after it go through its loop on different paths.               *)
(***************************************************************************)
THEOREM AccrualNeverGoesBack == Spec => AccrualNeverFalls
<1> DEFINE Accrues == curve.ssr >= RAY /\ UNCHANGED curve /\ Rate # NoRate /\ Rate' # NoRate
                        => Rate' >= Rate
<1>1. ASSUME RateInv, RateInv', Next \/ UNCHANGED vars, curve.ssr >= RAY, UNCHANGED curve,
             Rate # NoRate, Rate' # NoRate
      PROVE  Rate' >= Rate
  <2>1. /\ curve \in RedemptionRateCurve /\ now \in Nat /\ now' \in Nat
        /\ Rate = ConversionRate(curve, now) /\ Rate' = ConversionRate(curve, now')
    BY <1>1, RateAssumption, SMT DEF RateInv, TypeOK, Times, Rate
  <2>2. now <= now'
    <3>1. CASE Tick
      <4>1. now' > now
        BY <2>1, <3>1, RateAssumption, SMT DEF Tick
      <4>2. QED
        BY <2>1, <4>1, SMT
    <3>2. CASE ~Tick
      <4>1. now' = now
        BY <1>1, <3>2 DEF Next, Initialize, SetRates, vars
      <4>2. QED
        BY <2>1, <4>1, SMT
    <3>3. QED
      BY <3>1, <3>2
  <2>3. Rate \in Nat /\ Rate' \in Nat
    BY <1>1, <2>1, RateType
  <2>4. Rate <= Rate'
    BY <1>1, <2>1, <2>2, RateLater
  <2>5. QED
    BY <2>3, <2>4, SMT
<1>2. RateInv /\ RateInv' /\ [Next]_vars => [Accrues]_vars
  BY <1>1
<1>3. AccrualNeverFalls <=> [][Accrues]_vars
  BY DEF AccrualNeverFalls
<1> HIDE DEF Accrues
<1>4. QED
  BY InitRateInv, StepKeepsRateInv, <1>2, <1>3, PTL DEF Spec

(***************************************************************************)
(* Once an anchor is set, no step lets the rate fall below the factor that *)
(* was committed before it: SetRates only accepts a factor that is at      *)
(* least as high, and compounding never loses any of it to its roundings.  *)
(***************************************************************************)
THEOREM RateNeverBelowCommitted == Spec => NeverBelowCommitted
<1> DEFINE Kept == initialized /\ curve.rho # 0 /\ curve'.ssr >= RAY /\ Rate' # NoRate
                     => Rate' >= curve.chi
<1>1. ASSUME RateInv, RateInv', Next \/ UNCHANGED vars,
             initialized, curve.rho # 0, curve'.ssr >= RAY, Rate' # NoRate
      PROVE  Rate' >= curve.chi
  <2>1. /\ curve' \in RedemptionRateCurve /\ now' \in Nat /\ Rate' = ConversionRate(curve', now')
        /\ curve.chi \in Nat /\ curve'.chi \in Nat
    BY <1>1, RateAssumption, SMT DEF RateInv, TypeOK, RedemptionRateCurve, Times, Rate
  <2>2. Rate' \in Nat /\ Rate' >= curve'.chi
    BY <1>1, <2>1, RateAtLeastFactor
  <2>3. curve'.chi >= curve.chi
    BY <1>1, AnchorForward
  <2>4. QED
    BY <2>1, <2>2, <2>3, SMT
<1>2. RateInv /\ RateInv' /\ [Next]_vars => [Kept]_vars
  BY <1>1
<1>3. NeverBelowCommitted <=> [][Kept]_vars
  BY DEF NeverBelowCommitted
<1> HIDE DEF Kept
<1>4. QED
  BY InitRateInv, StepKeepsRateInv, <1>2, <1>3, PTL DEF Spec

(***************************************************************************)
(* While ssr is within the cap the rate is not above the ceiling max_ssr   *)
(* promises for this second: compounding is monotone in the rate, although *)
(* both sides are rounded at every squaring.                               *)
(***************************************************************************)
THEOREM RateStaysWithinCeiling == Spec => []RateWithinCeiling
<1>1. RateInv => RateWithinCeiling
  <2>1. SUFFICES ASSUME RateInv, initialized, curve.ssr <= curve.max_ssr,
                        Rate # NoRate, Ceiling(curve, now) # NoRate
                 PROVE  Rate <= Ceiling(curve, now)
    BY DEF RateWithinCeiling
  <2>2. /\ curve \in RedemptionRateCurve /\ now \in Nat /\ curve.rho <= now
        /\ Rate = ConversionRate(curve, now)
    BY <2>1, RateAssumption, SMT DEF RateInv, TypeOK, Times, Rate
  <2>3. /\ curve.chi \in Nat /\ curve.ssr \in Nat /\ curve.max_ssr \in Nat
        /\ curve.rho \in Nat
    BY <2>2, RateType
  <2>4. CASE now = curve.rho
    <3>1. Rate = curve.chi
      BY <2>2, <2>4 DEF ConversionRate
    <3>2. Ceiling(curve, now) = Compounded(curve.chi, curve.max_ssr, 0)
      BY <2>3, <2>4, SMT DEF Ceiling
    <3>3. Compounded(curve.chi, curve.max_ssr, 0) = curve.chi
      BY <2>1, <2>3, <3>2, StillAtAnchor
    <3>4. QED
      BY <2>3, <3>1, <3>2, <3>3, SMT
  <2>5. CASE now # curve.rho
    <3>1. /\ now - curve.rho \in Nat
          /\ Rate = Compounded(curve.chi, curve.ssr, now - curve.rho)
      BY <2>1, <2>2, <2>5, RateType
    <3>2. QED
      BY <2>1, <2>3, <3>1, CompoundedMonotone DEF Ceiling
  <2>6. QED
    BY <2>4, <2>5
<1>2. QED
  BY InitRateInv, StepKeepsRateInv, <1>1, PTL DEF Spec

-----------------------------------------------------------------------------
(* A pool that was left alone for too long. *)

\* The factor is nothing, or one an instruction carried.
FactorInv == curve.chi \in Chis \cup {0}

LEMMA FactorFits ==
  ASSUME RateInv, FactorInv
  PROVE  RAY * curve.chi <= U256_MAX
<1>1. CASE curve.chi = 0
  BY <1>1, RAYAssumption, CompoundingAssumption, SMT
<1>2. CASE curve.chi \in Chis
  BY <1>2, RateAssumption
<1>3. QED
  BY <1>1, <1>2 DEF FactorInv

LEMMA StepKeepsFactor == RateInv /\ FactorInv /\ [Next]_vars => FactorInv'
<1>1. SUFFICES ASSUME RateInv, FactorInv, [Next]_vars
               PROVE  FactorInv'
  OBVIOUS
<1>2. ASSUME NEW c \in InstructionCurves, Initialize(c)
      PROVE  FactorInv'
  BY <1>2 DEF Initialize, InstructionCurves, FactorInv
<1>3. ASSUME NEW ssr \in Ssrs, NEW rho \in Times, NEW chi \in Chis, SetRates(ssr, rho, chi)
      PROVE  FactorInv'
  BY <1>1, <1>3 DEF SetRates, FactorInv, RateInv, TypeOK, RedemptionRateCurve
<1>4. CASE Tick \/ UNCHANGED vars
  BY <1>1, <1>4 DEF Tick, vars, FactorInv
<1>5. QED
  BY <1>1, <1>2, <1>3, <1>4 DEF Next

(***************************************************************************)
(* However long nobody updated a pool, SetRates with the old anchor and a  *)
(* rate that stands still is accepted and makes it quote again, at any     *)
(* later time: the cap is computed over no time at all, and a power of one *)
(* is one whatever the exponent.                                           *)
(***************************************************************************)
THEOREM StalePoolAlwaysRecovers == Spec => []StalePoolRecovers
<1>1. RateInv /\ FactorInv => StalePoolRecovers
  <2>1. SUFFICES ASSUME RateInv, FactorInv, initialized,
                        curve.max_ssr = 0 \/ curve.max_ssr >= RAY
                 PROVE  /\ RatesAllowed(RAY, curve.rho, curve.chi)
                        /\ \A time \in now .. MaxTime :
                             ConversionRate([curve EXCEPT !.ssr = RAY], time) # NoRate
    BY DEF StalePoolRecovers
  <2>2. /\ curve \in RedemptionRateCurve /\ now \in Nat /\ curve.rho <= now
        /\ curve.chi \in Nat /\ curve.rho \in Nat /\ curve.max_ssr \in Nat /\ RAY \in Nat
        /\ RAY * curve.chi <= U256_MAX
    BY <2>1, FactorFits, RateAssumption, RAYAssumption, CompoundingAssumption, SMT
       DEF RateInv, TypeOK, Times, RedemptionRateCurve
  <2>3. RatesAllowed(RAY, curve.rho, curve.chi)
    <3>1. curve.rho - curve.rho = 0
      BY <2>2, SMT
    <3>2. Compounded(curve.chi, curve.max_ssr, 0) = curve.chi
      BY <2>2, RPowZero, CompoundedByOne
    <3>3. curve.chi # NoRate
      BY <2>2, RAYAssumption, CompoundingAssumption
    <3>4. AnchorAllowed(curve.rho, curve.chi)
      BY <2>2, <3>1, <3>2, <3>3, SMT DEF AnchorAllowed
    <3>5. QED
      BY <2>1, <2>2, <3>4, SMT DEF RatesAllowed
  <2>4. ASSUME NEW time \in now .. MaxTime
        PROVE  ConversionRate([curve EXCEPT !.ssr = RAY], time) # NoRate
    <3> DEFINE still == [curve EXCEPT !.ssr = RAY]
    <3>1. still.ssr = RAY /\ still.rho = curve.rho /\ still.chi = curve.chi
      BY <2>2 DEF RedemptionRateCurve
    <3>2. time \in Nat /\ curve.rho <= time
      BY <2>2, RateAssumption, SMT
    <3> HIDE DEF still
    <3>3. curve.chi # NoRate
      BY <2>2, RAYAssumption, CompoundingAssumption
    <3>4. CASE time = curve.rho
      BY <3>1, <3>3, <3>4 DEF ConversionRate
    <3>5. CASE time # curve.rho
      <4>1. time - curve.rho \in Nat /\ ~(time < curve.rho)
        BY <2>2, <3>2, SMT
      <4>2. Compounded(curve.chi, RAY, time - curve.rho) = curve.chi
        BY <2>2, <4>1, RPowOne, CompoundedByOne
      <4>3. QED
        BY <3>1, <3>3, <3>5, <4>1, <4>2 DEF ConversionRate
    <3>6. QED
      BY <3>4, <3>5 DEF still
  <2>5. QED
    BY <2>3, <2>4
<1>2. Init => FactorInv
  BY DEF Init, FactorInv
<1>3. QED
  BY InitRateInv, StepKeepsRateInv, StepKeepsFactor, <1>1, <1>2, PTL DEF Spec

-----------------------------------------------------------------------------
(* Growth under the cap. *)

(***************************************************************************)
(* An anchor below the ceiling of its rho has a ceiling that later is not  *)
(* above the old one but for the roundings.                                *)
(***************************************************************************)
LEMMA CeilingOfAnchor ==
  ASSUME NEW chi \in Nat, NEW new \in Nat, NEW cap \in Nat, cap >= RAY, NEW i \in Nat, NEW j \in Nat,
         Compounded(chi, cap, i) # NoRate, new <= Compounded(chi, cap, i),
         Compounded(new, cap, j) # NoRate, Compounded(chi, cap, i + j) # NoRate
  PROVE  Compounded(new, cap, j) * (RAY - (i + j)) <= (Compounded(chi, cap, i + j) + 1) * RAY
<1> DEFINE max   == Compounded(chi, cap, i)
           later == Compounded(new, cap, j)
           whole == Compounded(chi, cap, i + j)
           most  == MostOf(cap)
           least == LeastOf(cap)
<1>1. /\ most \in Nat /\ least \in Nat /\ Parts \in Nat /\ cap \in Nat \ {0} /\ i + j \in Nat
  BY SecondsPartsType, SMT
<1>2. max \in Nat /\ AtMostGrown(max, chi, most, Parts, i) /\ new <= max
  BY CompoundedBetween
<1>3. later \in Nat /\ AtMostGrown(later, new, most, Parts, j)
  BY CompoundedBetween
<1>4. whole \in Nat /\ AtMostGrown(chi, whole + 1, Parts, least, i + j)
  BY <1>1, CompoundedBetween
<1> HIDE DEF max, later, whole
<1>5. AtMostGrown(new, chi, most, Parts, i)
  BY <1>1, <1>2, LessGrown
<1>6. AtMostGrown(later, chi, most, Parts, i + j)
  BY <1>1, <1>3, <1>5, GrownOn
<1>7. whole + 1 \in Nat
  BY <1>4, SMT
<1>8. later * (RAY - (i + j)) <= (whole + 1) * RAY
  BY <1>1, <1>3, <1>4, <1>6, <1>7, RoundingsApart
<1>9. QED
  BY <1>8 DEF later, whole

(***************************************************************************)
(* Posting often does not beat the cap: whatever SetRates accepts, the     *)
(* ceiling of no later time rises by more than the roundings of the        *)
(* seconds it compounds, and one unit.                                     *)
(***************************************************************************)
THEOREM CeilingIsNotBeaten == Spec => CeilingNeverRises
<1> DEFINE Kept ==
      initialized /\ Capped(curve) =>
        \A time \in now' .. MaxTime :
          \/ NoRate \in {Ceiling(curve, time), Ceiling(curve', time)}
          \/ Ceiling(curve', time) * (RAY - (time - curve.rho))
               <= (Ceiling(curve, time) + 1) * RAY
<1>1. ASSUME RateInv, RateInv', Next \/ UNCHANGED vars, initialized, Capped(curve),
             NEW time \in now' .. MaxTime,
             Ceiling(curve, time) # NoRate, Ceiling(curve', time) # NoRate
      PROVE  Ceiling(curve', time) * (RAY - (time - curve.rho)) <= (Ceiling(curve, time) + 1) * RAY
  <2> DEFINE span == time - curve.rho
  <2>1. /\ curve \in RedemptionRateCurve
        /\ curve.chi \in Nat /\ curve.rho \in Nat /\ curve.max_ssr \in Nat
        /\ now \in Nat /\ now' \in Nat /\ curve.rho <= now /\ now <= now' /\ RAY \in Nat
        /\ curve.rho # 0 /\ curve.max_ssr # 0
    <3>1. curve \in RedemptionRateCurve /\ now \in Times /\ now' \in Times /\ curve.rho <= now
      BY <1>1 DEF RateInv, TypeOK
    <3>2. now \in Nat /\ now <= now'
      <4>1. now \in Nat
        BY <3>1, RateAssumption, SMT DEF Times
      <4>2. UNCHANGED now \/ Tick
        BY <1>1 DEF Next, Initialize, SetRates, vars
      <4>3. QED
        BY <4>1, <4>2, RateAssumption, SMT DEF Tick
    <3>3. QED
      BY <1>1, <3>1, <3>2, RateAssumption, RAYAssumption, CompoundingAssumption, SMT
         DEF Times, RedemptionRateCurve, Capped
  <2>2. time \in Nat /\ now' <= time /\ span \in Nat
    BY <2>1, RateAssumption, SMT
  <2>3. CASE curve' = curve
    <3>1. Ceiling(curve, time) \in Nat
      BY <1>1, <2>1, <2>2, CompoundedType DEF Ceiling
    <3> DEFINE c == Ceiling(curve, time)
    <3> HIDE DEF span, c
    <3>2. c * (RAY - span) = c * RAY - c * span /\ (c + 1) * RAY = c * RAY + RAY
          /\ c * span \in Nat /\ c * RAY \in Nat
      BY <2>1, <2>2, <3>1, SMT DEF c
    <3>3. c * (RAY - span) <= (c + 1) * RAY
      BY <2>1, <3>2, SMT
    <3>4. QED
      BY <2>3, <3>3 DEF c, span
  <2>4. ASSUME NEW ssr \in Ssrs, NEW rho \in Times, NEW chi \in Chis, SetRates(ssr, rho, chi)
        PROVE  Ceiling(curve', time) * (RAY - (time - curve.rho)) <= (Ceiling(curve, time) + 1) * RAY
    <3> DEFINE cap == curve.max_ssr
               i   == rho - curve.rho
               j   == time - rho
    <3>1. /\ curve'.max_ssr = cap /\ curve'.rho = rho /\ curve'.chi = chi
      BY <2>1, <2>4 DEF SetRates, RedemptionRateCurve
    <3>2. /\ ssr \in Nat /\ rho \in Nat /\ chi \in Nat
      BY RateAssumption, SMT DEF Times
    <3>3. /\ rho <= now /\ ssr >= RAY /\ ssr <= cap /\ rho >= curve.rho
          /\ Compounded(curve.chi, cap, i) # NoRate /\ chi <= Compounded(curve.chi, cap, i)
      BY <2>1, <2>4 DEF SetRates, RatesAllowed, AnchorAllowed
    <3>4. cap >= RAY /\ i \in Nat /\ j \in Nat /\ i + j = span
      BY <2>1, <2>2, <3>2, <3>3, SMT
    <3>5. Ceiling(curve', time) = Compounded(chi, cap, j) /\ Ceiling(curve, time) = Compounded(curve.chi, cap, span)
      BY <3>1 DEF Ceiling
    <3> HIDE DEF cap, i, j, span
    <3>6. cap \in Nat
      BY <2>1 DEF cap
    <3>7. Compounded(chi, cap, j) # NoRate /\ Compounded(curve.chi, cap, i + j) # NoRate
      BY <1>1, <3>4, <3>5
    <3>8. Compounded(chi, cap, j) * (RAY - (i + j)) <= (Compounded(curve.chi, cap, i + j) + 1) * RAY
      BY <2>1, <3>2, <3>3, <3>4, <3>6, <3>7, CeilingOfAnchor
    <3>9. QED
      BY <3>4, <3>5, <3>8 DEF span
  <2>5. CASE Tick \/ UNCHANGED vars
    BY <2>3, <2>5 DEF Tick, vars
  <2>6. QED
    BY <1>1, <2>4, <2>5 DEF Next, Initialize
<1>2. RateInv /\ RateInv' /\ [Next]_vars => [Kept]_vars
  <2>1. SUFFICES ASSUME RateInv, RateInv', [Next]_vars, initialized, Capped(curve),
                        NEW time \in now' .. MaxTime,
                        Ceiling(curve, time) # NoRate, Ceiling(curve', time) # NoRate
                 PROVE  Ceiling(curve', time) * (RAY - (time - curve.rho))
                          <= (Ceiling(curve, time) + 1) * RAY
    OBVIOUS
  <2>2. QED
    BY <1>1, <2>1
<1>3. CeilingNeverRises <=> [][Kept]_vars
  BY DEF CeilingNeverRises
<1> HIDE DEF Kept
<1>4. QED
  BY InitRateInv, StepKeepsRateInv, <1>2, <1>3, PTL DEF Spec

-----------------------------------------------------------------------------
(* The relay: readings of the source that overtake each other.             *)

\* The rate the pool accepted, as a reading; there is none before the first.
Accepted == [ssr |-> curve.ssr, rho |-> curve.rho, chi |-> curve.chi, number |-> applied]

Known == inFlight \cup (IF applied = 0 THEN {} ELSE {Accepted})

\* The source numbers its rates: what was read of an older rate is no later,
\* and of the same second it has the same factor.
Ordered(old, new) ==
  old.number < new.number =>
    /\ old.rho <= new.rho
    /\ old.rho = new.rho => old.chi = new.chi

\* What was read of the source is in its past.
Past(r) ==
  /\ r.number \in 1 .. source.number
  /\ r.rho \in 1 .. source.rho
  /\ r.rho = source.rho => r.chi = source.chi

RelayInv ==
  /\ RelayTypeOK
  /\ source.rho \in 1 .. SourceNow
  /\ \A r \in Known : Past(r)
  /\ \A r, s \in Known : Ordered(r, s)
  /\ ~initialized => applied = 0

LEMMA RelayTypes ==
  ASSUME RelayInv
  PROVE  /\ RateInv
         /\ now \in Nat /\ SourceNow \in Nat /\ curve \in RedemptionRateCurve
         /\ curve.rho \in Nat /\ curve.chi \in Nat /\ applied \in Nat
         /\ source.ssr \in Ssrs /\ source.ssr \in Nat /\ source.rho \in Nat
         /\ source.chi \in Nat /\ source.number \in Nat
         /\ \A r \in inFlight : /\ r \in Reading /\ r.ssr \in Nat /\ r.rho \in Nat
                                 /\ r.chi \in Nat /\ r.number \in Nat
<1>1. /\ TypeOK /\ source \in Reading /\ inFlight \subseteq Reading
      /\ applied \in 0 .. source.number /\ curve.rho \in 0 .. now
  BY DEF RelayInv, RelayTypeOK
<1>2. \A r \in Reading : /\ r.ssr \in Nat /\ r.ssr \in Ssrs /\ r.rho \in Nat
                         /\ r.chi \in Nat /\ r.number \in Nat
  <2>1. ASSUME NEW r \in Reading
        PROVE  /\ r.ssr \in Nat /\ r.ssr \in Ssrs /\ r.rho \in Nat
               /\ r.chi \in Nat /\ r.number \in Nat
    <3>1. r.ssr \in Ssrs /\ r.rho \in Nat /\ r.chi \in Nat /\ r.number \in 1 .. MaxChanges + 1
      BY DEF Reading
    <3>2. r.number \in Nat
      BY <3>1, RelayAssumption, SMT
    <3>3. QED
      BY <3>1, <3>2, RateAssumption
  <2>2. QED
    BY <2>1
<1>3. now \in Nat /\ SourceNow \in Nat
  BY <1>1, RateAssumption, RelayAssumption, SMT DEF TypeOK, Times, SourceNow
<1>4. curve \in RedemptionRateCurve /\ curve.chi \in Nat /\ curve.rho \in Nat
  BY <1>1 DEF TypeOK, RedemptionRateCurve
<1>5. applied \in Nat
  BY <1>1, <1>2, SMT
<1>6. RateInv
  BY <1>1, <1>3, <1>4, SMT DEF RateInv
<1>7. QED
  BY <1>1, <1>2, <1>3, <1>4, <1>5, <1>6

LEMMA InitRelayInv == RelayInit => RelayInv
<1>1. SUFFICES ASSUME RelayInit PROVE RelayInv
  OBVIOUS
<1>2. TypeOK
  <2>1. [max_ssr |-> 0, ssr |-> 0, rho |-> 0, chi |-> 0] \in RedemptionRateCurve
    BY SMT DEF RedemptionRateCurve
  <2>2. now \in Times
    BY <1>1, RateAssumption, RelayAssumption, SMT DEF RelayInit, Times
  <2>3. QED
    BY <1>1, <2>1, <2>2 DEF RelayInit, TypeOK
<1>3. /\ source \in Reading /\ source.rho = 1 /\ source.number = 1
  BY <1>1, RateAssumption, RelayAssumption, SMT DEF RelayInit, Reading
<1>4. SourceNow \in Nat /\ SourceNow >= 1
  BY <1>1, RelayAssumption, SMT DEF RelayInit, SourceNow
<1>5. RelayTypeOK
  BY <1>1, <1>2, <1>3, SMT DEF RelayInit, RelayTypeOK
<1>6. Known = {}
  BY <1>1 DEF RelayInit, Known
<1>7. QED
  BY <1>1, <1>3, <1>4, <1>5, <1>6, SMT DEF RelayInv, RelayInit

\* What is known only grows by what the source says now.
LEMMA KnownFromSource ==
  ASSUME RelayInv, UNCHANGED source, Known' \subseteq Known \cup {source}
  PROVE  /\ \A r \in Known' : Past(r)'
         /\ \A r, s \in Known' : Ordered(r, s)
<1>1. source.number \in Nat \ {0} /\ source.rho \in Nat \ {0}
  BY RelayTypes, RelayAssumption, SMT DEF RelayInv, RelayTypeOK, Reading
<1>2. Past(source)
  BY <1>1, SMT DEF Past
<1>3. \A r \in Known \cup {source} : Past(r)
  BY <1>2 DEF RelayInv
<1>4. \A r \in Known : Ordered(r, source) /\ Ordered(source, r)
  <2>1. SUFFICES ASSUME NEW r \in Known PROVE Ordered(r, source) /\ Ordered(source, r)
    OBVIOUS
  <2>2. Past(r)
    BY <1>3
  <2>3. QED
    BY <1>1, <2>2, SMT DEF Past, Ordered
<1>5. Ordered(source, source)
  BY <1>1, SMT DEF Ordered
<1>6. \A r, s \in Known \cup {source} : Ordered(r, s)
  BY <1>4, <1>5 DEF RelayInv
<1>7. \A r \in Known' : Past(r)'
  BY <1>3 DEF Past
<1>8. QED
  BY <1>6, <1>7

\* The source moves on: what was read of it is still in its past.
LEMMA SourceMovesOn ==
  ASSUME RelayInv, UNCHANGED <<now, initialized, curve, inFlight, applied>>,
         source' \in Reading, source'.number >= source.number, source'.rho <= SourceNow,
         source'.rho > source.rho \/ (source'.rho = source.rho /\ source'.chi = source.chi)
  PROVE  RelayInv'
<1>1. source.number \in Nat \ {0} /\ source.rho \in Nat \ {0} /\ applied \in 0 .. source.number
      /\ source'.number \in Nat /\ source'.rho \in Nat /\ SourceNow \in Nat
  BY RelayTypes, RelayAssumption, SMT DEF RelayInv, RelayTypeOK, Reading
<1>2. Known' = Known /\ SourceNow' = SourceNow
  BY DEF Known, Accepted, SourceNow
<1>3. RelayTypeOK'
  <2>1. applied' \in 0 .. source'.number
    BY <1>1, SMT
  <2>2. TypeOK'
    BY DEF RelayInv, RelayTypeOK, TypeOK
  <2>3. QED
    BY <2>1, <2>2 DEF RelayInv, RelayTypeOK
<1>4. source'.rho \in 1 .. SourceNow'
  BY <1>1, <1>2, SMT
<1>5. ASSUME NEW r \in Known PROVE Past(r)'
  <2>1. Past(r)
    BY DEF RelayInv
  <2>2. r.number \in 1 .. source'.number
    BY <1>1, <2>1, SMT DEF Past
  <2>3. r.rho \in 1 .. source'.rho
    BY <1>1, <2>1, SMT DEF Past
  <2>4. r.rho = source'.rho => r.chi = source'.chi
    BY <1>1, <2>1, SMT DEF Past
  <2>5. QED
    BY <2>2, <2>3, <2>4 DEF Past
<1>6. QED
  BY <1>2, <1>3, <1>4, <1>5 DEF RelayInv

LEMMA DripKeepsInv ==
  ASSUME RelayInv, Drip
  PROVE  RelayInv'
<1> DEFINE chi == Compounded(source.chi, source.ssr, SourceNow - source.rho)
<1>1. source.rho < SourceNow /\ chi # NoRate
      /\ source' = [source EXCEPT !.rho = SourceNow, !.chi = chi]
      /\ UNCHANGED <<now, initialized, curve, inFlight, applied>>
  BY DEF Drip
<1>2. SourceNow - source.rho \in Nat
  BY <1>1, RelayTypes, SMT
<1>3. chi \in Nat
  BY <1>1, <1>2, RelayTypes, CompoundedType
<1>4. source \in Reading
  BY DEF RelayInv, RelayTypeOK
<1> HIDE DEF chi
<1>5. source' \in Reading /\ source'.number = source.number /\ source'.rho = SourceNow
  BY <1>1, <1>3, <1>4, RelayTypes DEF Reading
<1>6. source'.number >= source.number /\ source'.rho <= SourceNow /\ source'.rho > source.rho
  BY <1>1, <1>5, RelayTypes, SMT
<1>7. UNCHANGED <<now, initialized, curve, inFlight, applied>>
  BY <1>1
<1>8. QED
  BY <1>5, <1>6, <1>7, SourceMovesOn, SMT

LEMMA ChangeRateKeepsInv ==
  ASSUME RelayInv, ChangeRate
  PROVE  RelayInv'
<1>1. PICK ssr \in Ssrs : source' = [source EXCEPT !.ssr = ssr, !.number = @ + 1]
  BY DEF ChangeRate
<1>2. source.rho = SourceNow /\ source.number <= MaxChanges
      /\ UNCHANGED <<now, initialized, curve, inFlight, applied>>
  BY DEF ChangeRate
<1>3. source \in Reading
  BY DEF RelayInv, RelayTypeOK
<1>4. source.number + 1 \in 1 .. MaxChanges + 1
  BY <1>2, RelayTypes, RelayAssumption, SMT
<1>5. /\ source' \in Reading /\ source'.number = source.number + 1
      /\ source'.rho = source.rho /\ source'.chi = source.chi
  BY <1>1, <1>3, <1>4 DEF Reading
<1>6. QED
  BY <1>2, <1>5, RelayTypes, SourceMovesOn, SMT

LEMMA OpenKeepsInv ==
  ASSUME RelayInv, Open
  PROVE  RelayInv' /\ UNCHANGED source /\ Known' \subseteq Known \cup {source}
<1> DEFINE first  == [max_ssr |-> MaxSsr, ssr |-> source.ssr, rho |-> source.rho, chi |-> source.chi]
           before == [max_ssr |-> MaxSsr, ssr |-> RAY, rho |-> 0, chi |-> RAY]
<1>1. first \in RedemptionRateCurve /\ before \in RedemptionRateCurve
  BY RelayTypes, RelayAssumption, RAYAssumption, CompoundingAssumption, SMT DEF RedemptionRateCurve
<1>2. /\ UNCHANGED <<now, source, inFlight>> /\ ~initialized /\ initialized'
      /\ \/ Initialize(first) /\ applied' = source.number
         \/ Initialize(before) /\ applied' = 0
  BY DEF Open, Initialize
<1>3. applied = 0 /\ Known = inFlight
  BY <1>2 DEF RelayInv, Known
<1>4. RateInv'
  BY <1>1, <1>2, RelayTypes, InitializeKeepsInv
<1>5. RelayTypeOK'
  <2>1. curve'.rho \in 0 .. now' /\ TypeOK'
    BY <1>2, <1>4, RelayTypes, SMT DEF RateInv, TypeOK, RedemptionRateCurve
  <2>2. applied' \in 0 .. source'.number
    BY <1>2, RelayTypes, SMT
  <2>3. QED
    BY <1>2, <2>1, <2>2 DEF RelayInv, RelayTypeOK
<1>6. Known' \subseteq Known \cup {source}
  <2>1. CASE applied' = 0
    BY <1>2, <1>3, <2>1 DEF Known
  <2>2. CASE applied' # 0
    <3>1. curve' = first /\ applied' = source.number
      BY <1>2, <2>2 DEF Initialize
    <3>2. source = [ssr |-> source.ssr, rho |-> source.rho, chi |-> source.chi,
                    number |-> source.number]
      BY DEF RelayInv, RelayTypeOK, Reading
    <3>3. Accepted' = source
      BY <3>1, <3>2 DEF Accepted
    <3>4. QED
      BY <1>2, <1>3, <3>3 DEF Known
  <2>3. QED
    BY <2>1, <2>2
<1>7. QED
  BY <1>2, <1>5, <1>6, KnownFromSource DEF RelayInv, SourceNow

LEMMA DeliverKeepsInv ==
  ASSUME RelayInv, NEW r \in inFlight, Deliver(r)
  PROVE  RelayInv' /\ UNCHANGED source /\ Known' \subseteq Known \cup {source}
<1>1. /\ initialized /\ initialized' /\ UNCHANGED <<now, source>> /\ inFlight' = inFlight \ {r}
  BY DEF Deliver, SetRates
<1>2. CASE SetRates(r.ssr, r.rho, r.chi) /\ applied' = r.number
  <2>1. RateInv' /\ curve'.ssr = r.ssr /\ curve'.rho = r.rho /\ curve'.chi = r.chi
    BY <1>2, RelayTypes, SetRatesKeepsInv
  <2>2. r = [ssr |-> r.ssr, rho |-> r.rho, chi |-> r.chi, number |-> r.number]
    BY RelayTypes DEF Reading
  <2>3. Accepted' = r
    BY <1>2, <2>1, <2>2 DEF Accepted
  <2>4. r \in Known /\ Past(r)
    BY DEF Known, RelayInv
  <2>5. Known' \subseteq Known \cup {source}
    BY <1>1, <2>3, <2>4 DEF Known
  <2>6. RelayTypeOK'
    <3>1. curve'.rho \in 0 .. now' /\ TypeOK'
      BY <1>1, <2>1, RelayTypes, SMT DEF RateInv, TypeOK, RedemptionRateCurve
    <3>2. applied' \in 0 .. source'.number
      BY <1>1, <1>2, <2>4, RelayTypes, SMT DEF Past
    <3>3. QED
      BY <1>1, <3>1, <3>2 DEF RelayInv, RelayTypeOK
  <2>7. QED
    BY <1>1, <2>5, <2>6, KnownFromSource DEF RelayInv, SourceNow
<1>3. CASE UNCHANGED <<now, initialized, curve, applied>>
  <2>1. Known' \subseteq Known \cup {source}
    BY <1>1, <1>3 DEF Known, Accepted
  <2>2. RelayTypeOK'
    BY <1>1, <1>3 DEF RelayInv, RelayTypeOK, TypeOK
  <2>3. QED
    BY <1>1, <1>3, <2>1, <2>2, KnownFromSource DEF RelayInv, SourceNow
<1>4. QED
  BY <1>2, <1>3 DEF Deliver

LEMMA OtherRelayStepsKeepInv ==
  ASSUME RelayInv, Clock \/ Post \/ Lose \/ UNCHANGED relayVars
  PROVE  RelayInv' /\ UNCHANGED source /\ Known' \subseteq Known \cup {source}
<1>1. CASE Clock
  <2>1. UNCHANGED <<initialized, curve, source, inFlight, applied>> /\ Tick
    BY <1>1 DEF Clock, Tick
  <2>2. RateInv' /\ now' > now /\ now' \in Nat
    BY <2>1, RelayTypes, TickKeepsInv, RateAssumption, SMT DEF Tick
  <2>3. RelayTypeOK'
    <3>1. curve'.rho \in 0 .. now'
      BY <2>1, <2>2, RelayTypes, SMT DEF RelayInv, RelayTypeOK
    <3>2. QED
      BY <2>1, <2>2, <3>1 DEF RelayInv, RelayTypeOK, RateInv
  <2>4. source'.rho \in 1 .. SourceNow'
    BY <2>1, <2>2, RelayTypes, RelayAssumption, SMT DEF RelayInv, SourceNow
  <2>5. Known' = Known
    BY <2>1 DEF Known, Accepted
  <2>6. QED
    BY <2>1, <2>3, <2>4, <2>5, KnownFromSource DEF RelayInv
<1>2. CASE Post \/ Lose \/ UNCHANGED relayVars
  <2>1. /\ UNCHANGED <<now, initialized, curve, source, applied>>
        /\ inFlight' \subseteq inFlight \cup {source}
    BY <1>2 DEF Post, Lose, relayVars
  <2>2. Known' \subseteq Known \cup {source}
    BY <2>1 DEF Known, Accepted
  <2>3. RelayTypeOK'
    BY <2>1 DEF RelayInv, RelayTypeOK, TypeOK
  <2>4. QED
    BY <2>1, <2>2, <2>3, KnownFromSource DEF RelayInv, SourceNow
<1>3. QED
  BY <1>1, <1>2

LEMMA StepKeepsRelayInv == RelayInv /\ [RelayNext]_relayVars => RelayInv'
BY DripKeepsInv, ChangeRateKeepsInv, OpenKeepsInv, DeliverKeepsInv, OtherRelayStepsKeepInv
   DEF RelayNext

(***************************************************************************)
(* Every reading under way and the rate the pool accepted last are, in the *)
(* order of their numbers, points of the source's past.                    *)
(***************************************************************************)
THEOREM ReadingsAreOrdered == RelaySpec => []RelayInv
BY InitRelayInv, StepKeepsRelayInv, PTL DEF RelaySpec

(***************************************************************************)
(* However transactions are lost, delayed and reordered: an older rate is  *)
(* accepted after a newer one only within the second they share, with the  *)
(* same factor.  SetRates rejects an earlier anchor, and the source never  *)
(* takes its own back.                                                     *)
(***************************************************************************)
THEOREM OlderRatesOnlyWithinASecond == RelaySpec => OlderOnlyWithinASecond
<1> DEFINE Within == applied' < applied => curve'.rho = curve.rho /\ curve'.chi = curve.chi
<1>1. ASSUME RelayInv, RelayNext \/ UNCHANGED relayVars, applied' < applied
      PROVE  curve'.rho = curve.rho /\ curve'.chi = curve.chi
  <2>1. applied \in Nat /\ curve.rho \in Nat
    BY <1>1, RelayTypes
  <2>2. CASE Open
    BY <1>1, <2>1, <2>2, RelayTypes, SMT DEF Open, Initialize, RelayInv
  <2>3. ASSUME NEW r \in inFlight, Deliver(r)
        PROVE  curve'.rho = curve.rho /\ curve'.chi = curve.chi
    <3>1. CASE SetRates(r.ssr, r.rho, r.chi) /\ applied' = r.number
      <4>1. r.ssr \in Nat /\ r.rho \in Nat /\ r.chi \in Nat /\ r.number \in Nat
        BY <1>1, RelayTypes
      <4>2. curve'.rho = r.rho /\ curve'.chi = r.chi
        BY <1>1, <3>1, <4>1, RelayTypes, SetRatesKeepsInv
      <4>3. r.number < applied /\ applied # 0
        BY <1>1, <2>1, <3>1, <4>1, SMT
      <4>4. r \in Known /\ Accepted \in Known
        BY <4>3 DEF Known
      <4>5. Ordered(r, Accepted) /\ Past(Accepted)
        BY <1>1, <4>4 DEF RelayInv
      <4>6. curve.rho # 0 /\ r.rho <= curve.rho /\ (r.rho = curve.rho => r.chi = curve.chi)
        BY <1>1, <4>3, <4>5, RelayTypes, SMT DEF Ordered, Past, Accepted
      <4>7. r.rho >= curve.rho
        BY <3>1, <4>6 DEF SetRates, RatesAllowed, AnchorAllowed
      <4>8. QED
        BY <2>1, <4>1, <4>2, <4>6, <4>7, SMT
    <3>2. CASE UNCHANGED <<now, initialized, curve, applied>>
      BY <3>2
    <3>3. QED
      BY <2>3, <3>1, <3>2 DEF Deliver
  <2>4. CASE ~Open /\ ~(\E r \in inFlight : Deliver(r))
    <3>1. applied' = applied
      BY <1>1, <2>4 DEF RelayNext, relayVars, Drip, ChangeRate, Clock, Post, Lose
    <3>2. QED
      BY <1>1, <2>1, <3>1, SMT
  <2>5. QED
    BY <2>2, <2>3, <2>4
<1>2. RelayInv /\ [RelayNext]_relayVars => [Within]_relayVars
  BY <1>1
<1>3. OlderOnlyWithinASecond <=> [][Within]_relayVars
  BY DEF OlderOnlyWithinASecond
<1> HIDE DEF Within
<1>4. QED
  BY InitRelayInv, StepKeepsRelayInv, <1>2, <1>3, PTL DEF RelaySpec

-----------------------------------------------------------------------------
(* The source and the pool compound the same rate, on different paths.     *)

LEMMA KnownTypes ==
  ASSUME RelayInv, NEW r \in Known
  PROVE  /\ r.ssr \in Nat /\ r.rho \in Nat /\ r.chi \in Nat /\ r.number \in Nat
         /\ Past(r) /\ r.rho <= source.rho /\ r.number <= source.number
         /\ source.rho - r.rho \in Nat
<1>1. r.ssr \in Nat /\ r.rho \in Nat /\ r.chi \in Nat /\ r.number \in Nat
  <2>1. CASE r \in inFlight
    BY <2>1, RelayTypes
  <2>2. CASE r = Accepted
    BY <2>2, RelayTypes DEF Accepted, RedemptionRateCurve
  <2>3. QED
    BY <2>1, <2>2 DEF Known
<1>2. Past(r)
  BY DEF RelayInv
<1>3. QED
  BY <1>1, <1>2, RelayTypes, SMT DEF Past

\* What was read of a factor of at least one, at the source's present rate, has
\* since grown by that rate but for the roundings of every second.
Tracks(r) ==
  r.number = source.number =>
    /\ r.ssr = source.ssr
    /\ source.ssr >= RAY /\ r.chi >= RAY =>
         /\ source.chi >= RAY
         /\ AtMostGrown(source.chi, r.chi, MostOf(source.ssr), Parts, source.rho - r.rho)
         /\ AtMostGrown(r.chi, source.chi, SmallParts, LessThanOf(source.ssr), source.rho - r.rho)

TrackInv == \A r \in Known : Tracks(r)

\* No time passes, and nothing grows.
LEMMA NotGrown ==
  ASSUME NEW v \in Nat, NEW p \in Nat, NEW u \in Nat
  PROVE  AtMostGrown(v, v, p, u, 0)
<1>1. Raised[0][u] = 1 /\ Raised[0][p] = 1
  BY RaisedSteps
<1>2. QED
  BY <1>1, SMT DEF AtMostGrown

LEMMA SourceTracks ==
  ASSUME RelayInv
  PROVE  Tracks(source)
<1>1. source.rho - source.rho = 0
  BY RelayTypes, SMT
<1>2. /\ MostOf(source.ssr) \in Nat /\ Parts \in Nat
      /\ SmallParts \in Nat /\ LessThanOf(source.ssr) \in Nat
  BY RelayTypes, SecondsPartsType
<1>3. /\ AtMostGrown(source.chi, source.chi, MostOf(source.ssr), Parts, 0)
      /\ AtMostGrown(source.chi, source.chi, SmallParts, LessThanOf(source.ssr), 0)
  BY <1>2, RelayTypes, NotGrown
<1>4. QED
  BY <1>1, <1>3 DEF Tracks

\* What Drip does to the source, with the bounds on its growth.
LEMMA DripCompounds ==
  ASSUME RelayInv, Drip
  PROVE  /\ source'.ssr = source.ssr /\ source'.number = source.number
         /\ source.rho < source'.rho /\ source'.rho \in Nat /\ source'.rho - source.rho \in Nat \ {0}
         /\ source'.chi = Compounded(source.chi, source.ssr, source'.rho - source.rho)
         /\ source'.chi # NoRate /\ source'.chi \in Nat
<1> DEFINE chi == Compounded(source.chi, source.ssr, SourceNow - source.rho)
<1>1. source.rho < SourceNow /\ chi # NoRate
      /\ source' = [source EXCEPT !.rho = SourceNow, !.chi = chi]
  BY DEF Drip
<1>2. SourceNow - source.rho \in Nat \ {0}
  BY <1>1, RelayTypes, SMT
<1>3. chi \in Nat
  BY <1>1, <1>2, RelayTypes, CompoundedType
<1>4. source \in Reading
  BY DEF RelayInv, RelayTypeOK
<1> HIDE DEF chi
<1>5. /\ source'.ssr = source.ssr /\ source'.number = source.number
      /\ source'.rho = SourceNow /\ source'.chi = chi
  BY <1>1, <1>4 DEF Reading
<1>6. QED
  BY <1>1, <1>2, <1>3, <1>5, RelayTypes DEF chi

LEMMA DripKeepsTrack ==
  ASSUME RelayInv, TrackInv, Drip
  PROVE  TrackInv'
<1> DEFINE span == source'.rho - source.rho
           ssr == source.ssr
           most == MostOf(ssr)
           less == LessThanOf(ssr)
<1>1. /\ source'.ssr = ssr /\ source'.number = source.number
      /\ span \in Nat \ {0} /\ source'.chi \in Nat /\ source'.rho \in Nat
      /\ source'.chi = Compounded(source.chi, ssr, span) /\ source'.chi # NoRate
  BY DripCompounds
<1>2. Known' = Known
  BY DEF Drip, Known, Accepted
<1>3. ssr \in Nat /\ source.chi \in Nat /\ source.rho \in Nat
  BY RelayTypes
<1>4. most \in Nat /\ Parts \in Nat /\ SmallParts \in Nat /\ less \in Nat /\ RAY \in Nat
  BY <1>3, SecondsPartsType
<1>5. ASSUME ssr >= RAY, source.chi >= RAY
      PROVE  /\ source'.chi >= RAY
             /\ AtMostGrown(source'.chi, source.chi, most, Parts, span)
             /\ AtMostGrown(source.chi, source'.chi, SmallParts, less, span)
  <2> HIDE DEF span, ssr
  <2>1. source'.chi >= source.chi
    BY <1>1, <1>3, <1>5, CompoundedGrows
  <2>2. AtMostGrown(source'.chi, source.chi, most, Parts, span)
    BY <1>1, <1>3, <1>5, CompoundedBetween
  <2>3. AtMostGrown(source.chi, source'.chi, SmallParts, less, span)
    BY <1>1, <1>3, <1>5, CompoundedFloor
  <2>4. source'.chi >= RAY
    BY <1>1, <1>3, <1>4, <1>5, <2>1, SMT
  <2>5. QED
    BY <2>2, <2>3, <2>4
<1>6. ASSUME NEW r \in Known, r.number = source'.number
      PROVE  /\ r.ssr = ssr
             /\ ssr >= RAY /\ r.chi >= RAY =>
                  /\ source'.chi >= RAY
                  /\ AtMostGrown(source'.chi, r.chi, most, Parts, source'.rho - r.rho)
                  /\ AtMostGrown(r.chi, source'.chi, SmallParts, less, source'.rho - r.rho)
  <2> DEFINE i == source.rho - r.rho
  <2>1. r.chi \in Nat /\ r.rho \in Nat /\ i \in Nat
    BY KnownTypes
  <2>2. r.ssr = ssr
    BY <1>1, <1>6 DEF TrackInv, Tracks
  <2>3. ASSUME ssr >= RAY, r.chi >= RAY
        PROVE  /\ source'.chi >= RAY
               /\ AtMostGrown(source'.chi, r.chi, most, Parts, source'.rho - r.rho)
               /\ AtMostGrown(r.chi, source'.chi, SmallParts, less, source'.rho - r.rho)
    <3>1. /\ source.chi >= RAY
          /\ AtMostGrown(source.chi, r.chi, most, Parts, i)
          /\ AtMostGrown(r.chi, source.chi, SmallParts, less, i)
      BY <1>1, <1>6, <2>3 DEF TrackInv, Tracks
    <3>2. /\ source'.chi >= RAY
          /\ AtMostGrown(source'.chi, source.chi, most, Parts, span)
          /\ AtMostGrown(source.chi, source'.chi, SmallParts, less, span)
      BY <1>5, <2>3, <3>1
    <3>3. source'.rho - r.rho = i + span /\ source'.rho - r.rho = span + i
      BY <1>1, <1>3, <2>1, SMT
    <3> HIDE DEF span, ssr, most, less, i
    <3>4. AtMostGrown(source'.chi, r.chi, most, Parts, i + span)
      BY <1>1, <1>3, <1>4, <2>1, <3>1, <3>2, GrownOn
    <3>5. AtMostGrown(r.chi, source'.chi, SmallParts, less, span + i)
      BY <1>1, <1>3, <1>4, <2>1, <3>1, <3>2, GrownOn
    <3>6. QED
      BY <3>2, <3>3, <3>4, <3>5
  <2>4. QED
    BY <2>2, <2>3
<1>7. \A r \in Known' : Tracks(r)'
  BY <1>1, <1>2, <1>6 DEF Tracks
<1>8. QED
  BY <1>7 DEF TrackInv

LEMMA StepKeepsTrack == RelayInv /\ TrackInv /\ [RelayNext]_relayVars => TrackInv'
<1>1. SUFFICES ASSUME RelayInv, TrackInv, [RelayNext]_relayVars PROVE TrackInv'
  OBVIOUS
<1>2. CASE UNCHANGED source /\ Known' \subseteq Known \cup {source}
  <2>1. \A r \in Known \cup {source} : Tracks(r)
    BY <1>1, SourceTracks DEF TrackInv
  <2>2. \A r \in Known' : Tracks(r)'
    BY <1>2, <2>1 DEF Tracks
  <2>3. QED
    BY <2>2 DEF TrackInv
<1>3. CASE Drip
  BY <1>1, <1>3, DripKeepsTrack
<1>4. CASE ChangeRate
  <2>1. source \in Reading
    BY <1>1 DEF RelayInv, RelayTypeOK
  <2>2. source'.number = source.number + 1 /\ source.number \in Nat
    <3>1. source.number \in Nat
      BY <1>1, RelayTypes
    <3>2. QED
      BY <1>4, <2>1, <3>1 DEF ChangeRate, Reading
  <2>3. Known' = Known
    BY <1>4 DEF ChangeRate, Known, Accepted
  <2>4. \A r \in Known : r.number # source'.number
    <3>1. SUFFICES ASSUME NEW r \in Known PROVE r.number # source'.number
      OBVIOUS
    <3>2. r.number \in Nat /\ r.number <= source.number
      BY <1>1, KnownTypes
    <3>3. QED
      BY <2>2, <3>2, SMT
  <2>5. QED
    BY <2>3, <2>4 DEF TrackInv, Tracks
<1>5. QED
  BY <1>1, <1>2, <1>3, <1>4, OpenKeepsInv, DeliverKeepsInv, OtherRelayStepsKeepInv DEF RelayNext

(***************************************************************************)
(* Two factors of which one has grown to the other in i seconds: after k   *)
(* more, what each of them compounds to is not apart by more than the      *)
(* roundings of the i + k seconds.                                         *)
(***************************************************************************)
LEMMA PathsMeet ==
  ASSUME NEW chi \in Nat, NEW grown \in Nat, NEW ssr \in Nat, ssr >= RAY, NEW i \in Nat, NEW k \in Nat,
         AtMostGrown(grown, chi, MostOf(ssr), Parts, i),
         AtMostGrown(chi, grown, SmallParts, LessThanOf(ssr), i),
         Compounded(chi, ssr, i + k) # NoRate, Compounded(grown, ssr, k) # NoRate
  PROVE  /\ Compounded(grown, ssr, k) * (RAY - (i + k)) <= (Compounded(chi, ssr, i + k) + 1) * RAY
         /\ Compounded(chi, ssr, i + k) * (RAY - 2 * (i + k)) <= (Compounded(grown, ssr, k) + 1) * RAY
<1> DEFINE there == Compounded(grown, ssr, k)
           here  == Compounded(chi, ssr, i + k)
           most  == MostOf(ssr)
           least == LeastOf(ssr)
           less  == LessThanOf(ssr)
<1>1. /\ most \in Nat /\ least \in Nat /\ less \in Nat /\ Parts \in Nat /\ SmallParts \in Nat
      /\ RAY \in Nat \ {0} /\ ssr \in Nat \ {0} /\ i + k \in Nat /\ k + i = i + k
  BY SecondsPartsType, SMT
<1>2. least # 0
  BY <1>1, SMT DEF LeastOf
<1>3. there \in Nat /\ AtMostGrown(there, grown, most, Parts, k)
      /\ AtMostGrown(grown, there + 1, Parts, least, k)
  BY CompoundedBetween
<1>4. here \in Nat /\ AtMostGrown(here, chi, most, Parts, i + k)
      /\ AtMostGrown(chi, here + 1, Parts, least, i + k)
  BY <1>1, CompoundedBetween
<1>5. there + 1 \in Nat /\ here + 1 \in Nat
  BY <1>3, <1>4, SMT
<1>6. Parts * less <= SmallParts * least
  <2>1. SmallParts = Parts * RAY /\ less = least * (RAY - 1)
    BY DEF SmallParts, LessThanOf
  <2>2. RAY - 1 \in Nat
    BY <1>1, SMT
  <2> HIDE DEF most, least, less
  <2>3. Parts * less = (Parts * least) * (RAY - 1) /\ SmallParts * least = (Parts * least) * RAY
        /\ Parts * least \in Nat
    BY <1>1, <2>1, <2>2, SMT
  <2>4. (Parts * least) * (RAY - 1) <= (Parts * least) * RAY
    BY <1>1, <2>3, SMT
  <2>5. QED
    BY <2>3, <2>4
<1> HIDE DEF there, here, most, least, less
<1>7. there * (RAY - (i + k)) <= (here + 1) * RAY
  <2>1. AtMostGrown(there, chi, most, Parts, i + k)
    BY <1>1, <1>3, GrownOn DEF most
  <2>2. QED
    BY <1>1, <1>3, <1>4, <1>5, <2>1, RoundingsApart DEF most, least
<1>8. here * (RAY - 2 * (i + k)) <= (there + 1) * RAY
  <2>1. AtMostGrown(grown, there + 1, SmallParts, less, k)
    BY <1>1, <1>2, <1>3, <1>5, <1>6, GrownFaster
  <2>2. AtMostGrown(chi, grown, SmallParts, less, i)
    BY DEF less
  <2>3. AtMostGrown(chi, there + 1, SmallParts, less, k + i)
    BY <1>1, <1>5, <2>1, <2>2, GrownOn
  <2>4. AtMostGrown(chi, there + 1, SmallParts, less, i + k)
    BY <1>1, <2>3
  <2>5. QED
    BY <1>1, <1>4, <1>5, <2>4, FloorsApart DEF most, less
<1>9. QED
  BY <1>7, <1>8 DEF there, here

(***************************************************************************)
(* The promise of README.md, for every rate, precision and length of time: *)
(* as long as the source's rate is the one the pool accepted last, the two *)
(* quote the same but for the roundings of the seconds since the pool's    *)
(* anchor, however often the source has compounded in between.             *)
(***************************************************************************)
THEOREM RateReplicates == RelaySpec => []ReplicatesSafely
<1>1. RelayInit => TrackInv
  BY DEF RelayInit, TrackInv, Known
<1>2. RelayInv /\ TrackInv => ReplicatesSafely
  <2>1. SUFFICES ASSUME RelayInv, TrackInv, initialized, applied = source.number,
                        source.ssr >= RAY, curve.chi >= RAY, source.rho <= now,
                        Rate # NoRate, SourceRate # NoRate
                 PROVE  /\ curve.ssr = source.ssr
                        /\ SourceRate * (RAY - (now - curve.rho)) <= (Rate + 1) * RAY
                        /\ Rate * (RAY - 2 * (now - curve.rho)) <= (SourceRate + 1) * RAY
    BY DEF ReplicatesSafely, Replicates, RelayInv
  <2>2. Accepted \in Known
    <3>1. source.number # 0
      BY <2>1, RelayAssumption, SMT DEF RelayInv, RelayTypeOK, Reading
    <3>2. QED
      BY <2>1, <3>1 DEF Known
  <2> DEFINE i == source.rho - curve.rho
             k == now - source.rho
             ssr == source.ssr
  <2>3. /\ now \in Nat /\ source.rho \in Nat /\ curve.rho \in Nat /\ curve \in RedemptionRateCurve
        /\ ssr \in Nat /\ source.chi \in Nat /\ curve.chi \in Nat
    BY <2>1, RelayTypes
  <2>4. i \in Nat /\ k \in Nat /\ now - curve.rho = i + k
    <3>1. i \in Nat
      BY <2>1, <2>2, KnownTypes DEF Accepted
    <3>2. QED
      BY <2>1, <2>3, <3>1, SMT
  <2>5. /\ curve.ssr = ssr
        /\ AtMostGrown(source.chi, curve.chi, MostOf(ssr), Parts, i)
        /\ AtMostGrown(curve.chi, source.chi, SmallParts, LessThanOf(ssr), i)
    BY <2>1, <2>2 DEF TrackInv, Tracks, Accepted
  <2>6. SourceRate = Compounded(source.chi, ssr, k)
    BY DEF SourceRate
  <2>7. RAY \in Nat
    BY RAYAssumption, SMT
  <2>8. CASE now = curve.rho
    <3>1. source.rho = curve.rho /\ k = 0 /\ now - curve.rho = 0
      <4>1. curve.rho <= source.rho /\ source.rho <= now
        BY <2>1, <2>2, KnownTypes DEF Accepted
      <4>2. source.rho = now
        BY <2>3, <2>8, <4>1, SMT
      <4>3. QED
        BY <2>3, <2>8, <4>2, SMT
    <3>2. Past(Accepted)
      BY <2>1, <2>2, KnownTypes
    <3>3. source.chi = curve.chi
      BY <3>1, <3>2 DEF Past, Accepted
    <3>4. Rate = curve.chi
      BY <2>8 DEF Rate, ConversionRate
    <3>5. SourceRate = curve.chi
      BY <2>1, <2>3, <2>6, <3>1, <3>3, StillAtAnchor
    <3>6. curve.chi * (RAY - 0) <= (curve.chi + 1) * RAY
          /\ curve.chi * (RAY - 2 * 0) <= (curve.chi + 1) * RAY
      BY <2>3, <2>7, SMT
    <3>7. QED
      BY <2>5, <3>1, <3>4, <3>5, <3>6
  <2>9. CASE now # curve.rho
    <3>1. Rate = Compounded(curve.chi, ssr, i + k)
      <4>1. Rate = ConversionRate(curve, now)
        BY DEF Rate
      <4>2. QED
        BY <2>1, <2>3, <2>4, <2>5, <2>9, <4>1, RateType
    <3> HIDE DEF i, k, ssr
    <3>2. ssr >= RAY
      BY <2>1 DEF ssr
    <3>3. /\ Compounded(source.chi, ssr, k) * (RAY - (i + k))
               <= (Compounded(curve.chi, ssr, i + k) + 1) * RAY
          /\ Compounded(curve.chi, ssr, i + k) * (RAY - 2 * (i + k))
               <= (Compounded(source.chi, ssr, k) + 1) * RAY
      BY <2>1, <2>3, <2>4, <2>5, <2>6, <3>1, <3>2, PathsMeet
    <3>4. QED
      BY <2>4, <2>5, <2>6, <3>1, <3>3 DEF ssr
  <2>10. QED
    BY <2>8, <2>9
<1>3. QED
  BY InitRelayInv, StepKeepsRelayInv, StepKeepsTrack, <1>1, <1>2, PTL DEF RelaySpec

-----------------------------------------------------------------------------
(* The newest rate of a source whose rates do not shrink is welcome.       *)

\* The pool keeps the cap it was opened with, and an anchor other than 0 was read.
Opened ==
  /\ initialized => curve.max_ssr = MaxSsr
  /\ applied = 0 => curve.rho = 0

LEMMA StepKeepsOpened == RelayInv /\ Opened /\ [RelayNext]_relayVars => Opened'
<1>1. SUFFICES ASSUME RelayInv, Opened, [RelayNext]_relayVars PROVE Opened'
  OBVIOUS
<1>2. CASE Open
  <2>1. source.number # 0
    BY <1>1, SMT DEF RelayInv, RelayTypeOK, Reading
  <2>2. QED
    BY <1>2, <2>1 DEF Open, Initialize, Opened
<1>3. ASSUME NEW r \in inFlight, Deliver(r)
      PROVE  Opened'
  <2>1. CASE SetRates(r.ssr, r.rho, r.chi) /\ applied' = r.number
    <3>1. r \in Known /\ curve \in RedemptionRateCurve
      BY <1>1, RelayTypes DEF Known
    <3>2. r.number # 0
      BY <1>1, <3>1, SMT DEF RelayInv, Past
    <3>3. curve'.max_ssr = curve.max_ssr /\ initialized
      BY <2>1, <3>1 DEF SetRates, RedemptionRateCurve
    <3>4. QED
      BY <1>1, <2>1, <3>2, <3>3 DEF Opened
  <2>2. CASE UNCHANGED <<now, initialized, curve, applied>>
    BY <1>1, <2>2 DEF Opened
  <2>3. QED
    BY <1>3, <2>1, <2>2 DEF Deliver
<1>4. CASE ~Open /\ ~(\E r \in inFlight : Deliver(r))
  <2>1. UNCHANGED <<initialized, curve, applied>>
    BY <1>1, <1>4 DEF RelayNext, relayVars, Drip, ChangeRate, Clock, Tick, Post, Lose
  <2>2. QED
    BY <1>1, <2>1 DEF Opened
<1>5. QED
  BY <1>2, <1>3, <1>4

NoShrinking == \A ssr \in Ssrs : ssr >= RAY

\* What was read of the source is not above what it is now.
Growing == \A r \in Known : r.chi <= source.chi

LEMMA StepKeepsGrowing ==
  ASSUME NoShrinking
  PROVE  RelayInv /\ Growing /\ [RelayNext]_relayVars => Growing'
<1>1. SUFFICES ASSUME RelayInv, Growing, [RelayNext]_relayVars PROVE Growing'
  OBVIOUS
<1>2. source.chi \in Nat
  BY <1>1, RelayTypes
<1>3. CASE UNCHANGED source /\ Known' \subseteq Known \cup {source}
  <2>1. \A r \in Known \cup {source} : r.chi <= source.chi
    BY <1>1, <1>2, SMT DEF Growing
  <2>2. QED
    BY <1>3, <2>1 DEF Growing
<1>4. CASE Drip \/ ChangeRate
  <2>1. source'.chi \in Nat /\ source'.chi >= source.chi
    <3>1. CASE Drip
      <4> DEFINE chi == Compounded(source.chi, source.ssr, SourceNow - source.rho)
      <4>1. source.rho < SourceNow /\ chi # NoRate /\ source' = [source EXCEPT !.rho = SourceNow, !.chi = chi]
        BY <3>1 DEF Drip
      <4>2. SourceNow - source.rho \in Nat /\ source.ssr >= RAY
        BY <1>1, <4>1, RelayTypes, SMT DEF NoShrinking
      <4>3. chi \in Nat /\ chi >= source.chi
        BY <1>1, <4>1, <4>2, RelayTypes, CompoundedGrows
      <4>4. source \in Reading
        BY <1>1 DEF RelayInv, RelayTypeOK
      <4> HIDE DEF chi
      <4>5. source'.chi = chi
        BY <4>1, <4>4 DEF Reading
      <4>6. QED
        BY <4>3, <4>5
    <3>2. CASE ChangeRate
      <4>1. source \in Reading
        BY <1>1 DEF RelayInv, RelayTypeOK
      <4>2. source'.chi = source.chi
        BY <3>2, <4>1 DEF ChangeRate, Reading
      <4>3. QED
        BY <1>2, <4>2, SMT
    <3>3. QED
      BY <1>4, <3>1, <3>2
  <2>2. Known' = Known
    BY <1>4 DEF Drip, ChangeRate, Known, Accepted
  <2>3. \A r \in Known : r.chi \in Nat
    BY <1>1, RelayTypes DEF Known, Accepted
  <2>4. \A r \in Known : r.chi <= source'.chi
    BY <1>1, <1>2, <2>1, <2>3, SMT DEF Growing
  <2>5. QED
    BY <2>2, <2>4 DEF Growing
<1>5. QED
  BY <1>1, <1>3, <1>4, OpenKeepsInv, DeliverKeepsInv, OtherRelayStepsKeepInv DEF RelayNext

(***************************************************************************)
(* What a source whose rates do not shrink reads now is never refused by a *)
(* pool without a cap, as soon as the pool's clock has reached it: no      *)
(* reading that was accepted before, in whatever order they came, lies     *)
(* ahead of it.                                                            *)
(***************************************************************************)
THEOREM NewestIsWelcomeUncapped ==
  ASSUME NoShrinking, MaxSsr = 0
  PROVE  RelaySpec => []NewestIsWelcome
<1> DEFINE Inv == RelayInv /\ Growing /\ Opened
<1>1. RelayInit => Inv
  BY InitRelayInv DEF RelayInit, Growing, Opened, Known
<1>2. Inv /\ [RelayNext]_relayVars => Inv'
  BY StepKeepsRelayInv, StepKeepsGrowing, StepKeepsOpened
<1>3. Inv => NewestIsWelcome
  <2>1. SUFFICES ASSUME Inv, initialized, source.rho <= now
                 PROVE  RatesAllowed(source.ssr, source.rho, source.chi)
    BY DEF NewestIsWelcome
  <2>2. source.ssr >= RAY
    BY <2>1, RelayTypes DEF NoShrinking
  <2>3. curve.rho # 0 => source.rho >= curve.rho /\ source.chi >= curve.chi
    <3>1. SUFFICES ASSUME curve.rho # 0 PROVE source.rho >= curve.rho /\ source.chi >= curve.chi
      OBVIOUS
    <3>2. Accepted \in Known
      BY <2>1, <3>1 DEF Known, Opened
    <3>3. Past(Accepted) /\ Accepted.chi <= source.chi
      BY <2>1, <3>2 DEF RelayInv, Growing
    <3>4. QED
      BY <2>1, <3>3, RelayTypes, SMT DEF Past, Accepted
  <2>4. QED
    BY <2>1, <2>2, <2>3 DEF RatesAllowed, AnchorAllowed, Opened
<1> HIDE DEF Inv
<1>4. QED
  BY <1>1, <1>2, <1>3, PTL DEF RelaySpec

\* What was read of the source has, since, grown by less than the cap allows.
GrowsWithinCap ==
  \A r \in Known : AtMostGrown(source.chi, r.chi, LeastOf(MaxSsr), Parts, source.rho - r.rho)

\* The cap is above every rate by the roundings of a second: by two units of
\* 10^-27, if rates are below twice RAY.
RoomUnderCap == \A ssr \in Ssrs : ssr >= RAY /\ MostOf(ssr) <= LeastOf(MaxSsr)

LEMMA StepKeepsWithinCap ==
  ASSUME RoomUnderCap
  PROVE  RelayInv /\ GrowsWithinCap /\ [RelayNext]_relayVars => GrowsWithinCap'
<1>1. SUFFICES ASSUME RelayInv, GrowsWithinCap, [RelayNext]_relayVars PROVE GrowsWithinCap'
  OBVIOUS
<1> DEFINE least == LeastOf(MaxSsr)
           Within(r) == AtMostGrown(source.chi, r.chi, least, Parts, source.rho - r.rho)
<1>2. least \in Nat /\ Parts \in Nat \ {0} /\ source.chi \in Nat /\ source.rho \in Nat
      /\ source.ssr \in Ssrs /\ source.ssr \in Nat
  BY <1>1, RelayTypes, RelayAssumption, SecondsPartsType
<1>3. CASE UNCHANGED source /\ Known' \subseteq Known \cup {source}
  <2>1. source.rho - source.rho = 0
    BY <1>2, SMT
  <2>2. AtMostGrown(source.chi, source.chi, least, Parts, 0)
    BY <1>2, NotGrown
  <2>3. \A r \in Known \cup {source} : Within(r)
    BY <1>1, <2>1, <2>2 DEF GrowsWithinCap
  <2>4. QED
    BY <1>3, <2>3 DEF GrowsWithinCap
<1>4. CASE ChangeRate
  <2>1. source \in Reading
    BY <1>1 DEF RelayInv, RelayTypeOK
  <2>2. source'.chi = source.chi /\ source'.rho = source.rho /\ Known' = Known
    BY <1>4, <2>1 DEF ChangeRate, Reading, Known, Accepted
  <2>3. QED
    BY <1>1, <2>2 DEF GrowsWithinCap
<1>5. CASE Drip
  <2> DEFINE span == source'.rho - source.rho
             most == MostOf(source.ssr)
  <2>1. /\ span \in Nat \ {0} /\ source'.chi \in Nat /\ source'.rho \in Nat
        /\ source'.chi = Compounded(source.chi, source.ssr, span) /\ source'.chi # NoRate
    BY <1>1, <1>5, DripCompounds
  <2>2. Known' = Known
    BY <1>5 DEF Drip, Known, Accepted
  <2>3. source.ssr >= RAY /\ most <= least /\ most \in Nat
    BY <1>2, SecondsPartsType DEF RoomUnderCap
  <2> HIDE DEF span
  <2>4. AtMostGrown(source'.chi, source.chi, most, Parts, span)
    BY <1>2, <2>1, <2>3, CompoundedBetween
  <2> HIDE DEF most, least
  <2>5. most * Parts <= least * Parts
    BY <1>2, <2>3, SMT
  <2>6. AtMostGrown(source'.chi, source.chi, least, Parts, span)
    BY <1>2, <2>1, <2>3, <2>4, <2>5, GrownFaster
  <2>7. ASSUME NEW r \in Known
        PROVE  AtMostGrown(source'.chi, r.chi, least, Parts, source'.rho - r.rho)
    <3> DEFINE i == source.rho - r.rho
    <3>1. r.chi \in Nat /\ r.rho \in Nat /\ i \in Nat
      BY <1>1, KnownTypes
    <3>2. AtMostGrown(source.chi, r.chi, least, Parts, i)
      BY <1>1 DEF GrowsWithinCap, least
    <3>3. source'.rho - r.rho = i + span
      BY <1>2, <2>1, <3>1, SMT DEF span
    <3> HIDE DEF i
    <3>4. AtMostGrown(source'.chi, r.chi, least, Parts, i + span)
      BY <1>2, <2>1, <2>6, <3>1, <3>2, GrownOn
    <3>5. QED
      BY <3>3, <3>4
  <2>8. QED
    BY <2>2, <2>7 DEF GrowsWithinCap, least
<1>6. QED
  BY <1>1, <1>3, <1>4, <1>5, OpenKeepsInv, DeliverKeepsInv, OtherRelayStepsKeepInv DEF RelayNext

\* A rate the cap has room for is below it.
LEMMA RoomIsBelow ==
  ASSUME NEW ssr \in Nat, ssr >= RAY, MostOf(ssr) <= LeastOf(MaxSsr)
  PROVE  MaxSsr \in Nat /\ ssr <= MaxSsr /\ MaxSsr >= RAY
<1>1. MaxSsr \in Nat /\ RAY \in Nat \ {0}
  BY RelayAssumption, SecondsPartsType
<1>2. ssr * (2 * RAY + 1) = 2 * (ssr * RAY) + ssr /\ MaxSsr * (2 * RAY - 1) = 2 * (MaxSsr * RAY) - MaxSsr
      /\ ssr * RAY \in Nat /\ MaxSsr * RAY \in Nat
  BY <1>1, SMT
<1>3. 2 * (ssr * RAY) + ssr <= 2 * (MaxSsr * RAY) - MaxSsr
  BY <1>2 DEF MostOf, LeastOf
<1>4. ASSUME MaxSsr < ssr PROVE FALSE
  <2>1. MaxSsr * RAY <= ssr * RAY
    BY <1>1, <1>4, SMT
  <2>2. QED
    BY <1>1, <1>2, <1>3, <1>4, <2>1, SMT
<1>5. QED
  BY <1>1, <1>4, SMT

\* The cap's growth since the pool's anchor is within the 256 bits.
CapFits ==
  curve.rho # 0 => Compounded(curve.chi, curve.max_ssr, source.rho - curve.rho) # NoRate

(***************************************************************************)
(* What the source reads now is not refused by a pool with a cap either,   *)
(* if the cap leaves every rate of the source the roundings of a second:   *)
(* however often and on whatever path the source has compounded, its       *)
(* factor is below what set_rates computes from the anchor before, as long *)
(* as that fits the 256 bits.                                              *)
(***************************************************************************)
THEOREM NewestIsWelcomeUnderCap ==
  ASSUME RoomUnderCap
  PROVE  RelaySpec => [](CapFits => NewestIsWelcome)
<1> DEFINE Inv == RelayInv /\ Growing /\ Opened /\ GrowsWithinCap
<1>1. RelayInit => Inv
  BY InitRelayInv DEF RelayInit, Growing, Opened, GrowsWithinCap, Known
<1>2. Inv /\ [RelayNext]_relayVars => Inv'
  <2>1. NoShrinking
    BY DEF RoomUnderCap, NoShrinking
  <2>2. QED
    BY <2>1, StepKeepsRelayInv, StepKeepsGrowing, StepKeepsOpened, StepKeepsWithinCap
<1>3. Inv => (CapFits => NewestIsWelcome)
  <2>1. SUFFICES ASSUME Inv, CapFits, initialized, source.rho <= now
                 PROVE  RatesAllowed(source.ssr, source.rho, source.chi)
    BY DEF NewestIsWelcome
  <2>2. source.ssr \in Nat /\ source.ssr >= RAY /\ MostOf(source.ssr) <= LeastOf(MaxSsr)
    BY <2>1, RelayTypes DEF RoomUnderCap
  <2>3. MaxSsr \in Nat /\ source.ssr <= MaxSsr /\ MaxSsr >= RAY /\ curve.max_ssr = MaxSsr
    BY <2>1, <2>2, RoomIsBelow DEF Opened
  <2>4. ASSUME curve.rho # 0
        PROVE  /\ source.rho >= curve.rho /\ source.chi >= curve.chi
               /\ Compounded(curve.chi, MaxSsr, source.rho - curve.rho) # NoRate
               /\ source.chi <= Compounded(curve.chi, MaxSsr, source.rho - curve.rho)
    <3>1. Accepted \in Known
      BY <2>1, <2>4 DEF Known, Opened
    <3>2. Accepted.chi = curve.chi /\ Accepted.rho = curve.rho
      BY DEF Accepted
    <3>3. source.rho \in Nat /\ curve.rho \in Nat /\ source.chi \in Nat /\ curve.chi \in Nat
      BY <2>1, RelayTypes
    <3>4. source.rho - curve.rho \in Nat /\ curve.rho <= source.rho /\ curve.chi <= source.chi
      BY <2>1, <3>1, <3>2, KnownTypes DEF Growing
    <3>5. AtMostGrown(source.chi, curve.chi, LeastOf(MaxSsr), Parts, source.rho - curve.rho)
      BY <2>1, <3>1, <3>2 DEF GrowsWithinCap
    <3>6. Compounded(curve.chi, MaxSsr, source.rho - curve.rho) # NoRate
      BY <2>1, <2>3, <2>4 DEF CapFits
    <3>7. source.chi <= Compounded(curve.chi, MaxSsr, source.rho - curve.rho)
      BY <2>3, <3>3, <3>4, <3>5, <3>6, GrownWithinFloor
    <3>8. QED
      BY <3>3, <3>4, <3>6, <3>7, SMT
  <2>5. QED
    BY <2>1, <2>2, <2>3, <2>4 DEF RatesAllowed, AnchorAllowed
<1> HIDE DEF Inv
<1>4. QED
  BY <1>1, <1>2, <1>3, PTL DEF RelaySpec

-----------------------------------------------------------------------------
(* The loop of _rpow. *)

(***************************************************************************)
(* What the rest of the loop computes never changes on the way, and is the *)
(* power that was asked for.                                               *)
(***************************************************************************)
LoopInv ==
  /\ LoopTypeOK
  /\ ~running => x = base /\ n = exponent
  /\ answer = Pending /\ running => base # 0 /\ RPowLoop[n][x][z] = RPow(base, exponent)
  /\ answer # Pending => answer = RPow(base, exponent)

Widths == 0 .. U256_MAX

LEMMA LoopTypes ==
  ASSUME LoopTypeOK
  PROVE  /\ base \in Nat /\ exponent \in Nat /\ base \in Widths
         /\ x \in Nat /\ z \in Nat /\ n \in Nat
         /\ RAY \in Widths /\ RAY \in Nat /\ U256_MAX \in Nat
<1>1. RAY \in Nat /\ U256_MAX \in Nat /\ RAY <= U256_MAX
  BY RAYAssumption, CompoundingAssumption, PowerLoopAssumption
<1>2. base \in Widths /\ exponent \in Nat
  BY PowerLoopAssumption DEF LoopTypeOK, Widths
<1>3. QED
  BY <1>1, <1>2, SMT DEF LoopTypeOK, Widths

\* A product that fits is a number of 256 bits.
LEMMA ProductFits ==
  ASSUME NEW a \in Nat, NEW b \in Nat, RayMul(a, b) # NoRate
  PROVE  RayMul(a, b) \in Nat /\ RayMul(a, b) \in Widths
<1> DEFINE top == a * b + RAY \div 2
           q   == top \div RAY
<1>1. top \in Nat /\ top <= U256_MAX /\ RayMul(a, b) = q /\ RAY \in Nat \ {0} /\ U256_MAX \in Nat
  <2>1. top \in Nat
    BY HalfRay, SMT
  <2>2. top <= U256_MAX /\ RayMul(a, b) = q
    BY RayMulType
  <2>3. QED
    BY <2>1, <2>2, RAYAssumption, CompoundingAssumption
<1>2. q \in Nat /\ q * RAY <= top
  BY <1>1, RoundedQuotient
<1> HIDE DEF top
<1> HIDE DEF q
<1>3. q <= q * RAY
  BY <1>1, <1>2, ProductMonotone, SMT
<1>4. q * RAY \in Nat
  BY <1>1, <1>2, SMT
<1>5. QED
  BY <1>1, <1>2, <1>3, <1>4, SMT DEF Widths

LEMMA InitLoopInv == LoopInit => LoopInv
<1>1. SUFFICES ASSUME LoopInit PROVE LoopInv
  OBVIOUS
<1>2. base \in Widths /\ exponent \in Nat /\ RAY \in Widths
  BY <1>1, RAYAssumption, CompoundingAssumption, PowerLoopAssumption, SMT DEF LoopInit, Widths
<1>3. exponent \in 0 .. exponent
  BY <1>2, SMT
<1>4. QED
  BY <1>1, <1>2, <1>3 DEF LoopInit, LoopInv, LoopTypeOK, Widths

LEMMA BeginKeepsInv ==
  ASSUME LoopInv, Begin
  PROVE  LoopInv' /\ (answer' # Pending => answer' = RPow(base, exponent))
<1>1. /\ LoopTypeOK /\ ~running /\ answer = Pending /\ x = base
      /\ UNCHANGED <<base, exponent, x>>
  BY DEF LoopInv, Begin
<1>2. CASE base = 0
  <2>1. /\ answer' = IF exponent = 0 THEN RAY ELSE 0
        /\ UNCHANGED <<running, n, z>>
    BY <1>2 DEF Begin
  <2>2. answer' = RPow(base, exponent)
    BY <1>2, <2>1 DEF RPow
  <2>3. 0 \in Widths
    BY LoopTypes, <1>1, SMT DEF Widths
  <2>4. answer' \in Widths
    BY <1>1, <2>1, <2>3, LoopTypes
  <2>5. LoopTypeOK'
    BY <1>1, <2>1, <2>4 DEF LoopTypeOK, Widths
  <2>6. QED
    BY <1>1, <2>1, <2>2, <2>5 DEF LoopInv
<1>3. CASE base # 0
  <2>1. /\ running' /\ answer' = answer
        /\ z' = IF exponent % 2 = 0 THEN RAY ELSE base
        /\ n' = exponent \div 2
    BY <1>3 DEF Begin
  <2>2. RPowLoop[n'][x'][z'] = RPow(base, exponent)
    BY <1>1, <1>3, <2>1 DEF RPow
  <2>3. z' \in Widths
    BY <1>1, <2>1, LoopTypes
  <2>4. n' \in 0 .. exponent
    BY <1>1, <2>1, LoopTypes, HalvesAreLess, SMT
  <2>5. running' \in BOOLEAN
    BY <1>3 DEF Begin
  <2>6. LoopTypeOK'
    BY <1>1, <2>1, <2>3, <2>4, <2>5 DEF LoopTypeOK, Widths
  <2>7. QED
    BY <1>1, <1>3, <2>1, <2>2, <2>6 DEF LoopInv
<1>4. QED
  BY <1>2, <1>3

LEMMA PassKeepsInv ==
  ASSUME LoopInv, Pass
  PROVE  LoopInv' /\ (answer' # Pending => answer' = RPow(base, exponent))
<1> DEFINE square  == RayMul(x, x)
           product == IF n % 2 = 1 THEN RayMul(z, square) ELSE z
<1>1. /\ LoopTypeOK /\ running /\ answer = Pending /\ n > 0
      /\ base # 0 /\ RPowLoop[n][x][z] = RPow(base, exponent)
      /\ UNCHANGED <<base, exponent, running>>
  BY DEF LoopInv, Pass
<1>2. x \in Nat /\ z \in Nat /\ n \in Nat /\ n # 0
  BY <1>1, LoopTypes, SMT
<1>3. RPowLoop[n][x][z] = IF square = NoRate \/ product = NoRate THEN NoRate
                         ELSE RPowLoop[n \div 2][square][product]
  BY <1>2, LoopUnrolled
<1>4. CASE square = NoRate \/ product = NoRate
  <2>1. answer' = NoRate /\ UNCHANGED <<x, n, z>>
    BY <1>4 DEF Pass, Product
  <2>2. LoopTypeOK'
    BY <1>1, <2>1 DEF LoopTypeOK
  <2>3. answer' = RPow(base, exponent)
    BY <1>1, <1>3, <1>4, <2>1
  <2>4. QED
    BY <1>1, <2>1, <2>2, <2>3 DEF LoopInv
<1>5. CASE square # NoRate /\ product # NoRate
  <2>1. x' = square /\ z' = product /\ n' = n \div 2 /\ answer' = answer
    BY <1>5 DEF Pass, Product, Halved
  <2>2. square \in Nat /\ square \in Widths
    BY <1>2, <1>5, ProductFits
  <2>3. product \in Widths
    BY <1>1, <1>2, <1>5, <2>2, ProductFits DEF LoopTypeOK, Widths
  <2>4. n' \in 0 .. exponent
    BY <1>1, <1>2, <2>1, HalvesAreLess, LoopTypes, SMT DEF LoopTypeOK
  <2>5. RPowLoop[n'][x'][z'] = RPow(base, exponent)
    BY <1>1, <1>3, <1>5, <2>1
  <2> HIDE DEF square, product
  <2>6. LoopTypeOK'
    BY <1>1, <2>1, <2>2, <2>3, <2>4 DEF LoopTypeOK, Widths
  <2>7. QED
    BY <1>1, <2>1, <2>5, <2>6 DEF LoopInv
<1>6. QED
  BY <1>4, <1>5

LEMMA ReturnKeepsInv ==
  ASSUME LoopInv, Return
  PROVE  LoopInv' /\ (answer' # Pending => answer' = RPow(base, exponent))
<1>1. /\ LoopTypeOK /\ running /\ answer = Pending /\ n = 0 /\ answer' = z
      /\ RPowLoop[n][x][z] = RPow(base, exponent)
      /\ UNCHANGED <<base, exponent, running, x, n, z>>
  BY DEF LoopInv, Return
<1>2. RPowLoop[n][x][z] = z
  BY <1>1, LoopTypes, LoopUnrolled
<1>3. LoopTypeOK'
  BY <1>1 DEF LoopTypeOK
<1>4. QED
  BY <1>1, <1>2, <1>3 DEF LoopInv

LEMMA StepKeepsLoopInv == LoopInv /\ [LoopNext]_loopVars => LoopInv'
<1>1. LoopInv /\ UNCHANGED loopVars => LoopInv'
  BY DEF LoopInv, LoopTypeOK, loopVars
<1>2. QED
  BY <1>1, BeginKeepsInv, PassKeepsInv, ReturnKeepsInv DEF LoopNext

(***************************************************************************)
(* Every intermediate value is a number of 256 bits, and whatever has been *)
(* answered is the power.                                                  *)
(***************************************************************************)
THEOREM LoopComputesPower == LoopSpec => []LoopInv
BY InitLoopInv, StepKeepsLoopInv, PTL DEF LoopSpec

\* The operators of the abstract specification are this module's own.
LEMMA SamePower == Quote!RPow(base, exponent) = RPow(base, exponent)
<1>1. Quote!RPowLoop = RPowLoop
  BY DEF Quote!RPowLoop, RPowLoop, Quote!RayMul, RayMul
<1>2. QED
  BY <1>1 DEF Quote!RPow, RPow

(***************************************************************************)
(* The passes of the loop implement the single step of module Power: one   *)
(* answer, and the right one.  (That there is an answer is Terminates.)    *)
(***************************************************************************)
THEOREM LoopAnswersAsPower == LoopSpec => Quote!Init /\ [][Quote!Answer]_(Quote!vars)
<1>1. LoopInit => Quote!Init
  BY PowerLoopAssumption DEF LoopInit, Quote!Init
<1>2. LoopInv /\ [LoopNext]_loopVars => [Quote!Answer]_(Quote!vars)
  <2>1. SUFFICES ASSUME LoopInv, LoopNext PROVE [Quote!Answer]_(Quote!vars)
    BY DEF loopVars, Quote!vars
  <2>2. UNCHANGED <<base, exponent>> /\ answer = Pending
    BY <2>1 DEF LoopNext, Begin, Pass, Return
  <2>3. answer' # Pending => answer' = RPow(base, exponent)
    BY <2>1, BeginKeepsInv, PassKeepsInv, ReturnKeepsInv DEF LoopNext
  <2>4. QED
    BY <2>2, <2>3, SamePower DEF Quote!Answer, Quote!vars
<1>3. QED
  BY InitLoopInv, StepKeepsLoopInv, <1>1, <1>2, PTL DEF LoopSpec

-----------------------------------------------------------------------------
(* What does not fit. *)

\* The power itself, in the double precision of a product, does not fit.
TooLarge(b, k) == Upper(b, k) * RAY + (RAY \div 2) * Unit(k) > U256_MAX * Unit(k)

LEMMA UnitBelowUpper ==
  ASSUME NEW b \in Nat \ {0}, b >= RAY
  PROVE  \A j \in Nat : Raised[j][RAY * 2 * RAY] <= Raised[j][b] * Raised[j][2 * RAY + 1]
<1> DEFINE c    == RAY * 2 * RAY
           more == 2 * RAY + 1
           Good == {j \in Nat : Raised[j][c] <= Raised[j][b] * Raised[j][more]}
<1>1. c \in Nat \ {0} /\ more \in Nat \ {0} /\ c <= b * more
  <2>1. RAY \in Nat /\ c = RAY * (2 * RAY)
    BY Bases3, SMT
  <2>2. RAY * (2 * RAY) <= b * more
    BY <2>1, ProductMonotone, SMT
  <2>3. QED
    BY <2>1, <2>2, Bases3
<1> HIDE DEF c, more
<1>2. 0 \in Good
  BY <1>1, RaisedSteps, SMT
<1>3. ASSUME NEW j \in Good PROVE j + 1 \in Good
  <2> DEFINE p == Raised[j][c]
             q == Raised[j][b]
             r == Raised[j][more]
  <2>1. p \in Nat /\ q \in Nat /\ r \in Nat /\ p <= q * r /\ j + 1 \in Nat
    BY <1>1, RaisedType, SMT
  <2>2. Raised[j + 1][c] = c * p /\ Raised[j + 1][b] = b * q /\ Raised[j + 1][more] = more * r
    BY <1>1, RaisedSteps
  <2> HIDE DEF p, q, r
  <2>3. q * r \in Nat /\ b * more \in Nat
    BY <1>1, <2>1, SMT
  <2>4. c * p <= (b * more) * (q * r)
    BY <1>1, <2>1, <2>3, ProductMonotone
  <2>5. (b * more) * (q * r) = (b * q) * (more * r)
    BY <1>1, <2>1, SMT
  <2>6. QED
    BY <2>1, <2>2, <2>4, <2>5
<1> HIDE DEF Good
<1>4. Good = Nat
  <2>1. Good \in SUBSET Nat
    BY DEF Good
  <2>2. QED
    BY <1>2, <1>3, <2>1, GoesOn
<1>5. QED
  BY <1>4 DEF Good, c, more

\* With more factors the bound does not fall.
LEMMA UpperGrows ==
  ASSUME NEW b \in Nat \ {0}, b >= RAY, NEW k \in Nat \ {0}, NEW m \in Nat \ {0}, m <= k
  PROVE  Upper(b, m) * Unit(k) <= Upper(b, k) * Unit(m)
<1> DEFINE c    == RAY * 2 * RAY
           more == 2 * RAY + 1
           u    == Upper(b, m)
           s    == Unit(m)
<1>1. c \in Nat \ {0} /\ more \in Nat \ {0} /\ u \in Nat /\ s \in Nat
  BY Bases3, BoundTypes
<1>2. CASE m = k
  <2>1. u * s \in Nat
    <3> HIDE DEF u, s
    <3>1. QED
      BY <1>1, SMT
  <2>2. QED
    BY <1>2, <2>1, SMT
<1>3. CASE m # k
  <2> DEFINE j == k - m
             t == Unit(j)
             w == Upper(b, j)
  <2>1. j \in Nat \ {0} /\ m + j = k /\ j - 1 \in Nat /\ (j - 1) + 1 = j /\ j \in Nat
    BY <1>3, SMT
  <2> HIDE DEF j
  <2>2. t \in Nat /\ w \in Nat
    BY <2>1, BoundTypes
  <2>3. Unit(k) = (s * t) * c /\ Upper(b, k) = (u * w) * more
    <3>1. Unit(m + j) = (s * t) * c
      BY <2>1, BoundsAdd
    <3>2. Upper(b, m + j) = (u * w) * more
      BY <2>1, BoundsAdd
    <3> HIDE DEF c, more, u, s, t, w
    <3>3. QED
      BY <2>1, <3>1, <3>2, Zenon
  <2>4. t * c <= w * more
    <3> DEFINE p == Raised[j][b]
               q == Raised[j - 1][more]
               o == Raised[j - 1][c]
    <3>1. p \in Nat /\ q \in Nat /\ o \in Nat /\ t = o /\ w = p * q
      BY <1>1, <2>1, RaisedType DEF Unit, Upper
    <3>2. Raised[j][c] = c * o /\ Raised[j][more] = more * q
      BY <1>1, <2>1, RaisedSteps
    <3>3. Raised[j][c] <= p * Raised[j][more]
      BY <2>1, UnitBelowUpper
    <3> HIDE DEF p, q, o, c, more, t, w
    <3>4. c * o = o * c /\ p * (more * q) = (p * q) * more
      BY <1>1, <3>1, SMT
    <3>5. QED
      BY <3>1, <3>2, <3>3, <3>4
  <2> HIDE DEF c, more, u, s, t, w
  <2>5. u * s \in Nat /\ t * c \in Nat /\ w * more \in Nat
    BY <1>1, <2>2, SMT
  <2>6. (u * s) * (t * c) <= (u * s) * (w * more)
    BY <2>4, <2>5, ProductMonotone, SMT
  <2>7. u * ((s * t) * c) = (u * s) * (t * c) /\ ((u * w) * more) * s = (u * s) * (w * more)
    BY <1>1, <2>2, SMT
  <2>8. QED
    BY <2>3, <2>6, <2>7 DEF u, s
<1>4. QED
  BY <1>2, <1>3

\* The product of two powers with their roundings, before its own.
LEMMA ProductBelow ==
  ASSUME NEW b \in Nat \ {0}, NEW i \in Nat \ {0}, NEW j \in Nat \ {0},
         NEW v \in Nat, NEW w \in Nat, Nearly(v, b, i), Nearly(w, b, j)
  PROVE  (v * w) * Unit(i + j) <= Upper(b, i + j) * RAY
<1> DEFINE c == RAY * 2 * RAY
           s == Unit(i)
           t == Unit(j)
           up == Upper(b, i) * Upper(b, j)
           mid == (v * s) * (w * t)
           more == 2 * RAY + 1
<1>1. c \in Nat /\ s \in Nat /\ t \in Nat /\ more \in Nat /\ RAY \in Nat
  BY Bases3, BoundTypes
<1>2. mid \in Nat /\ up \in Nat /\ mid <= up
  <2>1. Upper(b, i) \in Nat /\ Upper(b, j) \in Nat /\ v * s \in Nat /\ w * t \in Nat
    BY <1>1, BoundTypes, SMT
  <2>2. v * s <= Upper(b, i) /\ w * t <= Upper(b, j)
    BY DEF Nearly
  <2> HIDE DEF s, t
  <2>3. QED
    BY <2>1, <2>2, ProductMonotone
<1>3. c <= more * RAY /\ more * RAY \in Nat
  <2>1. c = (2 * RAY) * RAY
    BY <1>1, SMT
  <2>2. (2 * RAY) * RAY <= more * RAY /\ more * RAY \in Nat
    BY <1>1, ProductMonotone, SMT
  <2>3. QED
    BY <2>1, <2>2
<1>4. Unit(i + j) = (s * t) * c /\ Upper(b, i + j) = up * more
  BY BoundsAdd
<1> HIDE DEF c, s, t, up, more
<1>5. (v * w) * ((s * t) * c) = mid * c
  BY <1>1, SMT
<1> HIDE DEF mid
<1>6. mid * c <= up * (more * RAY)
  BY <1>1, <1>2, <1>3, ProductMonotone
<1>7. up * (more * RAY) = (up * more) * RAY
  BY <1>1, <1>2, SMT
<1>8. QED
  BY <1>4, <1>5, <1>6, <1>7

\* A product that does not fit on the way: nor does the power.
LEMMA RefusedIsTooLarge ==
  ASSUME NEW b \in Nat \ {0}, b >= RAY, NEW k \in Nat \ {0}, NEW m \in Nat \ {0}, m <= k,
         NEW p \in Nat, p * Unit(m) <= Upper(b, m) * RAY, p + RAY \div 2 > U256_MAX
  PROVE  TooLarge(b, k)
<1> DEFINE s == Unit(m)
           t == Unit(k)
           u == Upper(b, m)
           w == Upper(b, k)
           half == RAY \div 2
<1>1. /\ RAY \in Nat /\ U256_MAX \in Nat /\ half \in Nat
      /\ s \in Nat \ {0} /\ t \in Nat \ {0} /\ u \in Nat /\ w \in Nat
      /\ u * t <= w * s
  BY RAYAssumption, CompoundingAssumption, HalfRay, BoundTypes, UpperGrows
<1> HIDE DEF s, t, u, w, half
<1>2. p * s <= u * RAY /\ p + half > U256_MAX
  BY DEF s, u, half
<1>3. (p * s) * t <= (u * RAY) * t /\ (u * t) * RAY <= (w * s) * RAY
  <2>1. p * s \in Nat /\ u * RAY \in Nat /\ u * t \in Nat /\ w * s \in Nat
    BY <1>1, SMT
  <2>2. QED
    BY <1>1, <1>2, <2>1, ProductMonotone
<1>4. (p * s) * t = (p * t) * s /\ (u * RAY) * t = (u * t) * RAY /\ (w * s) * RAY = (w * RAY) * s
  BY <1>1, SMT
<1>5. p * t \in Nat /\ w * RAY \in Nat /\ (p * t) * s \in Nat /\ (u * t) * RAY \in Nat
      /\ (w * RAY) * s \in Nat
  BY <1>1, SMT
<1>6. (p * t) * s <= (w * RAY) * s
  BY <1>3, <1>4, <1>5, SMT
<1>7. p * t <= w * RAY
  BY <1>1, <1>5, <1>6, CancelFactor
<1>8. (U256_MAX + 1) * t <= (p + half) * t
  BY <1>1, <1>2, ProductMonotone, SMT
<1>9. /\ (U256_MAX + 1) * t = U256_MAX * t + t /\ (p + half) * t = p * t + half * t
      /\ U256_MAX * t \in Nat /\ half * t \in Nat
  BY <1>1, SMT
<1>10. w * RAY + half * t > U256_MAX * t
  BY <1>1, <1>5, <1>7, <1>8, <1>9, SMT
<1>11. QED
  BY <1>10 DEF TooLarge, t, w, half

-----------------------------------------------------------------------------
(* The loop. *)

\* x holds one power and z another, and the bits left make them the one asked for.
Halfway ==
  \E i \in Nat \ {0}, k \in Nat :
    /\ k + (2 * i) * n = exponent
    /\ x >= RAY /\ z >= RAY
    /\ Nearly(x, base, i)
    /\ IF k = 0 THEN z = RAY ELSE Nearly(z, base, k)

AccuracyInv ==
  base >= RAY /\ exponent >= 1 =>
    /\ running /\ answer = Pending => Halfway
    /\ answer \in Nat  => Nearly(answer, base, exponent)
    /\ answer = NoRate => TooLarge(base, exponent)

LEMMA BeginIsAccurate ==
  ASSUME LoopInv, Begin
  PROVE  AccuracyInv'
<1>1. /\ LoopTypeOK /\ ~running /\ answer = Pending /\ x = base
      /\ UNCHANGED <<base, exponent, x>>
  BY DEF LoopInv, Begin
<1>2. SUFFICES ASSUME base >= RAY, exponent >= 1
               PROVE  /\ running' /\ answer' = Pending => Halfway'
                      /\ answer' \in Nat  => Nearly(answer', base, exponent)
                      /\ answer' = NoRate => TooLarge(base, exponent)
  BY <1>1 DEF AccuracyInv, Nearly, TooLarge
<1>3. base \in Nat \ {0} /\ exponent \in Nat /\ RAY \in Nat \ {0}
  BY <1>1, <1>2, LoopTypes, RAYAssumption, CompoundingAssumption, SMT
<1>4. /\ answer' = Pending
      /\ z' = IF exponent % 2 = 0 THEN RAY ELSE base
      /\ n' = exponent \div 2
  BY <1>1, <1>3 DEF Begin
<1>5. Pending \notin Nat /\ Pending # NoRate
  BY PowerLoopAssumption
<1>6. Halfway'
  <2> DEFINE k == exponent % 2
  <2>1. k \in Nat /\ k + (2 * 1) * (exponent \div 2) = exponent /\ (k = 0 \/ k = 1)
    BY <1>3, SMT
  <2>2. Nearly(base, base, 1)
    BY <1>3, NearlyOnce
  <2>3. z' >= RAY /\ x' >= RAY /\ IF k = 0 THEN z' = RAY ELSE Nearly(z', base, k)
    BY <1>1, <1>2, <1>3, <1>4, <2>1, <2>2
  <2>4. 1 \in Nat \ {0}
    OBVIOUS
  <2> HIDE DEF k
  <2>5. \E i \in Nat \ {0}, j \in Nat :
          /\ j + (2 * i) * n' = exponent
          /\ x' >= RAY /\ z' >= RAY
          /\ Nearly(x', base, i)
          /\ IF j = 0 THEN z' = RAY ELSE Nearly(z', base, j)
    BY <1>1, <1>4, <2>1, <2>2, <2>3, <2>4
  <2>6. QED
    BY <1>1, <2>5 DEF Halfway, Nearly
<1>7. QED
  BY <1>4, <1>5, <1>6

LEMMA LastBit ==
  \A j \in Nat : /\ j \div 2 \in Nat
                 /\ j % 2 = 0 => j = 2 * (j \div 2)
                 /\ j % 2 = 1 => j = 2 * (j \div 2) + 1
                 /\ j % 2 = 0 \/ j % 2 = 1
BY SMT

LEMMA PassIsAccurate ==
  ASSUME LoopInv, AccuracyInv, Pass
  PROVE  AccuracyInv'
<1> DEFINE square  == RayMul(x, x)
           product == IF n % 2 = 1 THEN RayMul(z, square) ELSE z
<1>1. /\ LoopTypeOK /\ running /\ answer = Pending /\ n > 0
      /\ UNCHANGED <<base, exponent, running>>
  BY DEF LoopInv, Pass
<1>2. SUFFICES ASSUME base >= RAY, exponent >= 1
               PROVE  /\ running' /\ answer' = Pending => Halfway'
                      /\ answer' \in Nat  => Nearly(answer', base, exponent)
                      /\ answer' = NoRate => TooLarge(base, exponent)
  BY <1>1 DEF AccuracyInv, Nearly, TooLarge
<1>3. /\ base \in Nat \ {0} /\ exponent \in Nat \ {0} /\ RAY \in Nat \ {0} /\ RAY \in Nat
      /\ x \in Nat /\ z \in Nat /\ n \in Nat \ {0}
  BY <1>1, <1>2, LoopTypes, RAYAssumption, CompoundingAssumption, SMT
<1>4. PICK i \in Nat \ {0}, k \in Nat :
        /\ k + (2 * i) * n = exponent
        /\ x >= RAY /\ z >= RAY
        /\ Nearly(x, base, i)
        /\ IF k = 0 THEN z = RAY ELSE Nearly(z, base, k)
  BY <1>1, <1>2 DEF AccuracyInv, Halfway
<1> DEFINE m == i + i
<1>5. /\ m \in Nat \ {0} /\ 2 * i = m
      /\ n \div 2 \in Nat /\ (n % 2 = 0 \/ n % 2 = 1)
  <2>1. m \in Nat \ {0} /\ 2 * i = m
    BY SMT
  <2>2. QED
    BY <1>3, <2>1, LastBit
<1>6. k + m <= exponent /\ k + m \in Nat \ {0} /\ m <= exponent
  <2> HIDE DEF m
  <2>1. m <= m * n /\ m * n \in Nat
    BY <1>3, <1>5, ProductMonotone, SMT
  <2>2. QED
    BY <1>3, <1>4, <1>5, <2>1, SMT
<1>7. Pending \notin Nat /\ Pending # NoRate /\ NoRate \notin Nat
  BY RAYAssumption, CompoundingAssumption, PowerLoopAssumption
<1>8. CASE square = NoRate \/ product = NoRate
  <2>1. answer' = NoRate
    BY <1>8 DEF Pass, Product
  <2>2. TooLarge(base, exponent)
    <3>1. CASE square = NoRate
      <4>1. x * x \in Nat /\ x * x + RAY \div 2 > U256_MAX
        <5>1. x * x + RAY \div 2 \in Nat /\ U256_MAX \in Nat /\ x * x \in Nat
          BY <1>3, HalfRay, RAYAssumption, CompoundingAssumption, SMT
        <5>2. ~ (x * x + RAY \div 2 <= U256_MAX)
          BY <1>3, <3>1, RayMulType
        <5>3. QED
          BY <5>1, <5>2, SMT
      <4>2. (x * x) * Unit(m) <= Upper(base, m) * RAY
        BY <1>3, <1>4, ProductBelow
      <4> HIDE DEF m
      <4>3. QED
        BY <1>2, <1>3, <1>5, <1>6, <4>1, <4>2, RefusedIsTooLarge
    <3>2. CASE square # NoRate
      <4>1. square \in Nat /\ product = RayMul(z, square) /\ RayMul(z, square) = NoRate
        BY <1>3, <1>7, <1>8, <3>2, RayMulType
      <4>2. Nearly(square, base, m)
        BY <1>3, <1>4, <3>2, NearlyMultiplies
      <4> HIDE DEF square, product, m
      <4>3. z * square \in Nat /\ z * square + RAY \div 2 > U256_MAX
        <5>1. z * square + RAY \div 2 \in Nat /\ U256_MAX \in Nat /\ z * square \in Nat
          BY <1>3, <4>1, HalfRay, RAYAssumption, CompoundingAssumption, SMT
        <5>2. ~ (z * square + RAY \div 2 <= U256_MAX)
          BY <1>3, <4>1, RayMulType
        <5>3. QED
          BY <5>1, <5>2, SMT
      <4>4. CASE k = 0
        <5>1. z = RAY
          BY <1>4, <4>4
        <5>2. Upper(base, m) \in Nat /\ Unit(m) \in Nat /\ square * Unit(m) <= Upper(base, m)
          BY <1>3, <1>5, <4>2, BoundTypes DEF Nearly
        <5>3. (z * square) * Unit(m) = (square * Unit(m)) * RAY
          BY <1>3, <4>1, <5>1, <5>2, SMT
        <5>4. square * Unit(m) \in Nat
          BY <4>1, <5>2, SMT
        <5>5. (z * square) * Unit(m) <= Upper(base, m) * RAY
          BY <1>3, <5>2, <5>3, <5>4, ProductMonotone
        <5>6. QED
          BY <1>2, <1>3, <1>5, <1>6, <4>3, <5>5, RefusedIsTooLarge
      <4>5. CASE k # 0
        <5>1. k \in Nat \ {0} /\ Nearly(z, base, k)
          BY <1>4, <4>5
        <5>2. (z * square) * Unit(k + m) <= Upper(base, k + m) * RAY
          BY <1>3, <1>5, <4>1, <4>2, <5>1, ProductBelow
        <5>3. QED
          BY <1>2, <1>3, <1>6, <4>3, <5>2, RefusedIsTooLarge
      <4>6. QED
        BY <4>4, <4>5
    <3>3. QED
      BY <3>1, <3>2
  <2>3. QED
    BY <1>7, <2>1, <2>2
<1>9. CASE square # NoRate /\ product # NoRate
  <2>1. x' = square /\ z' = product /\ n' = n \div 2 /\ answer' = Pending
    BY <1>1, <1>9 DEF Pass, Product, Halved
  <2>2. square \in Nat /\ square >= RAY /\ Nearly(square, base, m)
    BY <1>3, <1>4, <1>9, OneRounding, NearlyMultiplies
  <2> HIDE DEF square, m
  <2>3. PICK j \in Nat :
          /\ j + (2 * m) * (n \div 2) = exponent
          /\ product >= RAY
          /\ IF j = 0 THEN product = RAY ELSE Nearly(product, base, j)
    <3>1. CASE n % 2 = 0
      <4>1. product = z
        BY <3>1, SMT
      <4>2. k + (2 * m) * (n \div 2) = exponent
        <5> DEFINE h == n \div 2
        <5>1. h \in Nat /\ n = 2 * h
          BY <1>3, <3>1, LastBit
        <5> HIDE DEF h
        <5>2. (2 * i) * n = (2 * m) * h
          BY <1>5, <5>1, SMT
        <5>3. QED
          BY <1>4, <5>2 DEF h
      <4> HIDE DEF product
      <4>3. QED
        BY <1>4, <4>1, <4>2
    <3>2. CASE n % 2 = 1
      <4>1. product = RayMul(z, square) /\ RayMul(z, square) # NoRate
        BY <1>9, <3>2
      <4> HIDE DEF product
      <4>2. (k + m) + (2 * m) * (n \div 2) = exponent
        <5> DEFINE h == n \div 2
        <5>1. h \in Nat /\ n = 2 * h + 1
          BY <1>3, <3>2, LastBit
        <5> HIDE DEF h
        <5>2. m * n = m + (2 * m) * h
          BY <1>5, <5>1, SMT
        <5>3. (2 * i) * n = m * n /\ m * n \in Nat /\ (2 * m) * h \in Nat
          BY <1>3, <1>5, <5>1, SMT
        <5>4. QED
          BY <1>4, <1>5, <5>2, <5>3, SMT DEF h
      <4>3. product >= RAY /\ product \in Nat
        BY <1>3, <1>4, <2>2, <4>1, OneRounding
      <4>4. Nearly(product, base, k + m)
        <5>1. CASE k = 0
          <6>1. product = square /\ k + m = m
            BY <1>4, <1>5, <2>2, <4>1, <5>1, RayMulNeutral, SMT
          <6>2. QED
            BY <2>2, <6>1
        <5>2. CASE k # 0
          BY <1>3, <1>4, <1>5, <2>2, <4>1, <5>2, NearlyMultiplies
        <5>3. QED
          BY <5>1, <5>2
      <4>5. QED
        BY <1>6, <4>2, <4>3, <4>4
    <3>3. QED
      BY <1>5, <3>1, <3>2
  <2> HIDE DEF product
  <2>4. \E o \in Nat \ {0}, l \in Nat :
          /\ l + (2 * o) * n' = exponent
          /\ x' >= RAY /\ z' >= RAY
          /\ Nearly(x', base, o)
          /\ IF l = 0 THEN z' = RAY ELSE Nearly(z', base, l)
    BY <1>5, <2>1, <2>2, <2>3
  <2>5. Halfway'
    BY <1>1, <2>4 DEF Halfway, Nearly
  <2>6. QED
    BY <1>7, <2>1, <2>5
<1>10. QED
  BY <1>8, <1>9

LEMMA ReturnIsAccurate ==
  ASSUME LoopInv, AccuracyInv, Return
  PROVE  AccuracyInv'
<1>1. /\ LoopTypeOK /\ running /\ answer = Pending /\ n = 0 /\ answer' = z
      /\ UNCHANGED <<base, exponent, running, x, n, z>>
  BY DEF LoopInv, Return
<1>2. SUFFICES ASSUME base >= RAY, exponent >= 1
               PROVE  /\ running' /\ answer' = Pending => Halfway'
                      /\ answer' \in Nat  => Nearly(answer', base, exponent)
                      /\ answer' = NoRate => TooLarge(base, exponent)
  BY <1>1 DEF AccuracyInv, Nearly, TooLarge
<1>3. Pending \notin Nat /\ NoRate \notin Nat /\ z \in Nat /\ exponent \in Nat
  BY <1>1, LoopTypes, RAYAssumption, CompoundingAssumption, PowerLoopAssumption
<1>4. PICK i \in Nat \ {0}, k \in Nat :
        /\ k + (2 * i) * n = exponent
        /\ IF k = 0 THEN z = RAY ELSE Nearly(z, base, k)
  BY <1>1, <1>2 DEF AccuracyInv, Halfway
<1>5. k = exponent /\ k # 0
  BY <1>1, <1>2, <1>3, <1>4, SMT
<1>6. QED
  BY <1>1, <1>3, <1>4, <1>5

LEMMA StepIsAccurate == LoopInv /\ AccuracyInv /\ [LoopNext]_loopVars => AccuracyInv'
<1>1. AccuracyInv /\ UNCHANGED loopVars => AccuracyInv'
  BY DEF AccuracyInv, Halfway, Nearly, TooLarge, loopVars
<1>2. QED
  BY <1>1, BeginIsAccurate, PassIsAccurate, ReturnIsAccurate DEF LoopNext

(***************************************************************************)
(* The loop answers in the bits it has, within the roundings of the        *)
(* multiplications a power takes, whichever it squares first, and refuses  *)
(* only a power that does not fit: for every base, exponent, precision and *)
(* width.                                                                  *)
(***************************************************************************)
THEOREM LoopIsAccurate == LoopSpec => []AnswerIsSound
<1>1. LoopInv /\ AccuracyInv => AnswerIsSound
  <2>1. SUFFICES ASSUME LoopInv, AccuracyInv, Comparable
                 PROVE  /\ answer \in Nat => /\ answer * Scale <= AtMost
                                             /\ answer * Scale >= AtLeast
                        /\ answer = NoRate => AtMost * RAY + (RAY \div 2) * Scale > U256_MAX * Scale
    BY DEF AnswerIsSound, Accurate, RefusedOnlyIfTooLarge, LoopInv
  <2>2. base >= RAY /\ exponent >= 1 /\ exponent \in Nat /\ base \in Nat \ {0}
    <3>1. base >= RAY /\ exponent \in 1 .. MaxExact /\ MaxExact \in Nat
      BY <2>1, PowerLoopAssumption DEF Comparable
    <3>2. base \in Nat /\ RAY \in Nat \ {0}
      BY <2>1, LoopTypes, RAYAssumption, CompoundingAssumption DEF LoopInv
    <3>3. QED
      BY <3>1, <3>2, SMT
  <2>3. /\ Scale = Unit(exponent)
        /\ AtMost = Upper(base, exponent) /\ AtLeast = Lower(base, exponent)
    BY DEF Scale, AtMost, AtLeast, Exactly, Unit, Upper, Lower
  <2>4. ASSUME answer \in Nat
        PROVE  answer * Scale <= AtMost /\ answer * Scale >= AtLeast
    <3>1. Nearly(answer, base, exponent)
      BY <2>1, <2>2, <2>4 DEF AccuracyInv
    <3>2. QED
      BY <2>3, <3>1 DEF Nearly
  <2>5. ASSUME answer = NoRate
        PROVE  AtMost * RAY + (RAY \div 2) * Scale > U256_MAX * Scale
    BY <2>1, <2>2, <2>3, <2>5 DEF AccuracyInv, TooLarge
  <2>6. QED
    BY <2>4, <2>5
<1>2. LoopInit => AccuracyInv
  BY RAYAssumption, CompoundingAssumption, PowerLoopAssumption DEF LoopInit, AccuracyInv
<1>3. QED
  BY InitLoopInv, StepKeepsLoopInv, StepIsAccurate, <1>1, <1>2, PTL DEF LoopSpec
=============================================================================
