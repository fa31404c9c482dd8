--------------------------- MODULE RedemptionRate ---------------------------
(***************************************************************************)
(* The redemption rate of a pool (program/src/curve/redemption_rate.rs,    *)
(* redemption_rate_processor.rs): a factor chi that was right at time rho  *)
(* and has grown by ssr / RAY every second since.  Nobody posts the rate;  *)
(* every trade computes it from the clock, and SetRates moves the anchor.  *)
(* Who may call SetRates is for module Permission.                         *)
(***************************************************************************)
EXTENDS Compounding

CONSTANTS
  MaxTime,    \* bound: the last timestamp of the model
  Ssrs,       \* the ssr and max_ssr values instructions carry
  Chis        \* the chi values instructions carry

Times == 0 .. MaxTime

ASSUME RateAssumption ==
  /\ MaxTime \in Nat
  /\ Ssrs \subseteq Nat /\ Chis \subseteq Nat
  /\ \A chi \in Chis : RAY * chi <= U256_MAX   \* 10^27 times a u128

-----------------------------------------------------------------------------
(* struct RedemptionRateCurve. *)
RedemptionRateCurve == [max_ssr : Nat, ssr : Nat, rho : Nat, chi : Nat]

\* Mutant: the second the anchor was set in is counted as well.
ConversionRateOneSecondMore(c, time) ==
  IF time < c.rho THEN NoRate ELSE Compounded(c.chi, c.ssr, time - c.rho + 1)

\* get_conversion_rate
ConversionRate(c, time) ==
  IF time = c.rho THEN c.chi
  ELSE IF time < c.rho THEN NoRate
  ELSE Compounded(c.chi, c.ssr, time - c.rho)

VARIABLES
  now,          \* Clock::unix_timestamp
  initialized,  \* the pool exists
  curve         \* its RedemptionRateCurve

vars == <<now, initialized, curve>>

TypeOK ==
  /\ now \in Times
  /\ initialized \in BOOLEAN
  /\ curve \in RedemptionRateCurve

Rate == ConversionRate(curve, now)

Init ==
  /\ now \in Times
  /\ initialized = FALSE
  /\ curve = [max_ssr |-> 0, ssr |-> 0, rho |-> 0, chi |-> 0]

(***************************************************************************)
(* process_initialize with this curve: the four numbers are taken from the *)
(* instruction as they are, and must answer with a rate above zero.        *)
(***************************************************************************)
Initialize(c) ==
  /\ ~initialized
  /\ ConversionRate(c, now) \notin {NoRate, 0}
  /\ initialized' = TRUE
  /\ curve' = c
  /\ UNCHANGED now

\* Mutant: a factor below the last one is let through.
AnchorAllowedBelow(rho, chi) ==
  curve.rho # 0 =>
    /\ rho >= curve.rho
    /\ curve.max_ssr # 0 =>
         LET chi_max == Compounded(curve.chi, curve.max_ssr, rho - curve.rho)
         IN  chi_max # NoRate /\ chi <= chi_max

\* Mutant: the growth is counted up to now instead of up to the new anchor.
AnchorAllowedUpToNow(rho, chi) ==
  curve.rho # 0 =>
    /\ rho >= curve.rho
    /\ chi >= curve.chi
    /\ curve.max_ssr # 0 =>
         LET chi_max == Compounded(curve.chi, curve.max_ssr, now - curve.rho)
         IN  chi_max # NoRate /\ chi <= chi_max

\* Mutant: an anchor from before the last one is let through.
AnchorAllowedEarlier(rho, chi) ==
  curve.rho # 0 =>
    /\ chi >= curve.chi
    /\ curve.max_ssr # 0 /\ rho >= curve.rho =>
         LET chi_max == Compounded(curve.chi, curve.max_ssr, rho - curve.rho)
         IN  chi_max # NoRate /\ chi <= chi_max

\* Mutant: a second anchor of the same second is not.
AnchorAllowedOncePerSecond(rho, chi) ==
  curve.rho # 0 =>
    /\ rho > curve.rho
    /\ chi >= curve.chi
    /\ curve.max_ssr # 0 =>
         LET chi_max == Compounded(curve.chi, curve.max_ssr, rho - curve.rho)
         IN  chi_max # NoRate /\ chi <= chi_max

\* set_rates checks the growth of chi only once an anchor other than 0 is known.
AnchorAllowed(rho, chi) ==
  curve.rho # 0 =>
    /\ rho >= curve.rho
    /\ chi >= curve.chi
    /\ curve.max_ssr # 0 =>
         LET chi_max == Compounded(curve.chi, curve.max_ssr, rho - curve.rho)
         IN  chi_max # NoRate /\ chi <= chi_max

\* Mutant: the anchor may lie ahead of the clock.
SetRatesAhead(ssr, rho, chi) ==
  /\ initialized
  /\ ssr >= RAY
  /\ curve.max_ssr # 0 => ssr <= curve.max_ssr
  /\ AnchorAllowed(rho, chi)
  /\ curve' = [curve EXCEPT !.ssr = ssr, !.rho = rho, !.chi = chi]
  /\ UNCHANGED <<now, initialized>>

(***************************************************************************)
(* process_curve_update: SetRates.                                         *)
(***************************************************************************)
RatesAllowed(ssr, rho, chi) ==
  /\ rho <= now
  /\ ssr >= RAY
  /\ curve.max_ssr # 0 => ssr <= curve.max_ssr
  /\ AnchorAllowed(rho, chi)

SetRates(ssr, rho, chi) ==
  /\ initialized
  /\ RatesAllowed(ssr, rho, chi)
  /\ curve' = [curve EXCEPT !.ssr = ssr, !.rho = rho, !.chi = chi]
  /\ UNCHANGED <<now, initialized>>

\* The clock moves on by any number of seconds.
Tick ==
  /\ now' \in (now + 1) .. MaxTime
  /\ UNCHANGED <<initialized, curve>>

InstructionCurves == [max_ssr : Ssrs \cup {0}, ssr : Ssrs, rho : Times, chi : Chis]

Next ==
  \/ \E c \in InstructionCurves : Initialize(c)
  \/ \E ssr \in Ssrs, rho \in Times, chi \in Chis : SetRates(ssr, rho, chi)
  \/ Tick

Spec == Init /\ [][Next]_vars

-----------------------------------------------------------------------------
(* Properties. *)

(***************************************************************************)
(* The curve fails to quote a rate for one reason only: the power, or its  *)
(* product with chi, has outgrown the 256 bits.  No sequence of Initialize *)
(* and SetRates leaves an anchor ahead of the clock, with which trades     *)
(* would fail until the clock caught up.                                   *)
(***************************************************************************)
QuotesUntilOverflow ==
  initialized /\ Rate = NoRate =>
    /\ curve.rho < now
    /\ Compounded(curve.chi, curve.ssr, now - curve.rho) = NoRate

(***************************************************************************)
(* A pool nobody updated until its rate outgrew the 256 bits is not lost:  *)
(* the same anchor posted again with a rate that stands still is accepted, *)
(* and quotes at any later time.  set_rates computes the cap up to the new *)
(* anchor and not up to the clock, whose power has long outgrown them too. *)
(* A max_ssr below RAY lets no rate in at all and is left out.             *)
(***************************************************************************)
StalePoolRecovers ==
  initialized /\ Rate = NoRate /\ (curve.max_ssr = 0 \/ curve.max_ssr >= RAY) =>
    /\ RatesAllowed(RAY, curve.rho, curve.chi)
    /\ \A time \in now .. MaxTime :
         ConversionRate([curve EXCEPT !.ssr = RAY], time) # NoRate

(***************************************************************************)
(* Between two calls of SetRates the rate never falls when time passes,    *)
(* although _rpow rounds at every squaring and takes another path through  *)
(* its loop for every exponent.                                            *)
(***************************************************************************)
AccrualNeverFalls ==
  [][curve.ssr >= RAY /\ UNCHANGED curve /\ Rate # NoRate /\ Rate' # NoRate
       => Rate' >= Rate]_vars

(***************************************************************************)
(* Once an anchor is set, no step lets the rate fall below the factor that *)
(* was committed before it, whichever mix of time and SetRates follows.    *)
(***************************************************************************)
NeverBelowCommitted ==
  [][initialized /\ curve.rho # 0 /\ curve'.ssr >= RAY /\ Rate' # NoRate
       => Rate' >= curve.chi]_vars

(***************************************************************************)
(* The ceiling max_ssr promises for a later time: what the anchor becomes  *)
(* by then if it grows by max_ssr all the way.                             *)
(***************************************************************************)
Ceiling(c, time) == Compounded(c.chi, c.max_ssr, time - c.rho)
Capped(c) == c.rho # 0 /\ c.max_ssr # 0

\* While ssr is within the cap the rate is not above its ceiling.
RateWithinCeiling ==
  initialized /\ Capped(curve) /\ curve.ssr <= curve.max_ssr
    /\ Rate # NoRate /\ Ceiling(curve, now) # NoRate
    => Rate <= Ceiling(curve, now)

(***************************************************************************)
(* Posting often does not beat the cap: no step raises the ceiling of any  *)
(* later time by more than one unit, and one part in RAY, the roundings of *)
(* _rpow, for every second it compounds.  chi may otherwise be put         *)
(* anywhere below the ceiling at its rho.                                  *)
(***************************************************************************)
CeilingNeverRises ==
  [][initialized /\ Capped(curve) =>
       \A time \in now' .. MaxTime :
         \/ NoRate \in {Ceiling(curve, time), Ceiling(curve', time)}
         \/ Ceiling(curve', time) * (RAY - (time - curve.rho))
              <= (Ceiling(curve, time) + 1) * RAY]_vars
=============================================================================
