------------------------------ MODULE RateRelay -----------------------------
(***************************************************************************)
(* How a pool follows the protocol its token comes from (README.md,        *)
(* "RedemptionRate Curve Explanation"): a source with the same model of    *)
(* ssr, rho and chi on another chain, an updater that posts what it reads  *)
(* there with SetRates, and transactions that are lost, delayed and        *)
(* reordered on the way.  The pool is module RedemptionRate, which this    *)
(* module extends; source and updater are outside the repository.          *)
(***************************************************************************)
EXTENDS RedemptionRate

CONSTANTS
  SourceChi,    \* the source's factor at the start
  MaxSsr,       \* the pool's max_ssr, 0 for none
  Skew,         \* how far the source's clock is ahead of the pool's
  MaxChanges    \* bound: how often the source changes its rate

ASSUME RelayAssumption ==
  /\ MaxTime >= 1 /\ SourceChi \in Nat
  /\ MaxSsr \in Nat /\ Skew \in Nat /\ MaxChanges \in Nat

VARIABLES
  source,     \* ssr, rho and chi at the source, and the number of its rate
  inFlight,   \* the SetRates transactions under way, what was read of the source
  applied     \* the number of the rate the pool last accepted, 0 for none

relayVars == <<now, initialized, curve, source, inFlight, applied>>

Reading == [ssr : Ssrs, rho : Nat, chi : Nat, number : 1 .. MaxChanges + 1]

RelayTypeOK ==
  /\ TypeOK
  /\ source \in Reading
  /\ inFlight \subseteq Reading
  /\ applied \in 0 .. source.number
  /\ curve.rho \in 0 .. now

RelayInit ==
  /\ now = 1
  /\ initialized = FALSE
  /\ curve = [max_ssr |-> 0, ssr |-> 0, rho |-> 0, chi |-> 0]
  /\ source \in [ssr : Ssrs, rho : {1}, chi : {SourceChi}, number : {1}]
  /\ inFlight = {}
  /\ applied = 0

-----------------------------------------------------------------------------
(* The source: it compounds with the same function when it is asked to,    *)
(* and changes its rate only when it is up to date.                        *)

SourceNow  == now + Skew
SourceRate == Compounded(source.chi, source.ssr, now - source.rho)

Drip ==
  /\ source.rho < SourceNow /\ SourceNow <= MaxTime
  /\ LET chi == Compounded(source.chi, source.ssr, SourceNow - source.rho)
     IN  chi # NoRate /\ source' = [source EXCEPT !.rho = SourceNow, !.chi = chi]
  /\ UNCHANGED <<now, initialized, curve, inFlight, applied>>

ChangeRate ==
  /\ source.rho = SourceNow /\ source.number <= MaxChanges
  /\ \E ssr \in Ssrs \ {source.ssr} :
       source' = [source EXCEPT !.ssr = ssr, !.number = @ + 1]
  /\ UNCHANGED <<now, initialized, curve, inFlight, applied>>

-----------------------------------------------------------------------------
(* The pool. *)

\* A pool is opened with the source's anchor, or before the first is known.
Open ==
  /\ \/ /\ Initialize([max_ssr |-> MaxSsr, ssr |-> source.ssr,
                            rho |-> source.rho, chi |-> source.chi])
        /\ applied' = source.number
     \/ /\ Initialize([max_ssr |-> MaxSsr, ssr |-> RAY, rho |-> 0, chi |-> RAY])
        /\ applied' = 0
  /\ UNCHANGED <<source, inFlight>>

\* SetRates with what was read, accepted or refused; a transaction runs once.
Deliver(r) ==
  /\ initialized
  /\ r \in inFlight
  /\ inFlight' = inFlight \ {r}
  /\ \/ /\ SetRates(r.ssr, r.rho, r.chi)
        /\ applied' = r.number
     \/ /\ ~RatesAllowed(r.ssr, r.rho, r.chi)
        /\ UNCHANGED <<now, initialized, curve, applied>>
  /\ UNCHANGED source

Clock == Tick /\ UNCHANGED <<source, inFlight, applied>>

-----------------------------------------------------------------------------
(* The updater and the network. *)

Mirrors(r) == curve.ssr = r.ssr /\ curve.rho = r.rho /\ curve.chi = r.chi

\* The updater posts what it reads as long as the pool does not have it.
Post ==
  /\ initialized /\ ~Mirrors(source)
  /\ source \notin inFlight
  /\ inFlight' = inFlight \cup {source}
  /\ UNCHANGED <<now, initialized, curve, source, applied>>

Lose ==
  /\ \E r \in inFlight : inFlight' = inFlight \ {r}
  /\ UNCHANGED <<now, initialized, curve, source, applied>>

RelayNext ==
  \/ Drip \/ ChangeRate
  \/ Open \/ Clock
  \/ Post \/ Lose
  \/ \E r \in inFlight : Deliver(r)

\* A reading that is posted again and again gets through once it is acceptable.
DeliverNewest ==
  RatesAllowed(source.ssr, source.rho, source.chi) /\ Deliver(source)

Fairness ==
  WF_relayVars(Open) /\ WF_relayVars(Clock) /\ WF_relayVars(Post) /\ SF_relayVars(DeliverNewest)

RelaySpec == RelayInit /\ [][RelayNext]_relayVars /\ Fairness

-----------------------------------------------------------------------------
(* Properties. *)

(***************************************************************************)
(* README.md: "Provided the underlying rate of accrual has not changed,    *)
(* this will replicate (with a very high degree of precision) the rate     *)
(* that would be reflected at the same time on the source".  However often *)
(* the source has compounded since, neither rate is ahead of the other by  *)
(* more than one unit and, for every second since the pool's anchor, the   *)
(* roundings of that second: one part in RAY, and for the source, which    *)
(* may round its factor down every second, two.  Of a factor below one a   *)
(* unit is more than one part in RAY.                                      *)
(***************************************************************************)
Replicates ==
  initialized /\ applied = source.number /\ source.ssr >= RAY /\ curve.chi >= RAY
    /\ source.rho <= now /\ Rate # NoRate /\ SourceRate # NoRate
    => LET seconds == now - curve.rho
       IN  /\ curve.ssr = source.ssr
           /\ SourceRate * (RAY - seconds) <= (Rate + 1) * RAY
           /\ Rate * (RAY - 2 * seconds) <= (SourceRate + 1) * RAY

(***************************************************************************)
(* Transactions that overtake each other do not take the pool back: when a *)
(* rate older than the one accepted is accepted, it is one of the same     *)
(* second, with the same factor.                                           *)
(***************************************************************************)
OlderOnlyWithinASecond ==
  [][applied' < applied => curve'.rho = curve.rho /\ curve'.chi = curve.chi]_relayVars

(***************************************************************************)
(* What the source really reads now is never refused for its anchor or for *)
(* its rate: only a clock that is behind the source's can make it wait.    *)
(***************************************************************************)
NewestIsWelcome ==
  initialized /\ source.rho <= now
    => RatesAllowed(source.ssr, source.rho, source.chi)

(***************************************************************************)
(* However many transactions are lost or overtaken, and although a late    *)
(* one may bring an older rate back, an updater that keeps posting what it *)
(* reads makes the pool mirror the source in the end.                      *)
(***************************************************************************)
CatchesUp == <>[]Mirrors(source)

(***************************************************************************)
(* Readings stay those of the source, and the pool's rate replicates the   *)
(* one it accepted last.                                                   *)
(***************************************************************************)
ReplicatesSafely == RelayTypeOK /\ Replicates
=============================================================================
