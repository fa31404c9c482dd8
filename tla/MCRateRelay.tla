---------------------------- MODULE MCRateRelay -----------------------------
(* Rates of 0, 3 and 10 percent a second for TLC. *)
EXTENDS RateRelay

MCSsrs == {1000, 1030, 1100}
=============================================================================
