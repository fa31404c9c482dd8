-------------------------- MODULE MCRedemptionRate --------------------------
(* Rates for TLC: a savings rate of 0, 3 or 12 percent a second, one that  *)
(* shrinks and one that outgrows the 256 bits; factors close enough to     *)
(* each other to sit just below and just above the ceiling of 12 percent.  *)
EXTENDS RedemptionRate

MCSsrs == {70, 100, 103, 112, 199}
MCChis == {0, 90} \cup 100 .. 114
=============================================================================
