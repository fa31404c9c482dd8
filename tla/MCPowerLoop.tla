---------------------------- MODULE MCPowerLoop -----------------------------
(* Powers for TLC: bases from nothing to more than twice the fixed-point   *)
(* one and half a minute of seconds.                                       *)
EXTENDS PowerLoop

MCBases     == 0 .. 9
MCExponents == 0 .. 33
=============================================================================
