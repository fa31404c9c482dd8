---------------------------- MODULE MCPermission ----------------------------
(* Two pools and two keys for TLC; any two rates tell SetRates apart. *)
EXTENDS Permission

CONSTANTS s1, s2, k1, k2

MCSwaps == {s1, s2}
MCKeys  == {k1, k2}
=============================================================================
