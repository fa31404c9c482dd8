------------------------------ MODULE FixedPoint ----------------------------
(***************************************************************************)
(* The fixed-point one of prices and rates (RAY of program/src/curve/      *)
(* redemption_rate.rs).                                                    *)
(***************************************************************************)
EXTENDS Integers

CONSTANT RAY   \* 10^27 in the code

ASSUME RAYAssumption == RAY \in Nat \ {0}
=============================================================================
