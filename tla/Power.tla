-------------------------------- MODULE Power -------------------------------
(***************************************************************************)
(* What a trade asks of _rpow: one answer, RAY * (base / RAY)^exponent in  *)
(* fixed point or NoRate, whatever the exponent.                           *)
(***************************************************************************)
EXTENDS Compounding

CONSTANT Pending   \* there is no answer yet

VARIABLES base, exponent, answer

vars == <<base, exponent, answer>>

Init ==
  /\ base \in Nat /\ exponent \in Nat
  /\ answer = Pending

Answer ==
  /\ answer = Pending
  /\ answer' = RPow(base, exponent)
  /\ UNCHANGED <<base, exponent>>

Spec == Init /\ [][Answer]_vars /\ WF_vars(Answer)
=============================================================================
