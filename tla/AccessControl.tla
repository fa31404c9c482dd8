---------------------------- MODULE AccessControl ---------------------------
(***************************************************************************)
(* What the permissions of the program promise, without accounts, seeds or *)
(* lamports: every pool has its own super admins and its own rate          *)
(* updaters; the transaction that changes them, one key at a time, carries *)
(* the signature of one who is a super admin of that pool at the time, and *)
(* the one that sets its rates carries that of one of its updaters.  There *)
(* is no step by which a pool gets its first super admin after it was      *)
(* founded: a pool whose last super admin has gone keeps its powers as     *)
(* they are.                                                               *)
(***************************************************************************)
CONSTANTS Swaps, Keys, Rates

VARIABLES
  founded,   \* the pools that exist
  supers,    \* the super admins of each pool
  updaters,  \* the keys that may set the rates of each pool
  rates,     \* the rates of each pool
  signed     \* the keys that signed the latest transaction

vars == <<founded, supers, updaters, rates, signed>>

Init ==
  /\ founded = {}
  /\ supers = [s \in Swaps |-> {}]
  /\ updaters = [s \in Swaps |-> {}]
  /\ rates \in [Swaps -> Rates]
  /\ signed = {}

\* A pool is founded, with one key that holds every power over it, or with none.
Found(s) ==
  /\ s \notin founded
  /\ founded' = founded \cup {s}
  /\ \E admins \in {{}} \cup {{k} : k \in Keys} :
       /\ supers' = [supers EXCEPT ![s] = admins]
       /\ updaters' = [updaters EXCEPT ![s] = admins]
  /\ \E r \in Rates : rates' = [rates EXCEPT ![s] = r]

\* Somebody who holds a power signed the step.
SignedBy(holders) == holders \cap signed' # {}

\* A super admin of s gives or takes the powers of one key over s.
Govern(s) ==
  /\ s \in founded
  /\ SignedBy(supers[s])
  /\ \E k \in Keys :
       /\ \E on \in BOOLEAN : supers' =
            [supers EXCEPT ![s] = IF on THEN @ \cup {k} ELSE @ \ {k}]
       /\ \E on \in BOOLEAN : updaters' =
            [updaters EXCEPT ![s] = IF on THEN @ \cup {k} ELSE @ \ {k}]
  /\ UNCHANGED <<founded, rates>>

SetRates(s) ==
  /\ s \in founded
  /\ SignedBy(updaters[s])
  /\ \E r \in Rates : rates' = [rates EXCEPT ![s] = r]
  /\ UNCHANGED <<founded, supers, updaters>>

Next ==
  /\ signed' \in SUBSET Keys
  /\ \E s \in Swaps : Found(s) \/ Govern(s) \/ SetRates(s)

Spec == Init /\ [][Next]_vars
=============================================================================
