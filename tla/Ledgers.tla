------------------------------- MODULE Ledgers ------------------------------
(***************************************************************************)
(* A pool and the token accounts around it: what the two models that run   *)
(* the instructions of module Exchange share.  ProductPool is a pool its   *)
(* holders use in any order, FuzzRun the repository's fuzz target.         *)
(***************************************************************************)
EXTENDS Exchange, FiniteSetsExt

CONSTANTS
  Users,   \* who holds tokens of all kinds
  Curves   \* the curves a pool may be opened with

TokenAccounts == Users \cup {Reserve}
PoolAccounts  == Users \cup {FeeAccount, InitDestination}

\* A host fee goes to any account of the pool mint, when one is named.
Hosts == PoolAccounts \cup {NoAccount}

ASSUME LedgersAssumption ==
  /\ IsFiniteSet(Users)
  /\ Reserve \notin Users
  /\ FeeAccount \notin Users /\ InitDestination \notin Users
  /\ FeeAccount # InitDestination
  /\ NoAccount \notin PoolAccounts
  /\ Curves \subseteq Curve
  /\ U64_MAX \in Nat
  /\ InitialSupply \in 1 .. U64_MAX

VARIABLES
  curve,   \* the pool's curve
  ledger   \* every account's tokens, and the supply

Ledger == [a : [TokenAccounts -> Nat], b : [TokenAccounts -> Nat],
           pool : [PoolAccounts -> Nat], supply : 0 .. U64_MAX]
=============================================================================
