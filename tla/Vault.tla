-------------------------------- MODULE Vault -------------------------------
(***************************************************************************)
(* What a PSM pool promises its liquidity providers: while the price of    *)
(* token B stands still, no step takes value out of a pool share, up to    *)
(* the rounding dust each step names.  At price p the pool is worth        *)
(* Value = a * RAY + b * p (in units of 1 / RAY token A), a share is worth *)
(* Value / supply, and shares are compared by cross-multiplication, so     *)
(* that nothing is rounded away.                                           *)
(*                                                                         *)
(* The specification knows no curve, no fee and no account: which steps a  *)
(* handler takes is for Pool, which implements this specification.         *)
(***************************************************************************)
EXTENDS Integers

CONSTANTS
  RAY,      \* the fixed-point one
  NoPrice   \* the price while the curve has none to give

VARIABLES
  a, b,     \* the reserves of token A and token B
  supply,   \* the pool tokens in existence
  price,    \* RAY times the tokens A one token B is worth, or NoPrice
  exitFee   \* whether a one-sided withdrawal pays the owner in new shares

vars == <<a, b, supply, price, exitFee>>

Value  == a * RAY + b * price
Priced == price \in Nat /\ price' = price

Init ==
  /\ a \in Nat /\ b \in Nat
  /\ supply = 0
  /\ price \in Nat \cup {NoPrice}
  /\ exitFee = FALSE

\* The price moves, nothing else does.
Reprice ==
  /\ price' \in Nat \cup {NoPrice}
  /\ UNCHANGED <<a, b, supply, exitFee>>

\* The first pool tokens come into existence against a funded token A reserve,
\* and it is settled whether withdrawals will pay the owner.
Found ==
  /\ supply = 0 /\ a > 0
  /\ supply' > 0
  /\ exitFee' \in BOOLEAN
  /\ UNCHANGED <<a, b, price>>

\* Tokens arrive and nothing is given for them.
Gift ==
  /\ a' >= a /\ b' >= b
  /\ UNCHANGED <<supply, price, exitFee>>

\* One token is exchanged for the other; the pool is worth no less after it.
Trade ==
  /\ Priced
  /\ Value' >= Value
  /\ UNCHANGED <<supply, exitFee>>

(***************************************************************************)
(* Shares are minted for value.  The pool rounds its own value down to a   *)
(* whole token A when it prices them: each share minted may be short of    *)
(* its price by up to RAY / supply, that is (Value - RAY) / supply never   *)
(* falls.                                                                  *)
(***************************************************************************)
SubscribeSingle ==
  /\ Priced
  /\ supply' > supply
  /\ (Value' - RAY) * supply >= (Value - RAY) * supply'
  /\ UNCHANGED exitFee

\* Shares are minted for both tokens; half a unit of each may be short.
SubscribeBoth ==
  /\ supply' > supply
  /\ 2 * a' * supply + supply >= 2 * a * supply'
  /\ 2 * b' * supply + supply >= 2 * b * supply'
  /\ UNCHANGED <<price, exitFee>>

\* Shares are burnt for at most their part of each reserve.
RedeemBoth ==
  /\ supply' < supply
  /\ a' * supply >= a * supply'
  /\ b' * supply >= b * supply'
  /\ UNCHANGED <<price, exitFee>>

\* Shares are burnt for one token; one token A of the payment may be unpaid for.
RedeemSingle ==
  /\ Priced
  /\ supply' < supply
  /\ (Value' + RAY) * supply >= Value * supply'
  /\ UNCHANGED exitFee

(***************************************************************************)
(* As RedeemSingle, down to a supply of mid, and then shares are minted    *)
(* for the fee that stays in the pool: the dust grows with what is minted. *)
(***************************************************************************)
RedeemSingleForFee ==
  /\ exitFee /\ exitFee'
  /\ Priced
  /\ a' <= a /\ b' <= b /\ (a' = a \/ b' = b)
  /\ \E mid \in 1 .. (supply - 1) :
       /\ mid < supply'
       /\ (Value' * supply - Value * supply') * mid
            + RAY * supply * (2 * supply' - mid) >= 0

Next ==
  \/ Reprice \/ Found \/ Gift \/ Trade
  \/ SubscribeSingle \/ SubscribeBoth
  \/ RedeemBoth \/ RedeemSingle \/ RedeemSingleForFee

Spec == Init /\ [][Next]_vars
=============================================================================
