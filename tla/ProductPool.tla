----------------------------- MODULE ProductPool ----------------------------
(***************************************************************************)
(* A pool under a product curve, ConstantProduct or Offset, used by its    *)
(* holders in any order (program/src/processor.rs, curve/                  *)
(* constant_product.rs, curve/offset.rs).  Users sign for themselves.      *)
(***************************************************************************)
EXTENDS Ledgers

CONSTANTS
  Schedules,    \* the fee schedules the pool may be opened with
  InitialA,     \* the token A of every token account at the start
  InitialB,     \* the same for token B
  Amounts,      \* the amounts of instructions
  HostAccounts  \* bound: what is named for a host fee, NoAccount for nothing

ASSUME ProductPoolAssumption ==
  /\ Schedules \subseteq FeeSchedule
  /\ InitialA \in [TokenAccounts -> Nat] /\ InitialB \in [TokenAccounts -> Nat]
  /\ Amounts \subseteq 0 .. U64_MAX
  /\ HostAccounts \subseteq Hosts

ProductCurves == {c \in Curves : ~Priced(c)}

VARIABLES
  fees,         \* the pool's fees
  initialized   \* Initialize went well

vars == <<curve, fees, initialized, ledger>>

TypeOK ==
  /\ curve \in ProductCurves /\ fees \in Schedules
  /\ initialized \in BOOLEAN
  /\ ledger \in Ledger

Init ==
  /\ curve \in ProductCurves /\ fees \in Schedules
  /\ initialized = FALSE
  /\ ledger = [a |-> InitialA, b |-> InitialB, pool |-> [acc \in PoolAccounts |-> 0], supply |-> 0]

-----------------------------------------------------------------------------
Done(outcome) ==
  /\ outcome.code = Ok
  /\ ledger' = outcome.ledger
  /\ UNCHANGED <<curve, fees>>

Initialize ==
  /\ ~initialized
  /\ Done(InitializePool(curve, fees, ledger))
  /\ initialized' = TRUE

Call(outcome) == initialized /\ Done(outcome) /\ UNCHANGED initialized

Trade ==
  \E u \in Users, dir \in Direction, amount \in Amounts, host \in HostAccounts :
    Call(ProcessSwap(curve, fees, ledger, dir, u, u, amount, 0, host, U64_MAX))

DepositBoth ==
  \E u \in Users, amount \in Amounts :
    Call(DepositAllTokenTypes(curve, fees, ledger, u, u, u, amount, U64_MAX, U64_MAX))

DepositOne ==
  \E u \in Users, dir \in Direction, amount \in Amounts, given \in BOOLEAN, host \in HostAccounts :
    /\ host # NoAccount => given
    /\ Call(DepositSingleExactAmountIn(curve, fees, ledger, dir, u, u, amount, 0, given, host,
                                       U64_MAX))

\* The fee account's owner withdraws to a user's accounts.
WithdrawBoth ==
  \E u \in Users, amount \in Amounts : \E source \in {u, FeeAccount} :
    Call(WithdrawAllTokenTypes(curve, fees, ledger, source, u, u, amount, 0, 0, U64_MAX))

WithdrawOne ==
  \E u \in Users, dir \in Direction, amount \in Amounts, host \in HostAccounts :
    \E source \in {u, FeeAccount} :
      Call(WithdrawSingleExactAmountOut(curve, fees, ledger, dir, source, u, amount, U64_MAX, host,
                                        U64_MAX))

\* The token program alone: tokens sent to a reserve at any time, pool tokens
\* burnt by their owner.
Give ==
  \E u \in Users, token \in {"a", "b"}, amount \in Amounts :
    /\ Done(Transfer(ledger, token, u, Reserve, amount, U64_MAX))
    /\ UNCHANGED initialized

BurnOwn == \E u \in Users, amount \in Amounts : Call(Burn(ledger, u, amount, U64_MAX))

Next ==
  \/ Initialize
  \/ Trade \/ DepositBoth \/ DepositOne \/ WithdrawBoth \/ WithdrawOne
  \/ Give \/ BurnOwn

Spec == Init /\ [][Next]_vars

-----------------------------------------------------------------------------
(***************************************************************************)
(* No sequence of calls empties a reserve of a constant product pool, or   *)
(* the A reserve of an offset pool.  swap of constant_product.rs relies on *)
(* it: against an empty source reserve it would give the whole destination *)
(* reserve away for nothing.                                               *)
(***************************************************************************)
ReservesNeverEmpty ==
  initialized =>
    /\ ledger.a[Reserve] > 0
    /\ curve.type = "ConstantProduct" => ledger.b[Reserve] > 0

(***************************************************************************)
(* The value of a pool token, Sqrt(reserve A * (reserve B + offset)) over  *)
(* the supply (normalized_value), barely falls: no rounding of a trade, a  *)
(* deposit, a withdrawal or a fee takes from those who stay (RoundDirection*)
(* of calculator.rs is for that), but for the roots, whose ratios and      *)
(* decimals are rounded for the user as well.  The square of the value     *)
(* falls by at most the factor Keeps(...): not at all in a step that moves *)
(* both reserves one way, nor in a swap that mints no fee; by five units of*)
(* PreciseNumber in a swap that does, which takes a root; and by five units*)
(* for either root when one reserve is moved, those of the withdrawal      *)
(* counted as often as what it leaves goes into what was there.            *)
(***************************************************************************)
Product(l) == l.a[Reserve] * WithOffset(curve, l.b[Reserve])

Larger(x, x2) == IF x2 < x THEN x ELSE x2

Smaller(f, x, x2) ==
  IF x2 >= x THEN x
  ELSE IF PreTradingFeeDefined(f) /\ x2 - WithdrawOwnerFee(x - x2, f) > 0
    THEN x2 - WithdrawOwnerFee(x - x2, f)
    ELSE 1

OneRoot == [num |-> ONE + 5, den |-> ONE]

\* Two roots of one reserve: the owner's fee of a withdrawal is out before the second.
TwoRoots(f, x, x2) ==
  [num |-> (Smaller(f, x, x2) * ONE + 5 * Larger(x, x2)) * (ONE + 5),
   den |-> Smaller(f, x, x2) * ONE * ONE]

Keeps(c, f, l, l2) ==
  LET a  == l.a[Reserve]
      a2 == l2.a[Reserve]
      b  == WithOffset(c, l.b[Reserve])
      b2 == WithOffset(c, l2.b[Reserve])
  IN  IF b2 = b THEN TwoRoots(f, a, a2)
      ELSE IF a2 = a THEN TwoRoots(f, b, b2)
      ELSE IF (a2 > a <=> b2 > b) \/ l2.supply = l.supply THEN [num |-> 1, den |-> 1]
      ELSE OneRoot

ShareBarelyDiluted ==
  [][initialized =>
       LET kept == Keeps(curve, fees, ledger, ledger')
       IN  Product(ledger) * ledger'.supply * ledger'.supply * kept.den
             <= Product(ledger') * ledger.supply * ledger.supply * kept.num]_vars

(***************************************************************************)
(* Every pool token is in one of the accounts: the supply the handlers     *)
(* divide by is neither more nor less than what can be redeemed.           *)
(***************************************************************************)
SupplyIsHeld ==
  ledger.supply = MapThenSumSet(LAMBDA acc : ledger.pool[acc], PoolAccounts)

(***************************************************************************)
(* What every division of the handlers rests on: naturals in every account,*)
(* reserves that are not empty, and a supply that is somebody's.           *)
(***************************************************************************)
LedgerIsSound == TypeOK /\ ReservesNeverEmpty /\ SupplyIsHeld
=============================================================================
