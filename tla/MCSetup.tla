------------------------------- MODULE MCSetup ------------------------------
(***************************************************************************)
(* Two pools for TLC.  All that people can do with an account or a mint    *)
(* takes one of each through thousands of states, so the lives start from  *)
(* states in which most of it is settled, each of them reachable from      *)
(* Init: an account not yet made, a mint not yet handed over, a second     *)
(* pool beside a first.                                                    *)
(***************************************************************************)
EXTENDS Setup, TLC

CONSTANTS k1, s1, s2, t1, t2, t3, t4, t5, t6, t7, t8, m1, m2, m3, m4, m5

TwoSwaps      == {s1, s2}
OneKey        == {k1}
EightAccounts == {t1, t2, t3, t4, t5, t6, t7, t8}
FiveMints     == {m1, m2, m3, m4, m5}

Fr(n, d)   == [num |-> n, den |-> d]
AllFees(f) == [trade |-> f, owner |-> f, withdraw |-> f, host |-> Fr(0, 4)]
Minimum    == AllFees(Fr(1, 4))
SomeSchedules == {Minimum, AllFees(Fr(1, 5))}

Curve(t, n) == [curve_type |-> t, parameter |-> n]
SomeCurves == {Curve("RedemptionRateCurve", 1), Curve("Offset", 1)}

Production == [owner_key |-> k1, fees |-> Minimum,
               valid_curve_types |-> {"ConstantPrice", "RedemptionRateCurve"}]

\* Mints with extensions of either list, of one, and of none.
Kind(extensions) == [extensions |-> extensions, decimals |-> 0]
Kinds == {Kind({}), Kind({"MintCloseAuthority"}), Kind({"PermanentDelegate"})}

Holding(m, owner, amount) ==
  [mint |-> m, owner |-> owner, delegate |-> NoKey, close_authority |-> NoKey, amount |-> amount]

(***************************************************************************)
(* s1 has been made of t1, t2, m3 and its first pool tokens in t5; its fee *)
(* account t7 has been given away since.  Of t3, t4, m4, t6 and t8 a       *)
(* second pool is to be made on the same two tokens.                       *)
(***************************************************************************)
First ==
  [token_a |-> t1, token_b |-> t2, pool_mint |-> m3, token_a_mint |-> m1, token_b_mint |-> m2,
   pool_fee_account |-> t7, fees |-> Minimum, swap_curve |-> Curve("RedemptionRateCurve", 1)]

Tokens ==
  t1 :> Holding(m1, SwapAuthority(s1), 1) @@ t2 :> Holding(m2, SwapAuthority(s1), 0)
    @@ t3 :> Holding(m5, SwapAuthority(s2), 1) @@ t4 :> Holding(m1, SwapAuthority(s2), 0)
    @@ t5 :> Holding(m3, InitDestination(s1), 1) @@ t7 :> Holding(m3, InitDestination(s1), 0)
    @@ t6 :> Holding(m4, InitDestination(s2), 0) @@ t8 :> Holding(m4, k1, 0)

Settled(authority, supply) ==
  [authority |-> authority, freeze |-> NoKey, supply |-> supply, kind |-> Kind({})]

MintsReady ==
  m1 :> Settled(NoKey, 1) @@ m2 :> Settled(NoKey, 0) @@ m5 :> Settled(NoKey, 1)
    @@ m3 :> Settled(SwapAuthority(s1), 1) @@ m4 :> Settled(SwapAuthority(s2), 0)

\* One of its reserves is not there yet.
ReserveToCome == token = [Tokens EXCEPT ![t4] = Absent] /\ mint = MintsReady

\* Its pool mint is still its maker's.
PoolMintToCome ==
  \E kind \in MintKinds :
    /\ token = Tokens
    /\ mint = [MintsReady EXCEPT ![m4] = [Settled(k1, 0) EXCEPT !.freeze = k1, !.kind = kind]]

\* The token of its reserve t3 obeys somebody else.
TradedMintToCome ==
  /\ token = Tokens
  /\ mint = [MintsReady EXCEPT ![m5].kind = Kind({"PermanentDelegate"})]

\* Nothing is left of the token the first pool was made with; it can be made again.
TradedMintGone ==
  /\ token = [Tokens EXCEPT ![t1].amount = 0, ![t8].owner = InitDestination(s2)]
  /\ mint = [MintsReady EXCEPT ![m1] = [Settled(NoKey, 0) EXCEPT !.kind = Kind({"MintCloseAuthority"})]]

\* They are meant for s1 once more.
Again ==
  /\ token = [Tokens EXCEPT ![t6].owner = InitDestination(s1)]
  /\ mint = [MintsReady EXCEPT ![m4].authority = SwapAuthority(s1)]

MCInit ==
  /\ pool = s1 :> First @@ s2 :> NoPool
  /\ remade = {}
  /\ ReserveToCome \/ PoolMintToCome \/ TradedMintToCome \/ TradedMintGone \/ Again

MCSpec == MCInit /\ [][Next]_vars
=============================================================================
