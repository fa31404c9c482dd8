------------------------------- MODULE MCPool -------------------------------
(* Small pools for TLC. *)
EXTENDS Pool

CONSTANT u1

Fr(n, d) == [num |-> n, den |-> d]
None == Fr(0, 0)

\* Every fee at zero, the schedule the repository's deployment tests use.
ZeroFees == [trade |-> None, owner |-> None, withdraw |-> None, host |-> None]

\* Each of the four fees charged.
AllFees == [trade |-> Fr(1, 5), owner |-> Fr(1, 4), withdraw |-> Fr(1, 3), host |-> Fr(1, 2)]

\* One trading fee, whoever gets it; and both.
TradeFee == [ZeroFees EXCEPT !.trade = Fr(1, 3)]
OwnerFee == [ZeroFees EXCEPT !.owner = Fr(1, 4)]
BothFees == [ZeroFees EXCEPT !.trade = Fr(1, 3), !.owner = Fr(1, 3)]

MCUsers == {u1}

\* What the reserve and every user hold at the start.
Holding(reserve, user) == [acc \in MCUsers \cup {Reserve} |-> IF acc = Reserve THEN reserve ELSE user]
SmallA == Holding(2, 4)
SmallB == Holding(1, 3)
RichA  == Holding(4, 9)
RichB  == Holding(7, 0)
OneTradingFeeAtMost == {ZeroFees, AllFees, TradeFee, OwnerFee}
TwoTradingFees      == {BothFees}
=============================================================================
