---------------------------- MODULE LedgersProofs ---------------------------
(***************************************************************************)
(* Theorems about ProductPool and FuzzRun, whose instructions change the   *)
(* same ledger.  Under a product curve the ledger stays sound and a step   *)
(* dilutes a pool token by no more than the roots it takes are rounded,    *)
(* for any users, amounts, fees, offset, reserves and precision; and under *)
(* every curve the totals the fuzz target asserts hold, for every list of  *)
(* instructions.                                                           *)
(*                                                                         *)
(* Every handler is taken apart once, into its calls of the token program  *)
(* (Moved, Minted, Burnt) and what the curve says of their amounts.  What  *)
(* a step of a product pool may do is said with Covers: the product of the *)
(* reserves grows at least as the square of the supply, or, where a root   *)
(* was taken, with CoversBut; such a step leaves no reserve empty, for the *)
(* supply cannot be used up (SupplyRemains).  What a handler does to the   *)
(* accounts is said with Kept: their sums are as they were and those of    *)
(* others are not touched.                                                 *)
(***************************************************************************)
EXTENDS ProductPool, FuzzRun, CurveProofs, FiniteSetTheorems, WellFoundedInduction

-----------------------------------------------------------------------------
(* The sum of a ledger's balances. *)

Picked(s)  == CHOOSE acc \in s : TRUE
Others(s)  == s \ {Picked(s)}

\* sum solves the recursion of a sum over the sets in Sets.
SumsUp(sum, balance, Sets) ==
  sum = [s \in Sets |-> IF s = {} THEN 0 ELSE balance[Picked(s)] + sum[Others(s)]]

UpTo(S, n) == {s \in SUBSET S : Cardinality(s) <= n}

LEMMA PickedIsLessMany ==
  ASSUME NEW S, IsFiniteSet(S), NEW s \in SUBSET S, s # {}
  PROVE  /\ Picked(s) \in s /\ Others(s) \in SUBSET S
         /\ Cardinality(s) \in Nat /\ Cardinality(Others(s)) = Cardinality(s) - 1
<1>1. Picked(s) \in s
  BY DEF Picked
<1>2. IsFiniteSet(s) /\ Cardinality(s) \in Nat
  BY FS_Subset, FS_CardinalityType
<1>3. Cardinality(Others(s)) = Cardinality(s) - 1
  BY <1>1, <1>2, FS_RemoveElement DEF Others
<1>4. QED
  BY <1>1, <1>2, <1>3 DEF Others

LEMMA SumsExistUpTo ==
  ASSUME NEW S, IsFiniteSet(S), NEW balance
  PROVE  \A n \in Nat : \E sum : SumsUp(sum, balance, UpTo(S, n))
<1> DEFINE Good == {n \in Nat : \E sum : SumsUp(sum, balance, UpTo(S, n))}
<1>1. ASSUME NEW n \in Nat, \A k \in Nat : k < n => k \in Good
      PROVE  n \in Good
  <2>1. \A s \in UpTo(S, n) : IsFiniteSet(s) /\ Cardinality(s) \in Nat /\ s \in SUBSET S
    BY FS_Subset, FS_CardinalityType DEF UpTo
  <2>2. CASE n = 0
    <3> DEFINE sum == [s \in UpTo(S, 0) |-> 0]
    <3>1. \A s \in UpTo(S, 0) : s = {}
      <4>1. \A s \in UpTo(S, 0) : Cardinality(s) = 0
        BY <2>1, <2>2, SMT DEF UpTo
      <4>2. QED
        BY <2>1, <2>2, <4>1, FS_EmptySet
    <3>2. SumsUp(sum, balance, UpTo(S, 0))
      BY <3>1 DEF SumsUp
    <3>3. QED
      BY <2>2, <3>2
  <2>3. CASE n # 0
    <3>1. n - 1 \in Nat /\ n - 1 < n
      BY <2>3, SMT
    <3>2. PICK less : SumsUp(less, balance, UpTo(S, n - 1))
      BY <1>1, <3>1
    <3> DEFINE sum == [s \in UpTo(S, n) |-> IF s = {} THEN 0 ELSE balance[Picked(s)] + less[Others(s)]]
    <3>3. ASSUME NEW s \in UpTo(S, n), s # {}
          PROVE  sum[Others(s)] = less[Others(s)]
      <4>1. Others(s) \in SUBSET S /\ Cardinality(Others(s)) = Cardinality(s) - 1
        BY <2>1, <3>3, PickedIsLessMany
      <4>2. Cardinality(s) <= n /\ Cardinality(s) \in Nat
        BY <2>1 DEF UpTo
      <4>3. Others(s) \in UpTo(S, n) /\ Others(s) \in UpTo(S, n - 1)
        BY <4>1, <4>2, SMT DEF UpTo
      <4>4. QED
        BY <3>2, <4>3 DEF SumsUp
    <3>4. sum = [s \in UpTo(S, n) |-> IF s = {} THEN 0 ELSE balance[Picked(s)] + sum[Others(s)]]
      <4>1. \A s \in UpTo(S, n) :
              (IF s = {} THEN 0 ELSE balance[Picked(s)] + less[Others(s)])
                = (IF s = {} THEN 0 ELSE balance[Picked(s)] + sum[Others(s)])
        BY <3>3
      <4> DEFINE left(s) == IF s = {} THEN 0 ELSE balance[Picked(s)] + less[Others(s)]
                 right(s) == IF s = {} THEN 0 ELSE balance[Picked(s)] + sum[Others(s)]
      <4>2. \A s \in UpTo(S, n) : left(s) = right(s)
        BY <4>1
      <4>3. sum = [s \in UpTo(S, n) |-> left(s)]
        OBVIOUS
      <4> HIDE DEF left, right
      <4>4. [s \in UpTo(S, n) |-> left(s)] = [s \in UpTo(S, n) |-> right(s)]
        BY <4>2
      <4>5. sum = [s \in UpTo(S, n) |-> right(s)]
        BY <4>3, <4>4
      <4>6. QED
        BY <4>5 DEF right
    <3>5. SumsUp(sum, balance, UpTo(S, n))
      BY <3>4 DEF SumsUp
    <3>6. QED
      BY <3>5
  <2>4. QED
    BY <2>2, <2>3
<1> HIDE DEF Good
<1>2. Good = Nat
  <2>1. Good \in SUBSET Nat
    BY DEF Good
  <2>2. QED
    BY <1>1, <2>1, NoLeastFailure
<1>3. QED
  BY <1>2 DEF Good

LEMMA SumsExist ==
  ASSUME NEW S, IsFiniteSet(S), NEW balance
  PROVE  \E sum : SumsUp(sum, balance, SUBSET S)
<1>1. Cardinality(S) \in Nat
  BY FS_CardinalityType
<1>2. UpTo(S, Cardinality(S)) = SUBSET S
  BY FS_Subset DEF UpTo
<1>3. \E sum : SumsUp(sum, balance, UpTo(S, Cardinality(S)))
  BY <1>1, SumsExistUpTo
<1>4. QED
  BY <1>2, <1>3

\* The balances of all accounts, a solution of the recursion.
Sum(balance, S) == MapThenSumSet(LAMBDA acc : balance[acc], S)

LEMMA SumSolves ==
  ASSUME NEW S, IsFiniteSet(S), NEW balance
  PROVE  \E sum : /\ SumsUp(sum, balance, SUBSET S)
                  /\ Sum(balance, S) = sum[S]
<1> DEFINE total == CHOOSE sum : SumsUp(sum, balance, SUBSET S)
<1>1. SumsUp(total, balance, SUBSET S)
  <2>1. \E sum : SumsUp(sum, balance, SUBSET S)
    BY SumsExist
  <2>2. QED
    BY <2>1, Zenon
<1>2. Sum(balance, S) = total[S]
  BY Zenon DEF Sum, MapThenSumSet, MapThenFoldSet, SumsUp, Picked, Others
<1>3. QED
  BY <1>1, <1>2

\* The sum of naturals is one.
LEMMA SumType ==
  ASSUME NEW S, IsFiniteSet(S), NEW balance \in [S -> Nat], NEW sum, SumsUp(sum, balance, SUBSET S)
  PROVE  \A s \in SUBSET S : sum[s] \in Nat
<1> DEFINE Good == {n \in Nat : \A s \in UpTo(S, n) : sum[s] \in Nat}
<1>1. ASSUME NEW n \in Nat, \A k \in Nat : k < n => k \in Good
      PROVE  n \in Good
  <2>1. SUFFICES ASSUME NEW s \in UpTo(S, n) PROVE sum[s] \in Nat
    OBVIOUS
  <2>2. s \in SUBSET S /\ sum[s] = IF s = {} THEN 0 ELSE balance[Picked(s)] + sum[Others(s)]
    BY DEF SumsUp, UpTo
  <2>3. CASE s = {}
    BY <2>2, <2>3
  <2>4. CASE s # {}
    <3>1. /\ Picked(s) \in S /\ Others(s) \in SUBSET S
          /\ Cardinality(s) \in Nat /\ Cardinality(Others(s)) = Cardinality(s) - 1
      BY <2>2, <2>4, PickedIsLessMany
    <3>2. Cardinality(Others(s)) \in Nat
      BY <3>1, FS_Subset, FS_CardinalityType
    <3>3. Cardinality(Others(s)) < n /\ Others(s) \in UpTo(S, Cardinality(Others(s)))
      BY <3>1, <3>2, SMT DEF UpTo
    <3>4. sum[Others(s)] \in Nat
      BY <1>1, <3>2, <3>3
    <3>5. balance[Picked(s)] \in Nat
      BY <3>1
    <3>6. QED
      BY <2>2, <2>4, <3>4, <3>5, SMT
  <2>5. QED
    BY <2>3, <2>4
<1> HIDE DEF Good
<1>2. Good = Nat
  <2>1. Good \in SUBSET Nat
    BY DEF Good
  <2>2. QED
    BY <1>1, <2>1, NoLeastFailure
<1>3. ASSUME NEW s \in SUBSET S PROVE sum[s] \in Nat
  <2>1. Cardinality(s) \in Nat
    BY FS_Subset, FS_CardinalityType
  <2>2. s \in UpTo(S, Cardinality(s))
    BY <2>1, SMT DEF UpTo
  <2>3. QED
    BY <1>2, <2>1, <2>2 DEF Good
<1>4. QED
  BY <1>3

\* One balance changed: every sum over that account changed by as much.
LEMMA SumAdjusts ==
  ASSUME NEW S, IsFiniteSet(S), NEW balance \in [S -> Nat], NEW after \in [S -> Nat],
         NEW acc \in S, NEW change \in Int, after[acc] = balance[acc] + change,
         \A other \in S : other # acc => after[other] = balance[other],
         NEW sum, SumsUp(sum, balance, SUBSET S), NEW sum2, SumsUp(sum2, after, SUBSET S)
  PROVE  \A s \in SUBSET S : sum2[s] = IF acc \in s THEN sum[s] + change ELSE sum[s]
<1> DEFINE Claim(s) == sum2[s] = IF acc \in s THEN sum[s] + change ELSE sum[s]
<1> DEFINE Good == {n \in Nat : \A s \in UpTo(S, n) : Claim(s)}
<1>1. ASSUME NEW n \in Nat, \A k \in Nat : k < n => k \in Good
      PROVE  n \in Good
  <2>1. SUFFICES ASSUME NEW s \in UpTo(S, n) PROVE Claim(s)
    OBVIOUS
  <2>2. /\ s \in SUBSET S
        /\ sum[s] = IF s = {} THEN 0 ELSE balance[Picked(s)] + sum[Others(s)]
        /\ sum2[s] = IF s = {} THEN 0 ELSE after[Picked(s)] + sum2[Others(s)]
    BY DEF SumsUp, UpTo
  <2>3. CASE s = {}
    BY <2>2, <2>3
  <2>4. CASE s # {}
    <3>1. /\ Picked(s) \in s /\ Picked(s) \in S /\ Others(s) \in SUBSET S
          /\ Cardinality(s) \in Nat /\ Cardinality(Others(s)) = Cardinality(s) - 1
      BY <2>2, <2>4, PickedIsLessMany
    <3>2. Cardinality(Others(s)) \in Nat
      BY <3>1, FS_Subset, FS_CardinalityType
    <3>3. Cardinality(Others(s)) < n /\ Others(s) \in UpTo(S, Cardinality(Others(s)))
      BY <3>1, <3>2, SMT DEF UpTo
    <3>4. Claim(Others(s))
      BY <1>1, <3>2, <3>3
    <3>5. balance[Picked(s)] \in Nat /\ sum[Others(s)] \in Nat
      BY <3>1, SumType
    <3>6. CASE Picked(s) = acc
      <4>1. acc \in s /\ acc \notin Others(s)
        BY <3>1, <3>6 DEF Others
      <4>2. sum2[Others(s)] = sum[Others(s)]
        BY <3>4, <4>1
      <4>3. QED
        BY <2>2, <2>4, <3>5, <3>6, <4>1, <4>2, SMT
    <3>7. CASE Picked(s) # acc
      <4>1. acc \in s <=> acc \in Others(s)
        BY <3>7 DEF Others
      <4>2. after[Picked(s)] = balance[Picked(s)]
        BY <3>1, <3>7
      <4>3. QED
        BY <2>2, <2>4, <3>4, <3>5, <4>1, <4>2, SMT
    <3>8. QED
      BY <3>6, <3>7
  <2>5. QED
    BY <2>3, <2>4
<1> HIDE DEF Good
<1>2. Good = Nat
  <2>1. Good \in SUBSET Nat
    BY DEF Good
  <2>2. QED
    BY <1>1, <2>1, NoLeastFailure
<1>3. ASSUME NEW s \in SUBSET S PROVE Claim(s)
  <2>1. Cardinality(s) \in Nat
    BY FS_Subset, FS_CardinalityType
  <2>2. s \in UpTo(S, Cardinality(s))
    BY <2>1, SMT DEF UpTo
  <2>3. QED
    BY <1>2, <2>1, <2>2 DEF Good
<1>4. QED
  BY <1>3

-----------------------------------------------------------------------------
\* One balance changed: the sum changed by as much.
LEMMA LedgerSumAdjusts ==
  ASSUME NEW S, IsFiniteSet(S), NEW balance \in [S -> Nat], NEW after \in [S -> Nat],
         NEW acc \in S, NEW change \in Int, after[acc] = balance[acc] + change,
         \A other \in S : other # acc => after[other] = balance[other]
  PROVE  Sum(after, S) = Sum(balance, S) + change
<1>1. PICK sum : SumsUp(sum, balance, SUBSET S) /\ Sum(balance, S) = sum[S]
  BY SumSolves
<1>2. PICK sum2 : SumsUp(sum2, after, SUBSET S) /\ Sum(after, S) = sum2[S]
  BY SumSolves
<1>3. sum2[S] = sum[S] + change
  BY <1>1, <1>2, SumAdjusts
<1>4. QED
  BY <1>1, <1>2, <1>3

LEMMA LedgerSumType ==
  ASSUME NEW S, IsFiniteSet(S), NEW balance \in [S -> Nat]
  PROVE  Sum(balance, S) \in Nat
<1>1. PICK sum : SumsUp(sum, balance, SUBSET S) /\ Sum(balance, S) = sum[S]
  BY SumSolves
<1>2. QED
  BY <1>1, SumType

\* Two accounts together hold no more than all of them.
LEMMA TwoWithinSum ==
  ASSUME NEW S, IsFiniteSet(S), NEW balance \in [S -> Nat],
         NEW acc1 \in S, NEW acc2 \in S, acc1 # acc2
  PROVE  balance[acc1] + balance[acc2] <= Sum(balance, S)
<1> DEFINE one == [balance EXCEPT ![acc1] = 0]
           two == [one EXCEPT ![acc2] = 0]
<1>1. one \in [S -> Nat] /\ two \in [S -> Nat] /\ balance[acc1] \in Nat /\ balance[acc2] \in Nat
  OBVIOUS
<1>2. Sum(one, S) = Sum(balance, S) + (0 - balance[acc1])
  <2>1. one[acc1] = balance[acc1] + (0 - balance[acc1]) /\ 0 - balance[acc1] \in Int
    BY <1>1, SMT
  <2>2. \A other \in S : other # acc1 => one[other] = balance[other]
    OBVIOUS
  <2> HIDE DEF one
  <2>3. QED
    BY <1>1, <2>1, <2>2, LedgerSumAdjusts
<1>3. Sum(two, S) = Sum(one, S) + (0 - balance[acc2])
  <2>1. two[acc2] = one[acc2] + (0 - balance[acc2]) /\ 0 - balance[acc2] \in Int
    BY <1>1, SMT
  <2>2. \A other \in S : other # acc2 => two[other] = one[other]
    OBVIOUS
  <2> HIDE DEF one, two
  <2>3. QED
    BY <1>1, <2>1, <2>2, LedgerSumAdjusts
<1> HIDE DEF one, two
<1>4. Sum(two, S) \in Nat /\ Sum(one, S) \in Nat /\ Sum(balance, S) \in Nat
  BY <1>1, LedgerSumType
<1>5. QED
  BY <1>1, <1>2, <1>3, <1>4, SMT

\* The recursion has one solution.
LEMMA SameSum ==
  ASSUME NEW S, IsFiniteSet(S), NEW balance \in [S -> Nat], NEW acc \in S,
         NEW sum, SumsUp(sum, balance, SUBSET S), NEW sum2, SumsUp(sum2, balance, SUBSET S)
  PROVE  sum2[S] = sum[S]
<1> DEFINE more  == 1
           after == [balance EXCEPT ![acc] = balance[acc] + more]
<1>1. after \in [S -> Nat] /\ after[acc] = balance[acc] + more /\ more \in Int
  BY SMT
<1>2. \A other \in S : other # acc => after[other] = balance[other]
  OBVIOUS
<1> HIDE DEF after, more
<1>3. PICK sum3 : SumsUp(sum3, after, SUBSET S)
  BY SumsExist
<1>4. sum3[S] = sum[S] + more
  BY <1>1, <1>2, <1>3, SumAdjusts
<1>5. sum3[S] = sum2[S] + more
  BY <1>1, <1>2, <1>3, SumAdjusts
<1>6. sum[S] \in Nat /\ sum2[S] \in Nat
  BY SumType
<1>7. QED
  BY <1>1, <1>4, <1>5, <1>6, SMT

LEMMA EmptySum ==
  ASSUME NEW S, IsFiniteSet(S), NEW acc \in S
  PROVE  Sum([other \in S |-> 0], S) = 0
<1> DEFINE none  == [other \in S |-> 0]
           zeros == [s \in SUBSET S |-> 0]
<1>1. PICK sum : SumsUp(sum, none, SUBSET S) /\ Sum(none, S) = sum[S]
  BY SumSolves
<1>2. SumsUp(zeros, none, SUBSET S)
  <2>1. ASSUME NEW s \in SUBSET S, s # {}
        PROVE  none[Picked(s)] + zeros[Others(s)] = 0
    <3>1. Picked(s) \in S /\ Others(s) \in SUBSET S
      BY <2>1, PickedIsLessMany
    <3>2. none[Picked(s)] = 0 /\ zeros[Others(s)] = 0
      BY <3>1
    <3>3. QED
      BY <3>2, SMT
  <2>2. QED
    BY <2>1 DEF SumsUp
<1>3. zeros[S] = 0 /\ none \in [S -> Nat]
  BY SMT
<1>4. zeros[S] = sum[S]
  <2> HIDE DEF none, zeros
  <2>1. QED
    BY <1>1, <1>2, <1>3, SameSum
<1>5. QED
  BY <1>1, <1>3, <1>4

-----------------------------------------------------------------------------
(* The token program. *)

\* Ledgers whose supply is what all accounts hold.
Held(l) == l \in Ledger /\ l.supply = Sum(l.pool, PoolAccounts)

LEMMA PoolAccountsFinite == IsFiniteSet(PoolAccounts)
<1>1. IsFiniteSet(Users \cup {FeeAccount})
  BY LedgersAssumption, FS_AddElement
<1>2. IsFiniteSet((Users \cup {FeeAccount}) \cup {InitDestination})
  BY <1>1, FS_AddElement
<1>3. PoolAccounts = (Users \cup {FeeAccount}) \cup {InitDestination}
  BY DEF PoolAccounts
<1>4. QED
  BY <1>2, <1>3

\* An error of either list is no success.
LEMMA ErrorsAreNotOk ==
  ASSUME NEW list, NEW size \in Nat, DOMAIN list = 1 .. size, NEW i \in 1 .. size
  PROVE  Custom(list, list[i]) # Ok
<1> DEFINE place == CHOOSE j \in DOMAIN list : list[j] = list[i]
<1>1. place \in 1 .. size
  BY Zenon
<1>2. Custom(list, list[i]) = place - 1
  BY DEF Custom
<1> HIDE DEF place
<1>3. QED
  BY <1>1, <1>2, SMT DEF Ok

LEMMA TokenErrorsAreNotOk ==
  TokenCode("InsufficientFunds") # Ok /\ TokenCode("Overflow") # Ok
<1>1. /\ DOMAIN TokenError = 1 .. 15
      /\ TokenError[2] = "InsufficientFunds" /\ TokenError[15] = "Overflow"
  BY SMT DEF TokenError
<1>2. 15 \in Nat /\ 2 \in 1 .. 15 /\ 15 \in 1 .. 15
  BY SMT
<1>3. Custom(TokenError, TokenError[2]) # Ok /\ Custom(TokenError, TokenError[15]) # Ok
  BY <1>1, <1>2, ErrorsAreNotOk
<1>4. QED
  BY <1>1, <1>3 DEF TokenCode

LEMMA SwapErrorsAreNotOk ==
  /\ SwapCode("InvalidInput") # Ok /\ SwapCode("ConversionFailure") # Ok
  /\ SwapCode("FeeCalculationFailure") # Ok /\ SwapCode("ZeroTradingTokens") # Ok
  /\ SwapCode("ExceededSlippage") # Ok /\ SwapCode("CalculationFailure") # Ok
  /\ SwapCode("UnsupportedCurveOperation") # Ok
  /\ SwapCode("EmptySupply") # Ok /\ SwapCode("InvalidFee") # Ok /\ SwapCode("InvalidCurve") # Ok
  /\ Panicked # Ok
<1>1. /\ DOMAIN SwapError = 1 .. 39
      /\ SwapError[10] = "InvalidInput" /\ SwapError[23] = "ConversionFailure"
      /\ SwapError[22] = "FeeCalculationFailure" /\ SwapError[21] = "ZeroTradingTokens"
      /\ SwapError[17] = "ExceededSlippage" /\ SwapError[14] = "CalculationFailure"
      /\ SwapError[28] = "UnsupportedCurveOperation"
      /\ SwapError[7] = "EmptySupply" /\ SwapError[24] = "InvalidFee"
      /\ SwapError[27] = "InvalidCurve"
  BY SMT DEF SwapError
<1>2. 39 \in Nat /\ 7 \in 1 .. 39 /\ 10 \in 1 .. 39 /\ 14 \in 1 .. 39 /\ 17 \in 1 .. 39
      /\ 21 \in 1 .. 39 /\ 22 \in 1 .. 39 /\ 23 \in 1 .. 39 /\ 24 \in 1 .. 39
      /\ 27 \in 1 .. 39 /\ 28 \in 1 .. 39
  BY SMT
<1>3. \A i \in 1 .. 39 : Custom(SwapError, SwapError[i]) # Ok
  BY <1>1, <1>2, ErrorsAreNotOk
<1>4. Panicked # Ok
  BY SMT DEF Panicked, Ok
<1>5. QED
  BY <1>1, <1>2, <1>3, <1>4 DEF SwapCode

\* What the token program does when it goes well, from ledger l to ledger m.
Moved(l, m, token, from, to, amount) ==
  /\ Held(m) /\ m.pool = l.pool /\ m.supply = l.supply
  /\ amount <= l[token][from]
  /\ m[token][from] = l[token][from] - amount
  /\ m[token][to] = l[token][to] + amount
  /\ \A other \in TokenAccounts : other \notin {from, to} => m[token][other] = l[token][other]
  /\ token = "a" => m.b = l.b
  /\ token = "b" => m.a = l.a

Minted(l, m, to, amount) ==
  /\ Held(m) /\ m.a = l.a /\ m.b = l.b /\ m.supply = l.supply + amount
  /\ m.pool[to] = l.pool[to] + amount
  /\ \A acc \in PoolAccounts : m.pool[acc] >= l.pool[acc]

Burnt(l, m, from, amount) ==
  /\ Held(m) /\ m.a = l.a /\ m.b = l.b /\ m.supply = l.supply - amount
  /\ amount <= l.pool[from]
  /\ \A acc \in PoolAccounts : acc # from => m.pool[acc] = l.pool[acc]

LEMMA TransferMoves ==
  ASSUME NEW l, Held(l), NEW token \in {"a", "b"},
         NEW from \in TokenAccounts, NEW to \in TokenAccounts, from # to,
         NEW amount \in Nat, NEW allowance,
         Transfer(l, token, from, to, amount, allowance).code = Ok
  PROVE  Moved(l, Transfer(l, token, from, to, amount, allowance).ledger, token, from, to, amount)
<1> DEFINE m == [l EXCEPT ![token][from] = @ - amount, ![token][to] = @ + amount]
<1>1. amount <= l[token][from] /\ Transfer(l, token, from, to, amount, allowance).ledger = m
  <2>1. ~(amount > l[token][from] \/ amount > allowance)
    BY TokenErrorsAreNotOk DEF Transfer, Failure
  <2>2. Transfer(l, token, from, to, amount, allowance) = Success(m)
    BY <2>1, Zenon DEF Transfer
  <2>3. l[token][from] \in Nat
    BY DEF Held, Ledger
  <2>4. QED
    BY <2>1, <2>2, <2>3, SMT DEF Success
<1>2. l[token] \in [TokenAccounts -> Nat]
  BY DEF Held, Ledger
<1> DEFINE moved == [[l[token] EXCEPT ![from] = @ - amount] EXCEPT ![to] = @ + amount]
<1>3. /\ moved \in [TokenAccounts -> Nat]
      /\ moved[from] = l[token][from] - amount /\ moved[to] = l[token][to] + amount
      /\ \A other \in TokenAccounts : other \notin {from, to} => moved[other] = l[token][other]
  <2>1. l[token][from] - amount \in Nat /\ l[token][to] + amount \in Nat
    BY <1>1, <1>2, SMT
  <2>2. QED
    BY <1>2, <2>1
<1>4. m = [l EXCEPT ![token] = moved]
  BY <1>2 DEF Held, Ledger
<1> HIDE DEF moved, m
<1>5. m \in Ledger /\ m[token] = moved /\ m.pool = l.pool /\ m.supply = l.supply
      /\ (token = "a" => m.b = l.b) /\ (token = "b" => m.a = l.a)
  BY <1>3, <1>4 DEF Held, Ledger
<1>6. QED
  BY <1>1, <1>3, <1>5 DEF Held, Moved

LEMMA MintMoves ==
  ASSUME NEW l, Held(l), NEW to \in PoolAccounts, NEW amount \in Nat,
         MintTo(l, to, amount).code = Ok
  PROVE  Minted(l, MintTo(l, to, amount).ledger, to, amount)
<1> DEFINE m == [l EXCEPT !.pool[to] = @ + amount, !.supply = @ + amount]
<1>1. l.supply + amount <= U64_MAX /\ MintTo(l, to, amount).ledger = m
  <2>1. ~(amount > U64_MAX) /\ ~(l.supply + amount > U64_MAX)
    BY TokenErrorsAreNotOk, SwapErrorsAreNotOk DEF MintTo, Failure, Refused
  <2>2. MintTo(l, to, amount) = Success(m)
    BY <2>1, Zenon DEF MintTo
  <2>3. l.supply \in Nat
    BY LedgersAssumption, SMT DEF Held, Ledger
  <2>4. QED
    BY <2>1, <2>2, <2>3, LedgersAssumption, SMT DEF Success
<1>2. l.pool \in [PoolAccounts -> Nat] /\ l.supply \in 0 .. U64_MAX
  BY DEF Held, Ledger
<1> DEFINE pool == [l.pool EXCEPT ![to] = @ + amount]
<1>3. pool \in [PoolAccounts -> Nat] /\ pool[to] = l.pool[to] + amount
      /\ \A acc \in PoolAccounts : acc # to => pool[acc] = l.pool[acc]
  BY <1>2
<1>4. l.supply + amount \in 0 .. U64_MAX
  BY <1>1, <1>2, LedgersAssumption, SMT
<1>5. m \in Ledger /\ m.pool = pool /\ m.supply = l.supply + amount /\ m.a = l.a /\ m.b = l.b
  BY <1>3, <1>4 DEF Held, Ledger
<1> HIDE DEF pool, m
<1>6. Sum(pool, PoolAccounts) = Sum(l.pool, PoolAccounts) + amount
  <2>1. amount \in Int
    BY SMT
  <2>2. QED
    BY <1>2, <1>3, <2>1, PoolAccountsFinite, LedgerSumAdjusts
<1>7. \A acc \in PoolAccounts : pool[acc] >= l.pool[acc]
  BY <1>2, <1>3, SMT
<1>8. QED
  BY <1>1, <1>3, <1>5, <1>6, <1>7 DEF Held, Minted

LEMMA BurnMoves ==
  ASSUME NEW l, Held(l), NEW from \in PoolAccounts, NEW amount \in Nat, NEW allowance,
         Burn(l, from, amount, allowance).code = Ok
  PROVE  Burnt(l, Burn(l, from, amount, allowance).ledger, from, amount)
<1> DEFINE m == [l EXCEPT !.pool[from] = @ - amount, !.supply = @ - amount]
<1>1. amount <= l.pool[from] /\ Burn(l, from, amount, allowance).ledger = m
  <2>1. ~(amount > l.pool[from] \/ amount > allowance)
    BY TokenErrorsAreNotOk DEF Burn, Failure
  <2>2. Burn(l, from, amount, allowance) = Success(m)
    BY <2>1, Zenon DEF Burn
  <2>3. l.pool[from] \in Nat
    BY DEF Held, Ledger
  <2>4. QED
    BY <2>1, <2>2, <2>3, SMT DEF Success
<1>2. l.pool \in [PoolAccounts -> Nat] /\ l.supply \in 0 .. U64_MAX
  BY DEF Held, Ledger
<1> DEFINE pool == [l.pool EXCEPT ![from] = @ - amount]
           change == 0 - amount
<1>3. pool \in [PoolAccounts -> Nat] /\ pool[from] = l.pool[from] + change
      /\ \A acc \in PoolAccounts : acc # from => pool[acc] = l.pool[acc]
  <2>1. l.pool[from] - amount \in Nat /\ l.pool[from] - amount = l.pool[from] + change
    BY <1>1, <1>2, SMT
  <2>2. QED
    BY <1>2, <2>1
<1>4. Sum(pool, PoolAccounts) = Sum(l.pool, PoolAccounts) + change
  <2>1. change \in Int
    BY SMT
  <2> HIDE DEF pool, change
  <2>2. QED
    BY <1>2, <1>3, <2>1, PoolAccountsFinite, LedgerSumAdjusts
<1>5. Sum(pool, PoolAccounts) \in Nat
  <2> HIDE DEF pool
  <2>1. QED
    BY <1>3, PoolAccountsFinite, LedgerSumType
<1>6. l.supply - amount \in 0 .. U64_MAX /\ l.supply - amount = Sum(pool, PoolAccounts)
  <2> HIDE DEF pool
  <2>1. l.supply = Sum(l.pool, PoolAccounts)
    BY DEF Held
  <2>2. QED
    BY <1>2, <1>4, <1>5, <2>1, LedgersAssumption, SMT
<1>7. m \in Ledger /\ m.pool = pool /\ m.supply = l.supply - amount /\ m.a = l.a /\ m.b = l.b
  BY <1>3, <1>6 DEF Held, Ledger
<1> HIDE DEF pool, m
<1>8. QED
  BY <1>1, <1>3, <1>6, <1>7 DEF Held, Burnt

-----------------------------------------------------------------------------
(* Sums over some of the accounts. *)

\* The accounts of S that hold anything are in T.
OnlyIn(balance, S, T) == \A acc \in S \ T : balance[acc] = 0

\* Any account may be counted first.
LEMMA SumTakesOut ==
  ASSUME NEW S, IsFiniteSet(S), NEW balance \in [S -> Nat], NEW sum, SumsUp(sum, balance, SUBSET S),
         NEW some \in SUBSET S, NEW acc \in some, NEW others, others = some \ {acc}
  PROVE  sum[some] = balance[acc] + sum[others]
<1> DEFINE Claim(s) == \A x \in s : sum[s] = balance[x] + sum[s \ {x}]
           Good == {n \in Nat : \A s \in UpTo(S, n) : Claim(s)}
<1>1. ASSUME NEW n \in Nat, \A k \in Nat : k < n => k \in Good
      PROVE  n \in Good
  <2>1. SUFFICES ASSUME NEW s \in UpTo(S, n), NEW x \in s PROVE sum[s] = balance[x] + sum[s \ {x}]
    OBVIOUS
  <2>2. s \in SUBSET S /\ s # {} /\ Cardinality(s) <= n
    BY DEF UpTo
  <2> DEFINE p == Picked(s)
  <2>3. /\ p \in s /\ Others(s) \in SUBSET S
        /\ Cardinality(s) \in Nat /\ Cardinality(Others(s)) = Cardinality(s) - 1
    BY <2>2, PickedIsLessMany
  <2>4. sum[s] = balance[p] + sum[s \ {p}]
    BY <2>2 DEF SumsUp, Others
  <2>5. IsFiniteSet(s)
    BY <2>2, FS_Subset
  <2>6. ASSUME NEW y \in s, NEW z \in s \ {y}
        PROVE  sum[s \ {y}] = balance[z] + sum[(s \ {y}) \ {z}]
    <3>1. Cardinality(s \ {y}) = Cardinality(s) - 1 /\ s \ {y} \in SUBSET S
      BY <2>2, <2>5, FS_RemoveElement
    <3>2. Cardinality(s \ {y}) \in Nat
      BY <3>1, FS_Subset, FS_CardinalityType
    <3>3. Cardinality(s \ {y}) < n /\ s \ {y} \in UpTo(S, Cardinality(s \ {y}))
      BY <2>2, <2>3, <3>1, <3>2, SMT DEF UpTo
    <3>4. Claim(s \ {y})
      BY <1>1, <3>2, <3>3
    <3>5. QED
      BY <3>4
  <2> HIDE DEF p
  <2>7. CASE p = x
    BY <2>4, <2>7
  <2>8. CASE p # x
    <3>1. sum[s \ {p}] = balance[x] + sum[(s \ {p}) \ {x}]
      BY <2>3, <2>6, <2>8
    <3>2. sum[s \ {x}] = balance[p] + sum[(s \ {x}) \ {p}]
      BY <2>3, <2>6, <2>8
    <3>3. (s \ {p}) \ {x} = (s \ {x}) \ {p}
      OBVIOUS
    <3>4. balance[x] \in Nat /\ balance[p] \in Nat /\ sum[(s \ {x}) \ {p}] \in Nat
      <4>1. x \in S /\ p \in S /\ (s \ {x}) \ {p} \in SUBSET S
        BY <2>2, <2>3
      <4>2. QED
        BY <4>1, SumType
    <3> DEFINE both == sum[(s \ {x}) \ {p}]
    <3>5. sum[s] = balance[p] + (balance[x] + both) /\ sum[s \ {x}] = balance[p] + both
      BY <2>4, <3>1, <3>2, <3>3
    <3> HIDE DEF both
    <3>6. balance[p] + (balance[x] + both) = balance[x] + (balance[p] + both)
      BY <3>4, SMT DEF both
    <3>7. QED
      BY <3>5, <3>6
  <2>9. QED
    BY <2>7, <2>8
<1> HIDE DEF Good
<1>2. Good = Nat
  <2>1. Good \in SUBSET Nat
    BY DEF Good
  <2>2. QED
    BY <1>1, <2>1, NoLeastFailure
<1>3. ASSUME NEW s \in SUBSET S PROVE Claim(s)
  <2>1. Cardinality(s) \in Nat
    BY FS_Subset, FS_CardinalityType
  <2>2. s \in UpTo(S, Cardinality(s))
    BY <2>1, SMT DEF UpTo
  <2>3. QED
    BY <1>2, <2>1, <2>2 DEF Good
<1>4. QED
  BY <1>3

\* Fewer accounts hold no more, and as much when the others hold nothing.
LEMMA SumWithin ==
  ASSUME NEW S, IsFiniteSet(S), NEW balance \in [S -> Nat], NEW sum, SumsUp(sum, balance, SUBSET S),
         NEW T \in SUBSET S, NEW some \in SUBSET S, NEW within, within = some \cap T
  PROVE  /\ sum[within] <= sum[some]
         /\ OnlyIn(balance, S, T) => sum[within] = sum[some]
<1> DEFINE Claim(s) == /\ sum[s \cap T] <= sum[s]
                       /\ OnlyIn(balance, S, T) => sum[s \cap T] = sum[s]
           Good == {n \in Nat : \A s \in UpTo(S, n) : Claim(s)}
<1>1. ASSUME NEW n \in Nat, \A k \in Nat : k < n => k \in Good
      PROVE  n \in Good
  <2>1. SUFFICES ASSUME NEW s \in UpTo(S, n) PROVE Claim(s)
    OBVIOUS
  <2>2. s \in SUBSET S /\ Cardinality(s) <= n
    BY DEF UpTo
  <2>3. sum[s] \in Nat
    BY <2>2, SumType
  <2>4. CASE s = {}
    <3>1. s \cap T = s
      BY <2>4
    <3>2. sum[s \cap T] = sum[s]
      BY <3>1
    <3>3. QED
      BY <2>3, <3>2, SMT
  <2>5. CASE s # {}
    <3>1. PICK x \in s : TRUE
      BY <2>5
    <3> DEFINE rest == s \ {x}
    <3>2. IsFiniteSet(s) /\ Cardinality(s) \in Nat
      BY <2>2, FS_Subset, FS_CardinalityType
    <3>3. Cardinality(rest) = Cardinality(s) - 1 /\ rest \in SUBSET S
      BY <2>2, <3>2, FS_RemoveElement
    <3>4. Cardinality(rest) \in Nat
      BY <3>3, FS_Subset, FS_CardinalityType
    <3>5. Claim(rest)
      <4>1. Cardinality(rest) < n /\ rest \in UpTo(S, Cardinality(rest))
        BY <2>2, <3>2, <3>3, <3>4, SMT DEF UpTo
      <4> HIDE DEF rest
      <4>2. QED
        BY <1>1, <3>4, <4>1
    <3>6. sum[s] = balance[x] + sum[rest]
      BY <2>2, SumTakesOut
    <3>7. balance[x] \in Nat /\ sum[rest] \in Nat /\ sum[rest \cap T] \in Nat
      <4>1. x \in S /\ rest \cap T \in SUBSET S
        BY <2>2
      <4> HIDE DEF rest
      <4>2. QED
        BY <3>3, <4>1, SumType
    <3>8. CASE x \in T
      <4>1. x \in s \cap T /\ s \cap T \in SUBSET S /\ (s \cap T) \ {x} = rest \cap T
        BY <2>2, <3>8
      <4>2. sum[s \cap T] = balance[x] + sum[rest \cap T]
        <5> DEFINE mine == s \cap T
        <5> DEFINE left == rest \cap T
        <5>1. mine \in SUBSET S /\ x \in mine
          BY <4>1
        <5>2. left = mine \ {x}
          BY <4>1
        <5> HIDE DEF mine, rest, left
        <5>3. sum[mine] = balance[x] + sum[left]
          BY <5>1, <5>2, SumTakesOut
        <5>4. QED
          BY <5>3 DEF mine, left
      <4> HIDE DEF rest
      <4>3. QED
        BY <3>5, <3>6, <3>7, <4>2, SMT
    <3>9. CASE x \notin T
      <4>1. s \cap T = rest \cap T /\ x \in S
        BY <2>2, <3>9
      <4> HIDE DEF rest
      <4>2. OnlyIn(balance, S, T) => balance[x] = 0
        BY <3>9, <4>1 DEF OnlyIn
      <4> DEFINE most == sum[s]
                 less == sum[rest]
                 mine == sum[rest \cap T]
      <4>3. /\ most = balance[x] + less /\ mine <= less /\ sum[s \cap T] = mine
            /\ balance[x] \in Nat /\ less \in Nat /\ mine \in Nat
        BY <3>5, <3>6, <3>7, <4>1
      <4>4. OnlyIn(balance, S, T) => mine = less
        BY <3>5
      <4> HIDE DEF most, less, mine
      <4>5. mine <= most
        BY <4>3, SMT
      <4>6. OnlyIn(balance, S, T) => mine = most
        <5>1. SUFFICES ASSUME OnlyIn(balance, S, T) PROVE mine = most
          OBVIOUS
        <5>2. balance[x] = 0 /\ mine = less
          BY <4>2, <4>4, <5>1
        <5>3. QED
          BY <4>3, <5>2, SMT
      <4>7. QED
        BY <4>3, <4>5, <4>6 DEF most
    <3>10. QED
      BY <3>8, <3>9
  <2>6. QED
    BY <2>4, <2>5
<1> HIDE DEF Good
<1>2. Good = Nat
  <2>1. Good \in SUBSET Nat
    BY DEF Good
  <2>2. QED
    BY <1>1, <2>1, NoLeastFailure
<1>3. ASSUME NEW s \in SUBSET S PROVE Claim(s)
  <2>1. Cardinality(s) \in Nat
    BY FS_Subset, FS_CardinalityType
  <2>2. s \in UpTo(S, Cardinality(s))
    BY <2>1, SMT DEF UpTo
  <2>3. QED
    BY <1>2, <2>1, <2>2 DEF Good
<1>4. QED
  BY <1>3

\* The sum over some accounts is that of the recursion over all of them.
LEMMA SumOfSome ==
  ASSUME NEW S, IsFiniteSet(S), NEW balance \in [S -> Nat], NEW sum, SumsUp(sum, balance, SUBSET S),
         NEW T \in SUBSET S
  PROVE  Sum(balance, T) = sum[T]
<1> DEFINE part == [s \in SUBSET T |-> sum[s]]
           own  == [acc \in T |-> balance[acc]]
<1>1. IsFiniteSet(T)
  BY FS_Subset
<1>2. PICK sum2 : SumsUp(sum2, balance, SUBSET T) /\ Sum(balance, T) = sum2[T]
  BY <1>1, SumSolves
<1>3. ASSUME NEW s \in SUBSET T, s # {}
      PROVE  Picked(s) \in T /\ Others(s) \in SUBSET T
  BY <1>1, <1>3, PickedIsLessMany
<1>4. SumsUp(part, own, SUBSET T)
  <2>1. ASSUME NEW s \in SUBSET T
        PROVE  part[s] = IF s = {} THEN 0 ELSE own[Picked(s)] + part[Others(s)]
    <3>1. sum[s] = IF s = {} THEN 0 ELSE balance[Picked(s)] + sum[Others(s)]
      BY DEF SumsUp
    <3>2. QED
      BY <1>3, <3>1
  <2> HIDE DEF own
  <2>2. part = [s \in SUBSET T |-> part[s]]
    OBVIOUS
  <2> HIDE DEF part
  <2> DEFINE Right(s) == IF s = {} THEN 0 ELSE own[Picked(s)] + part[Others(s)]
  <2>3. \A s \in SUBSET T : part[s] = Right(s)
    BY <2>1
  <2> HIDE DEF Right
  <2>4. part = [s \in SUBSET T |-> Right(s)]
    BY <2>2, <2>3
  <2>5. QED
    BY <2>4 DEF SumsUp, Right
<1>5. SumsUp(sum2, own, SUBSET T)
  <2>1. ASSUME NEW s \in SUBSET T
        PROVE  sum2[s] = IF s = {} THEN 0 ELSE own[Picked(s)] + sum2[Others(s)]
    <3>1. sum2[s] = IF s = {} THEN 0 ELSE balance[Picked(s)] + sum2[Others(s)]
      BY <1>2 DEF SumsUp
    <3>2. QED
      BY <1>3, <3>1
  <2> HIDE DEF own
  <2>2. sum2 = [s \in SUBSET T |-> sum2[s]]
    BY <1>2 DEF SumsUp
  <2> DEFINE Right(s) == IF s = {} THEN 0 ELSE own[Picked(s)] + sum2[Others(s)]
  <2>3. \A s \in SUBSET T : sum2[s] = Right(s)
    BY <2>1
  <2> HIDE DEF Right
  <2>4. sum2 = [s \in SUBSET T |-> Right(s)]
    BY <2>2, <2>3
  <2>5. QED
    BY <2>4 DEF SumsUp, Right
<1>6. own \in [T -> Nat] /\ part[T] = sum[T]
  OBVIOUS
<1> HIDE DEF own, part
<1>7. CASE T = {}
  <2>1. sum2[T] = 0 /\ sum[T] = 0
    BY <1>2, <1>7 DEF SumsUp
  <2>2. QED
    BY <1>2, <2>1
<1>8. CASE T # {}
  <2>1. PICK acc \in T : TRUE
    BY <1>8
  <2>2. sum2[T] = part[T]
    BY <1>1, <1>4, <1>5, <1>6, <2>1, SameSum
  <2>3. QED
    BY <1>2, <1>6, <2>2
<1>9. QED
  BY <1>7, <1>8

LEMMA SumOverSome ==
  ASSUME NEW S, IsFiniteSet(S), NEW balance \in [S -> Nat], NEW T \in SUBSET S
  PROVE  /\ Sum(balance, T) \in Nat /\ Sum(balance, T) <= Sum(balance, S)
         /\ OnlyIn(balance, S, T) => Sum(balance, T) = Sum(balance, S)
         /\ \A x \in S \ T : Sum(balance, T) + balance[x] <= Sum(balance, S)
<1>1. PICK sum : SumsUp(sum, balance, SUBSET S) /\ Sum(balance, S) = sum[S]
  BY SumSolves
<1>2. Sum(balance, T) = sum[T] /\ T = S \cap T /\ S \in SUBSET S
  BY <1>1, SumOfSome
<1>3. sum[T] \in Nat
  BY <1>1, SumType
<1>4. /\ sum[T] <= sum[S]
      /\ OnlyIn(balance, S, T) => sum[T] = sum[S]
  <2> DEFINE all == S
  <2>1. all \in SUBSET S /\ T = all \cap T
    OBVIOUS
  <2> HIDE DEF all
  <2>2. /\ sum[T] <= sum[all]
        /\ OnlyIn(balance, S, T) => sum[T] = sum[all]
    BY <1>1, <2>1, SumWithin
  <2>3. QED
    BY <2>2 DEF all
<1>5. ASSUME NEW x \in S \ T PROVE sum[T] + balance[x] <= sum[S]
  <2> DEFINE more == T \cup {x}
  <2>1. more \in SUBSET S /\ x \in more /\ T = more \ {x} /\ more = S \cap more
    OBVIOUS
  <2> HIDE DEF more
  <2>2. sum[more] = balance[x] + sum[T]
    BY <1>1, <2>1, SumTakesOut
  <2>3. sum[more] <= sum[S]
    BY <1>1, <1>2, <2>1, SumWithin
  <2>4. balance[x] \in Nat
    OBVIOUS
  <2>5. QED
    BY <1>3, <2>2, <2>3, <2>4, SMT
<1>6. QED
  BY <1>1, <1>2, <1>3, <1>4, <1>5

-----------------------------------------------------------------------------
(* The reserves as the curve sees them. *)

\* A reserve of the token, the offset included.
Side(c, token, reserve) == IF token = "b" THEN WithOffset(c, reserve) ELSE reserve

\* What the curve adds to the reserve.
Extra(c, token) == IF token = "b" /\ c.type = "Offset" THEN c.offset ELSE 0

LEMMA SideAdds ==
  ASSUME NEW c \in ProductCurves, NEW token, NEW reserve \in Int
  PROVE  Extra(c, token) \in Nat /\ Side(c, token, reserve) = reserve + Extra(c, token)
<1>1. c.offset \in Nat
  BY LedgersAssumption DEF Curve, ProductCurves
<1>2. QED
  BY <1>1, SMT DEF Side, WithOffset, Extra

LEMMA SideType ==
  ASSUME NEW c \in ProductCurves, NEW token, NEW reserve \in Nat
  PROVE  Side(c, token, reserve) \in Nat
<1>1. Extra(c, token) \in Nat /\ Side(c, token, reserve) = reserve + Extra(c, token)
  <2>1. reserve \in Int
    BY SMT
  <2>2. QED
    BY <2>1, SideAdds
<1>2. QED
  BY <1>1, SMT

\* What a reserve gains or loses, the curve sees.
LEMMA SideShifts ==
  ASSUME NEW c \in ProductCurves, NEW token, NEW reserve \in Int, NEW after \in Int
  PROVE  Side(c, token, after) = Side(c, token, reserve) + (after - reserve)
<1>1. Extra(c, token) \in Nat /\ Side(c, token, reserve) = reserve + Extra(c, token)
  BY SideAdds
<1>2. Side(c, token, after) = after + Extra(c, token)
  BY SideAdds
<1>3. QED
  BY <1>1, <1>2, SMT

LEMMA Directions ==
  ASSUME NEW dir \in Direction
  PROVE  /\ TokenGiven(dir) \in {"a", "b"} /\ TokenTaken(dir) \in {"a", "b"}
         /\ dir = "AtoB" => TokenGiven(dir) = "a" /\ TokenTaken(dir) = "b"
         /\ dir # "AtoB" => TokenGiven(dir) = "b" /\ TokenTaken(dir) = "a"
BY DEF Direction, TokenGiven, TokenTaken

-----------------------------------------------------------------------------
(* The numbers a handler moves, under any curve. *)

\* What a division of the priced curves gives, unless the cast panics.
LEMMA PricedTokensType ==
  ASSUME NEW amount \in Nat, NEW a \in Nat, NEW b \in Nat, NEW supply \in Nat, NEW dir \in Direction,
         NEW round \in Rounding, NEW p \in Nat,
         ~Bad(PricedPoolTokens(amount, a, b, supply, dir, round, p))
  PROVE  PricedPoolTokens(amount, a, b, supply, dir, round, p) \in Nat
<1> DEFINE value  == GivenValue(amount, dir, p)
           total  == TotalValue(a, b, p)
           tokens == TradingTokensToPoolTokens(amount, a, b, supply, dir, round, p)
<1>1. total # 0 /\ PricedPoolTokens(amount, a, b, supply, dir, round, p) = AsU128(tokens)
  BY Zenon DEF PricedPoolTokens, Bad
<1>2. value \in Nat /\ total \in Nat \ {0}
  BY <1>1, GivenValueBounds, TotalValueBounds
<1>3. tokens = Divide(supply * value, total, round)
  BY DEF TradingTokensToPoolTokens
<1> HIDE DEF value, total
<1>4. supply * value \in Nat
  BY <1>2, SMT
<1>5. tokens \in Nat
  BY <1>2, <1>3, <1>4, DivideTypes
<1> HIDE DEF tokens
<1>6. AsU128(tokens) = tokens
  BY <1>1, Zenon DEF AsU128, Bad
<1>7. QED
  BY <1>1, <1>5, <1>6

LEMMA DepositedType ==
  ASSUME NEW c \in Curves, NEW amount \in Nat, NEW a \in Nat, NEW b \in Nat, NEW supply \in Nat,
         NEW dir \in Direction, ~Bad(DepositSingleTokenType(c, amount, a, b, supply, dir))
  PROVE  DepositSingleTokenType(c, amount, a, b, supply, dir) \in Nat
<1> DEFINE tokens == DepositSingleTokenType(c, amount, a, b, supply, dir)
<1>1. c.price \in Nat /\ c.offset \in Nat
  BY LedgersAssumption DEF Curve
<1>2. CASE Priced(c)
  <2>1. tokens = PricedPoolTokens(amount, a, b, supply, dir, "Floor", c.price)
    BY <1>2, Zenon DEF DepositSingleTokenType, PricedDeposit
  <2>2. "Floor" \in Rounding
    BY DEF Rounding
  <2> HIDE DEF tokens
  <2>3. tokens \in Nat
    BY <1>1, <2>1, <2>2, PricedTokensType DEF tokens
  <2>4. QED
    BY <2>3 DEF tokens
<1>3. CASE ~Priced(c)
  <2> DEFINE x == IF dir = "AtoB" THEN a ELSE WithOffset(c, b)
  <2>1. x \in Nat
    BY <1>1, SMT DEF WithOffset
  <2>2. tokens = ProductDeposit(amount, x, supply)
    BY <1>3, Zenon DEF DepositSingleTokenType
  <2> HIDE DEF x, tokens
  <2>3. ProductDeposit(amount, x, supply) # None
    BY <2>2 DEF Bad, tokens
  <2>4. ProductDeposit(amount, x, supply) \in Nat
    BY <2>1, <2>3, ProductDepositAs
  <2>5. QED
    BY <2>2, <2>4 DEF tokens
<1>4. QED
  BY <1>2, <1>3

LEMMA WithdrawnType ==
  ASSUME NEW c \in Curves, NEW amount \in Nat, NEW a \in Nat, NEW b \in Nat, NEW supply \in Nat,
         NEW dir \in Direction, ~Bad(WithdrawSingleTokenType(c, amount, a, b, supply, dir))
  PROVE  WithdrawSingleTokenType(c, amount, a, b, supply, dir) \in Nat
<1> DEFINE tokens == WithdrawSingleTokenType(c, amount, a, b, supply, dir)
<1>1. c.price \in Nat /\ c.offset \in Nat
  BY LedgersAssumption DEF Curve
<1>2. CASE Priced(c)
  <2>1. tokens = PricedPoolTokens(amount, a, b, supply, dir, "Ceiling", c.price)
    BY <1>2, Zenon DEF WithdrawSingleTokenType, PricedWithdraw
  <2>2. "Ceiling" \in Rounding
    BY DEF Rounding
  <2> HIDE DEF tokens
  <2>3. tokens \in Nat
    BY <1>1, <2>1, <2>2, PricedTokensType DEF tokens
  <2>4. QED
    BY <2>3 DEF tokens
<1>3. CASE ~Priced(c)
  <2> DEFINE x == IF dir = "AtoB" THEN a ELSE WithOffset(c, b)
  <2>1. x \in Nat
    BY <1>1, SMT DEF WithOffset
  <2>2. tokens = ProductWithdraw(amount, x, supply)
    BY <1>3, Zenon DEF WithdrawSingleTokenType
  <2> HIDE DEF x, tokens
  <2>3. ProductWithdraw(amount, x, supply) # None
    BY <2>2 DEF Bad, tokens
  <2>4. ProductWithdraw(amount, x, supply) \in Nat
    BY <2>1, <2>3, ProductWithdrawAs
  <2>5. QED
    BY <2>2, <2>4 DEF tokens
<1>4. QED
  BY <1>2, <1>3

\* Both tokens of a number of pool tokens.
LEMMA PartsType ==
  ASSUME NEW c \in Curves, NEW poolTokens \in Nat, NEW a \in Nat, NEW b \in Nat, NEW supply \in Nat,
         NEW round \in Rounding, TradingTokens(c, poolTokens, a, b, supply, round) # None
  PROVE  /\ supply # 0
         /\ TradingTokens(c, poolTokens, a, b, supply, round).a \in Nat
         /\ TradingTokens(c, poolTokens, a, b, supply, round).b \in Nat
<1> DEFINE part == TradingTokens(c, poolTokens, a, b, supply, round)
<1>1. supply # 0
  BY DEF TradingTokens
<1>2. c.offset \in Nat
  BY LedgersAssumption DEF Curve
<1>3. CASE Priced(c)
  <2>1. part = PricedTradingTokens(poolTokens, a, b, supply, round)
    BY <1>1, <1>3, Zenon DEF TradingTokens
  <2>2. /\ part.a = Divide(poolTokens * a, supply, round)
        /\ part.b = Divide(poolTokens * b, supply, round)
    BY <2>1 DEF PricedTradingTokens, PoolTokensToTradingTokens
  <2>3. poolTokens * a \in Nat /\ poolTokens * b \in Nat
    BY SMT
  <2> HIDE DEF part
  <2>4. part.a \in Nat /\ part.b \in Nat
    BY <1>1, <2>2, <2>3, DivideTypes
  <2>5. QED
    BY <1>1, <2>4 DEF part
<1>4. CASE ~Priced(c)
  <2> DEFINE y == WithOffset(c, b)
  <2>1. y \in Nat
    BY <1>2, SMT DEF WithOffset
  <2>2. part = [a |-> ProductPart(poolTokens, a, supply, round), b |-> ProductPart(poolTokens, y, supply, round)]
    BY <1>1, <1>4, Zenon DEF TradingTokens
  <2> HIDE DEF y, part
  <2>3. \A reserve \in Nat : ProductPart(poolTokens, reserve, supply, round) \in Nat
    <3>1. CASE round = "Floor"
      BY <1>1, <3>1, PartRoundedDown
    <3>2. CASE round = "Ceiling"
      BY <1>1, <3>2, PartRoundedUp
    <3>3. QED
      BY <3>1, <3>2 DEF Rounding
  <2>4. part.a \in Nat /\ part.b \in Nat
    BY <2>1, <2>2, <2>3
  <2>5. QED
    BY <1>1, <2>4 DEF part
<1>5. QED
  BY <1>3, <1>4

\* The fees around a swap, whatever the curve answers.
LEMMA FeesAroundSwap ==
  ASSUME NEW c, NEW f \in FeeSchedule, ValidFees(f), NEW amount \in Nat, NEW source, NEW destination,
         NEW dir, NEW net, net = LessFees(amount, f),
         NEW q, q = SwapWithoutFees(c, net, source, destination, dir),
         NEW r, r = CurveSwap(c, amount, source, destination, dir, f), ~Bad(r)
  PROVE  /\ net \in Nat /\ ~Bad(q) /\ ~(q.out > destination) /\ r.destinationAmount = q.out
         /\ q.in \in Nat => /\ r.sourceAmount \in Nat /\ r.ownerFee \in Nat
                            /\ q.in + r.ownerFee <= r.sourceAmount
<1> DEFINE base  == IF q.in < net THEN PreTradingFeeAmount(q.in, f) ELSE amount
           trade == TradingFee(base, f)
           owner == OwnerTradingFee(base, f)
<1>1. ~(net < 0)
  BY Zenon DEF CurveSwap, Bad
<1>2. ~Bad(q)
  BY <1>1, Zenon DEF CurveSwap
<1>3. ~((q.in < net /\ ~PreTradingFeeDefined(f)) \/ q.out > destination)
  BY <1>1, <1>2, Zenon DEF CurveSwap, Bad
<1>4. r = [sourceAmount |-> q.in + trade + owner, destinationAmount |-> q.out, ownerFee |-> owner]
  BY <1>1, <1>2, <1>3, Zenon DEF CurveSwap
<1>5. net \in Nat
  <2>1. TradingFee(amount, f) \in Nat /\ OwnerTradingFee(amount, f) \in Nat
    BY FeesAtMostAmount
  <2>2. net \in Int
    BY <2>1, SMT DEF LessFees
  <2>3. QED
    BY <1>1, <2>2, SMT
<1>6. ASSUME q.in \in Nat
      PROVE  /\ r.sourceAmount \in Nat /\ r.ownerFee \in Nat
             /\ q.in + r.ownerFee <= r.sourceAmount
  <2>1. base \in Nat
    <3>1. CASE q.in < net
      <4>1. PreFeeAmountDefined(CombinedTradingFee(f)) /\ CombinedTradingFee(f) \in Fraction
        BY <1>3, <3>1, CombinedFeeType DEF PreTradingFeeDefined
      <4>2. PreTradingFeeAmount(q.in, f) \in Nat
        BY <1>6, <4>1, PreFeeCoversPostFee DEF PreTradingFeeAmount
      <4>3. QED
        BY <3>1, <4>2
    <3>2. CASE ~(q.in < net)
      BY <3>2
    <3>3. QED
      BY <3>1, <3>2
  <2> HIDE DEF base
  <2>2. trade \in Nat /\ owner \in Nat
    BY <2>1, FeesAtMostAmount
  <2> HIDE DEF trade, owner
  <2>3. r.sourceAmount = q.in + trade + owner /\ r.ownerFee = owner
    BY <1>4
  <2>4. QED
    BY <1>6, <2>2, <2>3, SMT
<1>7. QED
  BY <1>2, <1>3, <1>4, <1>5, <1>6

-----------------------------------------------------------------------------
(* The handlers taken apart: the calls an instruction that goes well made. *)

\* The owner's fee is taken between the trader's payment and his tokens.
SwapCalls(c, f, l, dir, source, destination, amount, host, allowance, m, r, o1, o2, o3) ==
  /\ source # Reserve /\ destination # Reserve
  /\ r = CurveSwap(c, amount, l[TokenGiven(dir)][Reserve], l[TokenTaken(dir)][Reserve], dir, f)
  /\ ~Bad(r)
  /\ o1 = Transfer(l, TokenGiven(dir), source, Reserve, r.sourceAmount, allowance)
  /\ LET kept == l[TokenGiven(dir)][Reserve] + r.sourceAmount - r.ownerFee
         left == l[TokenTaken(dir)][Reserve] - r.destinationAmount
     IN  o2 = MintOwnerFee(c, f, o1.ledger, r.ownerFee, IF dir = "AtoB" THEN kept ELSE left,
                           IF dir = "AtoB" THEN left ELSE kept, o1.ledger.supply, dir, TRUE, host)
  /\ o3 = Transfer(o2.ledger, TokenTaken(dir), Reserve, destination, r.destinationAmount, U64_MAX)
  /\ o1.code = Ok /\ o2.code = Ok /\ o3.code = Ok /\ m = o3.ledger

LEMMA SwapTakenApart ==
  ASSUME NEW c, NEW f, NEW l, NEW dir, NEW source, NEW destination, NEW amount, NEW minimumOut,
         NEW host, NEW allowance,
         NEW o, o = ProcessSwap(c, f, l, dir, source, destination, amount, minimumOut, host, allowance),
         o.code = Ok
  PROVE  \E r, o1, o2, o3 :
           SwapCalls(c, f, l, dir, source, destination, amount, host, allowance, o.ledger, r, o1, o2, o3)
<1> DEFINE g == TokenGiven(dir)
           t == TokenTaken(dir)
           r == CurveSwap(c, amount, l[g][Reserve], l[t][Reserve], dir, f)
           kept == l[g][Reserve] + r.sourceAmount - r.ownerFee
           left == l[t][Reserve] - r.destinationAmount
           a == IF dir = "AtoB" THEN kept ELSE left
           b == IF dir = "AtoB" THEN left ELSE kept
           PayFee(led) == MintOwnerFee(c, f, led, r.ownerFee, a, b, led.supply, dir, TRUE, host)
           PayOut(led) == Transfer(led, t, Reserve, destination, r.destinationAmount, U64_MAX)
           o1 == Transfer(l, g, source, Reserve, r.sourceAmount, allowance)
           o2 == PayFee(o1.ledger)
           o3 == PayOut(o2.ledger)
<1>1. source # Reserve /\ destination # Reserve /\ ~Bad(r) /\ o = Then(Then(o1, PayFee), PayOut)
  <2>1. ~(source = Reserve \/ destination = Reserve)
    BY SwapErrorsAreNotOk DEF ProcessSwap, Refused, Failure
  <2>2. ~Bad(r)
    <3>1. SUFFICES ASSUME Bad(r) PROVE FALSE
      OBVIOUS
    <3>2. o = NoAnswer(r, "ZeroTradingTokens", l)
      BY <2>1, <3>1, Zenon DEF ProcessSwap
    <3>3. QED
      BY <3>2, SwapErrorsAreNotOk DEF NoAnswer, Refused, Failure
  <2>3. \/ o \in {Refused("ConversionFailure", l), Refused("ExceededSlippage", l)}
        \/ o = Then(Then(o1, PayFee), PayOut)
    BY <2>1, <2>2, Zenon DEF ProcessSwap
  <2> HIDE DEF r, o1, PayFee, PayOut
  <2>4. Refused("ConversionFailure", l).code # Ok /\ Refused("ExceededSlippage", l).code # Ok
    BY SwapErrorsAreNotOk DEF Refused, Failure
  <2>5. QED
    BY <2>1, <2>2, <2>3, <2>4, Zenon
<1>2. o1.code = Ok /\ o2.code = Ok /\ o3.code = Ok /\ o.ledger = o3.ledger
  <2>1. o = IF (IF o1.code = Ok THEN o2 ELSE o1).code = Ok
              THEN PayOut((IF o1.code = Ok THEN o2 ELSE o1).ledger)
              ELSE (IF o1.code = Ok THEN o2 ELSE o1)
    BY <1>1, Zenon DEF Then
  <2> HIDE DEF o1, o2, PayOut
  <2>2. o1.code = Ok /\ o2.code = Ok
    BY <2>1
  <2>3. o = PayOut(o2.ledger)
    BY <2>1, <2>2
  <2>4. QED
    BY <2>2, <2>3
<1>3. SwapCalls(c, f, l, dir, source, destination, amount, host, allowance, o.ledger, r, o1, o2, o3)
  BY <1>1, <1>2, Zenon DEF SwapCalls
<1>4. QED
  BY <1>3, Zenon

DepositBothCalls(c, l, source, sourceB, destination, poolAmount, maximumA, maximumB, m, part, o1, o2, o3) ==
  /\ AllowsDeposits(c) /\ source # Reserve /\ sourceB # Reserve
  /\ part = TradingTokens(c, poolAmount, l.a[Reserve], l.b[Reserve], l.supply, "Ceiling")
  /\ part # None /\ ~NothingForSome(c, part)
  /\ o1 = Transfer(l, "a", source, Reserve, part.a, maximumA)
  /\ o2 = Transfer(o1.ledger, "b", sourceB, Reserve, part.b, maximumB)
  /\ o3 = MintTo(o2.ledger, destination, poolAmount)
  /\ o1.code = Ok /\ o2.code = Ok /\ o3.code = Ok /\ m = o3.ledger

LEMMA DepositBothTakenApart ==
  ASSUME NEW c, NEW f, NEW l, NEW source, NEW sourceB, NEW destination, NEW poolAmount,
         NEW maximumA, NEW maximumB,
         NEW o, o = DepositAllTokenTypes(c, f, l, source, sourceB, destination, poolAmount, maximumA, maximumB),
         o.code = Ok
  PROVE  \E part, o1, o2, o3 :
           DepositBothCalls(c, l, source, sourceB, destination, poolAmount, maximumA, maximumB, o.ledger,
                            part, o1, o2, o3)
<1> DEFINE part == TradingTokens(c, poolAmount, l.a[Reserve], l.b[Reserve], l.supply, "Ceiling")
           PayB(led) == Transfer(led, "b", sourceB, Reserve, part.b, maximumB)
           Mint(led) == MintTo(led, destination, poolAmount)
           o1 == Transfer(l, "a", source, Reserve, part.a, maximumA)
           o2 == PayB(o1.ledger)
           o3 == Mint(o2.ledger)
<1>1. /\ AllowsDeposits(c) /\ source # Reserve /\ sourceB # Reserve /\ part # None
      /\ ~NothingForSome(c, part)
      /\ o = Then(Then(o1, PayB), Mint)
  <2>1. AllowsDeposits(c) /\ source # Reserve /\ sourceB # Reserve
    BY SwapErrorsAreNotOk DEF DepositAllTokenTypes, Refused, Failure
  <2>2. part # None
    <3>1. SUFFICES ASSUME part = None PROVE FALSE
      OBVIOUS
    <3>2. o = Refused("ZeroTradingTokens", l)
      BY <2>1, <3>1, Zenon DEF DepositAllTokenTypes
    <3>3. QED
      BY <3>2, SwapErrorsAreNotOk DEF Refused, Failure
  <2>3. \/ o \in {Refused("ConversionFailure", l), Refused("ExceededSlippage", l),
                  Refused("ZeroTradingTokens", l)}
        \/ ~NothingForSome(c, part) /\ o = Then(Then(o1, PayB), Mint)
    BY <2>1, <2>2, Zenon DEF DepositAllTokenTypes
  <2> HIDE DEF part, o1, PayB, Mint
  <2>4. Refused("ConversionFailure", l).code # Ok /\ Refused("ExceededSlippage", l).code # Ok
        /\ Refused("ZeroTradingTokens", l).code # Ok
    BY SwapErrorsAreNotOk DEF Refused, Failure
  <2>5. QED
    BY <2>1, <2>2, <2>3, <2>4, Zenon
<1>2. o1.code = Ok /\ o2.code = Ok /\ o3.code = Ok /\ o.ledger = o3.ledger
  <2>1. o = IF (IF o1.code = Ok THEN o2 ELSE o1).code = Ok
              THEN Mint((IF o1.code = Ok THEN o2 ELSE o1).ledger)
              ELSE (IF o1.code = Ok THEN o2 ELSE o1)
    BY <1>1, Zenon DEF Then
  <2> HIDE DEF o1, o2, Mint
  <2>2. o1.code = Ok /\ o2.code = Ok
    BY <2>1
  <2>3. o = Mint(o2.ledger)
    BY <2>1, <2>2
  <2>4. QED
    BY <2>2, <2>3
<1>3. DepositBothCalls(c, l, source, sourceB, destination, poolAmount, maximumA, maximumB, o.ledger,
                       part, o1, o2, o3)
  BY <1>1, <1>2, Zenon DEF DepositBothCalls
<1>4. QED
  BY <1>3, Zenon

\* The fee is paid of a pool that already has what is left of the amount.
DepositOneCalls(c, f, l, dir, source, destination, amount, given, host, allowance, m, r, o1, o2, o3) ==
  /\ source # Reserve
  /\ r = CurveDeposit(c, amount, l.a[Reserve], l.b[Reserve], l.supply, dir, f)
  /\ ~Bad(r) /\ r.amount # 0
  /\ LET added == amount - r.ownerFee
     IN  o1 = MintOwnerFee(c, f, l, r.ownerFee, IF dir = "AtoB" THEN l.a[Reserve] + added ELSE l.a[Reserve],
                           IF dir = "AtoB" THEN l.b[Reserve] ELSE l.b[Reserve] + added,
                           l.supply + r.amount, dir, given, host)
  /\ o2 = Transfer(o1.ledger, TokenGiven(dir), source, Reserve, amount, allowance)
  /\ o3 = MintTo(o2.ledger, destination, r.amount)
  /\ o1.code = Ok /\ o2.code = Ok /\ o3.code = Ok /\ m = o3.ledger

LEMMA DepositOneTakenApart ==
  ASSUME NEW c, NEW f, NEW l, NEW dir, NEW source, NEW destination, NEW amount, NEW minimumPool,
         NEW given, NEW host, NEW allowance,
         NEW o, o = DepositSingleExactAmountIn(c, f, l, dir, source, destination, amount, minimumPool,
                                               given, host, allowance),
         o.code = Ok
  PROVE  \E r, o1, o2, o3 :
           DepositOneCalls(c, f, l, dir, source, destination, amount, given, host, allowance, o.ledger,
                           r, o1, o2, o3)
<1> DEFINE a == l.a[Reserve]
           b == l.b[Reserve]
           r == CurveDeposit(c, amount, a, b, l.supply, dir, f)
           added == amount - r.ownerFee
           a2 == IF dir = "AtoB" THEN a + added ELSE a
           b2 == IF dir = "AtoB" THEN b ELSE b + added
           Pay(led)  == Transfer(led, TokenGiven(dir), source, Reserve, amount, allowance)
           Mint(led) == MintTo(led, destination, r.amount)
           o1 == MintOwnerFee(c, f, l, r.ownerFee, a2, b2, l.supply + r.amount, dir, given, host)
           o2 == Pay(o1.ledger)
           o3 == Mint(o2.ledger)
<1>1. source # Reserve /\ ~Bad(r) /\ r.amount # 0 /\ o = Then(Then(o1, Pay), Mint)
  <2>1. AllowsDeposits(c) /\ source # Reserve
    BY SwapErrorsAreNotOk DEF DepositSingleExactAmountIn, Refused, Failure
  <2>2. ~Bad(r)
    <3>1. SUFFICES ASSUME Bad(r) PROVE FALSE
      OBVIOUS
    <3>2. o = NoAnswer(r, "ZeroTradingTokens", l)
      BY <2>1, <3>1, Zenon DEF DepositSingleExactAmountIn
    <3>3. QED
      BY <3>2, SwapErrorsAreNotOk DEF NoAnswer, Refused, Failure
  <2>3. \/ o \in {Refused("ConversionFailure", l), Refused("ExceededSlippage", l),
                  Refused("ZeroTradingTokens", l)}
        \/ r.amount # 0 /\ o = Then(Then(o1, Pay), Mint)
    BY <2>1, <2>2, Zenon DEF DepositSingleExactAmountIn
  <2> HIDE DEF r, o1, Pay, Mint
  <2>4. Refused("ConversionFailure", l).code # Ok /\ Refused("ExceededSlippage", l).code # Ok
        /\ Refused("ZeroTradingTokens", l).code # Ok
    BY SwapErrorsAreNotOk DEF Refused, Failure
  <2>5. QED
    BY <2>1, <2>2, <2>3, <2>4, Zenon
<1>2. o1.code = Ok /\ o2.code = Ok /\ o3.code = Ok /\ o.ledger = o3.ledger
  <2>1. o = IF (IF o1.code = Ok THEN o2 ELSE o1).code = Ok
              THEN Mint((IF o1.code = Ok THEN o2 ELSE o1).ledger)
              ELSE (IF o1.code = Ok THEN o2 ELSE o1)
    BY <1>1, Zenon DEF Then
  <2> HIDE DEF o1, o2, Mint
  <2>2. o1.code = Ok /\ o2.code = Ok
    BY <2>1
  <2>3. o = Mint(o2.ledger)
    BY <2>1, <2>2
  <2>4. QED
    BY <2>2, <2>3
<1>3. DepositOneCalls(c, f, l, dir, source, destination, amount, given, host, allowance, o.ledger,
                      r, o1, o2, o3)
  BY <1>1, <1>2, Zenon DEF DepositOneCalls
<1>4. QED
  BY <1>3, Zenon

WithdrawBothCalls(c, f, l, source, destination, destinationB, poolAmount, allowance, m, fee, part, o1, o2, o3) ==
  /\ destination # Reserve /\ destinationB # Reserve
  /\ fee = WithdrawFee(poolAmount, source, f) /\ ~(poolAmount - fee < 0)
  /\ part = TradingTokens(c, poolAmount - fee, l.a[Reserve], l.b[Reserve], l.supply, "Floor")
  /\ part # None
  /\ o1 = TakePoolTokens(l, source, fee, poolAmount - fee, allowance)
  /\ o2 = Transfer(o1.ledger, "a", Reserve, destination, Payable(l.a[Reserve], part.a), U64_MAX)
  /\ o3 = Transfer(o2.ledger, "b", Reserve, destinationB, Payable(l.b[Reserve], part.b), U64_MAX)
  /\ o1.code = Ok /\ o2.code = Ok /\ o3.code = Ok /\ m = o3.ledger

LEMMA WithdrawBothTakenApart ==
  ASSUME NEW c, NEW f, NEW l, NEW source, NEW destination, NEW destinationB, NEW poolAmount,
         NEW minimumA, NEW minimumB, NEW allowance,
         NEW o, o = WithdrawAllTokenTypes(c, f, l, source, destination, destinationB, poolAmount, minimumA,
                                          minimumB, allowance),
         o.code = Ok
  PROVE  \E fee, part, o1, o2, o3 :
           WithdrawBothCalls(c, f, l, source, destination, destinationB, poolAmount, allowance, o.ledger,
                             fee, part, o1, o2, o3)
<1> DEFINE fee   == WithdrawFee(poolAmount, source, f)
           burnt == poolAmount - fee
           part  == TradingTokens(c, burnt, l.a[Reserve], l.b[Reserve], l.supply, "Floor")
           outA  == Payable(l.a[Reserve], part.a)
           outB  == Payable(l.b[Reserve], part.b)
           PayA(led) == Transfer(led, "a", Reserve, destination, outA, U64_MAX)
           PayB(led) == Transfer(led, "b", Reserve, destinationB, outB, U64_MAX)
           o1 == TakePoolTokens(l, source, fee, burnt, allowance)
           o2 == PayA(o1.ledger)
           o3 == PayB(o2.ledger)
<1>1. /\ destination # Reserve /\ destinationB # Reserve /\ ~(burnt < 0) /\ part # None
      /\ o = Then(Then(o1, PayA), PayB)
  <2>1. \/ o \in {Refused("InvalidInput", l), Refused("CalculationFailure", l),
                  Refused("ConversionFailure", l), Refused("ExceededSlippage", l),
                  Refused("ZeroTradingTokens", l)}
        \/ /\ destination # Reserve /\ destinationB # Reserve /\ ~(burnt < 0) /\ part # None
           /\ o = Then(Then(o1, PayA), PayB)
    BY Zenon DEF WithdrawAllTokenTypes
  <2> HIDE DEF part, o1, PayA, PayB, burnt
  <2>2. /\ Refused("InvalidInput", l).code # Ok /\ Refused("CalculationFailure", l).code # Ok
        /\ Refused("ConversionFailure", l).code # Ok /\ Refused("ExceededSlippage", l).code # Ok
        /\ Refused("ZeroTradingTokens", l).code # Ok
    BY SwapErrorsAreNotOk DEF Refused, Failure
  <2>3. QED
    BY <2>1, <2>2, Zenon
<1>2. o1.code = Ok /\ o2.code = Ok /\ o3.code = Ok /\ o.ledger = o3.ledger
  <2>1. o = IF (IF o1.code = Ok THEN o2 ELSE o1).code = Ok
              THEN PayB((IF o1.code = Ok THEN o2 ELSE o1).ledger)
              ELSE (IF o1.code = Ok THEN o2 ELSE o1)
    BY <1>1, Zenon DEF Then
  <2> HIDE DEF o1, o2, PayB
  <2>2. o1.code = Ok /\ o2.code = Ok
    BY <2>1
  <2>3. o = PayB(o2.ledger)
    BY <2>1, <2>2
  <2>4. QED
    BY <2>2, <2>3
<1>3. WithdrawBothCalls(c, f, l, source, destination, destinationB, poolAmount, allowance, o.ledger,
                        fee, part, o1, o2, o3)
  BY <1>1, <1>2, Zenon DEF WithdrawBothCalls
<1>4. QED
  BY <1>3, Zenon

\* The fee is paid of a pool that no longer has the amount.
WithdrawOneCalls(c, f, l, dir, source, destination, amount, host, allowance, m, r, fee, o1, o2, o3) ==
  /\ destination # Reserve
  /\ r = CurveWithdraw(c, amount, l.a[Reserve], l.b[Reserve], l.supply, dir, f)
  /\ ~Bad(r)
  /\ fee = WithdrawFee(r.amount, source, f) /\ r.amount + fee # 0
  /\ LET taken == amount + r.ownerFee
     IN  o1 = MintOwnerFee(c, f, l, r.ownerFee, IF dir = "AtoB" THEN l.a[Reserve] - taken ELSE l.a[Reserve],
                           IF dir = "AtoB" THEN l.b[Reserve] ELSE l.b[Reserve] - taken,
                           l.supply - r.amount, dir, TRUE, host)
  /\ o2 = TakePoolTokens(o1.ledger, source, fee, r.amount, allowance)
  /\ o3 = Transfer(o2.ledger, TokenGiven(dir), Reserve, destination, amount, U64_MAX)
  /\ o1.code = Ok /\ o2.code = Ok /\ o3.code = Ok /\ m = o3.ledger

LEMMA WithdrawOneTakenApart ==
  ASSUME NEW c, NEW f, NEW l, NEW dir, NEW source, NEW destination, NEW amount, NEW maximumPool,
         NEW host, NEW allowance,
         NEW o, o = WithdrawSingleExactAmountOut(c, f, l, dir, source, destination, amount, maximumPool,
                                                 host, allowance),
         o.code = Ok
  PROVE  \E r, fee, o1, o2, o3 :
           WithdrawOneCalls(c, f, l, dir, source, destination, amount, host, allowance, o.ledger,
                            r, fee, o1, o2, o3)
<1> DEFINE a == l.a[Reserve]
           b == l.b[Reserve]
           r == CurveWithdraw(c, amount, a, b, l.supply, dir, f)
           fee   == WithdrawFee(r.amount, source, f)
           total == r.amount + fee
           taken == amount + r.ownerFee
           a2 == IF dir = "AtoB" THEN a - taken ELSE a
           b2 == IF dir = "AtoB" THEN b ELSE b - taken
           Pay(led) == Transfer(led, TokenGiven(dir), Reserve, destination, amount, U64_MAX)
           Take(led) ==
             IF total > U64_MAX THEN Refused("ConversionFailure", led)
             ELSE IF total > maximumPool THEN Refused("ExceededSlippage", led)
             ELSE IF total = 0 THEN Refused("ZeroTradingTokens", led)
             ELSE Then(TakePoolTokens(led, source, fee, r.amount, allowance), Pay)
           o1 == MintOwnerFee(c, f, l, r.ownerFee, a2, b2, l.supply - r.amount, dir, TRUE, host)
           o2 == TakePoolTokens(o1.ledger, source, fee, r.amount, allowance)
           o3 == Pay(o2.ledger)
<1>1. destination # Reserve /\ ~Bad(r) /\ o = Then(o1, Take)
  <2>1. destination # Reserve
    BY SwapErrorsAreNotOk DEF WithdrawSingleExactAmountOut, Refused, Failure
  <2>2. ~Bad(r)
    <3>1. SUFFICES ASSUME Bad(r) PROVE FALSE
      OBVIOUS
    <3>2. o = NoAnswer(r, "ZeroTradingTokens", l)
      BY <2>1, <3>1, Zenon DEF WithdrawSingleExactAmountOut
    <3>3. QED
      BY <3>2, SwapErrorsAreNotOk DEF NoAnswer, Refused, Failure
  <2>3. o = Then(o1, Take)
    BY <2>1, <2>2, Zenon DEF WithdrawSingleExactAmountOut
  <2>4. QED
    BY <2>1, <2>2, <2>3
<1>2. /\ o1.code = Ok /\ o2.code = Ok /\ o3.code = Ok /\ o.ledger = o3.ledger
      /\ total # 0
  <2>1. o = IF o1.code = Ok THEN Take(o1.ledger) ELSE o1
    BY <1>1, Zenon DEF Then
  <2>2. o1.code = Ok /\ o = Take(o1.ledger)
    <3> HIDE DEF o1, Take
    <3>1. QED
      BY <2>1
  <2>3. \/ o \in {Refused("ConversionFailure", o1.ledger), Refused("ExceededSlippage", o1.ledger),
                  Refused("ZeroTradingTokens", o1.ledger)}
        \/ total # 0 /\ o = IF o2.code = Ok THEN o3 ELSE o2
    BY <2>2, Zenon DEF Then
  <2> HIDE DEF o1, o2, o3, total
  <2>4. \A led : Refused("ConversionFailure", led).code # Ok /\ Refused("ExceededSlippage", led).code # Ok
        /\ Refused("ZeroTradingTokens", led).code # Ok
    BY SwapErrorsAreNotOk DEF Refused, Failure
  <2>5. total # 0 /\ o = IF o2.code = Ok THEN o3 ELSE o2
    BY <2>3, <2>4, Zenon
  <2>6. QED
    BY <2>2, <2>5
<1>3. WithdrawOneCalls(c, f, l, dir, source, destination, amount, host, allowance, o.ledger,
                       r, fee, o1, o2, o3)
  BY <1>1, <1>2, Zenon DEF WithdrawOneCalls
<1>4. QED
  BY <1>3, Zenon

-----------------------------------------------------------------------------
(* The owner's fee, under any curve. *)

\* At most the tokens the fee is worth are minted, and nothing else happens.
FeeMinted(c, l, m, ownerFee, a, b, supply, dir) ==
  /\ Held(m) /\ m.a = l.a /\ m.b = l.b
  /\ \A acc \in PoolAccounts : m.pool[acc] >= l.pool[acc]
  /\ ownerFee = 0 => m.supply = l.supply
  /\ ownerFee # 0 => LET tokens == DepositSingleTokenType(c, ownerFee, a, b, supply, dir)
                     IN  /\ a \in Nat /\ b \in Nat /\ supply \in Nat
                         /\ ~Bad(tokens) /\ tokens \in Nat
                         /\ m.supply - l.supply \in 0 .. tokens

LEMMA MintOwnerFeeMints ==
  ASSUME NEW c \in Curves, NEW f \in FeeSchedule, ValidFees(f), NEW l, Held(l),
         NEW ownerFee \in Nat, NEW a \in Int, NEW b \in Int, NEW supply \in Int,
         NEW dir \in Direction, NEW given \in BOOLEAN, NEW host \in Hosts,
         NEW o, o = MintOwnerFee(c, f, l, ownerFee, a, b, supply, dir, given, host), o.code = Ok
  PROVE  FeeMinted(c, l, o.ledger, ownerFee, a, b, supply, dir)
<1> DEFINE m == o.ledger
           tokens == DepositSingleTokenType(c, ownerFee, a, b, supply, dir)
           hosts  == HostPart(tokens, host, f)
           Owners(led) == IF given THEN MintTo(led, FeeAccount, tokens - hosts) ELSE Success(led)
<1>1. l.pool \in [PoolAccounts -> Nat] /\ l.supply \in Nat
  BY LedgersAssumption, SMT DEF Held, Ledger
<1>2. CASE ownerFee = 0
  <2>1. o = Success(l)
    BY <1>2, Zenon DEF MintOwnerFee
  <2>2. m = l
    BY <2>1 DEF Success
  <2> HIDE DEF m
  <2>3. QED
    BY <1>1, <1>2, <2>2, SMT DEF m, FeeMinted
<1>3. CASE ownerFee # 0
  <2>1. ~(a < 0 \/ b < 0 \/ supply < 0)
    BY <1>3, SwapErrorsAreNotOk DEF MintOwnerFee, Refused, Failure
  <2>2. ~Bad(tokens)
    <3>1. SUFFICES ASSUME Bad(tokens) PROVE FALSE
      OBVIOUS
    <3>2. o = NoAnswer(tokens, "FeeCalculationFailure", l)
      BY <1>3, <2>1, <3>1, Zenon DEF MintOwnerFee
    <3>3. QED
      BY <3>2, SwapErrorsAreNotOk DEF NoAnswer, Refused, Failure
  <2>3. o = IF tokens = 0 THEN Success(l)
            ELSE IF host = NoAccount THEN Owners(l)
            ELSE Then(MintTo(l, host, hosts), Owners)
    BY <1>3, <2>1, <2>2, Zenon DEF MintOwnerFee
  <2>4. a \in Nat /\ b \in Nat /\ supply \in Nat
    BY <2>1, SMT
  <2>5. tokens \in Nat
    BY <2>2, <2>4, DepositedType
  <2>6. hosts \in Nat /\ hosts <= tokens /\ tokens - hosts \in Nat
    <3> HIDE DEF tokens
    <3>1. HostFee(tokens, f) \in Nat /\ HostFee(tokens, f) <= tokens
      BY <2>5, FeesAtMostAmount
    <3>2. hosts \in Nat /\ hosts <= tokens
      BY <2>5, <3>1, SMT DEF HostPart
    <3> HIDE DEF hosts
    <3>3. QED
      BY <2>5, <3>2, SMT
  <2>7. FeeAccount \in PoolAccounts /\ (host # NoAccount => host \in PoolAccounts)
    BY DEF PoolAccounts, Hosts
  <2> HIDE DEF tokens, hosts
  <2>8. ASSUME NEW led, Held(led), Owners(led).code = Ok
        PROVE  LET n == Owners(led).ledger
               IN  /\ Held(n) /\ n.a = led.a /\ n.b = led.b
                   /\ n.supply - led.supply \in 0 .. (tokens - hosts)
                   /\ \A acc \in PoolAccounts : n.pool[acc] >= led.pool[acc]
    <3>1. led.supply \in Nat /\ led.pool \in [PoolAccounts -> Nat]
      BY <2>8, LedgersAssumption, SMT DEF Held, Ledger
    <3>2. CASE given
      <4>1. Owners(led) = MintTo(led, FeeAccount, tokens - hosts)
        BY <3>2
      <4>2. Minted(led, Owners(led).ledger, FeeAccount, tokens - hosts)
        BY <2>6, <2>7, <2>8, <4>1, MintMoves
      <4> HIDE DEF Owners
      <4>3. QED
        BY <2>5, <2>6, <3>1, <4>2, SMT DEF Minted
    <3>3. CASE ~given
      <4>1. Owners(led).ledger = led
        BY <3>3 DEF Success
      <4>2. QED
        BY <2>6, <2>8, <3>1, <4>1, SMT
    <3>4. QED
      BY <3>2, <3>3
  <2> HIDE DEF Owners
  <2>9. /\ Held(m) /\ m.a = l.a /\ m.b = l.b
        /\ m.supply - l.supply \in 0 .. tokens
        /\ \A acc \in PoolAccounts : m.pool[acc] >= l.pool[acc]
    <3>1. CASE tokens = 0
      <4>1. m = l
        BY <2>3, <3>1 DEF Success
      <4>2. QED
        BY <1>1, <2>5, <4>1, SMT
    <3>2. CASE tokens # 0 /\ host = NoAccount
      <4>1. o = Owners(l)
        BY <2>3, <3>2
      <4>2. QED
        BY <2>5, <2>6, <2>8, <4>1, SMT
    <3>3. CASE tokens # 0 /\ host # NoAccount
      <4> DEFINE first == MintTo(l, host, hosts)
      <4>1. o = IF first.code = Ok THEN Owners(first.ledger) ELSE first
        BY <2>3, <3>3, Zenon DEF Then
      <4>2. first.code = Ok /\ o = Owners(first.ledger)
        BY <4>1
      <4>3. /\ Held(first.ledger) /\ first.ledger.a = l.a /\ first.ledger.b = l.b
            /\ first.ledger.supply = l.supply + hosts
            /\ \A acc \in PoolAccounts : first.ledger.pool[acc] >= l.pool[acc]
        BY <2>6, <2>7, <3>3, <4>2, MintMoves DEF Minted
      <4> HIDE DEF first
      <4>4. /\ Held(m) /\ m.a = l.a /\ m.b = l.b
            /\ m.supply - first.ledger.supply \in 0 .. (tokens - hosts)
            /\ \A acc \in PoolAccounts : m.pool[acc] >= first.ledger.pool[acc]
        BY <2>8, <4>2, <4>3
      <4>5. m.supply \in Nat /\ m.pool \in [PoolAccounts -> Nat]
            /\ first.ledger.pool \in [PoolAccounts -> Nat]
        BY <4>3, <4>4, LedgersAssumption, SMT DEF Held, Ledger
      <4> HIDE DEF m
      <4>6. m.supply - l.supply \in 0 .. tokens
        BY <1>1, <2>5, <2>6, <4>3, <4>4, <4>5, SMT
      <4>7. \A acc \in PoolAccounts : m.pool[acc] >= l.pool[acc]
        BY <1>1, <4>3, <4>4, <4>5, SMT
      <4>8. QED
        BY <4>4, <4>6, <4>7
    <3>4. QED
      BY <3>1, <3>2, <3>3
  <2> HIDE DEF m
  <2>10. QED
    BY <1>3, <2>2, <2>4, <2>5, <2>9 DEF m, tokens, FeeMinted
<1>4. QED
  BY <1>2, <1>3

-----------------------------------------------------------------------------
(* The owner's fee. *)

\* Pool tokens minted for the fee are covered by it, next to a reserve of k,
\* up to the root they are counted by.
FeeCovered(l, m, ownerFee, k, supply) ==
  /\ Held(m) /\ m.a = l.a /\ m.b = l.b
  /\ m.supply - l.supply \in Nat
  /\ \A acc \in PoolAccounts : m.pool[acc] >= l.pool[acc]
  /\ ownerFee = 0 => m.supply = l.supply
  /\ ownerFee # 0 => /\ k \in Nat \ {0} /\ supply \in Nat
                     /\ CoversBut(k, supply, k + ownerFee, supply + (m.supply - l.supply),
                                  ONE + 5, ONE)

LEMMA MintOwnerFeeCovers ==
  ASSUME NEW c \in ProductCurves, NEW f \in FeeSchedule, ValidFees(f), NEW l, Held(l),
         NEW ownerFee \in Nat, NEW a \in Int, NEW b \in Int, NEW supply \in Int,
         NEW dir \in Direction, NEW given \in BOOLEAN, NEW host \in Hosts,
         NEW o, o = MintOwnerFee(c, f, l, ownerFee, a, b, supply, dir, given, host), o.code = Ok,
         NEW k, k = Side(c, TokenGiven(dir), IF dir = "AtoB" THEN a ELSE b)
  PROVE  FeeCovered(l, o.ledger, ownerFee, k, supply)
<1> DEFINE m == o.ledger
           tokens == DepositSingleTokenType(c, ownerFee, a, b, supply, dir)
<1>1. FeeMinted(c, l, m, ownerFee, a, b, supply, dir) /\ l.supply \in Nat
  <2>1. c \in Curves
    BY LedgersAssumption DEF ProductCurves
  <2>2. FeeMinted(c, l, o.ledger, ownerFee, a, b, supply, dir)
    BY <2>1, MintOwnerFeeMints
  <2>3. QED
    BY <2>2, LedgersAssumption, SMT DEF Held, Ledger
<1> HIDE DEF m
<1>2. CASE ownerFee = 0
  BY <1>1, <1>2, SMT DEF m, FeeMinted, FeeCovered
<1>3. CASE ownerFee # 0
  <2>1. /\ a \in Nat /\ b \in Nat /\ supply \in Nat
        /\ ~Bad(tokens) /\ tokens \in Nat /\ m.supply - l.supply \in 0 .. tokens
    BY <1>1, <1>3 DEF FeeMinted
  <2>2. k \in Nat
    <3>1. (IF dir = "AtoB" THEN a ELSE b) \in Nat
      BY <2>1
    <3>2. QED
      BY <3>1, SideType
  <2>3. tokens = ProductDeposit(ownerFee, k, supply) /\ tokens # None
    <3>1. k = IF dir = "AtoB" THEN a ELSE WithOffset(c, b)
      BY Directions DEF Side
    <3>2. tokens = ProductDeposit(ownerFee, k, supply)
      BY <3>1, LedgersAssumption DEF DepositSingleTokenType, ProductCurves
    <3> HIDE DEF tokens
    <3>3. QED
      BY <2>1, <3>2 DEF Bad
  <2> HIDE DEF tokens
  <2> DEFINE minted == m.supply - l.supply
  <2>4. minted \in Nat /\ minted <= ProductDeposit(ownerFee, k, supply)
    BY <2>1, <2>3, SMT
  <2>5. k # 0 /\ CoversBut(k, supply, k + ownerFee, supply + minted, ONE + 5, ONE)
    <3> HIDE DEF minted
    <3>1. QED
      BY <2>1, <2>2, <2>3, <2>4, DepositCovers
  <2>6. QED
    BY <1>1, <1>3, <2>1, <2>2, <2>3, <2>4, <2>5 DEF m, FeeMinted, FeeCovered
<1>4. QED
  BY <1>2, <1>3

-----------------------------------------------------------------------------
(* A pool and what a step of it may do. *)

\* The square of the pool's value, from the reserves as the curve sees them.
Worth(c, l) == Side(c, "a", l.a[Reserve]) * Side(c, "b", l.b[Reserve])

\* A pool that is open: its parameters were validated and nothing is used up.
Sound(c, f, l) ==
  /\ c \in ProductCurves /\ Validate(c)
  /\ f \in FeeSchedule /\ ValidFees(f)
  /\ Held(l)
  /\ l.pool[InitDestination] >= InitialSupply
  /\ Side(c, "a", l.a[Reserve]) > 0 /\ Side(c, "b", l.b[Reserve]) > 0

\* What a step leaves is sound, and a pool token is worth no less but for
\* the roots the step has taken.
KeepsWorth(c, f, l, m) ==
  /\ Sound(c, f, m)
  /\ CoversBut(Worth(c, l), l.supply, Worth(c, m), m.supply, Keeps(c, f, l, m).num, Keeps(c, f, l, m).den)

LEMMA SoundTypes ==
  ASSUME NEW c, NEW f, NEW l, Sound(c, f, l)
  PROVE  /\ l.a \in [TokenAccounts -> Nat] /\ l.b \in [TokenAccounts -> Nat]
         /\ l.pool \in [PoolAccounts -> Nat] /\ l.supply \in Nat
         /\ Reserve \in TokenAccounts /\ InitDestination \in PoolAccounts
         /\ l.a[Reserve] \in Nat /\ l.b[Reserve] \in Nat
         /\ Side(c, "a", l.a[Reserve]) \in Nat \ {0} /\ Side(c, "b", l.b[Reserve]) \in Nat \ {0}
<1>1. /\ l.a \in [TokenAccounts -> Nat] /\ l.b \in [TokenAccounts -> Nat]
      /\ l.pool \in [PoolAccounts -> Nat] /\ l.supply \in Nat
  BY LedgersAssumption, SMT DEF Sound, Held, Ledger
<1>2. Reserve \in TokenAccounts /\ InitDestination \in PoolAccounts
  BY DEF TokenAccounts, PoolAccounts
<1>3. l.a[Reserve] \in Nat /\ l.b[Reserve] \in Nat
  BY <1>1, <1>2
<1>4. Side(c, "a", l.a[Reserve]) \in Nat /\ Side(c, "b", l.b[Reserve]) \in Nat
  BY <1>3, SideType DEF Sound
<1>5. Side(c, "a", l.a[Reserve]) # 0 /\ Side(c, "b", l.b[Reserve]) # 0
  BY <1>4, SMT DEF Sound
<1>6. QED
  BY <1>1, <1>2, <1>3, <1>4, <1>5

\* The worth in terms of the token given and the one taken.
LEMMA WorthEitherWay ==
  ASSUME NEW c, NEW f, NEW l, Sound(c, f, l) \/ (c \in ProductCurves /\ Held(l)), NEW dir \in Direction
  PROVE  /\ l[TokenGiven(dir)][Reserve] \in Nat /\ l[TokenTaken(dir)][Reserve] \in Nat
         /\ Side(c, TokenGiven(dir), l[TokenGiven(dir)][Reserve]) \in Nat
         /\ Side(c, TokenTaken(dir), l[TokenTaken(dir)][Reserve]) \in Nat
         /\ Worth(c, l) = Side(c, TokenGiven(dir), l[TokenGiven(dir)][Reserve])
                            * Side(c, TokenTaken(dir), l[TokenTaken(dir)][Reserve])
<1>1. c \in ProductCurves /\ Held(l)
  BY DEF Sound
<1>2. l.a \in [TokenAccounts -> Nat] /\ l.b \in [TokenAccounts -> Nat] /\ Reserve \in TokenAccounts
  BY <1>1 DEF Held, Ledger, TokenAccounts
<1>3. l.a[Reserve] \in Nat /\ l.b[Reserve] \in Nat
  BY <1>2
<1>4. Side(c, "a", l.a[Reserve]) \in Nat /\ Side(c, "b", l.b[Reserve]) \in Nat
  BY <1>1, <1>3, SideType
<1>5. Side(c, "a", l.a[Reserve]) * Side(c, "b", l.b[Reserve])
        = Side(c, "b", l.b[Reserve]) * Side(c, "a", l.a[Reserve])
  BY <1>4, SMT
<1>6. CASE dir = "AtoB"
  BY <1>3, <1>4, <1>6, Directions DEF Worth
<1>7. CASE dir # "AtoB"
  BY <1>3, <1>4, <1>5, <1>7, Directions DEF Worth
<1>8. QED
  BY <1>6, <1>7

LEMMA CoversItself ==
  ASSUME NEW x \in Nat, NEW x2 \in Nat, NEW s \in Nat, NEW s2 \in Nat, x <= x2, s2 <= s
  PROVE  Covers(x, s, x2, s2)
<1>1. Covers(x, s, x, s)
  <2>1. s * s \in Nat /\ x * (s * s) \in Nat
    BY SMT
  <2>2. QED
    BY <2>1, SMT DEF Covers
<1>2. QED
  BY <1>1, CoversMore

\* The pool's first tokens are nobody's to burn: the supply is never used up.
LEMMA SupplyRemains ==
  ASSUME NEW l, Held(l), l.pool[InitDestination] >= InitialSupply
  PROVE  l.supply \in Nat \ {0}
<1>1. /\ FeeAccount \in PoolAccounts /\ InitDestination \in PoolAccounts
      /\ FeeAccount # InitDestination
  BY LedgersAssumption DEF PoolAccounts
<1>2. l.pool \in [PoolAccounts -> Nat] /\ l.supply = Sum(l.pool, PoolAccounts)
  BY DEF Held, Ledger
<1>3. l.pool[FeeAccount] + l.pool[InitDestination] <= l.supply
  BY <1>1, <1>2, PoolAccountsFinite, TwoWithinSum
<1>4. /\ l.pool[FeeAccount] \in Nat /\ l.pool[InitDestination] \in Nat
      /\ InitialSupply >= 1 /\ InitialSupply \in Nat
  BY <1>1, <1>2, LedgersAssumption, SMT
<1>5. l.supply \in Nat
  BY LedgersAssumption, SMT DEF Held, Ledger
<1>6. QED
  BY <1>3, <1>4, <1>5, SMT

LEMMA WorthType ==
  ASSUME NEW c \in ProductCurves, NEW l, Held(l)
  PROVE  /\ l.a[Reserve] \in Nat /\ l.b[Reserve] \in Nat
         /\ Side(c, "a", l.a[Reserve]) \in Nat /\ Side(c, "b", l.b[Reserve]) \in Nat
         /\ Worth(c, l) \in Nat /\ l.supply \in Nat
<1>1. l.a[Reserve] \in Nat /\ l.b[Reserve] \in Nat
  BY DEF Held, Ledger, TokenAccounts
<1>2. Side(c, "a", l.a[Reserve]) \in Nat /\ Side(c, "b", l.b[Reserve]) \in Nat
  BY <1>1, SideType
<1>3. Worth(c, l) \in Nat
  BY <1>2, SMT DEF Worth
<1>4. l.supply \in Nat
  BY LedgersAssumption, SMT DEF Held, Ledger
<1>5. QED
  BY <1>1, <1>2, <1>3, <1>4

-----------------------------------------------------------------------------
(* What roots cost. *)

\* What TwoRoots allows is at least what either root costs, and both.
LEMMA RootsCost ==
  ASSUME NEW small \in Nat \ {0}, NEW large \in Nat, small <= large, NEW num, NEW den,
         num = (small * ONE + 5 * large) * (ONE + 5), den = small * ONE * ONE
  PROVE  /\ num \in Nat /\ den \in Nat \ {0} /\ den <= num
         /\ (ONE + 5) * den <= num * ONE
         /\ ((ONE + 5) * (ONE + 5)) * den <= num * (ONE * ONE)
         /\ (small * ONE + 4 * large) * den <= num * (small * ONE)
         /\ ((small * ONE + 4 * large) * (ONE + 5)) * den <= num * ((small * ONE) * ONE)
<1> DEFINE u == small * ONE
           n == u + 5 * large
           n4 == u + 4 * large
           e == ONE + 5
           oo == ONE * ONE
<1>1. ONE \in Nat \ {0} /\ e \in Nat \ {0} /\ ONE <= e
  BY OneIsNat, SMT
<1>2. u \in Nat \ {0} /\ small * e <= n /\ small * e \in Nat
  BY <1>1, SMT
<1>3. num = n * e /\ den = u * ONE
  OBVIOUS
<1> HIDE DEF u
<1>4. n \in Nat /\ n4 \in Nat /\ u <= n /\ n4 <= n
  BY <1>2, SMT
<1> HIDE DEF n, n4, e
<1>5. num \in Nat /\ den \in Nat \ {0}
  BY <1>1, <1>2, <1>3, <1>4, SMT
<1>6. u * e <= n * e /\ u * e \in Nat /\ u * ONE <= u * e
  BY <1>1, <1>2, <1>4, MulMono, SMT
<1>7. den <= num
  BY <1>3, <1>5, <1>6, SMT
<1>8. e * den <= num * ONE
  <2>1. (u * e) * ONE <= num * ONE
    BY <1>1, <1>3, <1>5, <1>6, MulMono, SMT
  <2>2. e * den = (u * e) * ONE
    BY <1>1, <1>2, <1>3, SMT
  <2>3. QED
    BY <2>1, <2>2
<1>9. (e * e) * den <= num * oo
  <2>1. (small * e) * e <= n * e /\ (small * e) * e \in Nat
    BY <1>1, <1>2, <1>4, MulMono, SMT
  <2>2. oo \in Nat
    BY <1>1, SMT
  <2>3. ((small * e) * e) * oo <= num * oo
    <3> DEFINE see == (small * e) * e
    <3> HIDE DEF see, oo
    <3>1. see \in Int /\ num \in Int /\ see <= num
      BY <1>3, <1>5, <2>1, SMT DEF see
    <3>2. QED
      BY <2>2, <3>1, MulMono DEF see
  <2>4. (e * e) * den = ((small * e) * e) * oo
    <3>1. den = small * oo
      BY <1>1, SMT
    <3> HIDE DEF oo
    <3>2. QED
      BY <1>1, <2>2, <3>1, SMT
  <2>5. QED
    BY <2>3, <2>4
<1>10. n4 * den <= num * u
  <2>1. n4 * ONE <= n * ONE /\ n * ONE <= n * e /\ n4 * ONE \in Nat /\ n * ONE \in Nat
    BY <1>1, <1>4, MulMono, SMT
  <2>2. n4 * ONE <= num
    BY <1>3, <1>5, <2>1, SMT
  <2>3. (n4 * ONE) * u <= num * u
    <3> DEFINE no == n4 * ONE
    <3> HIDE DEF no
    <3>1. no \in Int /\ num \in Int /\ no <= num
      BY <1>5, <2>1, <2>2, SMT DEF no
    <3>2. QED
      BY <1>2, <3>1, MulMono DEF no
  <2>4. n4 * den = (n4 * ONE) * u
    BY <1>1, <1>2, <1>3, <1>4, SMT
  <2>5. QED
    BY <2>3, <2>4
<1>11. (n4 * e) * den <= num * (u * ONE)
  <2>1. n4 * e <= n * e /\ n4 * e \in Int
    BY <1>1, <1>4, MulMono, SMT
  <2>2. n4 * e <= num
    BY <1>3, <2>1
  <2>3. (n4 * e) * den <= num * den
    BY <1>5, <2>1, <2>2, MulMono, SMT
  <2>4. QED
    BY <1>3, <2>3
<1>12. QED
  BY <1>5, <1>7, <1>8, <1>9, <1>10, <1>11 DEF u, n, n4, e, oo

LEMMA SmallerType ==
  ASSUME NEW f \in FeeSchedule, ValidFees(f), NEW x \in Nat \ {0}, NEW x2 \in Nat
  PROVE  /\ Smaller(f, x, x2) \in Nat \ {0} /\ Larger(x, x2) \in Nat
         /\ Smaller(f, x, x2) <= Larger(x, x2)
<1> DEFINE fee == WithdrawOwnerFee(x - x2, f)
<1>1. CASE x2 >= x
  BY <1>1, SMT DEF Smaller, Larger
<1>2. CASE ~(x2 >= x)
  <2>1. Larger(x, x2) = x /\ x - x2 \in Nat /\ x2 <= x /\ 1 <= x
    BY <1>2, SMT DEF Larger
  <2>2. CASE PreTradingFeeDefined(f) /\ x2 - fee > 0
    <3>1. fee \in Nat
      BY <2>1, <2>2, WithdrawAmountTypes
    <3>2. Smaller(f, x, x2) = x2 - fee
      BY <1>2, <2>2 DEF Smaller
    <3> HIDE DEF fee
    <3>3. QED
      BY <2>1, <2>2, <3>1, <3>2, SMT
  <2>3. CASE ~(PreTradingFeeDefined(f) /\ x2 - fee > 0)
    <3>1. Smaller(f, x, x2) = 1
      BY <1>2, <2>3 DEF Smaller
    <3>2. QED
      BY <2>1, <3>1, SMT
  <2>4. QED
    BY <2>2, <2>3
<1>3. QED
  BY <1>1, <1>2

LEMMA TwoRootsCost ==
  ASSUME NEW f \in FeeSchedule, ValidFees(f), NEW x \in Nat \ {0}, NEW x2 \in Nat,
         NEW small, small = Smaller(f, x, x2), NEW large, large = Larger(x, x2),
         NEW num, num = TwoRoots(f, x, x2).num, NEW den, den = TwoRoots(f, x, x2).den
  PROVE  /\ num \in Nat /\ den \in Nat \ {0} /\ den <= num
         /\ (ONE + 5) * den <= num * ONE
         /\ ((ONE + 5) * (ONE + 5)) * den <= num * (ONE * ONE)
         /\ (small * ONE + 4 * large) * den <= num * (small * ONE)
         /\ ((small * ONE + 4 * large) * (ONE + 5)) * den <= num * ((small * ONE) * ONE)
<1>1. small \in Nat \ {0} /\ large \in Nat /\ small <= large
  BY SmallerType
<1>2. num = (small * ONE + 5 * large) * (ONE + 5) /\ den = small * ONE * ONE
  BY DEF TwoRoots
<1>3. QED
  BY <1>1, <1>2, RootsCost

\* Whichever of the two tokens was given.
LEMMA KeepsEitherWay ==
  ASSUME NEW c, NEW f, NEW l, NEW m, NEW dir \in Direction, NEW x, NEW x2, NEW y, NEW y2,
         x = Side(c, TokenGiven(dir), l[TokenGiven(dir)][Reserve]),
         x2 = Side(c, TokenGiven(dir), m[TokenGiven(dir)][Reserve]),
         y = Side(c, TokenTaken(dir), l[TokenTaken(dir)][Reserve]),
         y2 = Side(c, TokenTaken(dir), m[TokenTaken(dir)][Reserve])
  PROVE  /\ y2 = y /\ x2 # x => Keeps(c, f, l, m) = TwoRoots(f, x, x2)
         /\ y2 # y /\ x2 > x /\ ~(y2 > y) /\ x2 # x /\ m.supply # l.supply => Keeps(c, f, l, m) = OneRoot
<1>1. CASE dir = "AtoB"
  <2>1. /\ x = l.a[Reserve] /\ x2 = m.a[Reserve]
        /\ y = WithOffset(c, l.b[Reserve]) /\ y2 = WithOffset(c, m.b[Reserve])
    BY <1>1, Directions DEF Side
  <2>2. QED
    BY <2>1 DEF Keeps
<1>2. CASE dir # "AtoB"
  <2>1. /\ y = l.a[Reserve] /\ y2 = m.a[Reserve]
        /\ x = WithOffset(c, l.b[Reserve]) /\ x2 = WithOffset(c, m.b[Reserve])
    BY <1>2, Directions DEF Side
  <2>2. QED
    BY <2>1 DEF Keeps
<1>3. QED
  BY <1>1, <1>2

\* A step's loss is a fraction, and no gain.
LEMMA KeepsType ==
  ASSUME NEW c, NEW f, NEW l, Sound(c, f, l), NEW m, Held(m)
  PROVE  /\ Keeps(c, f, l, m).num \in Nat /\ Keeps(c, f, l, m).den \in Nat \ {0}
         /\ Keeps(c, f, l, m).den <= Keeps(c, f, l, m).num
<1> DEFINE a  == l.a[Reserve]
           a2 == m.a[Reserve]
           b  == WithOffset(c, l.b[Reserve])
           b2 == WithOffset(c, m.b[Reserve])
<1>1. f \in FeeSchedule /\ ValidFees(f) /\ c \in ProductCurves
  BY DEF Sound
<1>2. a \in Nat \ {0} /\ b \in Nat \ {0}
  BY SoundTypes DEF Side
<1>3. a2 \in Nat /\ b2 \in Nat
  BY <1>1, WorthType DEF Side
<1> HIDE DEF a, a2, b, b2
<1>4. /\ TwoRoots(f, a, a2).num \in Nat /\ TwoRoots(f, a, a2).den \in Nat \ {0}
      /\ TwoRoots(f, a, a2).den <= TwoRoots(f, a, a2).num
  BY <1>1, <1>2, <1>3, TwoRootsCost
<1>5. /\ TwoRoots(f, b, b2).num \in Nat /\ TwoRoots(f, b, b2).den \in Nat \ {0}
      /\ TwoRoots(f, b, b2).den <= TwoRoots(f, b, b2).num
  BY <1>1, <1>2, <1>3, TwoRootsCost
<1>6. OneRoot.num \in Nat /\ OneRoot.den \in Nat \ {0} /\ OneRoot.den <= OneRoot.num
  BY OneIsNat, SMT DEF OneRoot
<1> DEFINE same == [num |-> 1, den |-> 1]
<1>7. same.num \in Nat /\ same.den \in Nat \ {0} /\ same.den <= same.num
  BY SMT
<1>8. Keeps(c, f, l, m) \in {TwoRoots(f, a, a2), TwoRoots(f, b, b2), OneRoot, same}
  BY Zenon DEF Keeps, a, a2, b, b2
<1> HIDE DEF same
<1>9. QED
  BY <1>4, <1>5, <1>6, <1>7, <1>8

\* Covered but for less than Keeps allows, a pool stays sound: were a reserve
\* empty, the supply would be.
LEMMA CoveredIsSound ==
  ASSUME NEW c, NEW f, NEW l, Sound(c, f, l), NEW m, Held(m),
         m.pool[InitDestination] >= l.pool[InitDestination],
         NEW num \in Nat, NEW den \in Nat \ {0},
         CoversBut(Worth(c, l), l.supply, Worth(c, m), m.supply, num, den),
         num * Keeps(c, f, l, m).den <= Keeps(c, f, l, m).num * den
  PROVE  KeepsWorth(c, f, l, m)
<1> DEFINE x == Worth(c, l)
           x2 == Worth(c, m)
           s == l.supply
           s2 == m.supply
           a2 == Side(c, "a", m.a[Reserve])
           b2 == Side(c, "b", m.b[Reserve])
<1>1. c \in ProductCurves /\ Validate(c) /\ f \in FeeSchedule /\ ValidFees(f) /\ Held(l)
  BY DEF Sound
<1>2. m.pool[InitDestination] >= InitialSupply
  <2>1. l.pool[InitDestination] \in Nat /\ m.pool[InitDestination] \in Nat
    BY <1>1 DEF Held, Ledger, PoolAccounts
  <2>2. l.pool[InitDestination] >= InitialSupply /\ InitialSupply \in Nat
    BY LedgersAssumption, SMT DEF Sound
  <2>3. QED
    BY <2>1, <2>2, SMT
<1>3. s2 \in Nat \ {0}
  BY <1>2, SupplyRemains
<1>4. x \in Nat /\ x2 \in Nat /\ s \in Nat /\ a2 \in Nat /\ b2 \in Nat /\ x2 = a2 * b2
  BY <1>1, WorthType DEF Worth
<1>5. x \in Nat \ {0}
  <2> DEFINE a == Side(c, "a", l.a[Reserve])
             b == Side(c, "b", l.b[Reserve])
  <2>1. a \in Nat \ {0} /\ b \in Nat \ {0} /\ x = a * b
    BY SoundTypes DEF Worth
  <2> HIDE DEF a, b, x
  <2>2. QED
    BY <2>1, SMT
<1>6. (x * den) * (s2 * s2) <= (x2 * num) * (s * s)
  BY DEF Covers, CoversBut
<1>7. CoversBut(x, s, x2, s2, Keeps(c, f, l, m).num, Keeps(c, f, l, m).den)
  <2>1. Keeps(c, f, l, m).num \in Nat /\ Keeps(c, f, l, m).den \in Nat
    BY KeepsType
  <2> HIDE DEF x, x2, s, s2
  <2>2. CoversBut(x, s, x2, s2, num, den)
    BY DEF x, x2, s, s2
  <2>3. s2 \in Nat
    BY <1>3
  <2>4. QED
    BY <1>4, <2>1, <2>2, <2>3, ButWeaker
<1> HIDE DEF x, x2, s, s2, a2, b2
<1>8. x2 # 0
  <2>1. SUFFICES ASSUME x2 = 0 PROVE FALSE
    OBVIOUS
  <2>2. (x2 * num) * (s * s) = 0
    <3>1. s * s \in Nat /\ x2 * num = 0
      BY <1>4, <2>1, SMT
    <3>2. QED
      BY <3>1, SMT
  <2>3. x * den \in Nat \ {0} /\ s2 * s2 \in Nat \ {0}
    BY <1>3, <1>5, SMT
  <2> DEFINE xd == x * den
             ss == s2 * s2
  <2> HIDE DEF xd, ss
  <2>4. xd * ss \in Nat \ {0}
    BY <2>3, SMT DEF xd, ss
  <2>5. xd * ss <= 0
    BY <1>6, <2>2 DEF xd, ss
  <2>6. QED
    BY <2>4, <2>5, SMT
<1>9. a2 > 0 /\ b2 > 0
  BY <1>4, <1>8, SMT
<1>10. Sound(c, f, m)
  BY <1>1, <1>2, <1>9 DEF Sound, a2, b2
<1>11. QED
  BY <1>7, <1>10 DEF KeepsWorth, x, x2, s, s2

\* Covered without a loss as well.
LEMMA CoveredExactly ==
  ASSUME NEW c, NEW f, NEW l, Sound(c, f, l), NEW m, Held(m),
         m.pool[InitDestination] >= l.pool[InitDestination],
         Covers(Worth(c, l), l.supply, Worth(c, m), m.supply)
  PROVE  KeepsWorth(c, f, l, m)
<1>1. c \in ProductCurves /\ Held(l)
  BY DEF Sound
<1>2. /\ Worth(c, l) \in Nat /\ Worth(c, m) \in Nat /\ l.supply \in Nat /\ m.supply \in Nat
  BY <1>1, WorthType
<1>3. 1 \in Nat /\ 1 \in Nat \ {0} /\ 1 <= 1
  BY SMT
<1>4. CoversBut(Worth(c, l), l.supply, Worth(c, m), m.supply, 1, 1)
  BY <1>2, <1>3, CoversWithLoss
<1>5. 1 * Keeps(c, f, l, m).den <= Keeps(c, f, l, m).num * 1
  BY KeepsType, SMT
<1>6. QED
  BY <1>3, <1>4, <1>5, CoveredIsSound

-----------------------------------------------------------------------------
(* Swap. *)

LEMMA CurveSwapKeeps ==
  ASSUME NEW c \in ProductCurves, NEW f \in FeeSchedule, ValidFees(f), NEW amount \in Nat,
         NEW source \in Nat, NEW destination \in Nat, NEW dir \in Direction,
         Side(c, TokenGiven(dir), source) > 0,
         ~Bad(CurveSwap(c, amount, source, destination, dir, f))
  PROVE  LET r == CurveSwap(c, amount, source, destination, dir, f)
             x == Side(c, TokenGiven(dir), source)
             y == Side(c, TokenTaken(dir), destination)
         IN  /\ r.sourceAmount \in Nat /\ r.destinationAmount \in Nat /\ r.ownerFee \in Nat
             /\ r.ownerFee <= r.sourceAmount
             /\ r.destinationAmount <= destination /\ r.destinationAmount < y
             /\ x * y <= (x + r.sourceAmount - r.ownerFee) * (y - r.destinationAmount)
<1> DEFINE r    == CurveSwap(c, amount, source, destination, dir, f)
           x    == Side(c, TokenGiven(dir), source)
           y    == Side(c, TokenTaken(dir), destination)
           net  == LessFees(amount, f)
           q    == SwapWithoutFees(c, net, source, destination, dir)
<1>1. /\ net \in Nat /\ ~Bad(q) /\ ~(q.out > destination) /\ r.destinationAmount = q.out
      /\ q.in \in Nat => /\ r.sourceAmount \in Nat /\ r.ownerFee \in Nat
                         /\ q.in + r.ownerFee <= r.sourceAmount
  <2> HIDE DEF r, net, q
  <2>1. ~Bad(r)
    BY DEF r
  <2>2. QED
    BY <2>1, FeesAroundSwap DEF r, net, q
<1>2. x \in Nat \ {0} /\ y \in Nat
  <2>1. x \in Nat /\ y \in Nat
    BY SideType
  <2>2. QED
    BY <2>1, SMT
<1>3. q = ProductSwap(net, x, y)
  <2>1. ~Priced(c)
    BY LedgersAssumption DEF ProductCurves
  <2>2. CASE dir = "AtoB"
    <3>1. x = source /\ y = WithOffset(c, destination)
      BY <2>2, Directions DEF Side
    <3>2. QED
      BY <2>1, <2>2, <3>1 DEF SwapWithoutFees
  <2>3. CASE dir # "AtoB"
    <3>1. x = WithOffset(c, source) /\ y = destination
      BY <2>3, Directions DEF Side
    <3>2. QED
      BY <2>1, <2>3, <3>1 DEF SwapWithoutFees
  <2>4. QED
    BY <2>2, <2>3
<1> HIDE DEF r, x, y
<1>4. /\ q.in \in Nat /\ q.out \in Nat /\ q.out < y
      /\ x * y <= (x + q.in) * (y - q.out)
  <2>1. ProductSwap(net, x, y) # None
    BY <1>1, <1>3 DEF Bad
  <2> HIDE DEF q, net
  <2>2. QED
    BY <1>1, <1>2, <1>3, <2>1, ProductSwapKeeps
<1> HIDE DEF q
<1> DEFINE before == x + q.in
           after  == x + r.sourceAmount - r.ownerFee
           left   == y - q.out
<1>5. before \in Nat /\ after \in Nat /\ left \in Nat /\ before <= after
  BY <1>1, <1>2, <1>4, SMT
<1> HIDE DEF before, after, left
<1>6. before * left <= after * left
  BY <1>5, MulMono
<1>7. x * y <= after * left
  <2>1. x * y \in Nat /\ before * left \in Nat /\ after * left \in Nat
    BY <1>2, <1>5, SMT
  <2>2. x * y <= before * left
    BY <1>4 DEF before, left
  <2>3. QED
    BY <1>6, <2>1, <2>2, SMT
<1>8. /\ r.sourceAmount \in Nat /\ r.destinationAmount \in Nat /\ r.ownerFee \in Nat
      /\ r.ownerFee <= r.sourceAmount
      /\ r.destinationAmount <= destination /\ r.destinationAmount < y
  BY <1>1, <1>4, SMT
<1>9. QED
  BY <1>1, <1>7, <1>8 DEF after, left, r, x, y

\* A transfer leaves the other token alone.
LEMMA MovedOther ==
  ASSUME NEW l, NEW m, NEW token, NEW other, token \in {"a", "b"}, other \in {"a", "b"},
         token # other, NEW from, NEW to, NEW amount, Moved(l, m, token, from, to, amount)
  PROVE  m[other] = l[other]
BY DEF Moved

\* Paid in, the fee minted, paid out: what swap's amounts must be for the pool
\* tokens to keep their worth.
LEMMA PaidInAndOut ==
  ASSUME NEW c, NEW f, NEW l, Sound(c, f, l), NEW dir \in Direction,
         NEW source, NEW destination, NEW paid \in Nat, NEW out \in Nat, NEW fee \in Nat,
         NEW x, NEW y, NEW k,
         x = Side(c, TokenGiven(dir), l[TokenGiven(dir)][Reserve]),
         y = Side(c, TokenTaken(dir), l[TokenTaken(dir)][Reserve]),
         k = x + paid - fee,
         fee <= paid, out < y, x * y <= k * (y - out),
         NEW l1, Moved(l, l1, TokenGiven(dir), source, Reserve, paid),
         NEW l2, FeeCovered(l1, l2, fee, k, l1.supply),
         NEW m, Moved(l2, m, TokenTaken(dir), Reserve, destination, out)
  PROVE  KeepsWorth(c, f, l, m)
<1> DEFINE g == TokenGiven(dir)
           t == TokenTaken(dir)
           x2 == x + paid
           y2 == y - out
<1>1. /\ c \in ProductCurves /\ Validate(c) /\ f \in FeeSchedule /\ ValidFees(f) /\ Held(l)
      /\ l.pool[InitDestination] >= InitialSupply
  BY DEF Sound
<1>2. /\ g \in {"a", "b"} /\ t \in {"a", "b"} /\ g # t
  BY Directions
<1>3. /\ x \in Nat /\ y \in Nat /\ Worth(c, l) = x * y
      /\ l[g][Reserve] \in Nat /\ l[t][Reserve] \in Nat
  BY WorthEitherWay
<1>4. x > 0 /\ y > 0
  BY Directions, SMT DEF Sound
<1>5. Held(l1) /\ l1.pool = l.pool /\ l1.supply = l.supply
      /\ l1[g][Reserve] = l[g][Reserve] + paid /\ l1[t] = l[t]
  BY <1>2, MovedOther DEF Moved
<1>6. Held(l2) /\ l2.a = l1.a /\ l2.b = l1.b
      /\ \A acc \in PoolAccounts : l2.pool[acc] >= l1.pool[acc]
  BY DEF FeeCovered
<1>7. l2[g] = l1[g] /\ l2[t] = l1[t]
  BY <1>2, <1>6
<1>8. Held(m) /\ m.pool = l2.pool /\ m.supply = l2.supply
      /\ m[t][Reserve] = l2[t][Reserve] - out /\ m[g] = l2[g]
  BY <1>2, MovedOther DEF Moved
<1>9. m[g][Reserve] = l[g][Reserve] + paid /\ m[t][Reserve] = l[t][Reserve] - out
  BY <1>5, <1>7, <1>8
<1>10. Side(c, g, m[g][Reserve]) = x2 /\ Side(c, t, m[t][Reserve]) = y2
  <2>1. l[g][Reserve] + paid \in Int /\ l[g][Reserve] \in Int
        /\ l[t][Reserve] - out \in Int /\ l[t][Reserve] \in Int
    BY <1>3, SMT
  <2>2. Side(c, g, m[g][Reserve]) = x + ((l[g][Reserve] + paid) - l[g][Reserve])
    BY <1>1, <1>9, <2>1, SideShifts
  <2>3. Side(c, t, m[t][Reserve]) = y + ((l[t][Reserve] - out) - l[t][Reserve])
    BY <1>1, <1>9, <2>1, SideShifts
  <2>4. x2 = x + ((l[g][Reserve] + paid) - l[g][Reserve])
        /\ y2 = y + ((l[t][Reserve] - out) - l[t][Reserve])
    BY <1>3, <2>1, SMT
  <2>5. QED
    BY <2>2, <2>3, <2>4
<1>11. x2 \in Nat \ {0} /\ y2 \in Nat \ {0} /\ Worth(c, m) = x2 * y2
  <2>1. x2 \in Nat \ {0} /\ y2 \in Nat \ {0}
    BY <1>3, <1>4, SMT
  <2>2. Worth(c, m) = Side(c, g, m[g][Reserve]) * Side(c, t, m[t][Reserve])
    BY <1>1, <1>8, WorthEitherWay
  <2>3. QED
    BY <1>10, <2>1, <2>2
<1>12. l.supply \in Nat /\ l2.supply \in Nat /\ m.supply = l2.supply
  <2>1. l.supply \in Nat /\ l2.supply \in Nat
    BY <1>1, <1>6, LedgersAssumption, SMT DEF Held, Ledger
  <2>2. QED
    BY <1>8, <2>1
<1> DEFINE s  == l.supply
           s2 == l2.supply
<1>13. m.pool[InitDestination] >= l.pool[InitDestination]
  <2>1. InitDestination \in PoolAccounts
    BY DEF PoolAccounts
  <2>2. m.pool = l2.pool /\ l1.pool = l.pool /\ l2.pool[InitDestination] >= l1.pool[InitDestination]
    BY <1>5, <1>6, <1>8, <2>1
  <2>3. QED
    BY <2>2
<1>14. CASE s2 = s
  <2>1. k \in Int /\ k <= x2
    BY <1>3, SMT
  <2>2. k * y2 <= x2 * y2 /\ k * y2 \in Int
    <3> HIDE DEF x2, y2
    <3>1. QED
      BY <1>11, <2>1, SMT
  <2>3. x * y \in Nat /\ x2 * y2 \in Nat /\ x * y <= x2 * y2 /\ s \in Nat /\ s <= s
    <3> HIDE DEF x2
    <3>1. x * y \in Nat /\ x2 * y2 \in Nat /\ s \in Nat
      BY <1>3, <1>11, <1>12, SMT
    <3>2. x * y <= k * y2
      OBVIOUS
    <3> HIDE DEF y2, s
    <3>3. QED
      BY <2>2, <3>1, <3>2, SMT
  <2>4. Covers(x * y, s, x2 * y2, s2)
    <3> HIDE DEF x2, y2, s, s2
    <3>1. QED
      BY <1>14, <2>3, CoversItself
  <2>5. Covers(Worth(c, l), l.supply, Worth(c, m), m.supply)
    BY <1>3, <1>11, <1>12, <2>4
  <2>6. QED
    BY <1>8, <1>13, <2>5, CoveredExactly
<1>15. CASE s2 # s
  <2> fee # 0
    BY <1>5, <1>15 DEF FeeCovered
  <2>1. /\ k \in Nat \ {0}
        /\ CoversBut(k, l1.supply, k + fee, l1.supply + (l2.supply - l1.supply), ONE + 5, ONE)
    BY DEF FeeCovered
  <2>2. k + fee = x2 /\ s + (s2 - s) = s2
    BY <1>3, <1>12, SMT
  <2>3. CoversBut(k, s, x2, s2, ONE + 5, ONE)
    BY <1>5, <2>1, <2>2
  <2>4. x * y <= k * y2
    OBVIOUS
  <2>5. /\ s \in Nat /\ s2 \in Nat /\ k \in Nat /\ x2 \in Nat /\ y2 \in Nat
        /\ ONE \in Nat \ {0} /\ ONE \in Nat /\ ONE + 5 \in Nat
    BY <1>11, <1>12, <2>1, OneIsNat, SMT
  <2>6. CoversBut(x * y, s, x2 * y2, s2, ONE + 5, ONE)
    <3> HIDE DEF x2, y2, s, s2
    <3>1. CoversBut(k * y2, s, x2 * y2, s2, ONE + 5, ONE)
      BY <2>3, <2>5, ButProduct
    <3>2. x * y \in Nat /\ k * y2 \in Nat /\ x2 * y2 \in Nat
      BY <1>3, <2>5, SMT
    <3>3. QED
      BY <2>4, <2>5, <3>1, <3>2, ButLess
  <2>7. (ONE + 5) * Keeps(c, f, l, m).den <= Keeps(c, f, l, m).num * ONE
    <3>1. x2 > x /\ x2 # x /\ ~(y2 > y)
      <4>1. paid > 0
        BY <1>3, SMT
      <4>2. \A p \in Nat, q \in Nat : p > 0 => x + p > x /\ x + p # x /\ ~(y - q > y)
        BY <1>3, SMT
      <4>3. QED
        BY <4>1, <4>2
    <3>2. CASE y2 = y
      <4>1. Keeps(c, f, l, m) = TwoRoots(f, x, x2)
        <5> HIDE DEF x2, y2
        <5>1. QED
          BY <1>10, <3>1, <3>2, KeepsEitherWay
      <4>2. x \in Nat \ {0}
        BY <1>3, <1>4, SMT
      <4> HIDE DEF x2
      <4>3. (ONE + 5) * TwoRoots(f, x, x2).den <= TwoRoots(f, x, x2).num * ONE
        BY <1>1, <2>5, <4>2, TwoRootsCost
      <4>4. QED
        BY <4>1, <4>3
    <3>3. CASE y2 # y
      <4>1. Keeps(c, f, l, m) = OneRoot
        <5>1. m.supply # l.supply
          BY <1>8, <1>15
        <5> HIDE DEF x2, y2
        <5>2. QED
          BY <1>10, <3>1, <3>3, <5>1, KeepsEitherWay
      <4>2. (ONE + 5) * ONE <= (ONE + 5) * ONE
        BY <2>5, SMT
      <4>3. QED
        BY <4>1, <4>2 DEF OneRoot
    <3>4. QED
      BY <3>2, <3>3
  <2>8. CoversBut(Worth(c, l), l.supply, Worth(c, m), m.supply, ONE + 5, ONE)
    BY <1>3, <1>11, <1>12, <2>6
  <2>9. QED
    BY <1>8, <1>13, <2>5, <2>7, <2>8, CoveredIsSound
<1>16. QED
  BY <1>14, <1>15

LEMMA SwapKeepsWorth ==
  ASSUME NEW c, NEW f, NEW l, Sound(c, f, l), NEW dir \in Direction,
         NEW source \in TokenAccounts, NEW destination \in TokenAccounts, NEW amount \in Nat,
         NEW minimumOut, NEW host \in Hosts, NEW allowance,
         ProcessSwap(c, f, l, dir, source, destination, amount, minimumOut, host, allowance).code = Ok
  PROVE  KeepsWorth(c, f, l,
           ProcessSwap(c, f, l, dir, source, destination, amount, minimumOut, host, allowance).ledger)
<1> DEFINE g == TokenGiven(dir)
           t == TokenTaken(dir)
           r == CurveSwap(c, amount, l[g][Reserve], l[t][Reserve], dir, f)
           kept == l[g][Reserve] + r.sourceAmount - r.ownerFee
           left == l[t][Reserve] - r.destinationAmount
           a == IF dir = "AtoB" THEN kept ELSE left
           b == IF dir = "AtoB" THEN left ELSE kept
           o1 == Transfer(l, g, source, Reserve, r.sourceAmount, allowance)
           o2 == MintOwnerFee(c, f, o1.ledger, r.ownerFee, a, b, o1.ledger.supply, dir, TRUE, host)
           o3 == Transfer(o2.ledger, t, Reserve, destination, r.destinationAmount, U64_MAX)
           o  == ProcessSwap(c, f, l, dir, source, destination, amount, minimumOut, host, allowance)
           m  == o.ledger
           x  == Side(c, g, l[g][Reserve])
           y  == Side(c, t, l[t][Reserve])
           k  == x + r.sourceAmount - r.ownerFee
<1>1. /\ source # Reserve /\ destination # Reserve /\ ~Bad(r)
      /\ o1.code = Ok /\ o2.code = Ok /\ o3.code = Ok /\ m = o3.ledger
  <2>1. PICK q, p1, p2, p3 :
          SwapCalls(c, f, l, dir, source, destination, amount, host, allowance, m, q, p1, p2, p3)
    BY SwapTakenApart
  <2> HIDE DEF o, m
  <2>2. q = r /\ p1 = o1 /\ p2 = o2 /\ p3 = o3
    BY <2>1, Zenon DEF SwapCalls
  <2>3. QED
    BY <2>1, <2>2, Zenon DEF SwapCalls
<1>2. /\ c \in ProductCurves /\ f \in FeeSchedule /\ ValidFees(f) /\ Held(l)
  BY DEF Sound
<1>3. /\ g \in {"a", "b"} /\ t \in {"a", "b"} /\ Reserve \in TokenAccounts
  BY Directions DEF TokenAccounts
<1>4. /\ x \in Nat /\ y \in Nat /\ x > 0
      /\ l[g][Reserve] \in Nat /\ l[t][Reserve] \in Nat
  <2>1. /\ l[g][Reserve] \in Nat /\ l[t][Reserve] \in Nat /\ x \in Nat /\ y \in Nat
    BY WorthEitherWay
  <2>2. x > 0
    BY Directions, SMT DEF Sound
  <2>3. QED
    BY <2>1, <2>2
<1>5. /\ r.sourceAmount \in Nat /\ r.destinationAmount \in Nat /\ r.ownerFee \in Nat
      /\ r.ownerFee <= r.sourceAmount
      /\ r.destinationAmount <= l[t][Reserve] /\ r.destinationAmount < y
      /\ x * y <= k * (y - r.destinationAmount)
  BY <1>1, <1>2, <1>4, CurveSwapKeeps
<1> HIDE DEF r
<1>6. Moved(l, o1.ledger, g, source, Reserve, r.sourceAmount)
  <2> HIDE DEF g
  <2>1. QED
    BY <1>1, <1>2, <1>3, <1>5, TransferMoves
<1>7. FeeCovered(o1.ledger, o2.ledger, r.ownerFee, k, o1.ledger.supply)
  <2>1. Held(o1.ledger) /\ o1.ledger.supply \in Int
    <3>1. Held(o1.ledger)
      BY <1>6 DEF Moved
    <3> HIDE DEF o1
    <3>2. QED
      BY <3>1, LedgersAssumption, SMT DEF Held, Ledger
  <2>2. kept \in Int /\ left \in Int
    BY <1>4, <1>5, SMT
  <2>3. a \in Int /\ b \in Int /\ (IF dir = "AtoB" THEN a ELSE b) = kept
    BY <2>2
  <2>4. Side(c, g, kept) = k
    <3>1. Side(c, g, kept) = x + (kept - l[g][Reserve])
      BY <1>2, <1>4, <2>2, SideShifts
    <3>2. k = x + (kept - l[g][Reserve])
      BY <1>4, <1>5, SMT
    <3>3. QED
      BY <3>1, <3>2
  <2>5. TRUE \in BOOLEAN
    OBVIOUS
  <2> DEFINE l1 == o1.ledger
  <2>6. MintOwnerFee(c, f, l1, r.ownerFee, a, b, l1.supply, dir, TRUE, host).code = Ok
        /\ o2 = MintOwnerFee(c, f, l1, r.ownerFee, a, b, l1.supply, dir, TRUE, host)
    BY <1>1
  <2>7. Held(l1) /\ l1.supply \in Int
    BY <2>1
  <2> HIDE DEF l1, o2, kept, left, a, b, k, g
  <2>8. FeeCovered(l1, o2.ledger, r.ownerFee, k, l1.supply)
    <3>1. k = Side(c, TokenGiven(dir), IF dir = "AtoB" THEN a ELSE b)
      BY <2>3, <2>4 DEF g
    <3>2. r.ownerFee \in Nat /\ a \in Int /\ b \in Int /\ o2.code = Ok
      BY <1>5, <2>3, <2>6
    <3>3. QED
      BY <1>2, <2>5, <2>6, <2>7, <3>1, <3>2, MintOwnerFeeCovers
  <2>9. QED
    BY <2>8 DEF l1
<1>8. Moved(o2.ledger, m, t, Reserve, destination, r.destinationAmount)
  <2>1. Held(o2.ledger)
    BY <1>7 DEF FeeCovered
  <2> DEFINE l2 == o2.ledger
  <2>2. Held(l2) /\ m = Transfer(l2, t, Reserve, destination, r.destinationAmount, U64_MAX).ledger
        /\ Transfer(l2, t, Reserve, destination, r.destinationAmount, U64_MAX).code = Ok
    BY <1>1, <2>1
  <2> HIDE DEF l2, t, m
  <2>3. Moved(l2, Transfer(l2, t, Reserve, destination, r.destinationAmount, U64_MAX).ledger, t, Reserve,
              destination, r.destinationAmount)
    BY <1>1, <1>3, <1>5, <2>2, TransferMoves
  <2>4. QED
    BY <2>2, <2>3 DEF l2
<1> DEFINE l1 == o1.ledger
           l2 == o2.ledger
           fee == r.ownerFee
           paid == r.sourceAmount
           out == r.destinationAmount
<1>9. /\ paid \in Nat /\ out \in Nat /\ fee \in Nat /\ fee <= paid /\ out < y
       /\ x * y <= k * (y - out) /\ k = x + paid - fee
       /\ x = Side(c, TokenGiven(dir), l[TokenGiven(dir)][Reserve])
       /\ y = Side(c, TokenTaken(dir), l[TokenTaken(dir)][Reserve])
  BY <1>5
<1>10. /\ Moved(l, l1, TokenGiven(dir), source, Reserve, paid)
       /\ FeeCovered(l1, l2, fee, k, l1.supply)
       /\ Moved(l2, m, TokenTaken(dir), Reserve, destination, out)
  BY <1>6, <1>7, <1>8
<1> HIDE DEF l1, l2, m, fee, paid, out, x, y, k
<1>11. KeepsWorth(c, f, l, m)
  BY <1>9, <1>10, PaidInAndOut
<1>12. QED
  BY <1>11 DEF m

-----------------------------------------------------------------------------
(* Both tokens in. *)

LEMMA DepositBothKeepsWorth ==
  ASSUME NEW c, NEW f, NEW l, Sound(c, f, l),
         NEW source \in TokenAccounts, NEW sourceB \in TokenAccounts,
         NEW destination \in PoolAccounts, NEW poolAmount \in Nat, NEW maximumA, NEW maximumB,
         DepositAllTokenTypes(c, f, l, source, sourceB, destination, poolAmount, maximumA, maximumB).code = Ok
  PROVE  KeepsWorth(c, f, l,
           DepositAllTokenTypes(c, f, l, source, sourceB, destination, poolAmount, maximumA, maximumB).ledger)
<1> DEFINE part == TradingTokens(c, poolAmount, l.a[Reserve], l.b[Reserve], l.supply, "Ceiling")
           o1 == Transfer(l, "a", source, Reserve, part.a, maximumA)
           o2 == Transfer(o1.ledger, "b", sourceB, Reserve, part.b, maximumB)
           o3 == MintTo(o2.ledger, destination, poolAmount)
           o  == DepositAllTokenTypes(c, f, l, source, sourceB, destination, poolAmount, maximumA, maximumB)
           m  == o.ledger
           s  == l.supply
           a  == l.a[Reserve]
           b  == l.b[Reserve]
<1>1. /\ AllowsDeposits(c) /\ source # Reserve /\ sourceB # Reserve
      /\ part # None /\ ~NothingForSome(c, part)
      /\ o1.code = Ok /\ o2.code = Ok /\ o3.code = Ok /\ m = o3.ledger
  <2>1. PICK q, p1, p2, p3 :
          DepositBothCalls(c, l, source, sourceB, destination, poolAmount, maximumA, maximumB, m,
                           q, p1, p2, p3)
    BY DepositBothTakenApart
  <2> HIDE DEF o, m
  <2>2. q = part /\ p1 = o1 /\ p2 = o2 /\ p3 = o3
    BY <2>1, Zenon DEF DepositBothCalls
  <2>3. QED
    BY <2>1, <2>2, Zenon DEF DepositBothCalls
<1>2. /\ c \in ProductCurves /\ Held(l) /\ Reserve \in TokenAccounts
  BY DEF Sound, TokenAccounts
<1>3. \A reserve : WithOffset(c, reserve) = reserve /\ Side(c, "a", reserve) = reserve
                   /\ Side(c, "b", reserve) = reserve
  BY <1>1 DEF AllowsDeposits, WithOffset, Side
<1>4. a \in Nat /\ b \in Nat /\ s \in Nat /\ Worth(c, l) = a * b
  <2>1. a \in Nat /\ b \in Nat /\ s \in Nat
    BY <1>2, WorthType
  <2>2. QED
    BY <1>3, <2>1 DEF Worth
<1>5. /\ part.a \in Nat /\ part.b \in Nat /\ s # 0
      /\ poolAmount * a <= part.a * s /\ poolAmount * b <= part.b * s
  <2>1. s # 0
    BY <1>1 DEF TradingTokens
  <2>2. c.type = "ConstantProduct" /\ ~Priced(c)
    <3>1. ~Priced(c) /\ c.type \in CurveTypes
      BY <1>2, LedgersAssumption DEF Curve, ProductCurves
    <3>2. QED
      BY <1>1, <3>1 DEF Priced, CurveTypes, AllowsDeposits
  <2>3. part = [a |-> ProductPart(poolAmount, a, s, "Ceiling"), b |-> ProductPart(poolAmount, b, s, "Ceiling")]
    BY <1>1, <1>3, <2>1, <2>2 DEF TradingTokens
  <2>4. part.a # 0 /\ part.b # 0
    BY <1>1, <2>2 DEF NothingForSome
  <2>5. part.a = ProductPart(poolAmount, a, s, "Ceiling") /\ part.b = ProductPart(poolAmount, b, s, "Ceiling")
    BY <2>3
  <2> HIDE DEF part, a, b, s
  <2>6. /\ part.a \in Nat /\ (part.a > 0 => poolAmount * a <= part.a * s)
        /\ part.b \in Nat /\ (part.b > 0 => poolAmount * b <= part.b * s)
    BY <1>4, <2>1, <2>5, PartRoundedUp
  <2>7. QED
    BY <2>1, <2>4, <2>6, SMT
<1> HIDE DEF part
<1>6. Moved(l, o1.ledger, "a", source, Reserve, part.a)
  BY <1>1, <1>2, <1>5, TransferMoves
<1>7. Held(o1.ledger)
  BY <1>6 DEF Moved
<1>8. Moved(o1.ledger, o2.ledger, "b", sourceB, Reserve, part.b)
  <2> HIDE DEF o1
  <2>1. QED
    BY <1>1, <1>2, <1>5, <1>7, TransferMoves
<1>9. Minted(o2.ledger, m, destination, poolAmount)
  <2>1. Held(o2.ledger)
    BY <1>8 DEF Moved
  <2>2. m = MintTo(o2.ledger, destination, poolAmount).ledger
        /\ MintTo(o2.ledger, destination, poolAmount).code = Ok
    BY <1>1
  <2> HIDE DEF o2, m
  <2>3. QED
    BY <2>1, <2>2, MintMoves
<1>10. /\ Held(m) /\ m.supply = s + poolAmount
       /\ m.a[Reserve] = a + part.a /\ m.b[Reserve] = b + part.b
       /\ m.pool[InitDestination] >= l.pool[InitDestination]
  <2>1. InitDestination \in PoolAccounts
    BY DEF PoolAccounts
  <2> HIDE DEF o1, o2, m
  <2>2. QED
    BY <1>6, <1>8, <1>9, <2>1 DEF Moved, Minted
<1> DEFINE a2 == a + part.a
           b2 == b + part.b
           s2 == s + poolAmount
<1>11. Worth(c, m) = a2 * b2
  <2> HIDE DEF m
  <2>1. QED
    BY <1>3, <1>10 DEF Worth
<1>12. Covers(a * b, s, a2 * b2, s2)
  <2> HIDE DEF a, b, s
  <2>1. a * s2 = a * s + poolAmount * a /\ a2 * s = a * s + part.a * s
        /\ b * s2 = b * s + poolAmount * b /\ b2 * s = b * s + part.b * s
    BY <1>4, <1>5, SMT
  <2>2. a * s \in Nat /\ b * s \in Nat /\ poolAmount * a \in Nat /\ poolAmount * b \in Nat
        /\ part.a * s \in Nat /\ part.b * s \in Nat
    BY <1>4, <1>5, SMT
  <2>3. a * s2 <= a2 * s /\ b * s2 <= b2 * s
    BY <1>5, <2>1, <2>2, SMT
  <2>4. a2 \in Nat /\ b2 \in Nat /\ s2 \in Nat
    BY <1>4, <1>5, SMT
  <2> HIDE DEF a2, b2, s2
  <2>5. QED
    BY <1>4, <2>3, <2>4, CoversInProportion
<1>13. Covers(Worth(c, l), l.supply, Worth(c, m), m.supply)
  <2> HIDE DEF m
  <2>1. QED
    BY <1>4, <1>10, <1>11, <1>12
<1> HIDE DEF m
<1>14. KeepsWorth(c, f, l, m)
  BY <1>10, <1>13, CoveredExactly
<1>15. QED
  BY <1>14 DEF m

\* The worth of a pool of which one reserve and the supply have moved.
LEMMA CoveredOnOneSide ==
  ASSUME NEW c, NEW f, NEW l, Sound(c, f, l), NEW dir \in Direction, NEW m, Held(m),
         m.pool[InitDestination] >= l.pool[InitDestination],
         m[TokenTaken(dir)][Reserve] = l[TokenTaken(dir)][Reserve],
         Covers(Side(c, TokenGiven(dir), l[TokenGiven(dir)][Reserve]), l.supply,
                Side(c, TokenGiven(dir), m[TokenGiven(dir)][Reserve]), m.supply)
  PROVE  KeepsWorth(c, f, l, m)
<1> DEFINE g == TokenGiven(dir)
           t == TokenTaken(dir)
           x  == Side(c, g, l[g][Reserve])
           x2 == Side(c, g, m[g][Reserve])
           y  == Side(c, t, l[t][Reserve])
<1>1. c \in ProductCurves /\ Held(l)
  BY DEF Sound
<1>2. x \in Nat /\ y \in Nat /\ Worth(c, l) = x * y
  BY <1>1, WorthEitherWay
<1>3. x2 \in Nat /\ Worth(c, m) = x2 * y
  BY <1>1, WorthEitherWay
<1>4. l.supply \in Nat /\ m.supply \in Nat
  BY <1>1, WorthType
<1>5. Covers(x, l.supply, x2, m.supply)
  OBVIOUS
<1> HIDE DEF x, x2, y
<1>6. Covers(x * y, l.supply, x2 * y, m.supply)
  BY <1>2, <1>3, <1>4, <1>5, CoversProduct
<1>7. QED
  BY <1>2, <1>3, <1>6, CoveredExactly

\* The same, up to roots.
LEMMA CoveredButRoots ==
  ASSUME NEW c, NEW f, NEW l, Sound(c, f, l), NEW dir \in Direction, NEW m, Held(m),
         m.pool[InitDestination] >= l.pool[InitDestination],
         m[TokenTaken(dir)][Reserve] = l[TokenTaken(dir)][Reserve],
         NEW x, x = Side(c, TokenGiven(dir), l[TokenGiven(dir)][Reserve]),
         NEW x2, x2 = Side(c, TokenGiven(dir), m[TokenGiven(dir)][Reserve]), x2 # x,
         NEW num \in Nat, NEW den \in Nat \ {0}, CoversBut(x, l.supply, x2, m.supply, num, den),
         num * TwoRoots(f, x, x2).den <= TwoRoots(f, x, x2).num * den
  PROVE  KeepsWorth(c, f, l, m)
<1> DEFINE y == Side(c, TokenTaken(dir), l[TokenTaken(dir)][Reserve])
           y2 == Side(c, TokenTaken(dir), m[TokenTaken(dir)][Reserve])
<1>1. c \in ProductCurves /\ Held(l)
  BY DEF Sound
<1>2. x \in Nat /\ y \in Nat /\ Worth(c, l) = x * y
  BY <1>1, WorthEitherWay
<1>3. y2 = y
  OBVIOUS
<1>4. x2 \in Nat /\ Worth(c, m) = x2 * y2
  BY <1>1, WorthEitherWay
<1>5. l.supply \in Nat /\ m.supply \in Nat
  BY <1>1, WorthType
<1> HIDE DEF y, y2
<1>6. CoversBut(x * y, l.supply, x2 * y, m.supply, num, den)
  BY <1>2, <1>4, <1>5, ButProduct
<1>7. Keeps(c, f, l, m) = TwoRoots(f, x, x2)
  BY <1>3, KeepsEitherWay DEF y, y2
<1>8. CoversBut(Worth(c, l), l.supply, Worth(c, m), m.supply, num, den)
  BY <1>2, <1>3, <1>4, <1>6
<1>9. QED
  BY <1>7, <1>8, CoveredIsSound

\* What a one-sided deposit's amounts must be: the fee minted next to what is
\* left of the amount, the amount paid in, the user's pool tokens minted.
LEMMA FeeThenPaidThenMinted ==
  ASSUME NEW c, NEW f, NEW l, Sound(c, f, l), NEW dir \in Direction,
         NEW source, NEW destination, NEW amount \in Nat \ {0}, NEW fee \in Nat, NEW minted \in Nat,
         NEW x, NEW k,
         x = Side(c, TokenGiven(dir), l[TokenGiven(dir)][Reserve]), x # 0,
         k = x + (amount - fee), k \in Nat \ {0},
         CoversBut(x, l.supply, k, l.supply + minted, ONE + 5, ONE),
         NEW l1, FeeCovered(l, l1, fee, k, l.supply + minted),
         NEW l2, Moved(l1, l2, TokenGiven(dir), source, Reserve, amount),
         NEW m, Minted(l2, m, destination, minted)
  PROVE  KeepsWorth(c, f, l, m)
<1> DEFINE g == TokenGiven(dir)
           t == TokenTaken(dir)
           s == l.supply
           paid == l1.supply - l.supply
<1>1. c \in ProductCurves /\ Held(l)
  BY DEF Sound
<1>2. /\ g \in {"a", "b"} /\ t \in {"a", "b"} /\ g # t
  BY Directions
<1>3. x \in Nat /\ l[g][Reserve] \in Nat
  BY <1>1, WorthEitherWay
<1>4. Held(l1) /\ l1[g] = l[g] /\ l1[t] = l[t] /\ paid \in Nat
  BY <1>2 DEF FeeCovered
<1>5. Held(l2) /\ l2.pool = l1.pool /\ l2.supply = l1.supply
      /\ l2[g][Reserve] = l[g][Reserve] + amount /\ l2[t] = l[t]
  BY <1>2, <1>4, MovedOther DEF Moved
<1>6. Held(m) /\ m[g] = l2[g] /\ m[t] = l2[t] /\ m.supply = l1.supply + minted
  BY <1>2, <1>5 DEF Minted
<1>7. m.pool[InitDestination] >= l.pool[InitDestination]
  <2>1. InitDestination \in PoolAccounts
    BY DEF PoolAccounts
  <2>2. l1.pool[InitDestination] >= l.pool[InitDestination]
        /\ m.pool[InitDestination] >= l1.pool[InitDestination]
    BY <1>5, <2>1 DEF FeeCovered, Minted
  <2>3. l.pool[InitDestination] \in Nat /\ l1.pool[InitDestination] \in Nat
        /\ m.pool[InitDestination] \in Nat
    BY <1>1, <1>4, <1>6, <2>1 DEF Held, Ledger
  <2>4. QED
    BY <2>2, <2>3, SMT
<1>8. Side(c, g, m[g][Reserve]) = x + amount /\ m[t][Reserve] = l[t][Reserve]
  <2>1. m[g][Reserve] = l[g][Reserve] + amount /\ m[t][Reserve] = l[t][Reserve]
    BY <1>5, <1>6
  <2>2. l[g][Reserve] \in Int /\ l[g][Reserve] + amount \in Int
    BY <1>3, SMT
  <2>3. Side(c, g, m[g][Reserve]) = x + ((l[g][Reserve] + amount) - l[g][Reserve])
    BY <1>1, <2>1, <2>2, SideShifts
  <2>4. x + ((l[g][Reserve] + amount) - l[g][Reserve]) = x + amount
    BY <1>3, SMT
  <2>5. QED
    BY <2>1, <2>3, <2>4
<1>9. s \in Nat /\ l1.supply \in Nat /\ m.supply = (s + minted) + paid
  <2>1. s \in Nat /\ l1.supply \in Nat
    BY <1>1, <1>4, WorthType
  <2>2. QED
    BY <1>6, <2>1, SMT
<1> DEFINE x2 == x + amount
           s1 == s + minted
           s2 == s1 + paid
<1>10. /\ ONE \in Nat \ {0} /\ ONE + 5 \in Nat \ {0} /\ ONE * ONE \in Nat \ {0}
       /\ (ONE + 5) * (ONE + 5) \in Nat
       /\ x \in Nat \ {0} /\ x2 \in Nat /\ x2 # x /\ s1 \in Nat /\ s2 \in Nat /\ m.supply = s2
  BY <1>3, <1>4, <1>9, OneIsNat, SMT
<1>11. /\ (ONE + 5) * TwoRoots(f, x, x2).den <= TwoRoots(f, x, x2).num * ONE
       /\ ((ONE + 5) * (ONE + 5)) * TwoRoots(f, x, x2).den <= TwoRoots(f, x, x2).num * (ONE * ONE)
  <2>1. f \in FeeSchedule /\ ValidFees(f)
    BY DEF Sound
  <2> HIDE DEF x2
  <2>2. QED
    BY <1>10, <2>1, TwoRootsCost
<1>12. CoversBut(x, s, k, s1, ONE + 5, ONE)
  OBVIOUS
<1>13. /\ x2 = Side(c, g, m[g][Reserve]) /\ m[t][Reserve] = l[t][Reserve]
  BY <1>8
<1>14. CASE fee = 0
  <2>1. l1.supply = l.supply
    BY <1>14 DEF FeeCovered
  <2>2. k = x2 /\ m.supply = s1
    BY <1>3, <1>6, <1>14, <2>1, SMT
  <2>3. CoversBut(x, l.supply, x2, m.supply, ONE + 5, ONE)
    BY <1>12, <2>2
  <2>4. ONE + 5 \in Nat
    BY <1>10
  <2> HIDE DEF x2, g, t
  <2>5. QED
    BY <1>6, <1>7, <1>10, <1>11, <1>13, <2>3, <2>4, CoveredButRoots DEF g, t
<1>15. CASE fee # 0
  <2>1. CoversBut(k, s1, k + fee, s2, ONE + 5, ONE)
    BY <1>15 DEF FeeCovered
  <2>2. k + fee = x2
    BY <1>3, SMT
  <2>3. CoversBut(x, s, x2, s2, (ONE + 5) * (ONE + 5), ONE * ONE)
    <3>1. CoversBut(k, s1, x2, s2, ONE + 5, ONE)
      BY <2>1, <2>2
    <3>2. ONE + 5 \in Nat
      BY <1>10
    <3> HIDE DEF s, s1, s2, x2
    <3>3. QED
      BY <1>9, <1>10, <1>12, <3>1, <3>2, ButTransitive
  <2>4. CoversBut(x, l.supply, x2, m.supply, (ONE + 5) * (ONE + 5), ONE * ONE)
    BY <1>10, <2>3
  <2> HIDE DEF x2, g, t
  <2>5. QED
    BY <1>6, <1>7, <1>10, <1>11, <1>13, <2>4, CoveredButRoots DEF g, t
<1>16. QED
  BY <1>14, <1>15

LEMMA DepositOneKeepsWorth ==
  ASSUME NEW c, NEW f, NEW l, Sound(c, f, l), NEW dir \in Direction,
         NEW source \in TokenAccounts, NEW destination \in PoolAccounts, NEW amount \in Nat,
         NEW minimumPool, NEW given \in BOOLEAN, NEW host \in Hosts, NEW allowance,
         DepositSingleExactAmountIn(c, f, l, dir, source, destination, amount, minimumPool, given,
                                    host, allowance).code = Ok
  PROVE  KeepsWorth(c, f, l,
           DepositSingleExactAmountIn(c, f, l, dir, source, destination, amount, minimumPool, given,
                                      host, allowance).ledger)
<1> DEFINE g == TokenGiven(dir)
           a == l.a[Reserve]
           b == l.b[Reserve]
           s == l.supply
           r == CurveDeposit(c, amount, a, b, s, dir, f)
           added == amount - r.ownerFee
           a2 == IF dir = "AtoB" THEN a + added ELSE a
           b2 == IF dir = "AtoB" THEN b ELSE b + added
           o1 == MintOwnerFee(c, f, l, r.ownerFee, a2, b2, s + r.amount, dir, given, host)
           o2 == Transfer(o1.ledger, g, source, Reserve, amount, allowance)
           o3 == MintTo(o2.ledger, destination, r.amount)
           o  == DepositSingleExactAmountIn(c, f, l, dir, source, destination, amount, minimumPool,
                                            given, host, allowance)
           m  == o.ledger
           x  == Side(c, g, l[g][Reserve])
           net == DepositNet(amount, f)
           k   == x + added
<1>1. /\ source # Reserve /\ ~Bad(r) /\ r.amount # 0
      /\ o1.code = Ok /\ o2.code = Ok /\ o3.code = Ok /\ m = o3.ledger
  <2>1. PICK q, p1, p2, p3 :
          DepositOneCalls(c, f, l, dir, source, destination, amount, given, host, allowance, m,
                          q, p1, p2, p3)
    BY DepositOneTakenApart
  <2> HIDE DEF o, m
  <2>2. q = r /\ p1 = o1 /\ p2 = o2 /\ p3 = o3
    BY <2>1, Zenon DEF DepositOneCalls
  <2>3. QED
    BY <2>1, <2>2, Zenon DEF DepositOneCalls
<1>2. /\ c \in ProductCurves /\ f \in FeeSchedule /\ ValidFees(f) /\ Held(l) /\ ~Priced(c)
      /\ Reserve \in TokenAccounts /\ g \in {"a", "b"}
  BY Directions, LedgersAssumption DEF Sound, TokenAccounts, ProductCurves
<1>3. /\ a \in Nat /\ b \in Nat /\ s \in Nat /\ x \in Nat /\ l[g][Reserve] \in Nat
      /\ l[g][Reserve] = IF dir = "AtoB" THEN a ELSE b
      /\ x = IF dir = "AtoB" THEN a ELSE WithOffset(c, b)
  BY <1>2, WorthType, WorthEitherWay, Directions DEF Side
<1>4. /\ amount # 0 /\ ~(net < 0) /\ r.ownerFee = DepositOwnerFee(amount, f)
      /\ r.amount = ProductDeposit(net, x, s) /\ ProductDeposit(net, x, s) # None
  <2> DEFINE tokens == DepositSingleTokenType(c, net, a, b, s, dir)
  <2>1. amount # 0
    BY <1>1 DEF CurveDeposit
  <2>2. ~(net < 0)
    BY <1>1, <2>1, Zenon DEF CurveDeposit, Bad
  <2>3. r = IF Bad(tokens) THEN tokens ELSE [amount |-> tokens, ownerFee |-> DepositOwnerFee(amount, f)]
    BY <2>1, <2>2, Zenon DEF CurveDeposit
  <2>4. tokens = ProductDeposit(net, x, s)
    BY <1>2, <1>3, Zenon DEF DepositSingleTokenType
  <2> HIDE DEF tokens, r
  <2>5. ~Bad(tokens)
    BY <1>1, <2>3
  <2>6. r.amount = tokens /\ r.ownerFee = DepositOwnerFee(amount, f)
    BY <2>3, <2>5
  <2> HIDE DEF x, net
  <2>7. tokens # None
    BY <2>5 DEF Bad
  <2>8. QED
    BY <2>1, <2>2, <2>4, <2>6, <2>7
<1> HIDE DEF r
<1>5. net \in Nat /\ r.ownerFee \in Nat /\ net <= added /\ added \in Nat
  <2>1. net >= 0
    <3>1. TradingFee(HalfDown(amount), f) \in Nat /\ OwnerTradingFee(HalfDown(amount), f) \in Nat
      <4>1. HalfDown(amount) \in Nat
        BY SMT DEF HalfDown
      <4>2. QED
        BY <1>2, <4>1, FeesAtMostAmount
    <3>2. net \in Int
      BY <3>1, SMT DEF DepositNet
    <3>3. QED
      BY <1>4, <3>2, SMT
  <2>2. net \in Nat /\ r.ownerFee \in Nat /\ net + r.ownerFee <= amount
    BY <1>2, <1>4, <2>1, DepositAmountTypes
  <2> HIDE DEF net
  <2>3. QED
    BY <2>2, SMT
<1> HIDE DEF net
<1>6. /\ x \in Nat \ {0} /\ k \in Nat \ {0} /\ r.amount \in Nat
      /\ CoversBut(x, s, x + net, s + r.amount, ONE + 5, ONE)
  <2> HIDE DEF x, s, added
  <2>1. r.amount \in Nat
    BY <1>3, <1>4, <1>5, ProductDepositAs
  <2>2. r.amount <= ProductDeposit(net, x, s)
    BY <1>4, <2>1, SMT
  <2>3. x # 0 /\ CoversBut(x, s, x + net, s + r.amount, ONE + 5, ONE)
    BY <1>3, <1>4, <1>5, <2>1, <2>2, DepositCovers
  <2>4. k \in Nat \ {0}
    BY <1>3, <1>5, <2>3, SMT
  <2>5. QED
    BY <1>3, <2>1, <2>3, <2>4
<1>7. CoversBut(x, s, k, s + r.amount, ONE + 5, ONE)
  <2> HIDE DEF x, s, added
  <2>1. /\ x + net \in Nat /\ k \in Nat /\ s + r.amount \in Nat
        /\ x + net <= k /\ s + r.amount <= s + r.amount
        /\ ONE \in Nat /\ ONE + 5 \in Nat
    BY <1>3, <1>5, <1>6, OneIsNat, SMT
  <2> HIDE DEF k
  <2>2. QED
    BY <1>3, <1>6, <2>1, ButMore
<1>8. FeeCovered(l, o1.ledger, r.ownerFee, k, s + r.amount)
  <2>1. a2 \in Int /\ b2 \in Int /\ s + r.amount \in Int
        /\ (IF dir = "AtoB" THEN a2 ELSE b2) = l[g][Reserve] + added
    BY <1>3, <1>5, <1>6, SMT
  <2>2. Side(c, g, l[g][Reserve] + added) = k
    <3>1. l[g][Reserve] + added \in Int /\ l[g][Reserve] \in Int
          /\ (l[g][Reserve] + added) - l[g][Reserve] = added
      BY <1>3, <1>5, SMT
    <3>2. Side(c, g, l[g][Reserve] + added) = x + ((l[g][Reserve] + added) - l[g][Reserve])
      BY <1>2, <3>1, SideShifts
    <3>3. QED
      BY <3>1, <3>2
  <2>3. o1.code = Ok
    BY <1>1
  <2> HIDE DEF a2, b2, added, k, g, s
  <2>4. FeeCovered(l, o1.ledger, r.ownerFee, Side(c, TokenGiven(dir), IF dir = "AtoB" THEN a2 ELSE b2), s + r.amount)
    BY <1>2, <1>5, <2>1, <2>3, MintOwnerFeeCovers
  <2>5. QED
    BY <2>1, <2>2, <2>4 DEF g
<1>9. Moved(o1.ledger, o2.ledger, g, source, Reserve, amount)
  <2> DEFINE l1 == o1.ledger
  <2>1. Held(l1) /\ Transfer(l1, g, source, Reserve, amount, allowance).code = Ok
        /\ o2 = Transfer(l1, g, source, Reserve, amount, allowance)
    BY <1>1, <1>8 DEF FeeCovered
  <2> HIDE DEF l1, o2, g
  <2>2. QED
    BY <1>1, <1>2, <2>1, TransferMoves DEF l1
<1>10. Minted(o2.ledger, m, destination, r.amount)
  <2> DEFINE l2 == o2.ledger
  <2>1. Held(l2) /\ m = MintTo(l2, destination, r.amount).ledger
        /\ MintTo(l2, destination, r.amount).code = Ok
    BY <1>1, <1>9 DEF Moved
  <2> HIDE DEF l2, m
  <2>2. QED
    BY <1>6, <2>1, MintMoves DEF l2
<1> DEFINE l1 == o1.ledger
           l2 == o2.ledger
           fee == r.ownerFee
           minted == r.amount
<1>11. /\ fee \in Nat /\ minted \in Nat /\ x = Side(c, TokenGiven(dir), l[TokenGiven(dir)][Reserve])
       /\ amount \in Nat \ {0} /\ x # 0
       /\ k = x + (amount - fee) /\ k \in Nat \ {0}
       /\ CoversBut(x, l.supply, k, l.supply + minted, ONE + 5, ONE)
       /\ FeeCovered(l, l1, fee, k, l.supply + minted)
       /\ Moved(l1, l2, TokenGiven(dir), source, Reserve, amount)
       /\ Minted(l2, m, destination, minted)
  BY <1>4, <1>5, <1>6, <1>7, <1>8, <1>9, <1>10
<1> HIDE DEF l1, l2, m, fee, minted, x, k
<1>12. KeepsWorth(c, f, l, m)
  BY <1>11, FeeThenPaidThenMinted
<1>13. QED
  BY <1>12 DEF m

-----------------------------------------------------------------------------
(* Pool tokens out of an account. *)

\* Pool tokens that change hands are neither more nor less.
LEMMA PoolTokensMove ==
  ASSUME NEW l, Held(l), NEW from \in PoolAccounts, NEW to \in PoolAccounts, from # to,
         NEW amount \in Nat, NEW allowance, Transfer(l, "pool", from, to, amount, allowance).code = Ok
  PROVE  LET m == Transfer(l, "pool", from, to, amount, allowance).ledger
         IN  /\ Held(m) /\ m.a = l.a /\ m.b = l.b /\ m.supply = l.supply
             /\ \A acc \in PoolAccounts : acc # from => m.pool[acc] >= l.pool[acc]
<1> DEFINE m == [l EXCEPT !["pool"][from] = @ - amount, !["pool"][to] = @ + amount]
           mid == [l.pool EXCEPT ![from] = @ - amount]
           pool == [mid EXCEPT ![to] = @ + amount]
           change == 0 - amount
<1>1. l.pool \in [PoolAccounts -> Nat]
  BY DEF Held, Ledger
<1>2. amount <= l.pool[from] /\ Transfer(l, "pool", from, to, amount, allowance).ledger = m
  <2>1. ~(amount > l.pool[from] \/ amount > allowance)
    BY TokenErrorsAreNotOk DEF Transfer, Failure
  <2>2. Transfer(l, "pool", from, to, amount, allowance) = Success(m)
    BY <2>1, Zenon DEF Transfer
  <2>3. l.pool[from] \in Nat
    BY <1>1
  <2> HIDE DEF m
  <2>4. Transfer(l, "pool", from, to, amount, allowance).ledger = m
    BY <2>2 DEF Success
  <2>5. amount <= l.pool[from]
    BY <2>1, <2>3, SMT
  <2>6. QED
    BY <2>4, <2>5
<1>3. /\ mid \in [PoolAccounts -> Nat] /\ mid[from] = l.pool[from] + change
      /\ \A acc \in PoolAccounts : acc # from => mid[acc] = l.pool[acc]
  <2>1. l.pool[from] - amount \in Nat /\ l.pool[from] - amount = l.pool[from] + change
    BY <1>1, <1>2, SMT
  <2>2. QED
    BY <1>1, <2>1
<1>4. m = [l EXCEPT !["pool"] = pool]
  BY <1>1 DEF Held, Ledger
<1> HIDE DEF mid
<1>5. /\ pool \in [PoolAccounts -> Nat] /\ pool[to] = mid[to] + amount
      /\ \A acc \in PoolAccounts : acc # to => pool[acc] = mid[acc]
  BY <1>3
<1> HIDE DEF m, pool, change
<1>6. m \in Ledger /\ m.pool = pool /\ m.a = l.a /\ m.b = l.b /\ m.supply = l.supply
  BY <1>4, <1>5 DEF Held, Ledger
<1>7. Sum(mid, PoolAccounts) = Sum(l.pool, PoolAccounts) + change
  <2>1. change \in Int
    BY SMT DEF change
  <2>2. QED
    BY <1>1, <1>3, <2>1, PoolAccountsFinite, LedgerSumAdjusts
<1>8. Sum(pool, PoolAccounts) = Sum(mid, PoolAccounts) + amount
  <2>1. amount \in Int
    BY SMT
  <2>2. QED
    BY <1>3, <1>5, <2>1, PoolAccountsFinite, LedgerSumAdjusts
<1>9. Sum(pool, PoolAccounts) = Sum(l.pool, PoolAccounts)
  <2>1. Sum(l.pool, PoolAccounts) \in Nat
    BY <1>1, PoolAccountsFinite, LedgerSumType
  <2>2. QED
    BY <1>7, <1>8, <2>1, SMT DEF change
<1>10. \A acc \in PoolAccounts : acc # from => pool[acc] >= l.pool[acc]
  <2>1. ASSUME NEW acc \in PoolAccounts, acc # from PROVE pool[acc] >= l.pool[acc]
    <3>1. mid[acc] = l.pool[acc] /\ l.pool[acc] \in Nat
      BY <1>1, <1>3, <2>1
    <3>2. pool[acc] = mid[acc] \/ pool[acc] = mid[acc] + amount
      BY <1>5
    <3>3. QED
      BY <3>1, <3>2, SMT
  <2>2. QED
    BY <2>1
<1>11. QED
  BY <1>2, <1>6, <1>9, <1>10 DEF Held

\* Of what a withdrawal takes, the fee changes hands and the rest is burnt.
LEMMA TakePoolTokensBurns ==
  ASSUME NEW l, Held(l), NEW source \in PoolAccounts, source # InitDestination,
         NEW fee \in Nat, source = FeeAccount => fee = 0, NEW burnt \in Nat, NEW allowance,
         TakePoolTokens(l, source, fee, burnt, allowance).code = Ok
  PROVE  LET m == TakePoolTokens(l, source, fee, burnt, allowance).ledger
         IN  /\ Held(m) /\ m.a = l.a /\ m.b = l.b /\ m.supply = l.supply - burnt
             /\ m.pool[InitDestination] >= l.pool[InitDestination]
<1> DEFINE Rest(led) == Burn(led, source, burnt, allowance - fee)
           o1 == IF fee = 0 THEN Success(l) ELSE Transfer(l, "pool", source, FeeAccount, fee, allowance)
           o2 == Rest(o1.ledger)
           m == TakePoolTokens(l, source, fee, burnt, allowance).ledger
<1>1. o1.code = Ok /\ o2.code = Ok /\ m = o2.ledger
  <2>1. TakePoolTokens(l, source, fee, burnt, allowance) = IF o1.code = Ok THEN o2 ELSE o1
    BY Zenon DEF TakePoolTokens, Then
  <2> HIDE DEF o1, o2
  <2>2. QED
    BY <2>1
<1>2. FeeAccount \in PoolAccounts /\ InitDestination \in PoolAccounts
      /\ FeeAccount # InitDestination
  BY LedgersAssumption DEF PoolAccounts
<1>3. /\ Held(o1.ledger) /\ o1.ledger.a = l.a /\ o1.ledger.b = l.b /\ o1.ledger.supply = l.supply
      /\ o1.ledger.pool[InitDestination] >= l.pool[InitDestination]
  <2>1. CASE fee = 0
    <3>1. o1.ledger = l
      BY <2>1 DEF Success
    <3>2. l.pool[InitDestination] \in Nat
      BY <1>2 DEF Held, Ledger
    <3> HIDE DEF o1
    <3>3. QED
      BY <3>1, <3>2, SMT
  <2>2. CASE fee # 0
    <3>1. o1 = Transfer(l, "pool", source, FeeAccount, fee, allowance)
      BY <2>2
    <3> HIDE DEF o1
    <3>2. QED
      BY <1>1, <1>2, <2>2, <3>1, PoolTokensMove
  <2>3. QED
    BY <2>1, <2>2
<1> DEFINE l1 == o1.ledger
<1>4. Held(l1) /\ Burn(l1, source, burnt, allowance - fee).code = Ok
      /\ m = Burn(l1, source, burnt, allowance - fee).ledger
  BY <1>1, <1>3
<1>5. l1.a = l.a /\ l1.b = l.b /\ l1.supply = l.supply
      /\ l1.pool[InitDestination] >= l.pool[InitDestination]
  BY <1>3
<1> HIDE DEF l1, m
<1>6. Burnt(l1, m, source, burnt)
  BY <1>4, BurnMoves
<1>7. m.pool[InitDestination] = l1.pool[InitDestination]
  BY <1>2, <1>6 DEF Burnt
<1>8. QED
  BY <1>5, <1>6, <1>7 DEF Burnt, m

-----------------------------------------------------------------------------
(* Both tokens out. *)

\* What is paid of each reserve is at most the burnt tokens' share of it.
LEMMA BurntThenPaidOut ==
  ASSUME NEW c, NEW f, NEW l, Sound(c, f, l), NEW burnt \in Nat,
         NEW outA \in Nat, NEW outB \in Nat,
         outA * l.supply <= burnt * Side(c, "a", l.a[Reserve]),
         outB * l.supply <= burnt * Side(c, "b", l.b[Reserve]),
         NEW l1, Held(l1), l1.a = l.a, l1.b = l.b, l1.supply = l.supply - burnt,
         l1.pool[InitDestination] >= l.pool[InitDestination],
         NEW destination, NEW destinationB,
         NEW l2, Moved(l1, l2, "a", Reserve, destination, outA),
         NEW m, Moved(l2, m, "b", Reserve, destinationB, outB)
  PROVE  KeepsWorth(c, f, l, m)
<1> DEFINE a == l.a[Reserve]
           b == l.b[Reserve]
           x == Side(c, "a", a)
           y == Side(c, "b", b)
           s == l.supply
           x2 == x - outA
           y2 == y - outB
           s2 == s - burnt
<1>1. c \in ProductCurves /\ Held(l)
  BY DEF Sound
<1>2. a \in Nat /\ b \in Nat /\ x \in Nat /\ y \in Nat /\ s \in Nat /\ Worth(c, l) = x * y
  BY <1>1, WorthType DEF Worth
<1>3. /\ Held(m) /\ m.supply = s2 /\ m.pool[InitDestination] >= l.pool[InitDestination]
      /\ m.a[Reserve] = a - outA /\ m.b[Reserve] = b - outB
  BY DEF Moved
<1>4. Side(c, "a", m.a[Reserve]) = x2 /\ Side(c, "b", m.b[Reserve]) = y2
  <2>1. a \in Int /\ a - outA \in Int /\ b \in Int /\ b - outB \in Int
    BY <1>2, SMT
  <2>2. Side(c, "a", a - outA) = x + ((a - outA) - a) /\ Side(c, "b", b - outB) = y + ((b - outB) - b)
    BY <1>1, <2>1, SideShifts
  <2>3. x + ((a - outA) - a) = x2 /\ y + ((b - outB) - b) = y2
    BY <1>2, SMT
  <2>4. QED
    BY <1>3, <2>2, <2>3
<1>5. x2 \in Nat /\ y2 \in Nat /\ s2 \in Nat /\ Worth(c, m) = x2 * y2
  BY <1>1, <1>3, <1>4, WorthType DEF Worth
<1>6. outA * s <= burnt * x /\ outB * s <= burnt * y
  OBVIOUS
<1> HIDE DEF a, b, x, y, s
<1>7. x * s2 <= x2 * s /\ y * s2 <= y2 * s
  <2>1. x * s2 = x * s - burnt * x /\ x2 * s = x * s - outA * s
        /\ y * s2 = y * s - burnt * y /\ y2 * s = y * s - outB * s
    BY <1>2, SMT
  <2>2. x * s \in Nat /\ y * s \in Nat /\ burnt * x \in Nat /\ burnt * y \in Nat
        /\ outA * s \in Nat /\ outB * s \in Nat
    BY <1>2, SMT
  <2>3. QED
    BY <1>6, <2>1, <2>2, SMT
<1> HIDE DEF x2, y2, s2
<1>8. Covers(x * y, s, x2 * y2, s2)
  BY <1>2, <1>5, <1>7, CoversInProportion
<1>9. Covers(Worth(c, l), l.supply, Worth(c, m), m.supply)
  BY <1>2, <1>3, <1>5, <1>8 DEF s
<1>10. QED
  BY <1>3, <1>9, CoveredExactly

LEMMA WithdrawBothKeepsWorth ==
  ASSUME NEW c, NEW f, NEW l, Sound(c, f, l), NEW source \in PoolAccounts, source # InitDestination,
         NEW destination \in TokenAccounts, NEW destinationB \in TokenAccounts,
         NEW poolAmount \in Nat, NEW minimumA, NEW minimumB, NEW allowance,
         WithdrawAllTokenTypes(c, f, l, source, destination, destinationB, poolAmount, minimumA,
                               minimumB, allowance).code = Ok
  PROVE  KeepsWorth(c, f, l,
           WithdrawAllTokenTypes(c, f, l, source, destination, destinationB, poolAmount, minimumA,
                                 minimumB, allowance).ledger)
<1> DEFINE a == l.a[Reserve]
           b == l.b[Reserve]
           s == l.supply
           fee   == WithdrawFee(poolAmount, source, f)
           burnt == poolAmount - fee
           part  == TradingTokens(c, burnt, a, b, s, "Floor")
           outA  == Payable(a, part.a)
           outB  == Payable(b, part.b)
           o1 == TakePoolTokens(l, source, fee, burnt, allowance)
           o2 == Transfer(o1.ledger, "a", Reserve, destination, outA, U64_MAX)
           o3 == Transfer(o2.ledger, "b", Reserve, destinationB, outB, U64_MAX)
           o  == WithdrawAllTokenTypes(c, f, l, source, destination, destinationB, poolAmount,
                                       minimumA, minimumB, allowance)
           m  == o.ledger
<1>1. /\ destination # Reserve /\ destinationB # Reserve /\ ~(burnt < 0) /\ part # None
      /\ o1.code = Ok /\ o2.code = Ok /\ o3.code = Ok /\ m = o3.ledger
  <2>1. PICK spent, q, p1, p2, p3 :
          WithdrawBothCalls(c, f, l, source, destination, destinationB, poolAmount, allowance, m,
                            spent, q, p1, p2, p3)
    BY WithdrawBothTakenApart
  <2> HIDE DEF o, m
  <2>2. spent = fee /\ q = part /\ p1 = o1 /\ p2 = o2 /\ p3 = o3
    BY <2>1, Zenon DEF WithdrawBothCalls
  <2>3. QED
    BY <2>1, <2>2, Zenon DEF WithdrawBothCalls
<1>2. /\ c \in ProductCurves /\ f \in FeeSchedule /\ ValidFees(f) /\ Held(l) /\ ~Priced(c)
      /\ Reserve \in TokenAccounts
  BY LedgersAssumption DEF Sound, TokenAccounts, ProductCurves
<1> DEFINE x == Side(c, "a", a)
           y == Side(c, "b", b)
<1>3. a \in Nat /\ b \in Nat /\ s \in Nat /\ x \in Nat /\ y \in Nat
  BY <1>2, WorthType
<1>4. /\ fee \in Nat /\ burnt \in Nat /\ (source = FeeAccount => fee = 0)
  <2>1. fee \in Nat /\ (source = FeeAccount => fee = 0)
    BY <1>2, FeesAtMostAmount DEF WithdrawFee
  <2> HIDE DEF fee
  <2>2. QED
    BY <1>1, <2>1, SMT
<1> HIDE DEF fee, burnt
<1>5. /\ outA \in Nat /\ outB \in Nat /\ outA * s <= burnt * x /\ outB * s <= burnt * y
  <2>1. s # 0
    BY <1>1 DEF TradingTokens
  <2>2. /\ part.a = ProductPart(burnt, x, s, "Floor") /\ part.b = ProductPart(burnt, y, s, "Floor")
    <3>1. x = a /\ y = WithOffset(c, b)
      BY DEF Side
    <3>2. part = [a |-> ProductPart(burnt, a, s, "Floor"), b |-> ProductPart(burnt, WithOffset(c, b), s, "Floor")]
      BY <1>1, <1>2, <2>1 DEF TradingTokens
    <3>3. QED
      BY <3>1, <3>2
  <2> HIDE DEF part, x, y, s, a, b
  <2>3. /\ part.a \in Nat /\ part.a * s <= burnt * x
        /\ part.b \in Nat /\ part.b * s <= burnt * y
    BY <1>3, <1>4, <2>1, <2>2, PartRoundedDown
  <2>4. outA \in Nat /\ outA <= part.a /\ outB \in Nat /\ outB <= part.b
    BY <1>3, <2>3, SMT DEF Payable, AtMost
  <2> HIDE DEF outA, outB
  <2>5. outA * s <= part.a * s /\ outB * s <= part.b * s
    BY <1>3, <2>3, <2>4, MulMono
  <2>6. /\ outA * s \in Nat /\ part.a * s \in Nat /\ burnt * x \in Nat
        /\ outB * s \in Nat /\ part.b * s \in Nat /\ burnt * y \in Nat
    BY <1>3, <1>4, <2>3, <2>4, SMT
  <2>7. QED
    BY <2>3, <2>4, <2>5, <2>6, SMT
<1> HIDE DEF outA, outB
<1> DEFINE l1 == o1.ledger
           l2 == o2.ledger
<1>6. /\ Held(l1) /\ l1.a = l.a /\ l1.b = l.b /\ l1.supply = s - burnt
      /\ l1.pool[InitDestination] >= l.pool[InitDestination]
  BY <1>1, <1>2, <1>4, TakePoolTokensBurns
<1>7. o2 = Transfer(l1, "a", Reserve, destination, outA, U64_MAX) /\ o2.code = Ok
  BY <1>1
<1> HIDE DEF l1, o2
<1>8. Moved(l1, l2, "a", Reserve, destination, outA)
  BY <1>1, <1>2, <1>5, <1>6, <1>7, TransferMoves
<1>9. m = Transfer(l2, "b", Reserve, destinationB, outB, U64_MAX).ledger
       /\ Transfer(l2, "b", Reserve, destinationB, outB, U64_MAX).code = Ok
  BY <1>1
<1> HIDE DEF l2, m
<1>10. Moved(l2, m, "b", Reserve, destinationB, outB)
  <2>1. Held(l2)
    BY <1>8 DEF Moved
  <2>2. QED
    BY <1>1, <1>2, <1>5, <1>9, <2>1, TransferMoves
<1>11. KeepsWorth(c, f, l, m)
  BY <1>4, <1>5, <1>6, <1>8, <1>10, BurntThenPaidOut
<1>12. QED
  BY <1>11 DEF m

-----------------------------------------------------------------------------
(* One token out. *)

\* The reserve of the token the direction gives, as the curve sees it.
Given(c, dir, l) == Side(c, TokenGiven(dir), l[TokenGiven(dir)][Reserve])

\* Four units of what was there, counted against what is left.
LEMMA LeftRescaled ==
  ASSUME NEW x \in Nat, NEW s \in Nat, NEW k \in Nat, NEW rest \in Nat,
         CoversBut(x, s, k * ONE + 4 * x, rest, 1, ONE)
  PROVE  CoversBut(x, s, k, rest, k * ONE + 4 * x, k * ONE)
<1> DEFINE n == k * ONE + 4 * x
<1>1. ONE \in Nat /\ n \in Nat /\ x * ONE \in Nat /\ n * 1 = n
  BY OneIsNat, SMT
<1> HIDE DEF n
<1>2. Covers(x * ONE, s, n, rest)
  BY <1>1 DEF CoversBut, n
<1>3. Covers((x * ONE) * k, s, n * k, rest)
  BY <1>1, <1>2, CoversProduct
<1>4. (x * ONE) * k = x * (k * ONE) /\ n * k = k * n
  BY <1>1, SMT
<1>5. QED
  BY <1>3, <1>4 DEF CoversBut, n

\* What a one-sided withdrawal's amounts must be: the fee minted next to what
\* is left when it and the amount are gone, the user's pool tokens taken, the
\* amount paid out.
LEMMA FeeThenTakenThenPaidOut ==
  ASSUME NEW c, NEW f, NEW l, Sound(c, f, l), NEW dir \in Direction,
         NEW destination, NEW amount \in Nat \ {0}, NEW fee \in Nat, NEW burnt \in Nat, NEW left \in Nat,
         PreTradingFeeDefined(f), fee = WithdrawOwnerFee(amount, f),
         left <= Given(c, dir, l) - (amount + fee) \/ left = 0, l.supply - burnt \in Nat,
         left = 0 => l.supply - burnt = 0,
         CoversBut(Given(c, dir, l), l.supply, left * ONE + 4 * Given(c, dir, l), l.supply - burnt, 1, ONE),
         NEW l1, FeeCovered(l, l1, fee, Given(c, dir, l) - (amount + fee), l.supply - burnt),
         NEW l2, Held(l2), l2.a = l1.a, l2.b = l1.b, l2.supply = l1.supply - burnt,
         l2.pool[InitDestination] >= l1.pool[InitDestination],
         NEW m, Moved(l2, m, TokenGiven(dir), Reserve, destination, amount)
  PROVE  KeepsWorth(c, f, l, m)
<1> DEFINE g == TokenGiven(dir)
           t == TokenTaken(dir)
           s == l.supply
           rest == s - burnt
           paid == l1.supply - l.supply
           x == Given(c, dir, l)
           k == x - (amount + fee)
<1>1. c \in ProductCurves /\ Held(l)
  BY DEF Sound
<1>2. /\ g \in {"a", "b"} /\ t \in {"a", "b"} /\ g # t
  BY Directions
<1>3. x \in Nat /\ l[g][Reserve] \in Nat /\ rest \in Nat
  BY <1>1, WorthEitherWay DEF Given
<1>4. Held(l1) /\ l1[g] = l[g] /\ l1[t] = l[t] /\ paid \in Nat
  BY <1>2 DEF FeeCovered
<1>5. l2[g] = l[g] /\ l2[t] = l[t]
  BY <1>2, <1>4
<1>6. /\ Held(m) /\ m.pool = l2.pool /\ m.supply = l1.supply - burnt
      /\ m[g][Reserve] = l[g][Reserve] - amount /\ m[t] = l[t]
  BY <1>2, <1>5, MovedOther DEF Moved
<1>7. m.pool[InitDestination] >= l.pool[InitDestination]
  <2>1. InitDestination \in PoolAccounts
    BY DEF PoolAccounts
  <2>2. l1.pool[InitDestination] >= l.pool[InitDestination]
        /\ m.pool[InitDestination] >= l1.pool[InitDestination]
    BY <1>6, <2>1 DEF FeeCovered
  <2>3. l.pool[InitDestination] \in Nat /\ l1.pool[InitDestination] \in Nat
        /\ m.pool[InitDestination] \in Nat
    BY <1>1, <1>4, <1>6, <2>1 DEF Held, Ledger
  <2>4. QED
    BY <2>2, <2>3, SMT
<1> DEFINE x2 == x - amount
<1>8. Side(c, g, m[g][Reserve]) = x2 /\ m[t][Reserve] = l[t][Reserve] /\ x2 \in Nat
  <2>1. l[g][Reserve] \in Int /\ l[g][Reserve] - amount \in Int
    BY <1>3, SMT
  <2>2. Side(c, g, m[g][Reserve]) = x + ((l[g][Reserve] - amount) - l[g][Reserve])
    BY <1>1, <1>6, <2>1, SideShifts DEF Given
  <2>3. x + ((l[g][Reserve] - amount) - l[g][Reserve]) = x2
    BY <1>3, SMT
  <2>4. Side(c, g, m[g][Reserve]) \in Nat
    BY <1>1, <1>6, WorthEitherWay
  <2>5. QED
    BY <1>6, <2>2, <2>3, <2>4
<1>9. s \in Nat /\ l1.supply \in Nat /\ m.supply = rest + paid
  <2>1. s \in Nat /\ l1.supply \in Nat
    BY <1>1, <1>4, WorthType
  <2>2. QED
    BY <1>6, <2>1, SMT
<1>10. /\ ONE \in Nat \ {0} /\ ONE \in Nat /\ ONE + 5 \in Nat \ {0} /\ ONE + 5 \in Nat
       /\ x \in Nat \ {0} /\ x2 # x /\ rest + paid \in Nat
  <2>1. x # 0
    BY SoundTypes, Directions DEF Given
  <2>2. QED
    BY <1>3, <1>4, <1>8, <2>1, OneIsNat, SMT
\* What is left after the curve's answer is within what stays in the reserve.
<1>11. left = 0 \/ left <= k
  OBVIOUS
<1>12. m.supply # 0
  <2>1. l.pool[InitDestination] >= InitialSupply
    BY DEF Sound
  <2>2. /\ l.pool[InitDestination] \in Nat /\ m.pool[InitDestination] \in Nat /\ InitialSupply \in Nat
    <3>1. InitDestination \in PoolAccounts
      BY DEF PoolAccounts
    <3>2. QED
      BY <1>1, <1>6, <3>1, LedgersAssumption, SMT DEF Held, Ledger
  <2>3. m.pool[InitDestination] >= InitialSupply
    BY <1>7, <2>1, <2>2, SMT
  <2>4. m.supply \in Nat \ {0}
    BY <1>6, <2>3, SupplyRemains
  <2>5. QED
    BY <2>4
<1>13. CASE fee = 0
  <2>1. paid = 0 /\ k = x2 /\ m.supply = rest
    <3>1. paid = 0
      BY <1>9, <1>13, SMT DEF FeeCovered
    <3>2. QED
      BY <1>3, <1>9, <1>13, <3>1, SMT
  <2>2. left # 0 /\ left <= x2
    BY <1>11, <1>12, <2>1
  <2>3. /\ x2 \in Nat \ {0} /\ x2 * ONE + 4 * x \in Nat /\ x2 * ONE \in Nat \ {0}
        /\ left * ONE + 4 * x <= x2 * ONE + 4 * x /\ left * ONE + 4 * x \in Nat
    <3>1. x2 \in Nat \ {0} /\ left * ONE <= x2 * ONE
      BY <1>8, <1>10, <2>2, MulMono, SMT
    <3>2. left * ONE \in Nat /\ x2 * ONE \in Nat \ {0}
      BY <1>10, <3>1, SMT
    <3>3. QED
      BY <1>10, <3>1, <3>2, SMT
  <2>4. CoversBut(x, s, x2, rest, x2 * ONE + 4 * x, x2 * ONE)
    <3> DEFINE u == left * ONE + 4 * x
               v == x2 * ONE + 4 * x
    <3>1. CoversBut(x, s, u, rest, 1, ONE) /\ rest <= rest /\ 1 \in Nat
      BY <1>3, SMT
    <3> HIDE DEF x, x2, s, rest
    <3>2. CoversBut(x, s, v, rest, 1, ONE)
      <4>1. u \in Nat /\ v \in Nat /\ u <= v
        BY <2>3
      <4> HIDE DEF u, v
      <4>2. QED
        BY <1>3, <1>9, <1>10, <3>1, <4>1, ButMore
    <3>3. QED
      BY <1>3, <1>9, <2>3, <3>2, LeftRescaled
  <2>5. (x2 * ONE + 4 * x) * TwoRoots(f, x, x2).den <= TwoRoots(f, x, x2).num * (x2 * ONE)
    <3>1. f \in FeeSchedule /\ ValidFees(f)
      BY DEF Sound
    <3>2. x - x2 = amount /\ ~(x2 >= x) /\ x2 - fee > 0 /\ x2 - fee = x2 /\ x2 < x
      BY <1>3, <1>8, <1>13, <2>3, SMT
    <3>3. Smaller(f, x, x2) = x2 /\ Larger(x, x2) = x
      BY <3>2 DEF Smaller, Larger
    <3> HIDE DEF x, x2
    <3>4. QED
      BY <1>8, <1>10, <3>1, <3>3, TwoRootsCost
  <2>6. /\ CoversBut(x, l.supply, x2, m.supply, x2 * ONE + 4 * x, x2 * ONE)
        /\ x = Side(c, g, l[g][Reserve]) /\ x2 = Side(c, g, m[g][Reserve])
        /\ m[t][Reserve] = l[t][Reserve]
    BY <1>8, <2>1, <2>4 DEF Given
  <2> HIDE DEF x, x2, g, t
  <2>7. QED
    BY <1>6, <1>7, <1>10, <2>3, <2>5, <2>6, CoveredButRoots DEF g, t
<1>14. CASE fee # 0
  <2>1. k \in Nat \ {0} /\ CoversBut(k, rest, k + fee, rest + paid, ONE + 5, ONE)
    BY <1>14 DEF FeeCovered
  <2>2. k + fee = x2 /\ k \in Nat /\ left <= k /\ rest <= rest
    BY <1>3, <1>11, <2>1, SMT
  <2>3. /\ k * ONE + 4 * x \in Nat \ {0} /\ k * ONE \in Nat \ {0}
        /\ left * ONE + 4 * x <= k * ONE + 4 * x /\ left * ONE + 4 * x \in Nat
        /\ (k * ONE + 4 * x) * (ONE + 5) \in Nat /\ (k * ONE) * ONE \in Nat \ {0}
    <3> DEFINE n == k * ONE + 4 * x
               d == k * ONE
    <3>1. left * ONE <= d /\ left * ONE \in Nat /\ d \in Nat \ {0} /\ n \in Nat \ {0} /\ 4 * x \in Nat
      BY <1>10, <2>1, <2>2, MulMono, SMT
    <3>2. left * ONE + 4 * x <= n /\ left * ONE + 4 * x \in Nat
      BY <3>1, SMT
    <3> HIDE DEF n, d
    <3>3. n * (ONE + 5) \in Nat /\ d * ONE \in Nat \ {0}
      BY <1>10, <3>1, SMT
    <3>4. QED
      BY <3>1, <3>2, <3>3 DEF n, d
  <2>4. CoversBut(x, s, k, rest, k * ONE + 4 * x, k * ONE)
    <3> DEFINE u == left * ONE + 4 * x
               v == k * ONE + 4 * x
    <3>1. CoversBut(x, s, u, rest, 1, ONE) /\ 1 \in Nat
      BY SMT
    <3> HIDE DEF x, s, k, rest
    <3>2. CoversBut(x, s, v, rest, 1, ONE)
      <4>1. u \in Nat /\ v \in Nat /\ u <= v
        BY <2>3
      <4> HIDE DEF u, v
      <4>2. QED
        BY <1>3, <1>9, <1>10, <2>2, <3>1, <4>1, ButMore
    <3>3. QED
      BY <1>3, <1>9, <2>2, <3>2, LeftRescaled
  <2>5. CoversBut(x, s, x2, rest + paid, (k * ONE + 4 * x) * (ONE + 5), (k * ONE) * ONE)
    <3>1. CoversBut(k, rest, x2, rest + paid, ONE + 5, ONE)
      BY <2>1, <2>2
    <3> DEFINE n == k * ONE + 4 * x
               d == k * ONE
    <3>2. n \in Nat \ {0} /\ d \in Nat \ {0} /\ CoversBut(x, s, k, rest, n, d)
      BY <2>3, <2>4
    <3> HIDE DEF x, x2, s, k, rest, paid, n, d
    <3>3. CoversBut(x, s, x2, rest + paid, n * (ONE + 5), d * ONE)
      BY <1>3, <1>8, <1>9, <1>10, <2>1, <3>1, <3>2, ButTransitive
    <3>4. QED
      BY <3>3 DEF n, d
  <2>6. ((k * ONE + 4 * x) * (ONE + 5)) * TwoRoots(f, x, x2).den
          <= TwoRoots(f, x, x2).num * ((k * ONE) * ONE)
    <3>1. f \in FeeSchedule /\ ValidFees(f)
      BY DEF Sound
    <3>2. x - x2 = amount /\ ~(x2 >= x) /\ x2 - fee > 0 /\ x2 - fee = k /\ x2 < x
      BY <1>3, <1>8, <2>1, SMT
    <3>3. Smaller(f, x, x2) = k /\ Larger(x, x2) = x
      BY <3>2 DEF Smaller, Larger
    <3> HIDE DEF x, x2, k
    <3>4. QED
      BY <1>8, <1>10, <3>1, <3>3, TwoRootsCost
  <2>7. /\ CoversBut(x, l.supply, x2, m.supply, (k * ONE + 4 * x) * (ONE + 5), (k * ONE) * ONE)
        /\ x = Side(c, g, l[g][Reserve]) /\ x2 = Side(c, g, m[g][Reserve])
        /\ m[t][Reserve] = l[t][Reserve]
    BY <1>8, <1>9, <2>5 DEF Given
  <2> HIDE DEF x, x2, k, g, t
  <2>8. QED
    BY <1>6, <1>7, <1>10, <2>3, <2>6, <2>7, CoveredButRoots DEF g, t
<1>15. QED
  BY <1>13, <1>14

LEMMA WithdrawOneKeepsWorth ==
  ASSUME NEW c, NEW f, NEW l, Sound(c, f, l), NEW dir \in Direction,
         NEW source \in PoolAccounts, source # InitDestination,
         NEW destination \in TokenAccounts, NEW amount \in Nat,
         NEW maximumPool, NEW host \in Hosts, NEW allowance,
         WithdrawSingleExactAmountOut(c, f, l, dir, source, destination, amount, maximumPool, host,
                                      allowance).code = Ok
  PROVE  KeepsWorth(c, f, l,
           WithdrawSingleExactAmountOut(c, f, l, dir, source, destination, amount, maximumPool, host,
                                        allowance).ledger)
<1> DEFINE g == TokenGiven(dir)
           a == l.a[Reserve]
           b == l.b[Reserve]
           s == l.supply
           r == CurveWithdraw(c, amount, a, b, s, dir, f)
           fee   == WithdrawFee(r.amount, source, f)
           taken == amount + r.ownerFee
           a2 == IF dir = "AtoB" THEN a - taken ELSE a
           b2 == IF dir = "AtoB" THEN b ELSE b - taken
           o1 == MintOwnerFee(c, f, l, r.ownerFee, a2, b2, s - r.amount, dir, TRUE, host)
           o2 == TakePoolTokens(o1.ledger, source, fee, r.amount, allowance)
           o3 == Transfer(o2.ledger, g, Reserve, destination, amount, U64_MAX)
           o  == WithdrawSingleExactAmountOut(c, f, l, dir, source, destination, amount, maximumPool,
                                              host, allowance)
           m  == o.ledger
           x  == Side(c, g, l[g][Reserve])
           gross == WithdrawGross(amount, f)
           left == IF gross < x THEN x - gross ELSE 0
           rest == s - r.amount
           k    == x - taken
<1>1. /\ destination # Reserve /\ ~Bad(r) /\ r.amount + fee # 0
      /\ o1.code = Ok /\ o2.code = Ok /\ o3.code = Ok /\ m = o3.ledger
  <2>1. PICK q, spent, p1, p2, p3 :
          WithdrawOneCalls(c, f, l, dir, source, destination, amount, host, allowance, m,
                           q, spent, p1, p2, p3)
    BY WithdrawOneTakenApart
  <2> HIDE DEF o, m
  <2>2. q = r /\ spent = fee /\ p1 = o1 /\ p2 = o2 /\ p3 = o3
    BY <2>1, Zenon DEF WithdrawOneCalls
  <2>3. QED
    BY <2>1, <2>2, Zenon DEF WithdrawOneCalls
<1>2. /\ c \in ProductCurves /\ f \in FeeSchedule /\ ValidFees(f) /\ Held(l) /\ ~Priced(c)
      /\ Reserve \in TokenAccounts /\ g \in {"a", "b"}
  BY Directions, LedgersAssumption DEF Sound, TokenAccounts, ProductCurves
<1>3. /\ a \in Nat /\ b \in Nat /\ s \in Nat /\ x \in Nat /\ l[g][Reserve] \in Nat
      /\ l[g][Reserve] = IF dir = "AtoB" THEN a ELSE b
      /\ x = IF dir = "AtoB" THEN a ELSE WithOffset(c, b)
  BY <1>2, WorthType, WorthEitherWay, Directions DEF Side
<1>4. amount # 0
  <2>1. SUFFICES ASSUME amount = 0 PROVE FALSE
    OBVIOUS
  <2>2. r.amount = 0
    BY <2>1 DEF CurveWithdraw
  <2> HIDE DEF r
  <2>3. fee = 0
    BY <2>2 DEF WithdrawFee, OwnerWithdrawFee, CalculateFee
  <2> HIDE DEF fee
  <2>4. QED
    BY <1>1, <2>2, <2>3
<1>5. /\ PreTradingFeeDefined(f) /\ r.ownerFee = WithdrawOwnerFee(amount, f)
      /\ r.amount = ProductWithdraw(gross, x, s) /\ ProductWithdraw(gross, x, s) # None
  <2> DEFINE tokens == WithdrawSingleTokenType(c, gross, a, b, s, dir)
  <2>1. PreTradingFeeDefined(f)
    BY <1>1, <1>4, Zenon DEF CurveWithdraw, Bad
  <2>2. r = IF Bad(tokens) THEN tokens ELSE [amount |-> tokens, ownerFee |-> WithdrawOwnerFee(amount, f)]
    BY <1>4, <2>1, Zenon DEF CurveWithdraw
  <2>3. tokens = ProductWithdraw(gross, x, s)
    BY <1>2, <1>3, Zenon DEF WithdrawSingleTokenType
  <2> HIDE DEF tokens, r
  <2>4. ~Bad(tokens)
    BY <1>1, <2>2
  <2>5. r.amount = tokens /\ r.ownerFee = WithdrawOwnerFee(amount, f)
    BY <2>2, <2>4
  <2> HIDE DEF x, gross
  <2>6. tokens # None
    BY <2>4 DEF Bad
  <2>7. QED
    BY <2>1, <2>3, <2>5, <2>6
<1> HIDE DEF r
<1>6. gross \in Nat /\ r.ownerFee \in Nat /\ taken \in Nat /\ taken <= gross
  <2>1. gross \in Nat /\ r.ownerFee \in Nat
    BY <1>2, <1>5, WithdrawAmountTypes
  <2>2. taken <= gross
    BY <1>2, <1>5, OwnerFeeWithinGross
  <2>3. QED
    BY <2>1, <2>2, SMT
<1> HIDE DEF gross
<1>7. /\ left \in Nat /\ left <= x /\ (left <= k \/ left = 0)
  <2> HIDE DEF x, taken
  <2>1. QED
    BY <1>3, <1>6, SMT
<1>8. /\ x \in Nat \ {0} /\ r.amount \in Nat /\ rest \in Nat
      /\ CoversBut(x, s, left * ONE + 4 * x, rest, 1, ONE) /\ (left = 0 => rest = 0)
  <2> HIDE DEF x, s
  <2>1. left = IF gross < x THEN x - gross ELSE 0
    OBVIOUS
  <2>2. rest = s - ProductWithdraw(gross, x, s)
    BY <1>5
  <2> HIDE DEF left, rest
  <2>3. /\ x # 0 /\ rest \in Nat /\ (left = 0 => rest = 0)
        /\ CoversBut(x, s, left * ONE + 4 * x, rest, 1, ONE)
    BY <1>3, <1>5, <1>6, <2>1, <2>2, WithdrawCovers
  <2>4. r.amount \in Nat
    <3>1. ProductWithdraw(gross, x, s) \in Nat
      BY <1>3, <1>5, <1>6, <2>1, ProductWithdrawAs
    <3>2. QED
      BY <1>5, <3>1
  <2>5. QED
    BY <1>3, <2>3, <2>4
<1> HIDE DEF left
<1>9. fee \in Nat /\ (source = FeeAccount => fee = 0)
  BY <1>2, <1>8, FeesAtMostAmount DEF WithdrawFee
<1> HIDE DEF fee
<1>10. FeeCovered(l, o1.ledger, r.ownerFee, k, rest)
  <2>1. l[g][Reserve] - taken \in Int
    BY <1>3, <1>6, SMT
  <2>2. a2 \in Int /\ b2 \in Int /\ rest \in Int
        /\ (IF dir = "AtoB" THEN a2 ELSE b2) = l[g][Reserve] - taken
    <3>1. a2 \in Int /\ b2 \in Int
      BY <1>3, <1>6, SMT
    <3>2. (IF dir = "AtoB" THEN a2 ELSE b2) = l[g][Reserve] - taken
      BY <1>3
    <3>3. rest \in Int
      BY <1>8, SMT
    <3>4. QED
      BY <3>1, <3>2, <3>3
  <2>3. Side(c, g, l[g][Reserve] - taken) = k
    <3>1. l[g][Reserve] \in Int /\ (l[g][Reserve] - taken) - l[g][Reserve] = 0 - taken
      BY <1>3, <1>6, SMT
    <3>2. Side(c, g, l[g][Reserve] - taken) = x + ((l[g][Reserve] - taken) - l[g][Reserve])
      BY <1>2, <2>1, <3>1, SideShifts
    <3>3. k = x + (0 - taken)
      BY <1>3, <1>6, SMT
    <3>4. QED
      BY <3>1, <3>2, <3>3
  <2>4. o1.code = Ok /\ o1 = MintOwnerFee(c, f, l, r.ownerFee, a2, b2, rest, dir, TRUE, host)
        /\ TRUE \in BOOLEAN
    BY <1>1
  <2> HIDE DEF a2, b2, rest, k, g, taken, o1
  <2>5. FeeCovered(l, o1.ledger, r.ownerFee, Side(c, TokenGiven(dir), IF dir = "AtoB" THEN a2 ELSE b2), rest)
    BY <1>2, <1>6, <2>2, <2>4, MintOwnerFeeCovers
  <2>6. QED
    BY <2>2, <2>3, <2>5 DEF g
<1> DEFINE l1 == o1.ledger
           l2 == o2.ledger
<1>11. /\ Held(l2) /\ l2.a = l1.a /\ l2.b = l1.b /\ l2.supply = l1.supply - r.amount
       /\ l2.pool[InitDestination] >= l1.pool[InitDestination]
  <2>1. Held(l1) /\ o2 = TakePoolTokens(l1, source, fee, r.amount, allowance) /\ o2.code = Ok
    BY <1>1, <1>10 DEF FeeCovered
  <2> HIDE DEF l1, o2
  <2>2. QED
    BY <1>8, <1>9, <2>1, TakePoolTokensBurns
<1>12. Moved(l2, m, g, Reserve, destination, amount)
  <2>1. Held(l2) /\ m = Transfer(l2, g, Reserve, destination, amount, U64_MAX).ledger
        /\ Transfer(l2, g, Reserve, destination, amount, U64_MAX).code = Ok
    BY <1>1, <1>11
  <2>2. destination # Reserve /\ Reserve \in TokenAccounts /\ g \in {"a", "b"}
    BY <1>1, <1>2
  <2> HIDE DEF l2, m, g
  <2>3. Moved(l2, Transfer(l2, g, Reserve, destination, amount, U64_MAX).ledger, g, Reserve, destination,
              amount)
    BY <2>1, <2>2, TransferMoves
  <2>4. QED
    BY <2>1, <2>3
<1> DEFINE burnt == r.amount
           ownerFee == r.ownerFee
<1>13. /\ ownerFee \in Nat /\ burnt \in Nat /\ left \in Nat /\ l.supply - burnt \in Nat
       /\ left <= Given(c, dir, l) - (amount + ownerFee) \/ left = 0
       /\ left = 0 => l.supply - burnt = 0
       /\ PreTradingFeeDefined(f) /\ ownerFee = WithdrawOwnerFee(amount, f) /\ amount \in Nat \ {0}
       /\ CoversBut(Given(c, dir, l), l.supply, left * ONE + 4 * Given(c, dir, l), l.supply - burnt, 1, ONE)
       /\ FeeCovered(l, l1, ownerFee, Given(c, dir, l) - (amount + ownerFee), l.supply - burnt)
       /\ l2.supply = l1.supply - burnt
       /\ Moved(l2, m, TokenGiven(dir), Reserve, destination, amount)
  BY <1>4, <1>5, <1>6, <1>7, <1>8, <1>10, <1>11, <1>12 DEF Given
<1> HIDE DEF l1, l2, m, burnt, ownerFee
<1>14. KeepsWorth(c, f, l, m)
  BY <1>11, <1>13, FeeThenTakenThenPaidOut
<1>15. QED
  BY <1>14 DEF m

-----------------------------------------------------------------------------
(* Tokens given to a reserve, pool tokens burnt by their owner, the first ones. *)

LEMMA GivenKeepsWorth ==
  ASSUME NEW c, NEW f, NEW l, Sound(c, f, l), NEW token \in {"a", "b"},
         NEW source, NEW amount \in Nat, NEW m, Moved(l, m, token, source, Reserve, amount)
  PROVE  KeepsWorth(c, f, l, m)
<1> DEFINE dir == IF token = "a" THEN "AtoB" ELSE "BtoA"
           g == TokenGiven(dir)
           t == TokenTaken(dir)
           x == Side(c, g, l[g][Reserve])
           s == l.supply
<1>1. dir \in Direction /\ g = token /\ t \in {"a", "b"} /\ t # token
  BY DEF Direction, TokenGiven, TokenTaken
<1> HIDE DEF dir
<1>2. c \in ProductCurves /\ Held(l)
  BY DEF Sound
<1>3. x \in Nat /\ l[g][Reserve] \in Nat /\ s \in Nat
  BY <1>1, <1>2, WorthEitherWay, WorthType
<1>4. Held(m) /\ m.supply = s /\ m.pool = l.pool
      /\ m[g][Reserve] = l[g][Reserve] + amount /\ m[t] = l[t]
  BY <1>1, MovedOther DEF Moved
<1>5. Side(c, g, m[g][Reserve]) = x + amount
  <2>1. l[g][Reserve] \in Int /\ l[g][Reserve] + amount \in Int
    BY <1>3, SMT
  <2>2. Side(c, g, m[g][Reserve]) = x + ((l[g][Reserve] + amount) - l[g][Reserve])
    BY <1>2, <1>4, <2>1, SideShifts
  <2>3. x + ((l[g][Reserve] + amount) - l[g][Reserve]) = x + amount
    BY <1>3, SMT
  <2>4. QED
    BY <2>2, <2>3
<1>6. Covers(x, s, x + amount, s)
  <2>1. x + amount \in Nat /\ x <= x + amount /\ s <= s
    BY <1>3, SMT
  <2> HIDE DEF x, s
  <2>2. QED
    BY <1>3, <2>1, CoversItself
<1>7. m.pool[InitDestination] >= l.pool[InitDestination]
  <2>1. l.pool[InitDestination] \in Nat
    BY <1>2 DEF Held, Ledger, PoolAccounts
  <2>2. QED
    BY <1>4, <2>1, SMT
<1>8. QED
  BY <1>1, <1>4, <1>5, <1>6, <1>7, CoveredOnOneSide

LEMMA BurntKeepsWorth ==
  ASSUME NEW c, NEW f, NEW l, Sound(c, f, l), NEW from \in PoolAccounts, from # InitDestination,
         NEW amount \in Nat, NEW m, Burnt(l, m, from, amount)
  PROVE  KeepsWorth(c, f, l, m)
<1> DEFINE x == Worth(c, l)
           s == l.supply
           s2 == m.supply
<1>1. c \in ProductCurves /\ Held(l) /\ Held(m)
  BY DEF Sound, Burnt
<1>2. x \in Nat /\ s \in Nat /\ s2 \in Nat
  BY <1>1, WorthType
<1>3. Worth(c, m) = x /\ s2 = s - amount
  BY DEF Burnt, Worth
<1>4. x <= x /\ s2 <= s
  BY <1>2, <1>3, SMT
<1> HIDE DEF x, s, s2
<1>5. Covers(x, s, x, s2)
  BY <1>2, <1>4, CoversItself
<1>6. Covers(Worth(c, l), l.supply, Worth(c, m), m.supply)
  BY <1>3, <1>5 DEF x, s, s2
<1>7. m.pool[InitDestination] >= l.pool[InitDestination]
  <2>1. InitDestination \in PoolAccounts
    BY DEF PoolAccounts
  <2>2. l.pool[InitDestination] \in Nat /\ m.pool[InitDestination] = l.pool[InitDestination]
    BY <1>1, <2>1 DEF Held, Ledger, Burnt
  <2>3. QED
    BY <2>2, SMT
<1>8. QED
  BY <1>1, <1>6, <1>7, CoveredExactly

LEMMA InitializedIsSound ==
  ASSUME NEW c \in ProductCurves, NEW f \in FeeSchedule, NEW l, Held(l),
         InitializePool(c, f, l).code = Ok
  PROVE  Sound(c, f, InitializePool(c, f, l).ledger)
<1> DEFINE m == InitializePool(c, f, l).ledger
<1>1. /\ ValidateSupply(c, l.a[Reserve], l.b[Reserve]) /\ ValidFees(f) /\ Validate(c)
      /\ MintTo(l, InitDestination, InitialSupply).code = Ok
      /\ m = MintTo(l, InitDestination, InitialSupply).ledger
  <2>1. ValidateSupply(c, l.a[Reserve], l.b[Reserve])
    BY SwapErrorsAreNotOk DEF InitializePool, Refused, Failure
  <2>2. ValidFees(f)
    BY <2>1, SwapErrorsAreNotOk DEF InitializePool, Refused, Failure
  <2>3. Validate(c)
    BY <2>1, <2>2, SwapErrorsAreNotOk DEF InitializePool, Refused, Failure
  <2>4. InitializePool(c, f, l) = MintTo(l, InitDestination, InitialSupply)
    BY <2>1, <2>2, <2>3, Zenon DEF InitializePool
  <2>5. QED
    BY <2>1, <2>2, <2>3, <2>4
<1> HIDE DEF m
<1>2. Minted(l, m, InitDestination, InitialSupply) /\ m.pool[InitDestination] >= InitialSupply
  <2>1. InitialSupply \in Nat /\ InitDestination \in PoolAccounts
    BY LedgersAssumption, SMT DEF PoolAccounts
  <2>2. Minted(l, m, InitDestination, InitialSupply)
    BY <1>1, <2>1, MintMoves
  <2>3. m.pool[InitDestination] = l.pool[InitDestination] + InitialSupply
    BY <2>2 DEF Minted
  <2>4. l.pool[InitDestination] \in Nat
    BY <2>1 DEF Held, Ledger
  <2>5. QED
    BY <2>1, <2>2, <2>3, <2>4, SMT
<1>3. Held(m) /\ m.a = l.a /\ m.b = l.b
  BY <1>2 DEF Minted
<1>4. Side(c, "a", l.a[Reserve]) > 0 /\ Side(c, "b", l.b[Reserve]) > 0
  <2>1. l.a[Reserve] \in Nat /\ l.b[Reserve] \in Nat
    BY WorthType
  <2>2. c.offset \in Nat /\ c.type \in {"ConstantProduct", "Offset"}
    BY LedgersAssumption DEF Curve, CurveTypes, Priced, ProductCurves
  <2>3. l.a[Reserve] > 0 /\ (c.type = "ConstantProduct" => l.b[Reserve] > 0)
    BY <1>1, <2>1, SMT DEF ValidateSupply
  <2>4. c.type = "Offset" => c.offset > 0
    BY <1>1, <2>2, SMT DEF Validate
  <2>5. CASE c.type = "Offset"
    BY <2>1, <2>2, <2>3, <2>4, <2>5, SMT DEF Side, WithOffset
  <2>6. CASE c.type # "Offset"
    BY <2>1, <2>2, <2>3, <2>6 DEF Side, WithOffset
  <2>7. QED
    BY <2>5, <2>6
<1>5. QED
  BY <1>1, <1>2, <1>3, <1>4 DEF Sound, m

-----------------------------------------------------------------------------
(***************************************************************************)
(* The inductive invariant: the ledger is in order from the start, and the *)
(* pool is sound once Initialize went well.  Each step of Spec keeps it.   *)
(***************************************************************************)
PoolInv ==
  /\ curve \in ProductCurves /\ fees \in Schedules /\ initialized \in BOOLEAN
  /\ Held(ledger)
  /\ initialized => Sound(curve, fees, ledger)

\* A pool that is open keeps its worth in every step.
WorthKept ==
  initialized => initialized' /\ KeepsWorth(curve, fees, ledger, ledger')

LEMMA Senders ==
  ASSUME NEW u \in Users
  PROVE  /\ u \in TokenAccounts /\ u \in PoolAccounts /\ u # Reserve /\ u # InitDestination
         /\ \A source \in {u, FeeAccount} : source \in PoolAccounts /\ source # InitDestination
BY LedgersAssumption DEF TokenAccounts, PoolAccounts

LEMMA InitPoolInv == Init => PoolInv
<1>1. SUFFICES ASSUME Init PROVE PoolInv
  OBVIOUS
<1> DEFINE none == [acc \in PoolAccounts |-> 0]
<1>2. none \in [PoolAccounts -> Nat] /\ \A acc \in PoolAccounts : none[acc] = 0
  BY SMT
<1>3. /\ curve \in ProductCurves /\ fees \in Schedules /\ initialized = FALSE
      /\ ledger = [a |-> InitialA, b |-> InitialB, pool |-> none, supply |-> 0]
  BY <1>1 DEF Init
<1> HIDE DEF none
<1>4. Sum(none, PoolAccounts) = 0
  <2>1. FeeAccount \in PoolAccounts
    BY DEF PoolAccounts
  <2>2. QED
    BY <2>1, PoolAccountsFinite, EmptySum DEF none
<1>5. ledger \in Ledger
  <2>1. 0 \in 0 .. U64_MAX
    BY LedgersAssumption, ProductPoolAssumption, SMT
  <2>2. QED
    BY <1>2, <1>3, <2>1, LedgersAssumption, ProductPoolAssumption DEF Ledger
<1>6. QED
  BY <1>3, <1>4, <1>5 DEF PoolInv, Held

LEMMA StepKeepsPool == PoolInv /\ [Next]_vars => PoolInv' /\ (Next => WorthKept)
<1>1. SUFFICES ASSUME PoolInv, [Next]_vars PROVE PoolInv' /\ (Next => WorthKept)
  OBVIOUS
<1>2. /\ curve \in ProductCurves /\ fees \in Schedules /\ fees \in FeeSchedule /\ Held(ledger)
      /\ initialized \in BOOLEAN
  BY <1>1, LedgersAssumption, ProductPoolAssumption DEF PoolInv
<1>3. ASSUME KeepsWorth(curve, fees, ledger, ledger'), initialized, initialized' = initialized,
             UNCHANGED <<curve, fees>>
      PROVE  PoolInv' /\ WorthKept
  BY <1>2, <1>3 DEF PoolInv, WorthKept, KeepsWorth, Sound
<1>4. ASSUME Initialize PROVE PoolInv' /\ WorthKept
  <2>1. /\ ~initialized /\ initialized' = TRUE /\ curve' = curve /\ fees' = fees
        /\ InitializePool(curve, fees, ledger).code = Ok
        /\ ledger' = InitializePool(curve, fees, ledger).ledger
    BY <1>4 DEF Initialize, Done
  <2>2. Sound(curve, fees, ledger')
    BY <1>2, <2>1, InitializedIsSound
  <2>3. QED
    BY <1>2, <2>1, <2>2 DEF PoolInv, WorthKept, Sound
<1>5. ASSUME Trade PROVE PoolInv' /\ WorthKept
  <2>1. PICK u \in Users, dir \in Direction, amount \in Amounts, host \in HostAccounts :
          Call(ProcessSwap(curve, fees, ledger, dir, u, u, amount, 0, host, U64_MAX))
    BY <1>5 DEF Trade
  <2> DEFINE o == ProcessSwap(curve, fees, ledger, dir, u, u, amount, 0, host, U64_MAX)
  <2>2. initialized /\ o.code = Ok /\ ledger' = o.ledger /\ UNCHANGED <<curve, fees, initialized>>
    BY <2>1 DEF Call, Done
  <2>3. Sound(curve, fees, ledger) /\ u \in TokenAccounts /\ amount \in Nat /\ host \in Hosts
    BY <1>1, <2>2, Senders, LedgersAssumption, ProductPoolAssumption, SMT DEF PoolInv
  <2>4. KeepsWorth(curve, fees, ledger, o.ledger)
    BY <2>2, <2>3, SwapKeepsWorth
  <2>5. QED
    BY <1>3, <2>2, <2>4
<1>6. ASSUME DepositBoth PROVE PoolInv' /\ WorthKept
  <2>1. PICK u \in Users, amount \in Amounts :
          Call(DepositAllTokenTypes(curve, fees, ledger, u, u, u, amount, U64_MAX, U64_MAX))
    BY <1>6 DEF DepositBoth
  <2> DEFINE o == DepositAllTokenTypes(curve, fees, ledger, u, u, u, amount, U64_MAX, U64_MAX)
  <2>2. initialized /\ o.code = Ok /\ ledger' = o.ledger /\ UNCHANGED <<curve, fees, initialized>>
    BY <2>1 DEF Call, Done
  <2>3. Sound(curve, fees, ledger) /\ u \in TokenAccounts /\ u \in PoolAccounts /\ amount \in Nat
    BY <1>1, <2>2, Senders, LedgersAssumption, ProductPoolAssumption, SMT DEF PoolInv
  <2>4. KeepsWorth(curve, fees, ledger, o.ledger)
    BY <2>2, <2>3, DepositBothKeepsWorth
  <2>5. QED
    BY <1>3, <2>2, <2>4
<1>7. ASSUME DepositOne PROVE PoolInv' /\ WorthKept
  <2>1. PICK u \in Users, dir \in Direction, amount \in Amounts, given \in BOOLEAN, host \in HostAccounts :
          Call(DepositSingleExactAmountIn(curve, fees, ledger, dir, u, u, amount, 0, given, host,
                                          U64_MAX))
    BY <1>7, Zenon DEF DepositOne
  <2> DEFINE o == DepositSingleExactAmountIn(curve, fees, ledger, dir, u, u, amount, 0, given, host, U64_MAX)
  <2>2. initialized /\ o.code = Ok /\ ledger' = o.ledger /\ UNCHANGED <<curve, fees, initialized>>
    BY <2>1 DEF Call, Done
  <2>3. /\ Sound(curve, fees, ledger) /\ u \in TokenAccounts /\ u \in PoolAccounts /\ amount \in Nat
        /\ host \in Hosts
    BY <1>1, <2>2, Senders, LedgersAssumption, ProductPoolAssumption, SMT DEF PoolInv
  <2>4. KeepsWorth(curve, fees, ledger, o.ledger)
    BY <2>2, <2>3, DepositOneKeepsWorth
  <2>5. QED
    BY <1>3, <2>2, <2>4
<1>8. ASSUME WithdrawBoth PROVE PoolInv' /\ WorthKept
  <2>1. PICK u \in Users, amount \in Amounts : \E source \in {u, FeeAccount} :
          Call(WithdrawAllTokenTypes(curve, fees, ledger, source, u, u, amount, 0, 0, U64_MAX))
    BY <1>8 DEF WithdrawBoth
  <2>2. PICK source \in {u, FeeAccount} :
          Call(WithdrawAllTokenTypes(curve, fees, ledger, source, u, u, amount, 0, 0, U64_MAX))
    BY <2>1
  <2> DEFINE o == WithdrawAllTokenTypes(curve, fees, ledger, source, u, u, amount, 0, 0, U64_MAX)
  <2>3. initialized /\ o.code = Ok /\ ledger' = o.ledger /\ UNCHANGED <<curve, fees, initialized>>
    BY <2>2 DEF Call, Done
  <2>4. /\ Sound(curve, fees, ledger) /\ u \in TokenAccounts /\ amount \in Nat
        /\ source \in PoolAccounts /\ source # InitDestination
    BY <1>1, <2>3, Senders, LedgersAssumption, ProductPoolAssumption, SMT DEF PoolInv
  <2>5. KeepsWorth(curve, fees, ledger, o.ledger)
    BY <2>3, <2>4, WithdrawBothKeepsWorth
  <2>6. QED
    BY <1>3, <2>3, <2>5
<1>9. ASSUME WithdrawOne PROVE PoolInv' /\ WorthKept
  <2>1. PICK u \in Users, dir \in Direction, amount \in Amounts, host \in HostAccounts :
          \E source \in {u, FeeAccount} :
            Call(WithdrawSingleExactAmountOut(curve, fees, ledger, dir, source, u, amount, U64_MAX,
                                              host, U64_MAX))
    BY <1>9, Zenon DEF WithdrawOne
  <2>2. PICK source \in {u, FeeAccount} :
          Call(WithdrawSingleExactAmountOut(curve, fees, ledger, dir, source, u, amount, U64_MAX,
                                            host, U64_MAX))
    BY <2>1
  <2> DEFINE o == WithdrawSingleExactAmountOut(curve, fees, ledger, dir, source, u, amount, U64_MAX,
                                               host, U64_MAX)
  <2>3. initialized /\ o.code = Ok /\ ledger' = o.ledger /\ UNCHANGED <<curve, fees, initialized>>
    BY <2>2 DEF Call, Done
  <2>4. /\ Sound(curve, fees, ledger) /\ u \in TokenAccounts /\ amount \in Nat
        /\ source \in PoolAccounts /\ source # InitDestination /\ host \in Hosts
    BY <1>1, <2>3, Senders, LedgersAssumption, ProductPoolAssumption, SMT DEF PoolInv
  <2>5. KeepsWorth(curve, fees, ledger, o.ledger)
    BY <2>3, <2>4, WithdrawOneKeepsWorth
  <2>6. QED
    BY <1>3, <2>3, <2>5
<1>10. ASSUME Give PROVE PoolInv' /\ WorthKept
  <2>1. PICK u \in Users, token \in {"a", "b"}, amount \in Amounts :
          /\ Done(Transfer(ledger, token, u, Reserve, amount, U64_MAX))
          /\ UNCHANGED initialized
    BY <1>10 DEF Give
  <2> DEFINE o == Transfer(ledger, token, u, Reserve, amount, U64_MAX)
  <2>2. o.code = Ok /\ ledger' = o.ledger /\ UNCHANGED <<curve, fees, initialized>>
    BY <2>1 DEF Done
  <2>3. u \in TokenAccounts /\ Reserve \in TokenAccounts /\ u # Reserve /\ amount \in Nat
    BY Senders, LedgersAssumption, ProductPoolAssumption, SMT DEF TokenAccounts
  <2>4. Moved(ledger, ledger', token, u, Reserve, amount)
    BY <1>2, <2>2, <2>3, TransferMoves
  <2> HIDE DEF o
  <2>5. CASE initialized
    <3>1. KeepsWorth(curve, fees, ledger, ledger')
      BY <1>1, <2>3, <2>4, <2>5, GivenKeepsWorth DEF PoolInv
    <3>2. QED
      BY <1>3, <2>2, <2>5, <3>1
  <2>6. CASE ~initialized
    BY <1>2, <2>2, <2>4, <2>6 DEF PoolInv, WorthKept, Moved
  <2>7. QED
    BY <2>5, <2>6
<1>11. ASSUME BurnOwn PROVE PoolInv' /\ WorthKept
  <2>1. PICK u \in Users, amount \in Amounts : Call(Burn(ledger, u, amount, U64_MAX))
    BY <1>11 DEF BurnOwn
  <2> DEFINE o == Burn(ledger, u, amount, U64_MAX)
  <2>2. initialized /\ o.code = Ok /\ ledger' = o.ledger /\ UNCHANGED <<curve, fees, initialized>>
    BY <2>1 DEF Call, Done
  <2>3. Sound(curve, fees, ledger) /\ u \in PoolAccounts /\ u # InitDestination /\ amount \in Nat
    BY <1>1, <2>2, Senders, LedgersAssumption, ProductPoolAssumption, SMT DEF PoolInv
  <2>4. Burnt(ledger, ledger', u, amount)
    BY <1>2, <2>2, <2>3, BurnMoves
  <2>5. KeepsWorth(curve, fees, ledger, ledger')
    BY <2>3, <2>4, BurntKeepsWorth
  <2>6. QED
    BY <1>3, <2>2, <2>5
<1>12. ASSUME UNCHANGED vars PROVE PoolInv'
  BY <1>1, <1>12 DEF PoolInv, vars
<1>13. Next => PoolInv' /\ WorthKept
  BY <1>4, <1>5, <1>6, <1>7, <1>8, <1>9, <1>10, <1>11 DEF Next
<1>14. QED
  BY <1>1, <1>12, <1>13

LEMMA PoolIsInductive == Spec => []PoolInv
<1>1. PoolInv /\ [Next]_vars => PoolInv'
  BY StepKeepsPool
<1>2. QED
  BY <1>1, InitPoolInv, PTL DEF Spec

(***************************************************************************)
(* No sequence of calls leaves a ledger the handlers could not divide by:  *)
(* the reserves a product curve must not find empty stay filled, and the   *)
(* supply is what the accounts hold, whatever the users, amounts, fees and *)
(* offset.                                                                 *)
(***************************************************************************)
THEOREM LedgerStaysSound == Spec => []LedgerIsSound
<1>1. PoolInv => LedgerIsSound
  <2>1. SUFFICES ASSUME PoolInv PROVE LedgerIsSound
    OBVIOUS
  <2>2. TypeOK
    BY <2>1 DEF PoolInv, Held, TypeOK
  <2>3. SupplyIsHeld
    <3>1. ledger.supply = Sum(ledger.pool, PoolAccounts)
      BY <2>1 DEF PoolInv, Held
    <3>2. QED
      BY <3>1, Zenon DEF Sum, SupplyIsHeld
  <2>4. ReservesNeverEmpty
    <3>1. SUFFICES ASSUME initialized
                   PROVE  ledger.a[Reserve] > 0
                          /\ (curve.type = "ConstantProduct" => ledger.b[Reserve] > 0)
      BY DEF ReservesNeverEmpty
    <3>2. Side(curve, "a", ledger.a[Reserve]) > 0 /\ Side(curve, "b", ledger.b[Reserve]) > 0
      BY <2>1, <3>1 DEF PoolInv, Sound
    <3>3. Side(curve, "a", ledger.a[Reserve]) = ledger.a[Reserve]
          /\ (curve.type = "ConstantProduct" => Side(curve, "b", ledger.b[Reserve]) = ledger.b[Reserve])
      BY DEF Side, WithOffset
    <3>4. QED
      BY <3>2, <3>3
  <2>5. QED
    BY <2>2, <2>3, <2>4 DEF LedgerIsSound
<1>2. QED
  BY <1>1, PoolIsInductive, PTL

(***************************************************************************)
(* What a pool token is worth barely falls, whoever trades, deposits,      *)
(* withdraws, gives or burns, in whatever order: every rounding and every  *)
(* fee of a product curve goes to those who stay, but for the decimals the *)
(* roots of one-sided deposits, withdrawals and fees are taken to.         *)
(***************************************************************************)
THEOREM SharesAreBarelyDiluted == Spec => ShareBarelyDiluted
<1> DEFINE kept == Keeps(curve, fees, ledger, ledger')
           Kept == initialized =>
                     Product(ledger) * ledger'.supply * ledger'.supply * kept.den
                       <= Product(ledger') * ledger.supply * ledger.supply * kept.num
<1>1. PoolInv /\ [Next]_vars => [Kept]_vars
  <2>1. SUFFICES ASSUME PoolInv, Next, initialized
                 PROVE  Product(ledger) * ledger'.supply * ledger'.supply * kept.den
                          <= Product(ledger') * ledger.supply * ledger.supply * kept.num
    BY Zenon
  <2>2. KeepsWorth(curve, fees, ledger, ledger')
    BY <2>1, StepKeepsPool DEF WorthKept
  <2> DEFINE x  == Worth(curve, ledger)
             x2 == Worth(curve, ledger')
             s  == ledger.supply
             s2 == ledger'.supply
             num == kept.num
             den == kept.den
  <2>3. (x * den) * (s2 * s2) <= (x2 * num) * (s * s)
    BY <2>2 DEF KeepsWorth, CoversBut, Covers
  <2>4. Sound(curve, fees, ledger) /\ Held(ledger) /\ Held(ledger') /\ curve \in ProductCurves
    BY <2>1, <2>2 DEF PoolInv, KeepsWorth, Sound
  <2>5. x \in Nat /\ x2 \in Nat /\ s \in Nat /\ s2 \in Nat /\ num \in Nat /\ den \in Nat
    <3>1. num \in Nat /\ den \in Nat
      BY <2>4, KeepsType
    <3>2. QED
      BY <2>4, <3>1, WorthType
  <2>6. Product(ledger) = x /\ Product(ledger') = x2
    BY DEF Product, Worth, Side
  <2> HIDE DEF x, x2, s, s2, num, den
  <2>7. /\ x * s2 * s2 * den = (x * den) * (s2 * s2)
        /\ x2 * s * s * num = (x2 * num) * (s * s)
    BY <2>5, SMT
  <2>8. x * s2 * s2 * den <= x2 * s * s * num
    BY <2>3, <2>7
  <2>9. QED
    BY <2>6, <2>8 DEF s, s2, num, den
<1>2. QED
  BY <1>1, PoolIsInductive, PTL DEF Spec, ShareBarelyDiluted

-----------------------------------------------------------------------------
(* What no handler does: make tokens, lose some, or touch the accounts of  *)
(* others.                                                                 *)

\* Token accounts whose balances a step may change: who says it per token.
Kept(l, m, who) ==
  /\ Held(m)
  /\ \A token \in {"a", "b"} :
       /\ Sum(m[token], TokenAccounts) = Sum(l[token], TokenAccounts)
       /\ \A acc \in TokenAccounts : acc \notin who[token] => m[token][acc] = l[token][acc]

LEMMA TokenAccountsFinite == IsFiniteSet(TokenAccounts)
BY LedgersAssumption, FS_AddElement DEF TokenAccounts

LEMMA KeptSame ==
  ASSUME NEW l, NEW m, NEW who, Held(m), m.a = l.a, m.b = l.b
  PROVE  Kept(l, m, who)
BY DEF Kept

LEMMA KeptAgain ==
  ASSUME NEW l, NEW m, NEW n, NEW who, Kept(l, m, who), Kept(m, n, who)
  PROVE  Kept(l, n, who)
BY DEF Kept

LEMMA MovedKept ==
  ASSUME NEW l, Held(l), NEW m, NEW who, NEW token \in {"a", "b"},
         NEW from \in TokenAccounts, NEW to \in TokenAccounts, from # to, NEW amount \in Nat,
         from \in who[token], to \in who[token], Moved(l, m, token, from, to, amount)
  PROVE  Kept(l, m, who)
<1>1. /\ l[token] \in [TokenAccounts -> Nat] /\ m[token] \in [TokenAccounts -> Nat] /\ Held(m)
      /\ amount <= l[token][from]
      /\ m[token][from] = l[token][from] - amount /\ m[token][to] = l[token][to] + amount
      /\ \A other \in TokenAccounts : other \notin {from, to} => m[token][other] = l[token][other]
  BY DEF Moved, Held, Ledger
<1> DEFINE before == l[token]
           after  == m[token]
           mid    == [before EXCEPT ![from] = @ - amount]
           change == 0 - amount
<1>2. /\ mid \in [TokenAccounts -> Nat] /\ mid[from] = before[from] + change /\ change \in Int
      /\ \A acc \in TokenAccounts : acc # from => mid[acc] = before[acc]
  <2>1. before[from] - amount \in Nat /\ before[from] - amount = before[from] + change /\ change \in Int
    BY <1>1, SMT
  <2>2. QED
    BY <1>1, <2>1
<1>3. /\ after[to] = mid[to] + amount /\ amount \in Int
      /\ \A acc \in TokenAccounts : acc # to => after[acc] = mid[acc]
  <2>1. after[to] = mid[to] + amount /\ \A acc \in TokenAccounts : acc # to => after[acc] = mid[acc]
    BY <1>1
  <2>2. amount \in Int
    BY SMT
  <2>3. QED
    BY <2>1, <2>2
<1>4. before \in [TokenAccounts -> Nat] /\ after \in [TokenAccounts -> Nat]
  BY <1>1
<1> HIDE DEF before, after, mid, change
<1>5. Sum(mid, TokenAccounts) = Sum(before, TokenAccounts) + change
  BY <1>2, <1>4, TokenAccountsFinite, LedgerSumAdjusts
<1>6. Sum(after, TokenAccounts) = Sum(mid, TokenAccounts) + amount
  BY <1>2, <1>3, <1>4, TokenAccountsFinite, LedgerSumAdjusts
<1>7. Sum(before, TokenAccounts) \in Nat
  BY <1>4, TokenAccountsFinite, LedgerSumType
<1>8. Sum(m[token], TokenAccounts) = Sum(l[token], TokenAccounts)
  BY <1>5, <1>6, <1>7, SMT DEF change, before, after
<1>9. \A acc \in TokenAccounts : acc \notin who[token] => m[token][acc] = l[token][acc]
  BY <1>1
<1>10. (token = "a" => m.b = l.b) /\ (token = "b" => m.a = l.a)
  BY DEF Moved
<1>11. CASE token = "a"
  BY <1>1, <1>8, <1>9, <1>10, <1>11 DEF Kept
<1>12. CASE token = "b"
  BY <1>1, <1>8, <1>9, <1>10, <1>12 DEF Kept
<1>13. QED
  BY <1>11, <1>12

-----------------------------------------------------------------------------
(* Which accounts a handler touches. *)

\* A pool under any curve that is in use: a product curve is sound.
Open(c, f, l) ==
  /\ c \in Curves /\ f \in FeeSchedule /\ ValidFees(f) /\ Held(l)
  /\ ~Priced(c) => Sound(c, f, l)

LEMMA HeldTypes ==
  ASSUME NEW l, Held(l)
  PROVE  /\ l.a \in [TokenAccounts -> Nat] /\ l.b \in [TokenAccounts -> Nat]
         /\ l.pool \in [PoolAccounts -> Nat] /\ l.supply \in Nat
         /\ Reserve \in TokenAccounts /\ l.a[Reserve] \in Nat /\ l.b[Reserve] \in Nat
         /\ \A token \in {"a", "b"} : l[token][Reserve] \in Nat
<1>1. /\ l.a \in [TokenAccounts -> Nat] /\ l.b \in [TokenAccounts -> Nat]
      /\ l.pool \in [PoolAccounts -> Nat] /\ l.supply \in Nat
  BY LedgersAssumption, SMT DEF Held, Ledger
<1>2. Reserve \in TokenAccounts
  BY DEF TokenAccounts
<1>3. QED
  BY <1>1, <1>2

LEMMA CurveSwapTypes ==
  ASSUME NEW c, NEW f, NEW l, Open(c, f, l), NEW dir \in Direction, NEW amount \in Nat,
         NEW r, r = CurveSwap(c, amount, l[TokenGiven(dir)][Reserve], l[TokenTaken(dir)][Reserve], dir, f),
         ~Bad(r)
  PROVE  r.sourceAmount \in Nat /\ r.destinationAmount \in Nat /\ r.ownerFee \in Nat
<1> DEFINE source == l[TokenGiven(dir)][Reserve]
           destination == l[TokenTaken(dir)][Reserve]
           net == LessFees(amount, f)
           q   == SwapWithoutFees(c, net, source, destination, dir)
<1>1. c \in Curves /\ f \in FeeSchedule /\ ValidFees(f) /\ c.price \in Nat
  BY LedgersAssumption DEF Open, Curve
<1>2. source \in Nat /\ destination \in Nat
  BY Directions, HeldTypes DEF Open
<1>3. CASE Priced(c)
  <2> DEFINE in  == SwappedIn(net, dir, c.price)
             out == SwappedOut(net, dir, c.price)
  <2>1. /\ net \in Nat /\ ~Bad(q) /\ r.destinationAmount = q.out
        /\ q.in \in Nat => r.sourceAmount \in Nat /\ r.ownerFee \in Nat
    BY <1>1, FeesAroundSwap
  <2>2. q = PricedSwap(net, dir, c.price)
    BY <1>3, Zenon DEF SwapWithoutFees
  <2>3. dir = "AtoB" => c.price # 0
    BY <2>1, <2>2, Zenon DEF PricedSwap, Bad
  <2>4. q = [in |-> in, out |-> out]
    BY <2>1, <2>2, Zenon DEF PricedSwap, Bad
  <2>5. dir = "AtoB" => c.price > 0
    BY <1>1, <2>3, SMT
  <2> HIDE DEF net
  <2>6. in \in Nat /\ out \in Nat
    BY <1>1, <2>1, <2>5, AmountTypes
  <2>7. QED
    BY <2>1, <2>4, <2>6
<1>4. CASE ~Priced(c)
  <2>1. c \in ProductCurves /\ Sound(c, f, l)
    BY <1>1, <1>4 DEF Open, ProductCurves
  <2>2. Side(c, TokenGiven(dir), source) > 0
    BY <2>1, Directions DEF Sound
  <2> HIDE DEF source, destination
  <2>3. ~Bad(CurveSwap(c, amount, source, destination, dir, f))
    BY DEF source, destination
  <2>4. LET q2 == CurveSwap(c, amount, source, destination, dir, f)
        IN  q2.sourceAmount \in Nat /\ q2.destinationAmount \in Nat /\ q2.ownerFee \in Nat
    BY <1>1, <1>2, <2>1, <2>2, <2>3, CurveSwapKeeps
  <2>5. QED
    BY <2>4 DEF source, destination
<1>5. QED
  BY <1>3, <1>4

\* Only the trader's two accounts and the reserves, by what they pay each other.
LEMMA SwapTouches ==
  ASSUME NEW c, NEW f, NEW l, Open(c, f, l), NEW dir \in Direction,
         NEW source \in TokenAccounts, NEW destination \in TokenAccounts, NEW amount \in Nat,
         NEW minimumOut, NEW host \in Hosts, NEW allowance, NEW who,
         source \in who[TokenGiven(dir)], destination \in who[TokenTaken(dir)],
         \A token \in {"a", "b"} : Reserve \in who[token],
         NEW o, o = ProcessSwap(c, f, l, dir, source, destination, amount, minimumOut, host, allowance),
         o.code = Ok
  PROVE  Kept(l, o.ledger, who)
<1> DEFINE g == TokenGiven(dir)
           t == TokenTaken(dir)
<1>1. PICK r, o1, o2, o3 :
        SwapCalls(c, f, l, dir, source, destination, amount, host, allowance, o.ledger, r, o1, o2, o3)
  BY SwapTakenApart
<1>2. g \in {"a", "b"} /\ t \in {"a", "b"}
  BY Directions
<1>3. /\ c \in Curves /\ f \in FeeSchedule /\ ValidFees(f) /\ Held(l)
      /\ l[g][Reserve] \in Nat /\ l[t][Reserve] \in Nat /\ Reserve \in TokenAccounts
  BY <1>2, HeldTypes DEF Open
<1>4. r.sourceAmount \in Nat /\ r.destinationAmount \in Nat /\ r.ownerFee \in Nat
  BY <1>1, CurveSwapTypes DEF SwapCalls
<1> DEFINE paid == r.sourceAmount
           out  == r.destinationAmount
           fee  == r.ownerFee
           kept == l[g][Reserve] + paid - fee
           left == l[t][Reserve] - out
           a == IF dir = "AtoB" THEN kept ELSE left
           b == IF dir = "AtoB" THEN left ELSE kept
           l1 == o1.ledger
           l2 == o2.ledger
           m  == o.ledger
<1>5. a \in Int /\ b \in Int
  BY <1>3, <1>4, SMT
<1>6. /\ source # Reserve /\ destination # Reserve
      /\ Transfer(l, g, source, Reserve, paid, allowance).code = Ok
      /\ l1 = Transfer(l, g, source, Reserve, paid, allowance).ledger
      /\ o2 = MintOwnerFee(c, f, l1, fee, a, b, l1.supply, dir, TRUE, host) /\ o2.code = Ok
      /\ Transfer(l2, t, Reserve, destination, out, U64_MAX).code = Ok
      /\ m = Transfer(l2, t, Reserve, destination, out, U64_MAX).ledger
  BY <1>1, Zenon DEF SwapCalls
<1>7. paid \in Nat /\ out \in Nat /\ fee \in Nat
  BY <1>4
<1>8. source \in who[g] /\ Reserve \in who[g] /\ destination \in who[t] /\ Reserve \in who[t]
  BY <1>2
<1> HIDE DEF g, t, paid, out, fee, a, b, l1, l2, m
<1>9. Moved(l, l1, g, source, Reserve, paid)
  BY <1>2, <1>3, <1>6, <1>7, TransferMoves
<1>10. Kept(l, l1, who)
  BY <1>2, <1>3, <1>6, <1>7, <1>8, <1>9, MovedKept
<1>11. Held(l1) /\ l1.supply \in Int
  <2>1. Held(l1)
    BY <1>10 DEF Kept
  <2>2. QED
    BY <2>1, LedgersAssumption, SMT DEF Held, Ledger
<1>12. FeeMinted(c, l1, l2, fee, a, b, l1.supply, dir)
  BY <1>3, <1>5, <1>6, <1>7, <1>11, MintOwnerFeeMints DEF l2
<1>13. Kept(l1, l2, who) /\ Held(l2)
  BY <1>12, KeptSame DEF FeeMinted
<1>14. Moved(l2, m, t, Reserve, destination, out)
  BY <1>2, <1>3, <1>6, <1>7, <1>13, TransferMoves
<1>15. Kept(l2, m, who)
  BY <1>2, <1>3, <1>6, <1>7, <1>8, <1>13, <1>14, MovedKept
<1>16. Kept(l, m, who)
  BY <1>10, <1>13, <1>15, KeptAgain
<1>17. QED
  BY <1>16 DEF m

LEMMA DepositBothTouches ==
  ASSUME NEW c, NEW f, NEW l, Open(c, f, l), NEW source \in TokenAccounts, NEW sourceB \in TokenAccounts,
         NEW destination \in PoolAccounts, NEW poolAmount \in Nat, NEW maximumA, NEW maximumB, NEW who,
         source \in who["a"], sourceB \in who["b"], \A token \in {"a", "b"} : Reserve \in who[token],
         NEW o, o = DepositAllTokenTypes(c, f, l, source, sourceB, destination, poolAmount, maximumA, maximumB),
         o.code = Ok
  PROVE  Kept(l, o.ledger, who)
<1>1. PICK part, o1, o2, o3 :
        DepositBothCalls(c, l, source, sourceB, destination, poolAmount, maximumA, maximumB, o.ledger,
                         part, o1, o2, o3)
  BY DepositBothTakenApart
<1>2. /\ c \in Curves /\ Held(l) /\ l.a[Reserve] \in Nat /\ l.b[Reserve] \in Nat /\ l.supply \in Nat
      /\ Reserve \in TokenAccounts
  BY HeldTypes DEF Open
<1>3. part.a \in Nat /\ part.b \in Nat
  <2>1. part = TradingTokens(c, poolAmount, l.a[Reserve], l.b[Reserve], l.supply, "Ceiling") /\ part # None
        /\ "Ceiling" \in Rounding
    BY <1>1 DEF DepositBothCalls, Rounding
  <2>2. QED
    BY <1>2, <2>1, PartsType
<1> DEFINE payA == part.a
           payB == part.b
           l1 == o1.ledger
           l2 == o2.ledger
           m  == o.ledger
<1>4. /\ source # Reserve /\ sourceB # Reserve
      /\ Transfer(l, "a", source, Reserve, payA, maximumA).code = Ok
      /\ l1 = Transfer(l, "a", source, Reserve, payA, maximumA).ledger
      /\ Transfer(l1, "b", sourceB, Reserve, payB, maximumB).code = Ok
      /\ l2 = Transfer(l1, "b", sourceB, Reserve, payB, maximumB).ledger
      /\ MintTo(l2, destination, poolAmount).code = Ok
      /\ m = MintTo(l2, destination, poolAmount).ledger
  BY <1>1, Zenon DEF DepositBothCalls
<1>5. payA \in Nat /\ payB \in Nat /\ "a" \in {"a", "b"} /\ "b" \in {"a", "b"}
  BY <1>3
<1>6. Reserve \in who["a"] /\ Reserve \in who["b"]
  OBVIOUS
<1> HIDE DEF payA, payB, l1, l2, m
<1>7. Moved(l, l1, "a", source, Reserve, payA)
  BY <1>2, <1>4, <1>5, TransferMoves
<1>8. Kept(l, l1, who) /\ Held(l1)
  <2>1. Kept(l, l1, who)
    BY <1>2, <1>4, <1>5, <1>6, <1>7, MovedKept
  <2>2. QED
    BY <2>1 DEF Kept
<1>9. Moved(l1, l2, "b", sourceB, Reserve, payB)
  BY <1>2, <1>4, <1>5, <1>8, TransferMoves
<1>10. Kept(l1, l2, who) /\ Held(l2)
  <2>1. Kept(l1, l2, who)
    BY <1>2, <1>4, <1>5, <1>6, <1>8, <1>9, MovedKept
  <2>2. QED
    BY <2>1 DEF Kept
<1>11. Kept(l2, m, who)
  <2>1. Minted(l2, m, destination, poolAmount)
    BY <1>4, <1>10, MintMoves
  <2>2. QED
    BY <2>1, KeptSame DEF Minted
<1>12. Kept(l, m, who)
  BY <1>8, <1>10, <1>11, KeptAgain
<1>13. QED
  BY <1>12 DEF m

LEMMA DepositOneTouches ==
  ASSUME NEW c, NEW f, NEW l, Open(c, f, l), NEW dir \in Direction,
         NEW source \in TokenAccounts, NEW destination \in PoolAccounts, NEW amount \in Nat,
         NEW minimumPool, NEW given \in BOOLEAN, NEW host \in Hosts, NEW allowance, NEW who,
         source \in who[TokenGiven(dir)], \A token \in {"a", "b"} : Reserve \in who[token],
         NEW o, o = DepositSingleExactAmountIn(c, f, l, dir, source, destination, amount, minimumPool,
                                               given, host, allowance),
         o.code = Ok
  PROVE  Kept(l, o.ledger, who)
<1> DEFINE g == TokenGiven(dir)
           a == l.a[Reserve]
           b == l.b[Reserve]
           s == l.supply
<1>1. PICK r, o1, o2, o3 :
        DepositOneCalls(c, f, l, dir, source, destination, amount, given, host, allowance, o.ledger,
                        r, o1, o2, o3)
  BY DepositOneTakenApart
<1>2. /\ c \in Curves /\ f \in FeeSchedule /\ ValidFees(f) /\ Held(l) /\ Reserve \in TokenAccounts
      /\ a \in Nat /\ b \in Nat /\ s \in Nat /\ g \in {"a", "b"}
  BY HeldTypes, Directions DEF Open
<1>3. r.amount \in Nat /\ r.ownerFee \in Nat
  <2> DEFINE net    == DepositNet(amount, f)
             tokens == DepositSingleTokenType(c, net, a, b, s, dir)
  <2>1. r = CurveDeposit(c, amount, a, b, s, dir, f) /\ ~Bad(r) /\ r.amount # 0
    BY <1>1 DEF DepositOneCalls
  <2> HIDE DEF a, b, s
  <2>2. amount # 0
    BY <2>1 DEF CurveDeposit
  <2>3. ~(net < 0)
    BY <2>1, <2>2, Zenon DEF CurveDeposit, Bad
  <2>4. r = IF Bad(tokens) THEN tokens ELSE [amount |-> tokens, ownerFee |-> DepositOwnerFee(amount, f)]
    BY <2>1, <2>2, <2>3, Zenon DEF CurveDeposit
  <2>5. net \in Nat /\ DepositOwnerFee(amount, f) \in Nat
    <3>1. HalfDown(amount) \in Nat
      BY SMT DEF HalfDown
    <3>2. TradingFee(HalfDown(amount), f) \in Nat /\ OwnerTradingFee(HalfDown(amount), f) \in Nat
      BY <1>2, <3>1, FeesAtMostAmount
    <3>3. net \in Int
      BY <3>2, SMT DEF DepositNet
    <3>4. net >= 0
      BY <2>3, <3>3, SMT
    <3>5. QED
      BY <1>2, <3>4, DepositAmountTypes
  <2> HIDE DEF net
  <2>6. ~Bad(tokens)
    <3> HIDE DEF tokens
    <3>1. QED
      BY <2>1, <2>4
  <2>7. tokens \in Nat
    BY <1>2, <2>5, <2>6, DepositedType
  <2> HIDE DEF tokens
  <2>8. QED
    BY <2>4, <2>5, <2>6, <2>7
<1> DEFINE minted == r.amount
           fee    == r.ownerFee
           added  == amount - fee
           a2     == IF dir = "AtoB" THEN a + added ELSE a
           b2     == IF dir = "AtoB" THEN b ELSE b + added
           l1 == o1.ledger
           l2 == o2.ledger
           m  == o.ledger
<1>4. minted \in Nat /\ fee \in Nat /\ a2 \in Int /\ b2 \in Int /\ s + minted \in Int
  BY <1>2, <1>3, SMT
<1>5. /\ source # Reserve
      /\ o1 = MintOwnerFee(c, f, l, fee, a2, b2, s + minted, dir, given, host) /\ o1.code = Ok
      /\ Transfer(l1, g, source, Reserve, amount, allowance).code = Ok
      /\ l2 = Transfer(l1, g, source, Reserve, amount, allowance).ledger
      /\ MintTo(l2, destination, minted).code = Ok
      /\ m = MintTo(l2, destination, minted).ledger
  BY <1>1, Zenon DEF DepositOneCalls
<1>6. source \in who[g] /\ Reserve \in who[g]
  BY <1>2
<1> HIDE DEF g, a, b, s, minted, fee, added, a2, b2, l1, l2, m
<1>7. Kept(l, l1, who) /\ Held(l1)
  <2>1. FeeMinted(c, l, l1, fee, a2, b2, s + minted, dir)
    BY <1>2, <1>4, <1>5, MintOwnerFeeMints DEF l1
  <2>2. QED
    BY <2>1, KeptSame DEF FeeMinted
<1>8. Kept(l1, l2, who) /\ Held(l2)
  <2>1. Moved(l1, l2, g, source, Reserve, amount)
    BY <1>2, <1>5, <1>7, TransferMoves
  <2>2. Kept(l1, l2, who)
    BY <1>2, <1>5, <1>6, <1>7, <2>1, MovedKept
  <2>3. QED
    BY <2>2 DEF Kept
<1>9. Kept(l2, m, who)
  <2>1. Minted(l2, m, destination, minted)
    BY <1>4, <1>5, <1>8, MintMoves
  <2>2. QED
    BY <2>1, KeptSame DEF Minted
<1>10. Kept(l, m, who)
  BY <1>7, <1>8, <1>9, KeptAgain
<1>11. QED
  BY <1>10 DEF m

\* What is paid of a reserve, as a number.
LEMMA PayableType ==
  ASSUME NEW reserve \in Nat, NEW x \in Nat
  PROVE  Payable(reserve, x) \in Nat
BY DEF Payable, AtMost

LEMMA WithdrawBothTouches ==
  ASSUME NEW c \in Curves, NEW f \in FeeSchedule, ValidFees(f), NEW l, Held(l), NEW source \in PoolAccounts, source # InitDestination,
         NEW destination \in TokenAccounts, NEW destinationB \in TokenAccounts,
         NEW poolAmount \in Nat, NEW minimumA, NEW minimumB, NEW allowance, NEW who,
         destination \in who["a"], destinationB \in who["b"],
         \A token \in {"a", "b"} : Reserve \in who[token],
         NEW o, o = WithdrawAllTokenTypes(c, f, l, source, destination, destinationB, poolAmount,
                                          minimumA, minimumB, allowance),
         o.code = Ok
  PROVE  Kept(l, o.ledger, who)
<1> DEFINE a == l.a[Reserve]
           b == l.b[Reserve]
           s == l.supply
<1>1. PICK fee, part, o1, o2, o3 :
        WithdrawBothCalls(c, f, l, source, destination, destinationB, poolAmount, allowance, o.ledger,
                          fee, part, o1, o2, o3)
  BY WithdrawBothTakenApart
<1>2. /\ c \in Curves /\ f \in FeeSchedule /\ ValidFees(f) /\ Held(l) /\ Reserve \in TokenAccounts
      /\ a \in Nat /\ b \in Nat /\ s \in Nat
  BY HeldTypes
<1> DEFINE burnt == poolAmount - fee
<1>3. fee \in Nat /\ burnt \in Nat /\ (source = FeeAccount => fee = 0)
  <2>1. fee = WithdrawFee(poolAmount, source, f) /\ ~(burnt < 0)
    BY <1>1 DEF WithdrawBothCalls
  <2>2. fee \in Nat /\ (source = FeeAccount => fee = 0)
    BY <1>2, <2>1, FeesAtMostAmount DEF WithdrawFee
  <2>3. QED
    BY <2>1, <2>2, SMT
<1> DEFINE outA == Payable(a, part.a)
           outB == Payable(b, part.b)
           l1 == o1.ledger
           l2 == o2.ledger
           m  == o.ledger
<1>4. /\ destination # Reserve /\ destinationB # Reserve
      /\ part = TradingTokens(c, burnt, a, b, s, "Floor") /\ part # None
      /\ o1 = TakePoolTokens(l, source, fee, burnt, allowance) /\ o1.code = Ok
      /\ Transfer(l1, "a", Reserve, destination, outA, U64_MAX).code = Ok
      /\ l2 = Transfer(l1, "a", Reserve, destination, outA, U64_MAX).ledger
      /\ Transfer(l2, "b", Reserve, destinationB, outB, U64_MAX).code = Ok
      /\ m = Transfer(l2, "b", Reserve, destinationB, outB, U64_MAX).ledger
  BY <1>1, Zenon DEF WithdrawBothCalls
<1> HIDE DEF a, b, s, burnt
<1>5. part.a \in Nat /\ part.b \in Nat
  <2>1. "Floor" \in Rounding
    BY DEF Rounding
  <2>2. QED
    BY <1>2, <1>3, <1>4, <2>1, PartsType
<1>6. outA \in Nat /\ outB \in Nat
  BY <1>2, <1>5, PayableType
<1>7. "a" \in {"a", "b"} /\ "b" \in {"a", "b"} /\ Reserve \in who["a"] /\ Reserve \in who["b"]
  OBVIOUS
<1> HIDE DEF outA, outB, l1, l2, m
<1>8. Kept(l, l1, who) /\ Held(l1)
  <2>1. Held(l1) /\ l1.a = l.a /\ l1.b = l.b
    BY <1>2, <1>3, <1>4, TakePoolTokensBurns DEF l1
  <2>2. QED
    BY <2>1, KeptSame
<1>9. Kept(l1, l2, who) /\ Held(l2)
  <2>1. Moved(l1, l2, "a", Reserve, destination, outA)
    BY <1>2, <1>4, <1>6, <1>7, <1>8, TransferMoves
  <2>2. Kept(l1, l2, who)
    BY <1>2, <1>4, <1>6, <1>7, <1>8, <2>1, MovedKept
  <2>3. QED
    BY <2>2 DEF Kept
<1>10. Kept(l2, m, who)
  <2>1. Moved(l2, m, "b", Reserve, destinationB, outB)
    BY <1>2, <1>4, <1>6, <1>7, <1>9, TransferMoves
  <2>2. QED
    BY <1>2, <1>4, <1>6, <1>7, <1>9, <2>1, MovedKept
<1>11. Kept(l, m, who)
  BY <1>8, <1>9, <1>10, KeptAgain
<1>12. QED
  BY <1>11 DEF m

LEMMA WithdrawOneTouches ==
  ASSUME NEW c, NEW f, NEW l, Open(c, f, l), NEW dir \in Direction,
         NEW source \in PoolAccounts, source # InitDestination,
         NEW destination \in TokenAccounts, NEW amount \in Nat,
         NEW maximumPool, NEW host \in Hosts, NEW allowance, NEW who,
         destination \in who[TokenGiven(dir)], \A token \in {"a", "b"} : Reserve \in who[token],
         NEW o, o = WithdrawSingleExactAmountOut(c, f, l, dir, source, destination, amount, maximumPool,
                                                 host, allowance),
         o.code = Ok
  PROVE  Kept(l, o.ledger, who)
<1> DEFINE g == TokenGiven(dir)
           a == l.a[Reserve]
           b == l.b[Reserve]
           s == l.supply
<1>1. PICK r, fee, o1, o2, o3 :
        WithdrawOneCalls(c, f, l, dir, source, destination, amount, host, allowance, o.ledger,
                         r, fee, o1, o2, o3)
  BY WithdrawOneTakenApart
<1>2. /\ c \in Curves /\ f \in FeeSchedule /\ ValidFees(f) /\ Held(l) /\ Reserve \in TokenAccounts
      /\ a \in Nat /\ b \in Nat /\ s \in Nat /\ g \in {"a", "b"}
  BY HeldTypes, Directions DEF Open
<1>3. /\ r = CurveWithdraw(c, amount, a, b, s, dir, f) /\ ~Bad(r)
      /\ fee = WithdrawFee(r.amount, source, f)
  BY <1>1 DEF WithdrawOneCalls
<1> HIDE DEF a, b, s
<1>4. r.amount \in Nat /\ r.ownerFee \in Nat
  <2> DEFINE gross  == WithdrawGross(amount, f)
             tokens == WithdrawSingleTokenType(c, gross, a, b, s, dir)
  <2>1. CASE amount = 0
    <3>1. r = [amount |-> 0, ownerFee |-> 0]
      BY <1>3, <2>1, Zenon DEF CurveWithdraw
    <3>2. 0 \in Nat
      BY SMT
    <3>3. QED
      BY <3>1, <3>2
  <2>2. CASE amount # 0
    <3>1. PreTradingFeeDefined(f)
      BY <1>3, <2>2, Zenon DEF CurveWithdraw, Bad
    <3>2. r = IF Bad(tokens) THEN tokens ELSE [amount |-> tokens, ownerFee |-> WithdrawOwnerFee(amount, f)]
      BY <1>3, <2>2, <3>1, Zenon DEF CurveWithdraw
    <3>3. gross \in Nat /\ WithdrawOwnerFee(amount, f) \in Nat
      BY <1>2, <3>1, WithdrawAmountTypes
    <3> HIDE DEF gross
    <3>4. ~Bad(tokens)
      <4> HIDE DEF tokens
      <4>1. QED
        BY <1>3, <3>2
    <3>5. tokens \in Nat
      BY <1>2, <3>3, <3>4, WithdrawnType
    <3> HIDE DEF tokens
    <3>6. QED
      BY <3>2, <3>3, <3>4, <3>5
  <2>3. QED
    BY <2>1, <2>2
<1> DEFINE burnt    == r.amount
           ownerFee == r.ownerFee
           taken    == amount + ownerFee
           a2       == IF dir = "AtoB" THEN a - taken ELSE a
           b2       == IF dir = "AtoB" THEN b ELSE b - taken
           l1 == o1.ledger
           l2 == o2.ledger
           m  == o.ledger
<1>5. /\ burnt \in Nat /\ ownerFee \in Nat /\ a2 \in Int /\ b2 \in Int /\ s - burnt \in Int
      /\ TRUE \in BOOLEAN
  BY <1>2, <1>4, SMT
<1>6. fee \in Nat /\ (source = FeeAccount => fee = 0)
  BY <1>2, <1>3, <1>4, FeesAtMostAmount DEF WithdrawFee
<1>7. /\ destination # Reserve
      /\ o1 = MintOwnerFee(c, f, l, ownerFee, a2, b2, s - burnt, dir, TRUE, host) /\ o1.code = Ok
      /\ o2 = TakePoolTokens(l1, source, fee, burnt, allowance) /\ o2.code = Ok
      /\ Transfer(l2, g, Reserve, destination, amount, U64_MAX).code = Ok
      /\ m = Transfer(l2, g, Reserve, destination, amount, U64_MAX).ledger
  BY <1>1, Zenon DEF WithdrawOneCalls, a, b, s
<1>8. destination \in who[g] /\ Reserve \in who[g]
  BY <1>2
<1> HIDE DEF g, burnt, ownerFee, taken, a2, b2, l1, l2, m
<1>9. Kept(l, l1, who) /\ Held(l1)
  <2>1. FeeMinted(c, l, l1, ownerFee, a2, b2, s - burnt, dir)
    BY <1>2, <1>5, <1>7, MintOwnerFeeMints DEF l1
  <2>2. QED
    BY <2>1, KeptSame DEF FeeMinted
<1>10. Kept(l1, l2, who) /\ Held(l2)
  <2>1. Held(l2) /\ l2.a = l1.a /\ l2.b = l1.b
    BY <1>5, <1>6, <1>7, <1>9, TakePoolTokensBurns DEF l2
  <2>2. QED
    BY <2>1, KeptSame
<1>11. Kept(l2, m, who)
  <2>1. Moved(l2, m, g, Reserve, destination, amount)
    BY <1>2, <1>7, <1>10, TransferMoves
  <2>2. QED
    BY <1>2, <1>7, <1>8, <1>10, <2>1, MovedKept
<1>12. Kept(l, m, who)
  BY <1>9, <1>10, <1>11, KeptAgain
<1>13. QED
  BY <1>12 DEF m

-----------------------------------------------------------------------------
(* The fuzz target. *)

\* The totals of token balances: swap for the reserve, user for each account.
Accounted(balance, ids, swap, user) ==
  /\ OnlyIn(balance, TokenAccounts, ids \cup {Reserve, Withdrawn})
  /\ Sum(balance, TokenAccounts) = swap + Cardinality(ids) * user

LEMMA AccountIdFacts ==
  /\ IsFiniteSet(AccountIds) /\ Withdrawn \in TokenAccounts /\ Reserve \in TokenAccounts
  /\ Withdrawn # Reserve /\ Withdrawn \notin AccountIds
  /\ \A id \in AccountIds : /\ id \in TokenAccounts /\ id \in PoolAccounts
                            /\ id # Reserve /\ id # Withdrawn /\ id # InitDestination
<1>1. IsFiniteSet(AccountIds)
  BY LedgersAssumption, FS_Subset DEF AccountIds
<1>2. QED
  BY <1>1, LedgersAssumption, FuzzAssumption DEF AccountIds, TokenAccounts, PoolAccounts

\* An account that is created when it is first named brings the tokens of one user.
LEMMA CreatedBalance ==
  ASSUME NEW balance \in [TokenAccounts -> Nat], NEW ids \in SUBSET AccountIds, NEW x \in AccountIds,
         NEW named \in SUBSET {x}, NEW swap \in Nat, NEW user \in Nat,
         Accounted(balance, ids, swap, user), NEW after \in [TokenAccounts -> Nat],
         \A acc \in TokenAccounts : after[acc] = IF acc \in named \ ids THEN user ELSE balance[acc]
  PROVE  after[Reserve] = balance[Reserve] /\ Accounted(after, ids \cup named, swap, user)
<1>1. Reserve \in TokenAccounts /\ Reserve \notin named /\ x \in TokenAccounts
      /\ x \notin {Reserve, Withdrawn}
  BY AccountIdFacts
<1>2. after[Reserve] = balance[Reserve]
  BY <1>1
<1>3. OnlyIn(after, TokenAccounts, (ids \cup named) \cup {Reserve, Withdrawn})
  BY DEF Accounted, OnlyIn
<1>4. Sum(after, TokenAccounts) = swap + Cardinality(ids \cup named) * user
  <2>1. CASE named \ ids = {}
    <3>1. (\A acc \in TokenAccounts : after[acc] = balance[acc]) /\ ids \cup named = ids
      BY <2>1
    <3>2. after = balance
      BY <3>1
    <3>3. QED
      BY <3>1, <3>2 DEF Accounted
  <2>2. CASE named \ ids # {}
    <3>1. named = {x} /\ x \notin ids
      BY <2>2
    <3>2. balance[x] = 0
      BY <1>1, <3>1 DEF Accounted, OnlyIn
    <3>3. after[x] = user /\ \A other \in TokenAccounts : other # x => after[other] = balance[other]
      BY <1>1, <3>1
    <3>4. user \in Int /\ after[x] = balance[x] + user
      BY <3>2, <3>3, SMT
    <3>5. Sum(after, TokenAccounts) = Sum(balance, TokenAccounts) + user
      <4> DEFINE made == after
      <4>1. /\ made \in [TokenAccounts -> Nat] /\ made[x] = balance[x] + user
            /\ \A other \in TokenAccounts : other # x => made[other] = balance[other]
        BY <1>2, <3>3, <3>4
      <4> HIDE DEF made
      <4>2. Sum(made, TokenAccounts) = Sum(balance, TokenAccounts) + user
        BY <1>1, <3>4, <4>1, TokenAccountsFinite, LedgerSumAdjusts
      <4>3. QED
        BY <4>2 DEF made
    <3>6. Cardinality(ids) \in Nat /\ Cardinality(ids \cup named) = Cardinality(ids) + 1
      <4>1. IsFiniteSet(ids)
        BY AccountIdFacts, FS_Subset
      <4>2. QED
        BY <3>1, <4>1, FS_AddElement, FS_CardinalityType
    <3> DEFINE n  == Cardinality(ids)
               n2 == Cardinality(ids \cup named)
    <3>7. Sum(balance, TokenAccounts) = swap + n * user
      BY DEF Accounted
    <3> HIDE DEF n, n2
    <3>8. n2 * user = n * user + user /\ n * user \in Nat
      BY <3>6, SMT DEF n, n2
    <3>9. Sum(after, TokenAccounts) = swap + n2 * user
      BY <3>5, <3>7, <3>8, SMT
    <3>10. QED
      BY <3>9 DEF n2
  <2>3. QED
    BY <2>1, <2>2
<1>5. QED
  BY <1>2, <1>3, <1>4 DEF Accounted

\* Balances that only moved between the accounts are accounted for as before.
LEMMA AccountedMoves ==
  ASSUME NEW l, NEW m, NEW who, Kept(l, m, who), NEW token \in {"a", "b"},
         NEW ids, NEW swap, NEW user, Accounted(l[token], ids, swap, user),
         who[token] \in SUBSET (ids \cup {Reserve, Withdrawn})
  PROVE  Accounted(m[token], ids, swap, user)
<1>1. /\ Sum(m[token], TokenAccounts) = Sum(l[token], TokenAccounts)
      /\ \A acc \in TokenAccounts : acc \notin who[token] => m[token][acc] = l[token][acc]
  BY DEF Kept
<1>2. OnlyIn(m[token], TokenAccounts, ids \cup {Reserve, Withdrawn})
  BY <1>1 DEF Accounted, OnlyIn
<1>3. QED
  BY <1>1, <1>2 DEF Accounted

(***************************************************************************)
(* The inductive invariant of the fuzz target: the totals count the        *)
(* accounts that were created, and those hold all there is, also where the *)
(* target panicked.  While it runs the pool is open.                       *)
(***************************************************************************)
TokensCounted ==
  /\ counted.a = created.a /\ counted.b = created.b
  /\ Accounted(ledger.a, created.a, InitialSwapA, InitialUserA)
  /\ Accounted(ledger.b, created.b, InitialSwapB, InitialUserB)

FuzzInv ==
  /\ FuzzTypeOK /\ Held(ledger) /\ TokensCounted
  /\ phase = "Running" => Open(curve, Schedule, ledger)
  /\ EverythingWithdraws

\* A fuzzed instruction names accounts of the lists and a direction.
Fuzzed(i) == i.a \in AccountIds /\ i.b \in AccountIds /\ i.pool \in AccountIds /\ i.dir \in Direction

\* The token accounts it may touch.
Touched(i) == [token \in {"a", "b"} |-> Names(i)[token] \cup {Reserve}]

LEMMA NamesAreCounted ==
  ASSUME NEW i, Fuzzed(i)
  PROVE  /\ Names(i).a \in SUBSET {i.a} /\ Names(i).b \in SUBSET {i.b} /\ Names(i).pool \in SUBSET {i.pool}
         /\ CountedA(i) = Names(i).a /\ CountedB(i) = Names(i).b
         /\ Names(i).a \in SUBSET AccountIds /\ Names(i).b \in SUBSET AccountIds
         /\ Names(i).pool \in SUBSET AccountIds
BY DEF Fuzzed, Direction, Names, CountedA, CountedB

\* What the new accounts bring is counted; the pool does not see it.
LEMMA CreatedIsCounted ==
  ASSUME FuzzInv, phase = "Running", NEW i, Fuzzed(i), NEW l, l = CreateAccounts(i)
  PROVE  /\ Open(curve, Schedule, l)
         /\ Accounted(l.a, created.a \cup Names(i).a, InitialSwapA, InitialUserA)
         /\ Accounted(l.b, created.b \cup Names(i).b, InitialSwapB, InitialUserB)
<1>1. /\ ledger.a \in [TokenAccounts -> Nat] /\ ledger.b \in [TokenAccounts -> Nat]
      /\ Open(curve, Schedule, ledger) /\ Held(ledger)
      /\ created.a \in SUBSET AccountIds /\ created.b \in SUBSET AccountIds
  BY HeldTypes DEF FuzzInv, FuzzTypeOK
<1> DEFINE a2 == [acc \in TokenAccounts |-> IF acc \in Names(i).a \ created.a THEN InitialUserA
                                            ELSE ledger.a[acc]]
           b2 == [acc \in TokenAccounts |-> IF acc \in Names(i).b \ created.b THEN InitialUserB
                                            ELSE ledger.b[acc]]
<1>2. l = [ledger EXCEPT !.a = a2, !.b = b2]
  BY DEF CreateAccounts
<1>3. /\ a2 \in [TokenAccounts -> Nat] /\ a2[Reserve] = ledger.a[Reserve]
      /\ Accounted(a2, created.a \cup Names(i).a, InitialSwapA, InitialUserA)
  <2> DEFINE balance == ledger.a
             ids     == created.a
             named   == Names(i).a
             x       == i.a
  <2>1. /\ balance \in [TokenAccounts -> Nat] /\ ids \in SUBSET AccountIds /\ x \in AccountIds
        /\ named \in SUBSET {x} /\ Accounted(balance, ids, InitialSwapA, InitialUserA)
    BY <1>1, NamesAreCounted DEF Fuzzed, FuzzInv, TokensCounted
  <2>2. InitialSwapA \in Nat /\ InitialUserA \in Nat
    BY FuzzAssumption
  <2>3. /\ a2 \in [TokenAccounts -> Nat]
        /\ \A acc \in TokenAccounts :
             a2[acc] = IF acc \in named \ ids THEN InitialUserA ELSE balance[acc]
    BY <2>1, <2>2
  <2> HIDE DEF balance, ids, named, x, a2
  <2>4. a2[Reserve] = balance[Reserve] /\ Accounted(a2, ids \cup named, InitialSwapA, InitialUserA)
    BY <2>1, <2>2, <2>3, CreatedBalance
  <2>5. QED
    BY <2>3, <2>4 DEF balance, ids, named
<1>4. /\ b2 \in [TokenAccounts -> Nat] /\ b2[Reserve] = ledger.b[Reserve]
      /\ Accounted(b2, created.b \cup Names(i).b, InitialSwapB, InitialUserB)
  <2> DEFINE balance == ledger.b
             ids     == created.b
             named   == Names(i).b
             x       == i.b
  <2>1. /\ balance \in [TokenAccounts -> Nat] /\ ids \in SUBSET AccountIds /\ x \in AccountIds
        /\ named \in SUBSET {x} /\ Accounted(balance, ids, InitialSwapB, InitialUserB)
    BY <1>1, NamesAreCounted DEF Fuzzed, FuzzInv, TokensCounted
  <2>2. InitialSwapB \in Nat /\ InitialUserB \in Nat
    BY FuzzAssumption
  <2>3. /\ b2 \in [TokenAccounts -> Nat]
        /\ \A acc \in TokenAccounts :
             b2[acc] = IF acc \in named \ ids THEN InitialUserB ELSE balance[acc]
    BY <2>1, <2>2
  <2> HIDE DEF balance, ids, named, x, b2
  <2>4. b2[Reserve] = balance[Reserve] /\ Accounted(b2, ids \cup named, InitialSwapB, InitialUserB)
    BY <2>1, <2>2, <2>3, CreatedBalance
  <2>5. QED
    BY <2>3, <2>4 DEF balance, ids, named
<1> HIDE DEF a2, b2
<1>5. /\ l \in Ledger /\ l.a = a2 /\ l.b = b2 /\ l.pool = ledger.pool /\ l.supply = ledger.supply
  BY <1>1, <1>2, <1>3, <1>4 DEF Held, Ledger
<1>6. Held(l) /\ l.a[Reserve] = ledger.a[Reserve] /\ l.b[Reserve] = ledger.b[Reserve]
  BY <1>1, <1>3, <1>4, <1>5 DEF Held
<1>7. Open(curve, Schedule, l)
  BY <1>1, <1>5, <1>6 DEF Open, Sound
<1>8. QED
  BY <1>3, <1>4, <1>5, <1>7

\* Whatever an instruction did, as long as it kept to its accounts.
LEMMA RanKeeps ==
  ASSUME FuzzInv, NEW i, Fuzzed(i), NEW o, Ran(i, CreateAccounts(i), o),
         o.code = Ok => /\ Kept(CreateAccounts(i), o.ledger, Touched(i))
                        /\ ~Priced(curve) => Sound(curve, Schedule, o.ledger)
  PROVE  FuzzInv'
<1> DEFINE l == CreateAccounts(i)
           m == Committed(l, o)
<1>1. /\ phase = "Running" /\ executed \in Nat /\ executed < MaxInstructions
      /\ ledger' = m /\ phase' \in {"Running", "Panicked"} /\ executed' = executed + 1 /\ curve' = curve
      /\ created' = [k \in {"a", "b", "pool"} |-> created[k] \cup Names(i)[k]]
      /\ counted' = [a |-> counted.a \cup CountedA(i), b |-> counted.b \cup CountedB(i)]
  BY FuzzAssumption, SMT DEF Ran, FuzzInv, FuzzTypeOK
<1>2. /\ Open(curve, Schedule, l)
      /\ Accounted(l.a, created.a \cup Names(i).a, InitialSwapA, InitialUserA)
      /\ Accounted(l.b, created.b \cup Names(i).b, InitialSwapB, InitialUserB)
  BY <1>1, CreatedIsCounted
<1>3. /\ created'.a = created.a \cup Names(i).a /\ created'.b = created.b \cup Names(i).b
      /\ counted'.a = created'.a /\ counted'.b = created'.b
  BY <1>1, NamesAreCounted DEF FuzzInv, TokensCounted
<1>4. /\ created' \in [a : SUBSET AccountIds, b : SUBSET AccountIds, pool : SUBSET AccountIds]
      /\ counted' \in [a : SUBSET AccountIds, b : SUBSET AccountIds]
  <2>1. created \in [a : SUBSET AccountIds, b : SUBSET AccountIds, pool : SUBSET AccountIds]
    BY DEF FuzzInv, FuzzTypeOK
  <2>2. created' = [a |-> created.a \cup Names(i).a, b |-> created.b \cup Names(i).b,
                    pool |-> created.pool \cup Names(i).pool]
    BY <1>1
  <2>3. counted \in [a : SUBSET AccountIds, b : SUBSET AccountIds]
    BY DEF FuzzInv, FuzzTypeOK
  <2>4. QED
    BY <1>1, <2>1, <2>2, <2>3, NamesAreCounted
<1>5. executed' \in 0 .. MaxInstructions
  BY <1>1, FuzzAssumption, SMT
<1>6. Touched(i)["a"] = Names(i).a \cup {Reserve} /\ Touched(i)["b"] = Names(i).b \cup {Reserve}
  BY DEF Touched
<1>7. /\ Open(curve, Schedule, m)
      /\ Accounted(m.a, created'.a, InitialSwapA, InitialUserA)
      /\ Accounted(m.b, created'.b, InitialSwapB, InitialUserB)
  <2>1. CASE o.code = Ok
    <3>1. m = o.ledger
      BY <2>1 DEF Committed
    <3>2. Kept(l, m, Touched(i)) /\ (~Priced(curve) => Sound(curve, Schedule, m))
      BY <2>1, <3>1
    <3> HIDE DEF l, m
    <3>3. Open(curve, Schedule, m)
      BY <1>2, <3>2 DEF Open, Kept
    <3>4. Accounted(m.a, created'.a, InitialSwapA, InitialUserA)
      <4> DEFINE ids == created'.a
                 who == Touched(i)
                 token == "a"
      <4>1. token \in {"a", "b"} /\ Accounted(l[token], ids, InitialSwapA, InitialUserA)
            /\ Kept(l, m, who) /\ who[token] \in SUBSET (ids \cup {Reserve, Withdrawn})
        BY <1>2, <1>3, <1>6, <3>2
      <4> HIDE DEF ids, who, token
      <4>2. Accounted(m[token], ids, InitialSwapA, InitialUserA)
        BY <4>1, AccountedMoves
      <4>3. QED
        BY <4>2 DEF ids, token
    <3>5. Accounted(m.b, created'.b, InitialSwapB, InitialUserB)
      <4> DEFINE ids == created'.b
                 who == Touched(i)
                 token == "b"
      <4>1. token \in {"a", "b"} /\ Accounted(l[token], ids, InitialSwapB, InitialUserB)
            /\ Kept(l, m, who) /\ who[token] \in SUBSET (ids \cup {Reserve, Withdrawn})
        BY <1>2, <1>3, <1>6, <3>2
      <4> HIDE DEF ids, who, token
      <4>2. Accounted(m[token], ids, InitialSwapB, InitialUserB)
        BY <4>1, AccountedMoves
      <4>3. QED
        BY <4>2 DEF ids, token
    <3>6. QED
      BY <3>3, <3>4, <3>5
  <2>2. CASE o.code # Ok
    <3>1. m = l
      BY <2>2 DEF Committed
    <3> HIDE DEF l, m
    <3>2. QED
      BY <1>2, <1>3, <3>1
  <2>3. QED
    BY <2>1, <2>2
<1>8. QED
  BY <1>1, <1>3, <1>4, <1>5, <1>7 DEF FuzzInv, FuzzTypeOK, TokensCounted, EverythingWithdraws, Open, Held

\* The five instructions of the target, on the accounts as they find them.
LEMMA FuzzedLedger ==
  ASSUME FuzzInv, phase = "Running", NEW i, Fuzzed(i), NEW l, l = CreateAccounts(i)
  PROVE  /\ Open(curve, Schedule, l) /\ (~Priced(curve) => Sound(curve, Schedule, l))
         /\ l.pool[i.pool] \in Nat
         /\ \A id \in {i.a, i.b} : id \in TokenAccounts
         /\ i.pool \in PoolAccounts /\ i.pool # InitDestination
         /\ InitDestination \in Hosts /\ NoAccount \in Hosts
         /\ \A token \in {"a", "b"} : Reserve \in Touched(i)[token]
<1>1. Open(curve, Schedule, l)
  BY CreatedIsCounted
<1>2. l.pool \in [PoolAccounts -> Nat]
  BY <1>1, HeldTypes DEF Open
<1>3. i.pool \in PoolAccounts /\ i.pool # InitDestination /\ \A id \in {i.a, i.b} : id \in TokenAccounts
  BY AccountIdFacts DEF Fuzzed
<1>4. \A token \in {"a", "b"} : Reserve \in Touched(i)[token]
  BY DEF Touched
<1>5. QED
  BY <1>1, <1>2, <1>3, <1>4 DEF Open, Hosts, PoolAccounts

LEMMA SwapRunKeeps ==
  ASSUME FuzzInv, NEW tokenA \in AccountIds, NEW tokenB \in AccountIds, NEW dir \in Direction,
         NEW amount \in Numbers, NEW minimum, RunSwap(tokenA, tokenB, dir, amount, minimum)
  PROVE  FuzzInv'
<1> DEFINE i == Instruction("Swap", tokenA, tokenB, tokenA, dir)
           l == CreateAccounts(i)
           source      == IF dir = "AtoB" THEN tokenA ELSE tokenB
           destination == IF dir = "AtoB" THEN tokenB ELSE tokenA
           o == ProcessSwap(curve, Schedule, l, dir, source, destination, amount, minimum,
                            InitDestination, amount)
<1>1. Ran(i, l, o)
  <2>1. CASE dir = "AtoB"
    BY <2>1, Zenon DEF RunSwap
  <2>2. CASE dir # "AtoB"
    BY <2>2, Zenon DEF RunSwap
  <2>3. QED
    BY <2>1, <2>2
<1>2. phase = "Running" /\ Fuzzed(i) /\ amount \in Nat
  BY <1>1, FuzzAssumption, LedgersAssumption, SMT DEF Ran, Fuzzed, Instruction
<1>3. i.kind = "Swap" /\ i.a = tokenA /\ i.b = tokenB
  BY DEF Instruction
<1>4. source \in Touched(i)[TokenGiven(dir)] /\ destination \in Touched(i)[TokenTaken(dir)]
      /\ source \in TokenAccounts /\ destination \in TokenAccounts
  <2>1. tokenA \in Touched(i)["a"] /\ tokenB \in Touched(i)["b"]
    BY <1>3 DEF Touched, Names, OneToken
  <2>2. QED
    BY <2>1, AccountIdFacts, Directions
<1> HIDE DEF i, source, destination
<1>5. /\ Open(curve, Schedule, l) /\ (~Priced(curve) => Sound(curve, Schedule, l))
      /\ InitDestination \in Hosts /\ \A token \in {"a", "b"} : Reserve \in Touched(i)[token]
  BY <1>2, FuzzedLedger
<1>6. ASSUME o.code = Ok
      PROVE  /\ Kept(l, o.ledger, Touched(i))
             /\ ~Priced(curve) => Sound(curve, Schedule, o.ledger)
  <2> HIDE DEF l
  <2>1. Kept(l, o.ledger, Touched(i))
    BY <1>2, <1>4, <1>5, <1>6, SwapTouches
  <2>2. ~Priced(curve) => KeepsWorth(curve, Schedule, l, o.ledger)
    BY <1>2, <1>4, <1>5, <1>6, SwapKeepsWorth
  <2>3. QED
    BY <2>1, <2>2 DEF KeepsWorth
<1> HIDE DEF o
<1>7. QED
  BY <1>1, <1>2, <1>6, RanKeeps DEF l

LEMMA DepositAllRunKeeps ==
  ASSUME FuzzInv, NEW tokenA \in AccountIds, NEW tokenB \in AccountIds, NEW pool \in AccountIds,
         NEW amount \in Numbers, NEW maximum, RunDepositAll(tokenA, tokenB, pool, amount, maximum)
  PROVE  FuzzInv'
<1> DEFINE i == Instruction("DepositAllTokenTypes", tokenA, tokenB, pool, "AtoB")
           l == CreateAccounts(i)
           asked == IF amount = 1 THEN 2 ELSE amount
           o == DepositAllTokenTypes(curve, Schedule, l, tokenA, tokenB, pool, asked, maximum, maximum)
<1>1. Ran(i, l, o)
  BY Zenon DEF RunDepositAll
<1>2. phase = "Running" /\ Fuzzed(i) /\ asked \in Nat
  BY <1>1, FuzzAssumption, LedgersAssumption, SMT DEF Ran, Fuzzed, Instruction, Direction
<1>3. i.kind = "DepositAllTokenTypes" /\ i.a = tokenA /\ i.b = tokenB /\ i.pool = pool
  BY DEF Instruction
<1>4. tokenA \in Touched(i)["a"] /\ tokenB \in Touched(i)["b"]
      /\ tokenA \in TokenAccounts /\ tokenB \in TokenAccounts
  BY <1>3, AccountIdFacts DEF Touched, Names, OneToken
<1> HIDE DEF i, asked
<1>5. /\ Open(curve, Schedule, l) /\ (~Priced(curve) => Sound(curve, Schedule, l))
      /\ pool \in PoolAccounts /\ \A token \in {"a", "b"} : Reserve \in Touched(i)[token]
  BY <1>2, <1>3, FuzzedLedger
<1>6. ASSUME o.code = Ok
      PROVE  /\ Kept(l, o.ledger, Touched(i))
             /\ ~Priced(curve) => Sound(curve, Schedule, o.ledger)
  <2> HIDE DEF l
  <2>1. Kept(l, o.ledger, Touched(i))
    BY <1>2, <1>4, <1>5, <1>6, DepositBothTouches
  <2>2. ~Priced(curve) => KeepsWorth(curve, Schedule, l, o.ledger)
    BY <1>2, <1>4, <1>5, <1>6, DepositBothKeepsWorth
  <2>3. QED
    BY <2>1, <2>2 DEF KeepsWorth
<1> HIDE DEF o
<1>7. QED
  BY <1>1, <1>2, <1>6, RanKeeps DEF l

LEMMA AskedType ==
  ASSUME NEW balance \in Nat, NEW amount \in Nat
  PROVE  NotAllButOne(balance, amount) \in Nat
BY DEF NotAllButOne

LEMMA WithdrawAllRunKeeps ==
  ASSUME FuzzInv, NEW tokenA \in AccountIds, NEW tokenB \in AccountIds, NEW pool \in AccountIds,
         NEW amount \in Numbers, NEW minimum, RunWithdrawAll(tokenA, tokenB, pool, amount, minimum)
  PROVE  FuzzInv'
<1> DEFINE i == Instruction("WithdrawAllTokenTypes", tokenA, tokenB, pool, "AtoB")
           l == CreateAccounts(i)
           asked == NotAllButOne(l.pool[pool], amount)
           o == WithdrawAllTokenTypes(curve, Schedule, l, pool, tokenA, tokenB, asked, minimum, minimum, asked)
<1>1. Ran(i, l, o)
  BY Zenon DEF RunWithdrawAll
<1>2. phase = "Running" /\ Fuzzed(i) /\ amount \in Nat
  BY <1>1, FuzzAssumption, LedgersAssumption, SMT DEF Ran, Fuzzed, Instruction, Direction
<1>3. i.kind = "WithdrawAllTokenTypes" /\ i.a = tokenA /\ i.b = tokenB /\ i.pool = pool
  BY DEF Instruction
<1>4. tokenA \in Touched(i)["a"] /\ tokenB \in Touched(i)["b"]
      /\ tokenA \in TokenAccounts /\ tokenB \in TokenAccounts
  BY <1>3, AccountIdFacts DEF Touched, Names, OneToken
<1> HIDE DEF i
<1>5. /\ Open(curve, Schedule, l) /\ (~Priced(curve) => Sound(curve, Schedule, l))
      /\ pool \in PoolAccounts /\ pool # InitDestination
      /\ \A token \in {"a", "b"} : Reserve \in Touched(i)[token]
  BY <1>2, <1>3, FuzzedLedger
<1>6. asked \in Nat
  <2>1. l.pool[pool] \in Nat
    BY <1>2, <1>3, FuzzedLedger
  <2> HIDE DEF l
  <2>2. QED
    BY <1>2, <2>1, AskedType
<1> HIDE DEF asked
<1>7. ASSUME o.code = Ok
      PROVE  /\ Kept(l, o.ledger, Touched(i))
             /\ ~Priced(curve) => Sound(curve, Schedule, o.ledger)
  <2> HIDE DEF l
  <2>1. Kept(l, o.ledger, Touched(i))
    BY <1>4, <1>5, <1>6, <1>7, WithdrawBothTouches DEF Open
  <2>2. ~Priced(curve) => KeepsWorth(curve, Schedule, l, o.ledger)
    BY <1>4, <1>5, <1>6, <1>7, WithdrawBothKeepsWorth
  <2>3. QED
    BY <2>1, <2>2 DEF KeepsWorth
<1> HIDE DEF o
<1>8. QED
  BY <1>1, <1>2, <1>7, RanKeeps DEF l

LEMMA DepositSingleRunKeeps ==
  ASSUME FuzzInv, NEW account \in AccountIds, NEW dir \in Direction, NEW pool \in AccountIds,
         NEW amount \in Numbers, NEW minimum, RunDepositSingle(account, dir, pool, amount, minimum)
  PROVE  FuzzInv'
<1> DEFINE i == Instruction("DepositSingleTokenTypeExactAmountIn", account, account, pool, dir)
           l == CreateAccounts(i)
           least == IF minimum < 2 THEN 2 ELSE minimum
           o == DepositSingleExactAmountIn(curve, Schedule, l, dir, account, pool, amount, least,
                                           FALSE, NoAccount, amount)
<1>1. Ran(i, l, o)
  BY Zenon DEF RunDepositSingle
<1>2. phase = "Running" /\ Fuzzed(i) /\ amount \in Nat
  BY <1>1, FuzzAssumption, LedgersAssumption, SMT DEF Ran, Fuzzed, Instruction
<1>3. i.a = account /\ i.b = account /\ i.pool = pool /\ i.dir = dir
  BY DEF Instruction
<1>4. account \in Touched(i)[TokenGiven(dir)] /\ account \in TokenAccounts
  <2>1. dir = "AtoB" => account \in Touched(i)["a"]
    BY <1>3 DEF Touched, Names
  <2>2. dir # "AtoB" => account \in Touched(i)["b"]
    BY <1>3 DEF Touched, Names
  <2>3. QED
    BY <2>1, <2>2, AccountIdFacts, Directions
<1> HIDE DEF i, least
<1>5. /\ Open(curve, Schedule, l) /\ (~Priced(curve) => Sound(curve, Schedule, l))
      /\ pool \in PoolAccounts /\ NoAccount \in Hosts /\ FALSE \in BOOLEAN
      /\ \A token \in {"a", "b"} : Reserve \in Touched(i)[token]
  BY <1>2, <1>3, FuzzedLedger
<1>6. ASSUME o.code = Ok
      PROVE  /\ Kept(l, o.ledger, Touched(i))
             /\ ~Priced(curve) => Sound(curve, Schedule, o.ledger)
  <2> HIDE DEF l
  <2>1. Kept(l, o.ledger, Touched(i))
    BY <1>2, <1>4, <1>5, <1>6, DepositOneTouches
  <2>2. ~Priced(curve) => KeepsWorth(curve, Schedule, l, o.ledger)
    BY <1>2, <1>4, <1>5, <1>6, DepositOneKeepsWorth
  <2>3. QED
    BY <2>1, <2>2 DEF KeepsWorth
<1> HIDE DEF o
<1>7. QED
  BY <1>1, <1>2, <1>6, RanKeeps DEF l

LEMMA WithdrawSingleRunKeeps ==
  ASSUME FuzzInv, NEW account \in AccountIds, NEW dir \in Direction, NEW pool \in AccountIds,
         NEW amount \in Numbers, NEW maximum, RunWithdrawSingle(account, dir, pool, amount, maximum)
  PROVE  FuzzInv'
<1> DEFINE i == Instruction("WithdrawSingleTokenTypeExactAmountOut", account, account, pool, dir)
           l == CreateAccounts(i)
           asked == NotAllButOne(l.pool[pool], maximum)
           o == WithdrawSingleExactAmountOut(curve, Schedule, l, dir, pool, account, amount, asked,
                                             NoAccount, asked)
<1>1. Ran(i, l, o)
  BY Zenon DEF RunWithdrawSingle
<1>2. phase = "Running" /\ Fuzzed(i) /\ amount \in Nat
  BY <1>1, FuzzAssumption, LedgersAssumption, SMT DEF Ran, Fuzzed, Instruction
<1>3. i.a = account /\ i.b = account /\ i.pool = pool /\ i.dir = dir
  BY DEF Instruction
<1>4. account \in Touched(i)[TokenGiven(dir)] /\ account \in TokenAccounts
  <2>1. dir = "AtoB" => account \in Touched(i)["a"]
    BY <1>3 DEF Touched, Names
  <2>2. dir # "AtoB" => account \in Touched(i)["b"]
    BY <1>3 DEF Touched, Names
  <2>3. QED
    BY <2>1, <2>2, AccountIdFacts, Directions
<1> HIDE DEF i, asked
<1>5. /\ Open(curve, Schedule, l) /\ (~Priced(curve) => Sound(curve, Schedule, l))
      /\ pool \in PoolAccounts /\ pool # InitDestination /\ NoAccount \in Hosts
      /\ \A token \in {"a", "b"} : Reserve \in Touched(i)[token]
  BY <1>2, <1>3, FuzzedLedger
<1>6. ASSUME o.code = Ok
      PROVE  /\ Kept(l, o.ledger, Touched(i))
             /\ ~Priced(curve) => Sound(curve, Schedule, o.ledger)
  <2> HIDE DEF l
  <2>1. Kept(l, o.ledger, Touched(i))
    BY <1>2, <1>4, <1>5, <1>6, WithdrawOneTouches
  <2>2. ~Priced(curve) => KeepsWorth(curve, Schedule, l, o.ledger)
    BY <1>2, <1>4, <1>5, <1>6, WithdrawOneKeepsWorth
  <2>3. QED
    BY <2>1, <2>2 DEF KeepsWorth
<1> HIDE DEF o
<1>7. QED
  BY <1>1, <1>2, <1>6, RanKeeps DEF l

\* All pool tokens together are worth all there is of a reserve.
LEMMA WholeShare ==
  ASSUME NEW x \in Nat, NEW s \in Nat \ {0}
  PROVE  (s * x) \div s = x
<1> DEFINE q == (s * x) \div s
<1>1. s * x \in Nat
  BY SMT
<1>2. q \in Nat /\ q * s <= s * x /\ s * x < q * s + s
  BY <1>1, FloorBounds
<1> HIDE DEF q
<1>3. ~(q + 1 <= x)
  <2>1. SUFFICES ASSUME q + 1 <= x PROVE FALSE
    OBVIOUS
  <2>2. s * (q + 1) <= s * x
    BY <1>2, <2>1, MulMono
  <2>3. s * (q + 1) = q * s + s /\ q * s \in Nat
    BY <1>2, SMT
  <2>4. QED
    BY <1>1, <1>2, <2>2, <2>3, SMT
<1>4. ~(x + 1 <= q)
  <2>1. SUFFICES ASSUME x + 1 <= q PROVE FALSE
    OBVIOUS
  <2>2. s * (x + 1) <= s * q
    BY <1>2, <2>1, MulMono
  <2>3. s * (x + 1) = s * x + s /\ s * q = q * s /\ q * s \in Nat
    BY <1>2, SMT
  <2>4. QED
    BY <1>1, <1>2, <2>2, <2>3, SMT
<1>5. QED
  BY <1>2, <1>3, <1>4, SMT DEF q

\* The fee account's owner, with all pool tokens, empties the pool.
LEMMA EverythingIsPaid ==
  ASSUME NEW c \in Curves, NEW f \in FeeSchedule, ValidFees(f), NEW l, Held(l),
         NEW destination \in TokenAccounts, NEW all, all = l.supply, NEW allowance,
         NEW o, o = WithdrawAllTokenTypes(c, f, l, FeeAccount, destination, destination, all, 0, 0, allowance),
         o.code = Ok
  PROVE  o.ledger.a[Reserve] = 0 /\ o.ledger.b[Reserve] = 0 /\ o.ledger.supply = 0
<1> DEFINE a == l.a[Reserve]
           b == l.b[Reserve]
           s == l.supply
<1>1. PICK fee, part, o1, o2, o3 :
        WithdrawBothCalls(c, f, l, FeeAccount, destination, destination, all, allowance, o.ledger,
                          fee, part, o1, o2, o3)
  BY WithdrawBothTakenApart
<1>2. /\ Reserve \in TokenAccounts /\ a \in Nat /\ b \in Nat /\ s \in Nat /\ c.offset \in Nat
      /\ FeeAccount \in PoolAccounts /\ FeeAccount # InitDestination
  BY HeldTypes, LedgersAssumption DEF Curve, PoolAccounts
<1>3. fee = 0 /\ all - fee = s
  <2>1. fee = 0
    BY <1>1 DEF WithdrawBothCalls, WithdrawFee
  <2>2. QED
    BY <1>2, <2>1, SMT
<1> DEFINE outA == Payable(a, part.a)
           outB == Payable(b, part.b)
           l1 == o1.ledger
           l2 == o2.ledger
           m  == o.ledger
<1>4. /\ destination # Reserve
      /\ part = TradingTokens(c, s, a, b, s, "Floor") /\ part # None
      /\ o1 = TakePoolTokens(l, FeeAccount, fee, s, allowance) /\ o1.code = Ok
      /\ Transfer(l1, "a", Reserve, destination, outA, U64_MAX).code = Ok
      /\ l2 = Transfer(l1, "a", Reserve, destination, outA, U64_MAX).ledger
      /\ Transfer(l2, "b", Reserve, destination, outB, U64_MAX).code = Ok
      /\ m = Transfer(l2, "b", Reserve, destination, outB, U64_MAX).ledger
  <2> DEFINE burnt == all - fee
  <2>1. /\ destination # Reserve
        /\ part = TradingTokens(c, burnt, a, b, s, "Floor") /\ part # None
        /\ o1 = TakePoolTokens(l, FeeAccount, fee, burnt, allowance) /\ o1.code = Ok
        /\ Transfer(l1, "a", Reserve, destination, outA, U64_MAX).code = Ok
        /\ l2 = Transfer(l1, "a", Reserve, destination, outA, U64_MAX).ledger
        /\ Transfer(l2, "b", Reserve, destination, outB, U64_MAX).code = Ok
        /\ m = Transfer(l2, "b", Reserve, destination, outB, U64_MAX).ledger
    BY <1>1, Zenon DEF WithdrawBothCalls
  <2>2. burnt = s
    BY <1>3
  <2> HIDE DEF burnt, outA, outB, l1, l2, m, s
  <2>3. QED
    BY <2>1, <2>2
<1> HIDE DEF a, b, s
<1>5. s # 0 /\ part.a = a /\ part.b \in Nat /\ part.b >= b
  <2>1. s # 0
    BY <1>4 DEF TradingTokens
  <2>2. (s * a) \div s = a /\ \A y \in Nat : (s * y) \div s = y
    BY <1>2, <2>1, WholeShare
  <2>3. CASE Priced(c)
    <3>1. part = PricedTradingTokens(s, a, b, s, "Floor")
      BY <1>4, <2>1, <2>3, Zenon DEF TradingTokens
    <3>2. part.a = (s * a) \div s /\ part.b = (s * b) \div s
      BY <3>1 DEF PricedTradingTokens, PoolTokensToTradingTokens, Divide
    <3>3. part.a = a /\ part.b = b
      BY <1>2, <2>2, <3>2
    <3>4. QED
      BY <1>2, <2>1, <3>3, SMT
  <2>4. CASE ~Priced(c)
    <3> DEFINE y == WithOffset(c, b)
    <3>1. y \in Nat /\ y >= b
      BY <1>2, SMT DEF WithOffset
    <3>2. part = [a |-> ProductPart(s, a, s, "Floor"), b |-> ProductPart(s, y, s, "Floor")]
      BY <1>4, <2>1, <2>4, Zenon DEF TradingTokens
    <3> HIDE DEF y
    <3>3. part.a = (s * a) \div s /\ part.b = (s * y) \div s
      BY <3>2 DEF ProductPart
    <3>4. part.a = a /\ part.b = y
      BY <1>2, <2>2, <3>1, <3>3
    <3>5. QED
      BY <2>1, <3>1, <3>4
  <2>5. QED
    BY <2>3, <2>4
<1>6. outA = a /\ outB = b
  BY <1>2, <1>5, SMT DEF Payable, AtMost
<1> HIDE DEF outA, outB, l1, l2, m
<1>7. Held(l1) /\ l1.a = l.a /\ l1.b = l.b /\ l1.supply = s - s
  <2>1. 0 \in Nat
    BY SMT
  <2>2. Held(l1) /\ l1.a = l.a /\ l1.b = l.b /\ l1.supply = l.supply - s
    BY <1>2, <1>3, <1>4, <2>1, TakePoolTokensBurns DEF l1
  <2>3. QED
    BY <2>2 DEF s
<1>8. outA \in Nat /\ outB \in Nat
  BY <1>2, <1>6
<1>9. Moved(l1, l2, "a", Reserve, destination, outA)
  BY <1>2, <1>4, <1>7, <1>8, TransferMoves
<1>10. Moved(l2, m, "b", Reserve, destination, outB)
  <2>1. Held(l2)
    BY <1>9 DEF Moved
  <2>2. QED
    BY <1>2, <1>4, <1>8, <2>1, TransferMoves
<1>11. m.supply = s - s /\ m.a[Reserve] = a - a /\ m.b[Reserve] = b - b
  BY <1>6, <1>7, <1>9, <1>10 DEF Moved, a, b
<1>12. m.supply = 0 /\ m.a[Reserve] = 0 /\ m.b[Reserve] = 0
  BY <1>2, <1>11, SMT
<1>13. QED
  BY <1>12 DEF m

\* Moving all pool tokens into one account changes no sum.
LEMMA AllInOneAccount ==
  ASSUME NEW l, Held(l), NEW m,
         m = [l EXCEPT !.pool = [acc \in PoolAccounts |-> IF acc = FeeAccount THEN l.supply ELSE 0]]
  PROVE  Held(m) /\ m.a = l.a /\ m.b = l.b /\ m.supply = l.supply
<1> DEFINE none == [acc \in PoolAccounts |-> 0]
           all  == [acc \in PoolAccounts |-> IF acc = FeeAccount THEN l.supply ELSE 0]
<1>1. /\ none \in [PoolAccounts -> Nat] /\ all \in [PoolAccounts -> Nat] /\ l.supply \in Nat
      /\ FeeAccount \in PoolAccounts /\ l.supply \in Int /\ none[FeeAccount] + l.supply = all[FeeAccount]
      /\ \A other \in PoolAccounts : other # FeeAccount => all[other] = none[other]
  <2>1. l.supply \in Nat /\ FeeAccount \in PoolAccounts
    BY HeldTypes DEF PoolAccounts
  <2>2. 0 \in Nat /\ l.supply \in Int /\ 0 + l.supply = l.supply
    BY <2>1, SMT
  <2>3. QED
    BY <2>1, <2>2
<1>2. Sum(none, PoolAccounts) = 0
  BY <1>1, PoolAccountsFinite, EmptySum
<1>3. m = [l EXCEPT !.pool = all]
  OBVIOUS
<1> HIDE DEF none, all
<1>4. Sum(all, PoolAccounts) = Sum(none, PoolAccounts) + l.supply
  BY <1>1, PoolAccountsFinite, LedgerSumAdjusts
<1>5. Sum(all, PoolAccounts) = l.supply
  BY <1>1, <1>2, <1>4, SMT
<1>6. m \in Ledger /\ m.pool = all /\ m.a = l.a /\ m.b = l.b /\ m.supply = l.supply
  BY <1>1, <1>3 DEF Held, Ledger
<1>7. QED
  BY <1>5, <1>6 DEF Held

LEMMA WithdrawEverythingKeeps ==
  ASSUME FuzzInv, WithdrawEverything
  PROVE  FuzzInv'
<1> DEFINE all == Sum(ledger.pool, PoolAccounts)
           l == [ledger EXCEPT !.pool = [acc \in PoolAccounts |-> IF acc = FeeAccount THEN all ELSE 0]]
           o == WithdrawAllTokenTypes(curve, Schedule, l, FeeAccount, Withdrawn, Withdrawn, all, 0, 0, all)
           m == Committed(l, o)
           who == [token \in {"a", "b"} |-> {Reserve, Withdrawn}]
<1>1. /\ phase = "Running" /\ ledger' = m /\ phase' = (IF o.code = Ok THEN "Finished" ELSE "Panicked")
      /\ curve' = curve /\ created' = created /\ counted' = counted /\ executed' = executed
  BY Zenon DEF WithdrawEverything, Sum
<1>2. /\ curve \in Curves /\ Schedule \in FeeSchedule /\ ValidFees(Schedule) /\ Held(ledger)
      /\ TokensCounted /\ FuzzTypeOK
  BY <1>1 DEF FuzzInv, Open
<1>3. Held(l) /\ l.a = ledger.a /\ l.b = ledger.b /\ l.supply = all
  <2>1. ledger.supply = all
    BY <1>2 DEF Held
  <2>2. l = [ledger EXCEPT !.pool = [acc \in PoolAccounts |-> IF acc = FeeAccount THEN ledger.supply ELSE 0]]
    BY <2>1
  <2> HIDE DEF l, all
  <2>3. QED
    BY <1>2, <2>1, <2>2, AllInOneAccount
<1>4. /\ Withdrawn \in TokenAccounts /\ FeeAccount \in PoolAccounts /\ FeeAccount # InitDestination
      /\ all \in Nat /\ Withdrawn \in who["a"] /\ Withdrawn \in who["b"]
      /\ \A token \in {"a", "b"} : Reserve \in who[token]
      /\ \A token \in {"a", "b"} : \A ids : who[token] \in SUBSET (ids \cup {Reserve, Withdrawn})
  <2>1. l.supply \in Nat
    BY <1>3, HeldTypes
  <2>2. QED
    BY <1>3, <2>1, AccountIdFacts, LedgersAssumption DEF PoolAccounts
<1>5. /\ Held(m)
      /\ Accounted(m.a, created.a, InitialSwapA, InitialUserA)
      /\ Accounted(m.b, created.b, InitialSwapB, InitialUserB)
      /\ o.code = Ok => m.a[Reserve] = 0 /\ m.b[Reserve] = 0 /\ m.supply = 0
  <2>1. CASE o.code = Ok
    <3>1. m = o.ledger
      BY <2>1 DEF Committed
    <3> HIDE DEF l, all, who
    <3>2. Kept(l, o.ledger, who)
      BY <1>2, <1>3, <1>4, <2>1, WithdrawBothTouches
    <3>3. o.ledger.a[Reserve] = 0 /\ o.ledger.b[Reserve] = 0 /\ o.ledger.supply = 0
      BY <1>2, <1>3, <1>4, <2>1, EverythingIsPaid
    <3> DEFINE one == "a"
               two == "b"
               idsA == created.a
               idsB == created.b
    <3>4. /\ one \in {"a", "b"} /\ Accounted(l[one], idsA, InitialSwapA, InitialUserA)
          /\ two \in {"a", "b"} /\ Accounted(l[two], idsB, InitialSwapB, InitialUserB)
          /\ who[one] \in SUBSET (idsA \cup {Reserve, Withdrawn})
          /\ who[two] \in SUBSET (idsB \cup {Reserve, Withdrawn})
      BY <1>2, <1>3, <1>4 DEF TokensCounted
    <3> HIDE DEF o, m, one, two, idsA, idsB
    <3>5. Kept(l, m, who)
      BY <3>1, <3>2
    <3>6. Accounted(m[one], idsA, InitialSwapA, InitialUserA)
      BY <3>4, <3>5, AccountedMoves
    <3>7. Accounted(m[two], idsB, InitialSwapB, InitialUserB)
      BY <3>4, <3>5, AccountedMoves
    <3>8. QED
      BY <3>1, <3>3, <3>5, <3>6, <3>7 DEF Kept, one, two, idsA, idsB
  <2>2. CASE o.code # Ok
    <3>1. m = l
      BY <2>2 DEF Committed
    <3> HIDE DEF l, m, o
    <3>2. QED
      BY <1>2, <1>3, <2>2, <3>1 DEF TokensCounted
  <2>3. QED
    BY <2>1, <2>2
<1> HIDE DEF l, o, m, all, who
<1>6. QED
  BY <1>1, <1>2, <1>5 DEF FuzzInv, FuzzTypeOK, TokensCounted, EverythingWithdraws, Held

\* A pool under any curve, once Initialize went well.
LEMMA InitializedIsOpen ==
  ASSUME NEW c \in Curves, NEW f \in FeeSchedule, NEW l, Held(l),
         NEW o, o = InitializePool(c, f, l), o.code = Ok
  PROVE  /\ Open(c, f, o.ledger) /\ o.ledger.a = l.a /\ o.ledger.b = l.b
         /\ o.ledger.supply = l.supply + InitialSupply
<1> DEFINE m == o.ledger
<1>1. /\ ValidFees(f) /\ MintTo(l, InitDestination, InitialSupply).code = Ok
      /\ m = MintTo(l, InitDestination, InitialSupply).ledger
  <2>1. \/ o \in {Refused("EmptySupply", l), Refused("InvalidFee", l), Refused("InvalidCurve", l)}
        \/ ValidFees(f) /\ o = MintTo(l, InitDestination, InitialSupply)
    BY Zenon DEF InitializePool
  <2>2. /\ Refused("EmptySupply", l).code # Ok /\ Refused("InvalidFee", l).code # Ok
        /\ Refused("InvalidCurve", l).code # Ok
    BY SwapErrorsAreNotOk DEF Refused, Failure
  <2>3. ValidFees(f) /\ o = MintTo(l, InitDestination, InitialSupply)
    BY <2>1, <2>2, Zenon
  <2>4. QED
    BY <2>3
<1>2. InitialSupply \in Nat /\ InitDestination \in PoolAccounts
  BY LedgersAssumption, SMT DEF PoolAccounts
<1> HIDE DEF m
<1>3. Minted(l, m, InitDestination, InitialSupply)
  BY <1>1, <1>2, MintMoves
<1>4. ~Priced(c) => Sound(c, f, m)
  BY InitializedIsSound DEF ProductCurves, m
<1>5. QED
  BY <1>1, <1>3, <1>4 DEF Minted, Open, m

\* The reserve alone holds tokens when a pool is made.
LEMMA ReserveAlone ==
  ASSUME NEW swap \in Nat, NEW user \in Nat,
         NEW balance, balance = [acc \in TokenAccounts |-> IF acc = Reserve THEN swap ELSE 0]
  PROVE  balance \in [TokenAccounts -> Nat] /\ Accounted(balance, {}, swap, user)
<1> DEFINE none == [acc \in TokenAccounts |-> 0]
           made == balance
<1>1. /\ none \in [TokenAccounts -> Nat] /\ made \in [TokenAccounts -> Nat] /\ swap \in Int
      /\ Reserve \in TokenAccounts /\ none[Reserve] + swap = made[Reserve]
      /\ \A other \in TokenAccounts : other # Reserve => made[other] = none[other]
  <2>1. 0 \in Nat /\ swap \in Int /\ 0 + swap = swap
    BY SMT
  <2>2. QED
    BY <2>1, AccountIdFacts
<1>2. Sum(none, TokenAccounts) = 0
  BY <1>1, TokenAccountsFinite, EmptySum
<1>3. OnlyIn(made, TokenAccounts, {} \cup {Reserve, Withdrawn})
  BY DEF OnlyIn
<1> HIDE DEF none, made
<1>4. Sum(made, TokenAccounts) = Sum(none, TokenAccounts) + swap
  BY <1>1, TokenAccountsFinite, LedgerSumAdjusts
<1>5. Sum(made, TokenAccounts) = swap + Cardinality({}) * user
  BY <1>1, <1>2, <1>4, FS_EmptySet, SMT
<1>6. QED
  BY <1>1, <1>3, <1>5 DEF Accounted, made

LEMMA InitFuzzInv == FuzzInit => FuzzInv
<1>1. SUFFICES ASSUME FuzzInit PROVE FuzzInv
  OBVIOUS
<1> DEFINE l == NewLedger
           o == InitializePool(curve, Schedule, l)
           m == Committed(l, o)
<1>2. /\ curve \in Curves /\ ledger = m /\ phase = (IF o.code = Ok THEN "Running" ELSE "Panicked")
      /\ created = [a |-> {}, b |-> {}, pool |-> {}] /\ counted = [a |-> {}, b |-> {}] /\ executed = 0
  BY <1>1, Zenon DEF FuzzInit
<1>3. /\ l.a = [acc \in TokenAccounts |-> IF acc = Reserve THEN InitialSwapA ELSE 0]
      /\ l.b = [acc \in TokenAccounts |-> IF acc = Reserve THEN InitialSwapB ELSE 0]
      /\ l.pool = [acc \in PoolAccounts |-> 0] /\ l.supply = 0
      /\ l = [a |-> l.a, b |-> l.b, pool |-> l.pool, supply |-> l.supply]
  BY DEF NewLedger
<1> HIDE DEF l
<1>4. /\ l.a \in [TokenAccounts -> Nat] /\ Accounted(l.a, {}, InitialSwapA, InitialUserA)
      /\ l.b \in [TokenAccounts -> Nat] /\ Accounted(l.b, {}, InitialSwapB, InitialUserB)
  BY <1>3, ReserveAlone, FuzzAssumption
<1>5. Held(l)
  <2>1. FeeAccount \in PoolAccounts /\ 0 \in Nat /\ 0 \in 0 .. U64_MAX
    BY LedgersAssumption, SMT DEF PoolAccounts
  <2>2. Sum(l.pool, PoolAccounts) = 0 /\ l.pool \in [PoolAccounts -> Nat]
    BY <1>3, <2>1, PoolAccountsFinite, EmptySum
  <2>3. l \in Ledger
    BY <1>3, <1>4, <2>1, <2>2 DEF Ledger
  <2>4. QED
    BY <1>3, <2>2, <2>3 DEF Held
<1>6. /\ Held(m) /\ m.a = l.a /\ m.b = l.b
      /\ o.code = Ok => Open(curve, Schedule, m) /\ m.supply = InitialSupply
  <2>1. CASE o.code = Ok
    <3>1. m = o.ledger
      BY <2>1 DEF Committed
    <3> HIDE DEF m
    <3>2. /\ Open(curve, Schedule, o.ledger) /\ o.ledger.a = l.a /\ o.ledger.b = l.b
          /\ o.ledger.supply = l.supply + InitialSupply
      BY <1>2, <1>5, <2>1, InitializedIsOpen, FuzzAssumption
    <3>3. l.supply + InitialSupply = InitialSupply
      BY <1>3, LedgersAssumption, SMT
    <3> HIDE DEF o
    <3>4. QED
      BY <3>1, <3>2, <3>3 DEF Open
  <2>2. CASE o.code # Ok
    <3>1. m = l
      BY <2>2 DEF Committed
    <3> HIDE DEF m, o
    <3>2. QED
      BY <1>5, <2>2, <3>1
  <2>3. QED
    BY <2>1, <2>2
<1> HIDE DEF o, m
<1>7. executed \in 0 .. MaxInstructions
  BY <1>2, FuzzAssumption, SMT
<1>8. QED
  BY <1>2, <1>4, <1>6, <1>7
     DEF FuzzInv, FuzzTypeOK, TokensCounted, EverythingWithdraws, Held, l

LEMMA StepKeepsFuzz == FuzzInv /\ [FuzzNext]_fuzzVars => FuzzInv'
<1>1. SUFFICES ASSUME FuzzInv, [FuzzNext]_fuzzVars PROVE FuzzInv'
  OBVIOUS
<1>2. ASSUME NEW tokenA \in AccountIds, NEW tokenB \in AccountIds, NEW amount \in Numbers, NEW bound,
             \/ \E dir \in Direction : RunSwap(tokenA, tokenB, dir, amount, bound)
             \/ \E pool \in AccountIds :
                  \/ RunDepositAll(tokenA, tokenB, pool, amount, bound)
                  \/ RunWithdrawAll(tokenA, tokenB, pool, amount, bound)
      PROVE  FuzzInv'
  <2>1. CASE \E dir \in Direction : RunSwap(tokenA, tokenB, dir, amount, bound)
    <3>1. PICK dir \in Direction : RunSwap(tokenA, tokenB, dir, amount, bound)
      BY <2>1
    <3>2. QED
      BY <1>1, <3>1, SwapRunKeeps
  <2>2. CASE \E pool \in AccountIds : RunDepositAll(tokenA, tokenB, pool, amount, bound)
    <3>1. PICK pool \in AccountIds : RunDepositAll(tokenA, tokenB, pool, amount, bound)
      BY <2>2
    <3>2. QED
      BY <1>1, <3>1, DepositAllRunKeeps
  <2>3. CASE \E pool \in AccountIds : RunWithdrawAll(tokenA, tokenB, pool, amount, bound)
    <3>1. PICK pool \in AccountIds : RunWithdrawAll(tokenA, tokenB, pool, amount, bound)
      BY <2>3
    <3>2. QED
      BY <1>1, <3>1, WithdrawAllRunKeeps
  <2>4. QED
    BY <1>2, <2>1, <2>2, <2>3, Zenon
<1>3. ASSUME NEW account \in AccountIds, NEW pool \in AccountIds, NEW dir \in Direction,
             NEW amount \in Numbers, NEW bound,
             \/ RunDepositSingle(account, dir, pool, amount, bound)
             \/ RunWithdrawSingle(account, dir, pool, amount, bound)
      PROVE  FuzzInv'
  <2>1. CASE RunDepositSingle(account, dir, pool, amount, bound)
    BY <1>1, <2>1, DepositSingleRunKeeps
  <2>2. CASE RunWithdrawSingle(account, dir, pool, amount, bound)
    BY <1>1, <2>2, WithdrawSingleRunKeeps
  <2>3. QED
    BY <1>3, <2>1, <2>2
<1>4. CASE WithdrawEverything
  BY <1>1, <1>4, WithdrawEverythingKeeps
<1>5. CASE UNCHANGED fuzzVars
  BY <1>1, <1>5
     DEF FuzzInv, FuzzTypeOK, TokensCounted, EverythingWithdraws, fuzzVars
<1>6. QED
  BY <1>1, <1>2, <1>3, <1>4, <1>5, Zenon DEF FuzzNext

LEMMA FuzzIsInductive == FuzzSpec => []FuzzInv
<1>1. FuzzInv /\ [FuzzNext]_fuzzVars => FuzzInv'
  BY StepKeepsFuzz
<1>2. QED
  BY <1>1, InitFuzzInv, PTL DEF FuzzSpec

(***************************************************************************)
(* The totals the fuzz target asserts hold for every list of instructions, *)
(* every curve, schedule and amounts: no handler makes or loses a token    *)
(* of the accounts created, and the last withdrawal, when it works, leaves *)
(* neither tokens in the pool nor pool tokens.                             *)
(***************************************************************************)
THEOREM TokensAreAccountedFor == FuzzSpec => []TokensAccountedFor
<1>1. FuzzInv => TokensAccountedFor
  <2>1. SUFFICES ASSUME FuzzInv PROVE TokensAccountedFor
    OBVIOUS
  <2>2. ASSUME NEW balance \in [TokenAccounts -> Nat], NEW ids \in SUBSET AccountIds, NEW swap, NEW user,
               Accounted(balance, ids, swap, user)
        PROVE  Sum(balance, ids \cup {Reserve, Withdrawn}) = swap + Cardinality(ids) * user
    <3>1. ids \cup {Reserve, Withdrawn} \in SUBSET TokenAccounts
      BY AccountIdFacts
    <3>2. Sum(balance, ids \cup {Reserve, Withdrawn}) = Sum(balance, TokenAccounts)
      BY <2>2, <3>1, TokenAccountsFinite, SumOverSome DEF Accounted
    <3>3. QED
      BY <2>2, <3>2 DEF Accounted
  <2>3. /\ ledger.a \in [TokenAccounts -> Nat] /\ ledger.b \in [TokenAccounts -> Nat]
        /\ created.a \in SUBSET AccountIds /\ created.b \in SUBSET AccountIds
    BY <2>1, HeldTypes DEF FuzzInv, FuzzTypeOK
  <2>4. /\ Sum(ledger.a, created.a \cup {Reserve, Withdrawn})
             = InitialSwapA + Cardinality(counted.a) * InitialUserA
        /\ Sum(ledger.b, created.b \cup {Reserve, Withdrawn})
             = InitialSwapB + Cardinality(counted.b) * InitialUserB
    BY <2>1, <2>2, <2>3 DEF FuzzInv, TokensCounted
  <2>5. /\ MapThenSumSet(LAMBDA acc : ledger.a[acc], created.a \cup {Reserve, Withdrawn})
             = InitialSwapA + Cardinality(counted.a) * InitialUserA
        /\ MapThenSumSet(LAMBDA acc : ledger.b[acc], created.b \cup {Reserve, Withdrawn})
             = InitialSwapB + Cardinality(counted.b) * InitialUserB
    BY <2>4, Zenon DEF Sum
  <2> DEFINE Claim(token) ==
               LET held == MapThenSumSet(LAMBDA acc : ledger[token][acc],
                                         created[token] \cup {Reserve, Withdrawn})
                   user == IF token = "a" THEN InitialUserA ELSE InitialUserB
                   swap == IF token = "a" THEN InitialSwapA ELSE InitialSwapB
               IN  held = swap + Cardinality(counted[token]) * user
  <2>6. TokensConserved
    <3>1. Claim("a") /\ Claim("b")
      BY <2>5
    <3> HIDE DEF Claim
    <3>2. \A token \in {"a", "b"} : Claim(token)
      BY <3>1
    <3>3. QED
      BY <3>2, Zenon DEF TokensConserved, Claim
  <2>7. QED
    BY <2>1, <2>6 DEF FuzzInv, TokensAccountedFor
<1>2. QED
  BY <1>1, FuzzIsInductive, PTL

=============================================================================
