----------------------------- MODULE PoolProofs -----------------------------
(***************************************************************************)
(* Theorems about Pool: its type invariant, and with it that no handler    *)
(* can overdraw an account or leave the width of a u64; that its holders   *)
(* can always leave; and that it implements module Vault.                  *)
(***************************************************************************)
EXTENDS Pool, CurveProofs

\* The fees a pool runs with passed SwapV1's validation.
PoolInv == TypeOK /\ ValidFees(fees)

-----------------------------------------------------------------------------
(* The token program keeps its ledgers well formed. *)

LEMMA MoveType ==
  ASSUME NEW S, NEW ledger \in [S -> Nat], NEW from \in S, NEW to \in S,
         NEW amount \in Nat, amount <= ledger[from]
  PROVE  Move(ledger, from, to, amount) \in [S -> Nat]
<1>1. /\ \A acc \in S : ledger[acc] \in Nat
      /\ ledger[from] - amount \in Nat
      /\ ledger[from] - amount + amount \in Nat /\ ledger[to] + amount \in Nat
  BY SMT
<1>2. QED
  BY <1>1, SMT DEF Move

LEMMA CreditType ==
  ASSUME NEW ledger \in [PoolAccounts -> Nat], NEW to \in Hosts, NEW amount \in Nat
  PROVE  Credit(ledger, to, amount) \in [PoolAccounts -> Nat]
<1>1. to # NoAccount => to \in PoolAccounts /\ ledger[to] + amount \in Nat
  BY SMT DEF Hosts
<1>2. QED
  BY <1>1 DEF Credit

LEMMA BurnFromType ==
  ASSUME NEW ledger \in [PoolAccounts -> Nat], NEW source \in PoolAccounts,
         NEW burnt \in Nat, NEW withdrawFee \in Nat,
         burnt + withdrawFee <= ledger[source]
  PROVE  BurnFrom(ledger, source, burnt, withdrawFee) \in [PoolAccounts -> Nat]
<1> DEFINE moved == Move(ledger, source, FeeAccount, withdrawFee)
<1>1. FeeAccount \in PoolAccounts
  BY DEF PoolAccounts
<1>2. moved \in [PoolAccounts -> Nat]
  BY <1>1, MoveType, SMT
<1>3. moved[source] - burnt \in Nat
  BY <1>1, SMT DEF Move
<1>4. QED
  BY <1>2, <1>3 DEF BurnFrom

-----------------------------------------------------------------------------
(***************************************************************************)
(* The pool tokens held and the supply.  That a ledger adds up to no more  *)
(* than total is said without a sum over the accounts, which need not be   *)
(* finite in number: however many distinct accounts are listed, adding     *)
(* their balances one after the other stays within total.                  *)
(***************************************************************************)
Distinct(list, n) == \A i, j \in 1 .. n : list[i] = list[j] => i = j

Adds(subtotal, ledger, list, n) ==
  /\ subtotal \in [0 .. n -> Int]
  /\ subtotal[0] = 0
  /\ \A i \in 1 .. n : subtotal[i] = subtotal[i - 1] + ledger[list[i]]

Backed(ledger, total) ==
  \A n \in Nat : \A list \in [1 .. n -> PoolAccounts] :
    Distinct(list, n) =>
      \E subtotal : Adds(subtotal, ledger, list, n) /\ subtotal[n] <= total

\* Empty accounts are backed by nothing.
LEMMA NothingIsBacked == Backed([acc \in PoolAccounts |-> 0], 0)
<1> DEFINE none == [acc \in PoolAccounts |-> 0]
<1>1. SUFFICES ASSUME NEW n \in Nat, NEW list \in [1 .. n -> PoolAccounts]
               PROVE  \E subtotal : Adds(subtotal, none, list, n) /\ subtotal[n] <= 0
  BY DEF Backed
<1> DEFINE zeros == [i \in 0 .. n |-> 0]
<1>2. Adds(zeros, none, list, n)
  <2>1. \A i \in 1 .. n : list[i] \in PoolAccounts /\ i \in 0 .. n /\ i - 1 \in 0 .. n
    BY SMT
  <2>2. 0 \in 0 .. n
    BY SMT
  <2>3. QED
    BY <2>1, <2>2, SMT DEF Adds
<1>3. zeros[n] <= 0
  BY SMT
<1>4. QED
  BY <1>2, <1>3

\* One account more: what the accounts listed leave of the total covers it.
LEMMA RoomForOneMore ==
  ASSUME NEW ledger \in [PoolAccounts -> Nat], NEW total \in Int, Backed(ledger, total),
         NEW n \in Nat, NEW list \in [1 .. n -> PoolAccounts], Distinct(list, n),
         NEW acc \in PoolAccounts, \A i \in 1 .. n : list[i] # acc
  PROVE  \E subtotal : Adds(subtotal, ledger, list, n) /\ subtotal[n] + ledger[acc] <= total
<1> DEFINE longer == [i \in 1 .. n + 1 |-> IF i = n + 1 THEN acc ELSE list[i]]
<1>1. /\ n + 1 \in Nat /\ 0 \in 0 .. n /\ n \in 0 .. n /\ n \in 0 .. n + 1
      /\ n + 1 \in 1 .. n + 1 /\ (n + 1) - 1 = n
      /\ \A i \in 1 .. n : i \in 1 .. n + 1 /\ i # n + 1 /\ i - 1 \in 0 .. n /\ i \in 0 .. n
      /\ \A i \in 0 .. n : i \in 0 .. n + 1
      /\ \A i \in 1 .. n + 1 : i \in 1 .. n \/ i = n + 1
  BY SMT
<1>2. longer \in [1 .. n + 1 -> PoolAccounts]
  BY <1>1
<1>3. Distinct(longer, n + 1)
  BY <1>1 DEF Distinct
<1>4. PICK sum : Adds(sum, ledger, longer, n + 1) /\ sum[n + 1] <= total
  BY <1>1, <1>2, <1>3 DEF Backed
<1> DEFINE subtotal == [i \in 0 .. n |-> sum[i]]
<1>5. Adds(subtotal, ledger, list, n)
  BY <1>1, <1>4 DEF Adds
<1>6. sum[n + 1] = subtotal[n] + ledger[acc]
  BY <1>1, <1>4 DEF Adds
<1>7. QED
  BY <1>4, <1>5, <1>6

(***************************************************************************)
(* A balance and the total changed by the same amount: the ledger remains  *)
(* backed as long as the balance does not fall below zero.                 *)
(***************************************************************************)
LEMMA AdjustKeepsBacked ==
  ASSUME NEW ledger \in [PoolAccounts -> Nat], NEW total \in Int, Backed(ledger, total),
         NEW acc \in PoolAccounts, NEW change \in Int,
         NEW after \in [PoolAccounts -> Nat],
         after[acc] = ledger[acc] + change,
         \A other \in PoolAccounts : other # acc => after[other] = ledger[other]
  PROVE  Backed(after, total + change)
<1>1. SUFFICES ASSUME NEW n \in Nat, NEW list \in [1 .. n -> PoolAccounts], Distinct(list, n)
               PROVE  \E subtotal : Adds(subtotal, after, list, n)
                                      /\ subtotal[n] <= total + change
  BY DEF Backed
<1>2. /\ 0 \in 0 .. n /\ n \in 0 .. n
      /\ \A i \in 1 .. n : list[i] \in PoolAccounts /\ i \in 0 .. n /\ i - 1 \in 0 .. n
  BY SMT
<1>3. CASE \A i \in 1 .. n : list[i] # acc
  <2>1. PICK sum : Adds(sum, ledger, list, n) /\ sum[n] + ledger[acc] <= total
    BY <1>1, <1>3, RoomForOneMore
  <2>2. Adds(sum, after, list, n)
    BY <1>2, <1>3, <2>1 DEF Adds
  <2>3. sum[n] \in Int /\ ledger[acc] \in Nat /\ ledger[acc] + change \in Nat
    BY <1>2, <2>1 DEF Adds
  <2>4. sum[n] <= total + change
    BY <2>1, <2>3, SMT
  <2>5. QED
    BY <2>2, <2>4
<1>4. CASE \E j \in 1 .. n : list[j] = acc
  <2>1. PICK j \in 1 .. n : list[j] = acc
    BY <1>4
  <2>2. PICK sum : Adds(sum, ledger, list, n) /\ sum[n] <= total
    BY <1>1 DEF Backed
  <2> DEFINE subtotal == [i \in 0 .. n |-> IF i >= j THEN sum[i] + change ELSE sum[i]]
  <2>3. /\ \A i \in 0 .. n : sum[i] \in Int
        /\ sum[0] = 0 /\ \A i \in 1 .. n : sum[i] = sum[i - 1] + ledger[list[i]]
    BY <2>2 DEF Adds
  <2>4. subtotal \in [0 .. n -> Int]
    BY <2>3, SMT
  <2>5. subtotal[0] = 0
    BY <1>2, <2>1, <2>3, SMT
  <2>6. ASSUME NEW i \in 1 .. n PROVE subtotal[i] = subtotal[i - 1] + after[list[i]]
    <3>1. list[i] \in PoolAccounts /\ i \in 0 .. n /\ i - 1 \in 0 .. n /\ sum[i] \in Int
          /\ sum[i - 1] \in Int /\ ledger[list[i]] \in Nat /\ sum[i] = sum[i - 1] + ledger[list[i]]
          /\ i \in Int /\ j \in Int
      BY <1>2, <2>3, SMT
    <3>2. CASE i = j
      <4>1. after[list[i]] = ledger[list[i]] + change
        BY <3>1, <3>2, <2>1
      <4>2. subtotal[i] = sum[i] + change /\ subtotal[i - 1] = sum[i - 1]
        BY <3>1, <3>2, SMT
      <4>3. QED
        BY <3>1, <4>1, <4>2, SMT
    <3>3. CASE i # j
      <4>1. after[list[i]] = ledger[list[i]]
        BY <1>1, <3>1, <3>3, <2>1 DEF Distinct
      <4>2. i >= j <=> i - 1 >= j
        BY <3>1, <3>3, SMT
      <4>3. subtotal[i] = (IF i >= j THEN sum[i] + change ELSE sum[i])
            /\ subtotal[i - 1] = (IF i - 1 >= j THEN sum[i - 1] + change ELSE sum[i - 1])
        BY <3>1
      <4>4. QED
        BY <3>1, <4>1, <4>2, <4>3, SMT
    <3>4. QED
      BY <3>2, <3>3
  <2>7. subtotal[n] <= total + change
    BY <1>2, <2>1, <2>2, <2>3, SMT
  <2>8. QED
    BY <2>4, <2>5, <2>6, <2>7 DEF Adds
<1>5. QED
  BY <1>3, <1>4

\* No two accounts hold more than there is.
LEMMA TwoAccountsWithinTotal ==
  ASSUME NEW ledger \in [PoolAccounts -> Nat], NEW total \in Int, Backed(ledger, total),
         NEW x \in PoolAccounts, NEW y \in PoolAccounts, x # y
  PROVE  ledger[x] + ledger[y] <= total
<1> DEFINE list == [i \in 1 .. 1 |-> x]
<1>1. list \in [1 .. 1 -> PoolAccounts] /\ Distinct(list, 1) /\ \A i \in 1 .. 1 : list[i] # y
  BY SMT DEF Distinct
<1> HIDE DEF list
<1>2. PICK sum : Adds(sum, ledger, list, 1) /\ sum[1] + ledger[y] <= total
  <2>1. 1 \in Nat
    OBVIOUS
  <2>2. QED
    BY <1>1, <2>1, RoomForOneMore
<1>3. sum[1] = ledger[x]
  <2>1. sum[0] = 0 /\ sum[1] = sum[1 - 1] + ledger[list[1]] /\ list[1] = x
    BY <1>2, SMT DEF Adds, list
  <2>2. QED
    BY <2>1, SMT
<1>4. QED
  BY <1>2, <1>3

\* Tokens that move keep the total.
LEMMA MoveKeepsBacked ==
  ASSUME NEW ledger \in [PoolAccounts -> Nat], NEW total \in Int, Backed(ledger, total),
         NEW from \in PoolAccounts, NEW to \in PoolAccounts,
         NEW amount \in Nat, amount <= ledger[from]
  PROVE  Backed(Move(ledger, from, to, amount), total)
<1> DEFINE less  == [ledger EXCEPT ![from] = @ - amount]
           after == Move(ledger, from, to, amount)
<1>1. ledger[from] \in Nat /\ -amount \in Int /\ ledger[from] - amount \in Nat
      /\ ledger[from] - amount = ledger[from] + (-amount)
      /\ total + (-amount) \in Int /\ (total + (-amount)) + amount = total
  BY SMT
<1>2. less \in [PoolAccounts -> Nat] /\ less[from] = ledger[from] + (-amount)
      /\ \A other \in PoolAccounts : other # from => less[other] = ledger[other]
  BY <1>1
<1>3. after \in [PoolAccounts -> Nat] /\ after[to] = less[to] + amount
      /\ \A other \in PoolAccounts : other # to => after[other] = less[other]
  <2>1. after \in [PoolAccounts -> Nat] /\ after = [less EXCEPT ![to] = @ + amount]
    BY MoveType DEF Move
  <2> HIDE DEF less, after
  <2>2. QED
    BY <1>2, <2>1
<1> HIDE DEF less, after
<1>4. Backed(less, total + (-amount))
  BY <1>1, <1>2, AdjustKeepsBacked
<1>5. Backed(after, (total + (-amount)) + amount)
  BY <1>1, <1>2, <1>3, <1>4, AdjustKeepsBacked
<1>6. QED
  BY <1>1, <1>5 DEF after

\* Tokens that are minted are added to it.
LEMMA CreditKeepsBacked ==
  ASSUME NEW ledger \in [PoolAccounts -> Nat], NEW total \in Int, Backed(ledger, total),
         NEW to \in Hosts, NEW amount \in Nat
  PROVE  /\ to # NoAccount => Backed(Credit(ledger, to, amount), total + amount)
         /\ to = NoAccount => Backed(Credit(ledger, to, amount), total)
<1>1. CASE to # NoAccount
  <2> DEFINE after == Credit(ledger, to, amount)
  <2>1. to \in PoolAccounts /\ after \in [PoolAccounts -> Nat]
    BY <1>1, CreditType DEF Hosts
  <2>2. after[to] = ledger[to] + amount
        /\ \A other \in PoolAccounts : other # to => after[other] = ledger[other]
    BY <1>1, <2>1 DEF Credit
  <2> HIDE DEF after
  <2>3. Backed(after, total + amount)
    BY <2>1, <2>2, AdjustKeepsBacked
  <2>4. QED
    BY <1>1, <2>3 DEF after
<1>2. QED
  BY <1>1 DEF Credit

\* Tokens that are burnt are taken off it; the withdrawal fee only moves.
LEMMA BurnFromKeepsBacked ==
  ASSUME NEW ledger \in [PoolAccounts -> Nat], NEW total \in Int, Backed(ledger, total),
         NEW source \in PoolAccounts, NEW burnt \in Nat, NEW withdrawFee \in Nat,
         burnt + withdrawFee <= ledger[source]
  PROVE  Backed(BurnFrom(ledger, source, burnt, withdrawFee), total - burnt)
<1> DEFINE moved == Move(ledger, source, FeeAccount, withdrawFee)
<1>1. FeeAccount \in PoolAccounts /\ withdrawFee <= ledger[source]
  BY SMT DEF PoolAccounts
<1>2. moved \in [PoolAccounts -> Nat] /\ Backed(moved, total)
  BY <1>1, MoveType, MoveKeepsBacked
<1>3. moved[source] - burnt \in Nat
  BY <1>1, SMT DEF Move
<1> DEFINE after == BurnFrom(ledger, source, burnt, withdrawFee)
<1>4. after \in [PoolAccounts -> Nat] /\ after[source] = moved[source] - burnt
      /\ \A other \in PoolAccounts : other # source => after[other] = moved[other]
  BY <1>2, <1>3 DEF BurnFrom
<1> HIDE DEF moved, after
<1>5. /\ -burnt \in Int /\ after[source] = moved[source] + (-burnt)
      /\ total - burnt = total + (-burnt)
  BY <1>2, <1>4, SMT
<1>6. Backed(after, total + (-burnt))
  BY <1>2, <1>4, <1>5, AdjustKeepsBacked
<1>7. QED
  BY <1>5, <1>6 DEF after

-----------------------------------------------------------------------------
(* The owner's fee and the withdrawal fee. *)

LEMMA FeeParts ==
  ASSUME fees \in FeeSchedule, ValidFees(fees),
         NEW fee \in Nat, NEW host \in Hosts, NEW given \in BOOLEAN
  PROVE  /\ HostPart(fee, host) \in Nat
         /\ OwnerPart(fee, host, given) \in Nat
         /\ FeeMinted(fee, host, given) \in Nat
         /\ FeeMinted(fee, host, given) <= fee
<1>1. HostPart(fee, host) \in Nat /\ HostPart(fee, host) <= fee
  BY FeesAtMostAmount, SMT DEF HostPart
<1>2. QED
  BY <1>1, SMT DEF OwnerPart, FeeMinted

LEMMA CreditFeeType ==
  ASSUME fees \in FeeSchedule, ValidFees(fees), NEW ledger \in [PoolAccounts -> Nat],
         NEW fee \in Nat, NEW host \in Hosts, NEW given \in BOOLEAN
  PROVE  CreditFee(ledger, fee, host, given) \in [PoolAccounts -> Nat]
<1>1. FeeAccount \in Hosts
  BY DEF PoolAccounts, Hosts
<1>2. QED
  BY <1>1, FeeParts, CreditType DEF CreditFee

\* The fee's pool tokens are minted for the accounts they are credited to.
LEMMA CreditFeeKeepsBacked ==
  ASSUME fees \in FeeSchedule, ValidFees(fees), NEW ledger \in [PoolAccounts -> Nat],
         NEW total \in Int, Backed(ledger, total),
         NEW fee \in Nat, NEW host \in Hosts, NEW given \in BOOLEAN
  PROVE  Backed(CreditFee(ledger, fee, host, given), total + FeeMinted(fee, host, given))
<1> DEFINE hosted == Credit(ledger, host, HostPart(fee, host))
<1>1. /\ FeeAccount \in Hosts /\ FeeAccount # NoAccount
      /\ HostPart(fee, host) \in Nat /\ OwnerPart(fee, host, given) \in Nat
  BY PoolAssumption, FeeParts DEF PoolAccounts, Hosts
<1>2. hosted \in [PoolAccounts -> Nat] /\ Backed(hosted, total + HostPart(fee, host))
  <2>1. CASE host = NoAccount
    <3>1. HostPart(fee, host) = 0 /\ total + 0 = total
      BY <2>1, SMT DEF HostPart
    <3>2. QED
      BY <1>1, <2>1, <3>1, CreditType, CreditKeepsBacked
  <2>2. CASE host # NoAccount
    BY <1>1, <2>2, CreditType, CreditKeepsBacked
  <2>3. QED
    BY <2>1, <2>2
<1> HIDE DEF hosted
<1>3. total + HostPart(fee, host) \in Int
      /\ (total + HostPart(fee, host)) + OwnerPart(fee, host, given)
           = total + FeeMinted(fee, host, given)
  BY <1>1, SMT DEF FeeMinted
<1>4. Backed(Credit(hosted, FeeAccount, OwnerPart(fee, host, given)),
             (total + HostPart(fee, host)) + OwnerPart(fee, host, given))
  BY <1>1, <1>2, <1>3, CreditKeepsBacked
<1>5. QED
  BY <1>3, <1>4 DEF CreditFee, hosted

\* Only a withdrawal or a transfer of its owner's makes a balance fall.
LEMMA CreditNeverTakes ==
  ASSUME NEW ledger \in [PoolAccounts -> Nat], NEW to \in Hosts, NEW amount \in Nat,
         NEW acc \in PoolAccounts
  PROVE  Credit(ledger, to, amount)[acc] >= ledger[acc]
<1>1. ledger[acc] \in Nat
  OBVIOUS
<1>2. QED
  BY <1>1, SMT DEF Credit

LEMMA CreditFeeNeverTakes ==
  ASSUME fees \in FeeSchedule, ValidFees(fees), NEW ledger \in [PoolAccounts -> Nat],
         NEW fee \in Nat, NEW host \in Hosts, NEW given \in BOOLEAN, NEW acc \in PoolAccounts
  PROVE  CreditFee(ledger, fee, host, given)[acc] >= ledger[acc]
<1> DEFINE hosted == Credit(ledger, host, HostPart(fee, host))
<1>1. FeeAccount \in Hosts /\ HostPart(fee, host) \in Nat /\ OwnerPart(fee, host, given) \in Nat
  BY FeeParts DEF PoolAccounts, Hosts
<1>2. hosted \in [PoolAccounts -> Nat] /\ hosted[acc] >= ledger[acc]
  BY <1>1, CreditType, CreditNeverTakes
<1> HIDE DEF hosted
<1>3. Credit(hosted, FeeAccount, OwnerPart(fee, host, given))[acc] >= hosted[acc]
  BY <1>1, <1>2, CreditNeverTakes
<1>4. hosted[acc] \in Nat /\ ledger[acc] \in Nat
      /\ Credit(hosted, FeeAccount, OwnerPart(fee, host, given))[acc] \in Nat
  BY <1>1, <1>2, CreditType
<1>5. QED
  BY <1>2, <1>3, <1>4, SMT DEF CreditFee, hosted

\* Nobody signs for the first pool tokens: no withdrawal is theirs.
LEMMA BurnSparesInitDestination ==
  ASSUME NEW ledger \in [PoolAccounts -> Nat], NEW source \in Signers, NEW burnt, NEW fee
  PROVE  BurnFrom(ledger, source, burnt, fee)[InitDestination] = ledger[InitDestination]
<1>1. source # InitDestination /\ FeeAccount # InitDestination
      /\ InitDestination \in PoolAccounts /\ source \in PoolAccounts
  BY PoolAssumption DEF Signers, PoolAccounts
<1>2. QED
  BY <1>1 DEF BurnFrom, Move

(***************************************************************************)
(* What a handler owes the ledger: balances stay backed by the supply, and *)
(* the first pool tokens stay where Initialize put them.                   *)
(***************************************************************************)
LedgerKept ==
  /\ Backed(poolToken, supply) => Backed(poolToken', supply')
  /\ poolToken'[InitDestination] >= poolToken[InitDestination]
  /\ initialized' = initialized

LEMMA PoolTokensType ==
  ASSUME NEW amount \in Nat, NEW a \in Nat, NEW b \in Nat, NEW total \in Nat,
         NEW dir \in Direction, NEW round \in Rounding, NEW p \in Nat,
         TotalValue(a, b, p) > 0
  PROVE  TradingTokensToPoolTokens(amount, a, b, total, dir, round, p) \in Nat
<1>1. GivenValue(amount, dir, p) \in Nat
  BY GivenValueBounds
<1>2. TotalValue(a, b, p) \in Nat \ {0}
  BY TotalValueBounds, SMT
<1>3. total * GivenValue(amount, dir, p) \in Nat
  BY <1>1, SMT
<1>4. QED
  BY <1>2, <1>3, DivideTypes DEF TradingTokensToPoolTokens

LEMMA FeePoolTokensType ==
  ASSUME price \in Nat, NEW ownerFee \in Nat, NEW a \in Int, NEW b \in Int,
         NEW total \in Nat, NEW dir \in Direction, FeePoolTokensDefined(ownerFee, a, b)
  PROVE  FeePoolTokens(ownerFee, a, b, total, dir) \in Nat
<1>1. CASE ownerFee = 0
  BY <1>1 DEF FeePoolTokens
<1>2. CASE ownerFee > 0
  <2>1. a \in Nat /\ b \in Nat /\ TotalValue(a, b, price) > 0
    BY <1>2, SMT DEF FeePoolTokensDefined
  <2>2. "Floor" \in Rounding
    BY DEF Rounding
  <2>3. TradingTokensToPoolTokens(ownerFee, a, b, total, dir, "Floor", price) \in Nat
    BY <2>1, <2>2, PoolTokensType
  <2>4. QED
    BY <1>2, <2>3, SMT DEF FeePoolTokens
<1>3. QED
  BY <1>1, <1>2, SMT

LEMMA WithdrawFeeType ==
  ASSUME fees \in FeeSchedule, ValidFees(fees), NEW poolAmount \in Nat, NEW source
  PROVE  /\ WithdrawFee(poolAmount, source) \in Nat
         /\ WithdrawFee(poolAmount, source) <= poolAmount
BY FeesAtMostAmount, SMT DEF WithdrawFee

-----------------------------------------------------------------------------
(* One lemma for each handler. *)

LEMMA InitializeKeepsPoolInv ==
  ASSUME PoolInv, NEW f \in FeeSchedules, Initialize(f)
  PROVE  PoolInv'
<1>1. f \in FeeSchedule /\ InitialSupply \in Amounts /\ InitialSupply \in Nat
  BY PoolAssumption, SMT DEF Amounts
<1>2. poolToken' \in [PoolAccounts -> Nat]
  BY <1>1, CreditType DEF PoolInv, TypeOK, Initialize, Hosts, PoolAccounts
<1>3. QED
  BY <1>1, <1>2 DEF PoolInv, TypeOK, Initialize

LEMMA SwapKeepsPoolInv ==
  ASSUME PoolInv, NEW dir \in Direction, NEW source \in TokenAccounts,
         NEW destination \in TokenAccounts, NEW amount \in Amounts,
         NEW minimum \in Limits, NEW host \in Hosts,
         Swap(dir, source, destination, amount, minimum, host)
  PROVE  PoolInv' /\ LedgerKept
<1> DEFINE from == IF dir = "AtoB" THEN tokenA ELSE tokenB
           into == IF dir = "AtoB" THEN tokenB ELSE tokenA
           r    == SwapResult(amount, dir, fees, price)
           kept == from[Reserve] + r.sourceAmount - r.ownerFee
           left == into[Reserve] - r.destinationAmount
           a    == IF dir = "AtoB" THEN kept ELSE left
           b    == IF dir = "AtoB" THEN left ELSE kept
           fee  == FeePoolTokens(r.ownerFee, a, b, supply, dir)
           minted == FeeMinted(fee, host, TRUE)
<1>1. /\ Reserve \in TokenAccounts /\ amount \in Nat /\ price \in Nat
      /\ from \in [TokenAccounts -> Nat] /\ into \in [TokenAccounts -> Nat]
      /\ fees \in FeeSchedule /\ ValidFees(fees) /\ supply \in Nat
  BY PoolAssumption, SMT DEF PoolInv, TypeOK, Swap, TokenAccounts, Amounts
<1>2. SwapDefined(amount, into[Reserve], dir, fees, price)
  BY DEF Swap
<1>3. from[Reserve] \in Nat /\ into[Reserve] \in Nat
  BY <1>1
<1>4. /\ r.sourceAmount \in Nat /\ r.destinationAmount \in Nat /\ r.ownerFee \in Nat
      /\ r.destinationAmount <= into[Reserve]
  BY <1>1, <1>2, <1>3, SwapWithFeesKeepsValue
<1>5. r.sourceAmount <= from[source]
  BY DEF Swap
<1>6. tokenA' \in [TokenAccounts -> Nat] /\ tokenB' \in [TokenAccounts -> Nat]
  <2>1. /\ Move(from, source, Reserve, r.sourceAmount) \in [TokenAccounts -> Nat]
        /\ Move(into, Reserve, destination, r.destinationAmount) \in [TokenAccounts -> Nat]
    BY <1>1, <1>4, <1>5, MoveType
  <2>2. SwapTransfers(dir, source, destination, r.sourceAmount, r.destinationAmount)
    BY DEF Swap
  <2>3. QED
    BY <2>1, <2>2 DEF SwapTransfers
<1>7. fee \in Nat
  <2>1. a \in Int /\ b \in Int
    BY <1>3, <1>4, SMT
  <2>2. FeePoolTokensDefined(r.ownerFee, a, b)
    BY DEF Swap
  <2>3. QED
    BY <1>1, <1>4, <2>1, <2>2, FeePoolTokensType
<1>8. minted \in Nat /\ CreditFee(poolToken, fee, host, TRUE) \in [PoolAccounts -> Nat]
  BY <1>1, <1>7, FeeParts, CreditFeeType DEF PoolInv, TypeOK
<1>9. supply + minted <= U64_MAX /\ supply' = supply + minted
      /\ poolToken' = CreditFee(poolToken, fee, host, TRUE)
      /\ UNCHANGED <<initialized, fees, price, feeAccountOpen>>
  BY DEF Swap
<1>12. LedgerKept
  <2>1. poolToken \in [PoolAccounts -> Nat] /\ InitDestination \in PoolAccounts
        /\ supply \in Int /\ TRUE \in BOOLEAN
    BY <1>1 DEF PoolInv, TypeOK, PoolAccounts
  <2>2. Backed(poolToken, supply) => Backed(CreditFee(poolToken, fee, host, TRUE), supply + minted)
    BY <1>1, <1>7, <2>1, CreditFeeKeepsBacked
  <2>3. CreditFee(poolToken, fee, host, TRUE)[InitDestination] >= poolToken[InitDestination]
    BY <1>1, <1>7, <2>1, CreditFeeNeverTakes
  <2>4. QED
    BY <1>9, <2>2, <2>3 DEF LedgerKept
<1> HIDE DEF from, into, r, fee, minted
<1>10. supply' \in Amounts
  BY <1>1, <1>8, <1>9, PoolAssumption, SMT DEF Amounts
<1>11. QED
  BY <1>1, <1>6, <1>8, <1>9, <1>10, <1>12 DEF PoolInv, TypeOK

LEMMA ReserveShareType ==
  ASSUME NEW poolTokens \in Nat, NEW reserve \in Nat, NEW total \in Nat \ {0},
         NEW round \in Rounding
  PROVE  PoolTokensToTradingTokens(poolTokens, reserve, total, round) \in Nat
<1>1. poolTokens * reserve \in Nat
  BY SMT
<1>2. QED
  BY <1>1, DivideTypes DEF PoolTokensToTradingTokens

LEMMA DepositAllKeepsPoolInv ==
  ASSUME PoolInv, NEW source \in TokenAccounts, NEW destination \in PoolAccounts,
         NEW poolAmount \in Amounts, NEW limit \in Limits,
         DepositAll(source, destination, poolAmount, limit, limit)
  PROVE  PoolInv' /\ LedgerKept
<1> DEFINE a == PoolTokensToTradingTokens(poolAmount, tokenA[Reserve], supply, "Ceiling")
           b == PoolTokensToTradingTokens(poolAmount, tokenB[Reserve], supply, "Ceiling")
<1>1. /\ Reserve \in TokenAccounts /\ poolAmount \in Nat /\ "Ceiling" \in Rounding
      /\ tokenA[Reserve] \in Nat /\ tokenB[Reserve] \in Nat
      /\ supply \in Nat \ {0} /\ destination \in Hosts
  BY SMT DEF PoolInv, TypeOK, DepositAll, TokenAccounts, Amounts, Rounding, Hosts
<1>2. a \in Nat /\ b \in Nat
  BY <1>1, ReserveShareType
<1>3. tokenA' \in [TokenAccounts -> Nat] /\ tokenB' \in [TokenAccounts -> Nat]
  BY <1>1, <1>2, MoveType DEF PoolInv, TypeOK, DepositAll
<1>4. poolToken' \in [PoolAccounts -> Nat]
  BY <1>1, CreditType DEF PoolInv, TypeOK, DepositAll
<1>5. supply' \in Amounts
  BY <1>1, PoolAssumption, SMT DEF DepositAll, Amounts
<1>6. LedgerKept
  <2>1. destination # NoAccount /\ InitDestination \in PoolAccounts
    BY PoolAssumption DEF PoolAccounts
  <2>2. /\ poolToken' = Credit(poolToken, destination, poolAmount)
        /\ supply' = supply + poolAmount /\ initialized' = initialized
    BY DEF DepositAll
  <2>3. QED
    BY <1>1, <2>1, <2>2, CreditKeepsBacked, CreditNeverTakes DEF LedgerKept, PoolInv, TypeOK
<1>7. QED
  BY <1>3, <1>4, <1>5, <1>6 DEF PoolInv, TypeOK, DepositAll

LEMMA RedeemedType ==
  ASSUME NEW ledger, ledger[Reserve] \in Nat, supply \in Nat \ {0}, NEW burnt \in Nat
  PROVE  Redeemed(ledger, burnt) \in Nat /\ Redeemed(ledger, burnt) <= ledger[Reserve]
<1>1. "Floor" \in Rounding
  BY DEF Rounding
<1>2. PoolTokensToTradingTokens(burnt, ledger[Reserve], supply, "Floor") \in Nat
  BY <1>1, ReserveShareType
<1>3. QED
  BY <1>2, SMT DEF Redeemed, AtMost

LEMMA WithdrawAllKeepsPoolInv ==
  ASSUME PoolInv, NEW source \in PoolAccounts, NEW destination \in TokenAccounts,
         NEW poolAmount \in Amounts, NEW limit \in Limits,
         WithdrawAll(source, destination, poolAmount, limit, limit)
  PROVE  PoolInv' /\ LedgerKept
<1> DEFINE fee   == WithdrawFee(poolAmount, source)
           burnt == poolAmount - fee
           a == Redeemed(tokenA, burnt)
           b == Redeemed(tokenB, burnt)
<1>1. /\ Reserve \in TokenAccounts /\ poolAmount \in Nat /\ "Floor" \in Rounding
      /\ tokenA[Reserve] \in Nat /\ tokenB[Reserve] \in Nat
      /\ supply \in Nat \ {0} /\ poolToken \in [PoolAccounts -> Nat]
      /\ fees \in FeeSchedule /\ ValidFees(fees)
  BY SMT DEF PoolInv, TypeOK, WithdrawAll, WithdrawAllSucceeds, TokenAccounts, Amounts, Rounding
<1>2. fee \in Nat /\ fee <= poolAmount
  BY <1>1, WithdrawFeeType
<1>3. burnt \in Nat /\ burnt <= supply /\ burnt + fee <= poolToken[source]
  BY <1>1, <1>2, SMT DEF WithdrawAll, WithdrawAllSucceeds
<1>4. /\ a \in Nat /\ a <= tokenA[Reserve]
      /\ b \in Nat /\ b <= tokenB[Reserve]
  BY <1>1, <1>3, RedeemedType
<1>5. tokenA' \in [TokenAccounts -> Nat] /\ tokenB' \in [TokenAccounts -> Nat]
  BY <1>1, <1>4, MoveType DEF PoolInv, TypeOK, WithdrawAll
<1>6. poolToken' \in [PoolAccounts -> Nat]
  BY <1>1, <1>2, <1>3, BurnFromType DEF WithdrawAll
<1>7. supply' \in Amounts
  <2>1. supply' = supply - burnt
    BY DEF WithdrawAll
  <2>2. QED
    BY <1>3, <2>1, PoolAssumption, SMT DEF PoolInv, TypeOK, Amounts
<1>8. LedgerKept
  <2>1. /\ poolToken' = BurnFrom(poolToken, source, burnt, fee) /\ source \in Signers
        /\ supply' = supply - burnt /\ initialized' = initialized
    BY DEF WithdrawAll, WithdrawAllSucceeds
  <2>2. supply \in Int /\ poolToken[InitDestination] \in Nat
    BY <1>1 DEF PoolAccounts
  <2> HIDE DEF burnt, fee
  <2>3. QED
    BY <1>1, <1>2, <1>3, <2>1, <2>2, BurnFromKeepsBacked, BurnSparesInitDestination, SMT
       DEF LedgerKept
<1>9. QED
  BY <1>5, <1>6, <1>7, <1>8 DEF PoolInv, TypeOK, WithdrawAll

LEMMA DepositSingleKeepsPoolInv ==
  ASSUME PoolInv, NEW dir \in Direction, NEW source \in TokenAccounts,
         NEW destination \in PoolAccounts, NEW amount \in Amounts, NEW limit \in Limits,
         NEW given \in BOOLEAN, NEW host \in Hosts,
         DepositSingleExactIn(dir, source, destination, amount, limit, given, host)
  PROVE  PoolInv' /\ LedgerKept
<1> DEFINE a    == tokenA[Reserve]
           b    == tokenB[Reserve]
           poolAmount == DepositSingle(amount, a, b, supply, dir, fees, price)
           ownerFee   == DepositOwnerFee(amount, fees)
           a2   == IF dir = "AtoB" THEN a + amount - ownerFee ELSE a
           b2   == IF dir = "AtoB" THEN b ELSE b + amount - ownerFee
           fee  == FeePoolTokens(ownerFee, a2, b2, supply + poolAmount, dir)
           minted == FeeMinted(fee, host, given)
           credited == CreditFee(poolToken, fee, host, given)
<1>1. /\ Reserve \in TokenAccounts /\ amount \in Nat /\ "Floor" \in Rounding
      /\ a \in Nat /\ b \in Nat /\ supply \in Nat /\ price \in Nat
      /\ fees \in FeeSchedule /\ ValidFees(fees) /\ destination \in Hosts
  BY SMT DEF PoolInv, TypeOK, DepositSingleExactIn, TokenAccounts, Amounts, Rounding, Hosts
<1>2. DepositNet(amount, fees) >= 0 /\ TotalValue(a, b, price) > 0
  BY DEF DepositSingleExactIn, DepositDefined
<1>3. DepositNet(amount, fees) \in Nat /\ ownerFee \in Nat
  BY <1>1, <1>2, DepositAmountTypes
<1>4. poolAmount \in Nat
  BY <1>1, <1>2, <1>3, PoolTokensType DEF DepositSingle
<1>5. fee \in Nat
  <2>1. a2 \in Int /\ b2 \in Int /\ supply + poolAmount \in Nat
    BY <1>1, <1>3, <1>4, SMT
  <2>2. FeePoolTokensDefined(ownerFee, a2, b2)
    BY DEF DepositSingleExactIn
  <2>3. QED
    BY <1>1, <1>3, <2>1, <2>2, FeePoolTokensType
<1>6. minted \in Nat /\ credited \in [PoolAccounts -> Nat]
  BY <1>1, <1>5, FeeParts, CreditFeeType DEF PoolInv, TypeOK
<1>7. /\ supply + poolAmount + minted <= U64_MAX
      /\ supply' = supply + poolAmount + minted
      /\ poolToken' = Credit(credited, destination, poolAmount)
      /\ UNCHANGED <<initialized, fees, price, feeAccountOpen>>
  BY DEF DepositSingleExactIn
<1>8. tokenA' \in [TokenAccounts -> Nat] /\ tokenB' \in [TokenAccounts -> Nat]
  BY <1>1, MoveType DEF PoolInv, TypeOK, DepositSingleExactIn
<1>9. poolToken' \in [PoolAccounts -> Nat]
  BY <1>1, <1>4, <1>6, <1>7, CreditType
<1>12. LedgerKept
  <2>1. poolToken \in [PoolAccounts -> Nat] /\ InitDestination \in PoolAccounts
        /\ supply \in Int /\ destination # NoAccount
    BY <1>1, PoolAssumption DEF PoolInv, TypeOK, PoolAccounts
  <2>2. Backed(poolToken, supply) => Backed(credited, supply + minted)
    BY <1>1, <1>5, <2>1, CreditFeeKeepsBacked
  <2>3. credited[InitDestination] >= poolToken[InitDestination]
    BY <1>1, <1>5, <2>1, CreditFeeNeverTakes
  <2> HIDE DEF credited, poolAmount, minted
  <2>4. supply + minted \in Int /\ supply' = (supply + minted) + poolAmount
    BY <1>4, <1>6, <1>7, <2>1, SMT
  <2>5. Backed(poolToken, supply) => Backed(poolToken', supply')
    BY <1>1, <1>4, <1>6, <1>7, <2>1, <2>2, <2>4, CreditKeepsBacked
  <2>6. poolToken'[InitDestination] >= credited[InitDestination]
    BY <1>1, <1>4, <1>6, <1>7, <2>1, CreditNeverTakes
  <2>7. /\ poolToken[InitDestination] \in Nat /\ credited[InitDestination] \in Nat
        /\ poolToken'[InitDestination] \in Nat
    BY <1>6, <1>9, <2>1
  <2>8. QED
    BY <1>7, <2>3, <2>5, <2>6, <2>7, SMT DEF LedgerKept
<1> HIDE DEF poolAmount, minted
<1>10. supply' \in Amounts
  BY <1>1, <1>4, <1>6, <1>7, PoolAssumption, SMT DEF Amounts
<1>11. QED
  BY <1>7, <1>8, <1>9, <1>10, <1>12 DEF PoolInv, TypeOK

LEMMA WithdrawSingleKeepsPoolInv ==
  ASSUME PoolInv, NEW dir \in Direction, NEW source \in PoolAccounts,
         NEW destination \in TokenAccounts, NEW amount \in Amounts, NEW limit \in Limits,
         NEW host \in Hosts,
         WithdrawSingleExactOut(dir, source, destination, amount, limit, host)
  PROVE  PoolInv' /\ LedgerKept
<1> DEFINE a    == tokenA[Reserve]
           b    == tokenB[Reserve]
           burnt == WithdrawSingle(amount, a, b, supply, dir, fees, price)
           withdrawFee == WithdrawFee(burnt, source)
           ownerFee    == WithdrawOwnerFee(amount, fees)
           a2   == IF dir = "AtoB" THEN a - amount - ownerFee ELSE a
           b2   == IF dir = "AtoB" THEN b ELSE b - amount - ownerFee
           fee  == FeePoolTokens(ownerFee, a2, b2, supply - burnt, dir)
           minted == FeeMinted(fee, host, TRUE)
           credited == CreditFee(poolToken, fee, host, TRUE)
<1>1. /\ Reserve \in TokenAccounts /\ amount \in Nat /\ "Ceiling" \in Rounding
      /\ a \in Nat /\ b \in Nat /\ supply \in Nat /\ price \in Nat
      /\ fees \in FeeSchedule /\ ValidFees(fees)
  BY SMT DEF PoolInv, TypeOK, WithdrawSingleExactOut, TokenAccounts, Amounts, Rounding
<1>2. PreTradingFeeDefined(fees) /\ TotalValue(a, b, price) > 0
  BY DEF WithdrawSingleExactOut, WithdrawDefined
<1>3. WithdrawGross(amount, fees) \in Nat /\ ownerFee \in Nat
  BY <1>1, <1>2, WithdrawAmountTypes
<1>4. burnt \in Nat /\ burnt <= supply
  <2>1. burnt \in Nat
    BY <1>1, <1>2, <1>3, PoolTokensType DEF WithdrawSingle
  <2>2. QED
    BY <2>1 DEF WithdrawSingleExactOut
<1>5. withdrawFee \in Nat
  BY <1>1, <1>4, WithdrawFeeType
<1>6. fee \in Nat
  <2>1. a2 \in Int /\ b2 \in Int /\ supply - burnt \in Nat
    BY <1>1, <1>3, <1>4, SMT
  <2>2. FeePoolTokensDefined(ownerFee, a2, b2)
    BY DEF WithdrawSingleExactOut
  <2>3. QED
    BY <1>1, <1>3, <2>1, <2>2, FeePoolTokensType
<1>7. minted \in Nat /\ credited \in [PoolAccounts -> Nat]
  BY <1>1, <1>6, FeeParts, CreditFeeType DEF PoolInv, TypeOK
<1>8. /\ burnt + withdrawFee <= credited[source]
      /\ poolToken' = BurnFrom(credited, source, burnt, withdrawFee)
      /\ supply + minted <= U64_MAX
      /\ supply' = supply + minted - burnt
      /\ UNCHANGED <<initialized, fees, price, feeAccountOpen>>
  BY DEF WithdrawSingleExactOut
<1>9. tokenA' \in [TokenAccounts -> Nat] /\ tokenB' \in [TokenAccounts -> Nat]
  BY <1>1, MoveType DEF PoolInv, TypeOK, WithdrawSingleExactOut
<1>10. poolToken' \in [PoolAccounts -> Nat]
  BY <1>4, <1>5, <1>7, <1>8, BurnFromType
<1>13. LedgerKept
  <2>1. /\ poolToken \in [PoolAccounts -> Nat] /\ InitDestination \in PoolAccounts
        /\ supply \in Int /\ source \in Signers
    BY <1>1 DEF PoolInv, TypeOK, PoolAccounts, WithdrawSingleExactOut
  <2>2. Backed(poolToken, supply) => Backed(credited, supply + minted)
    BY <1>1, <1>6, <2>1, CreditFeeKeepsBacked
  <2>3. credited[InitDestination] >= poolToken[InitDestination]
    BY <1>1, <1>6, <2>1, CreditFeeNeverTakes
  <2> HIDE DEF credited, burnt, minted, withdrawFee
  <2>4. supply + minted \in Int
    BY <1>7, <2>1, SMT
  <2>5. Backed(poolToken, supply) => Backed(poolToken', supply')
    <3>1. (supply + minted) - burnt = supply + minted - burnt
      BY <1>4, <1>7, <2>1, SMT
    <3>2. QED
      BY <1>4, <1>5, <1>7, <1>8, <2>2, <2>4, <3>1, BurnFromKeepsBacked
  <2>6. poolToken'[InitDestination] = credited[InitDestination]
    BY <1>7, <1>8, <2>1, BurnSparesInitDestination
  <2>7. QED
    BY <1>8, <2>3, <2>5, <2>6 DEF LedgerKept
<1> HIDE DEF burnt, minted
<1>11. supply' \in Amounts
  BY <1>1, <1>4, <1>7, <1>8, PoolAssumption, SMT DEF Amounts
<1>12. QED
  BY <1>8, <1>9, <1>10, <1>11, <1>13 DEF PoolInv, TypeOK

LEMMA TokenProgramKeepsPoolInv ==
  ASSUME PoolInv, TokenProgram
  PROVE  PoolInv'
<1>1. PICK amount \in Amounts :
        \/ \E source \in TokenAccounts : DonateA(source, amount) \/ DonateB(source, amount)
        \/ \E source, destination \in PoolAccounts :
             TransferPoolTokens(source, destination, amount)
        \/ \E source \in PoolAccounts : BurnPoolTokens(source, amount)
  BY DEF TokenProgram
<1>2. Reserve \in TokenAccounts /\ amount \in Nat
  BY SMT DEF TokenAccounts, Amounts
<1>3. ASSUME NEW source \in TokenAccounts, DonateA(source, amount) \/ DonateB(source, amount)
      PROVE  PoolInv'
  BY <1>2, <1>3, MoveType DEF PoolInv, TypeOK, DonateA, DonateB, Donate
<1>4. ASSUME NEW source \in PoolAccounts, NEW destination \in PoolAccounts,
             TransferPoolTokens(source, destination, amount)
      PROVE  PoolInv'
  BY <1>2, <1>4, MoveType DEF PoolInv, TypeOK, TransferPoolTokens
<1>5. ASSUME NEW source \in PoolAccounts, BurnPoolTokens(source, amount)
      PROVE  PoolInv'
  <2>1. poolToken' \in [PoolAccounts -> Nat]
    BY <1>2, <1>5, SMT DEF PoolInv, TypeOK, BurnPoolTokens
  <2>2. supply' \in Amounts
    BY <1>2, <1>5, PoolAssumption, SMT DEF PoolInv, TypeOK, BurnPoolTokens, Amounts
  <2>3. QED
    BY <1>5, <2>1, <2>2 DEF PoolInv, TypeOK, BurnPoolTokens
<1>6. QED
  BY <1>1, <1>3, <1>4, <1>5

-----------------------------------------------------------------------------
\* The invariant of every step: balances are naturals, the schedule is valid.
LEMMA PoolInvHolds == Spec => []PoolInv
<1>1. Init => PoolInv
  <2>1. SUFFICES ASSUME Init PROVE PoolInv
    OBVIOUS
  <2>2. NoFees \in FeeSchedule /\ ValidFees(NoFees)
    BY SMT DEF NoFees, FeeSchedule, Fraction, ValidFees, ValidFraction
  <2>3. supply \in Amounts
    BY <2>1, PoolAssumption, SMT DEF Init, Amounts
  <2>4. QED
    BY <2>1, <2>2, <2>3, PoolAssumption DEF Init, PoolInv, TypeOK
<1>2. PoolInv /\ [Next]_vars => PoolInv'
  <2>1. SUFFICES ASSUME PoolInv, [Next]_vars PROVE PoolInv'
    OBVIOUS
  <2>2. ASSUME NEW f \in FeeSchedules, Initialize(f) PROVE PoolInv'
    BY <2>1, <2>2, InitializeKeepsPoolInv
  <2>3. CASE Trading
    BY <2>1, <2>3, SwapKeepsPoolInv DEF Trading
  <2>4. CASE Depositing
    BY <2>1, <2>4, DepositAllKeepsPoolInv, DepositSingleKeepsPoolInv DEF Depositing
  <2>5. CASE Withdrawing
    BY <2>1, <2>5, WithdrawAllKeepsPoolInv, WithdrawSingleKeepsPoolInv DEF Withdrawing
  <2>6. CASE TokenProgram
    BY <2>1, <2>6, TokenProgramKeepsPoolInv
  <2>7. CASE FeeAccountOwner
    BY <2>1, <2>7 DEF FeeAccountOwner, CloseFeeAccount, ReopenFeeAccount, PoolInv, TypeOK
  <2>8. CASE Reprice
    BY <2>1, <2>8, PoolAssumption DEF Reprice, PoolInv, TypeOK
  <2>9. CASE UNCHANGED vars
    BY <2>1, <2>9 DEF vars, PoolInv, TypeOK
  <2>10. QED
    BY <2>1, <2>2, <2>3, <2>4, <2>5, <2>6, <2>7, <2>8, <2>9 DEF Next
<1>3. QED
  BY <1>1, <1>2, PTL DEF Spec

(***************************************************************************)
(* Every balance stays a natural number and the supply a u64, for every    *)
(* set of users, price, fee schedule and width: no handler debits an       *)
(* account beyond its balance, whatever fees it charges on the way.        *)
(***************************************************************************)
THEOREM PoolIsTypeCorrect == Spec => []TypeOK
<1>1. PoolInv => TypeOK
  BY DEF PoolInv
<1>2. QED
  BY <1>1, PoolInvHolds, PTL
-----------------------------------------------------------------------------
(* The supply. *)

LEMMA TokenProgramKeepsLedger ==
  ASSUME PoolInv, TokenProgram
  PROVE  LedgerKept
<1>1. PICK amount \in Amounts :
        \/ \E source \in TokenAccounts : DonateA(source, amount) \/ DonateB(source, amount)
        \/ \E source, destination \in PoolAccounts :
             TransferPoolTokens(source, destination, amount)
        \/ \E source \in PoolAccounts : BurnPoolTokens(source, amount)
  BY DEF TokenProgram
<1>2. /\ poolToken \in [PoolAccounts -> Nat] /\ InitDestination \in PoolAccounts
      /\ poolToken[InitDestination] \in Nat /\ supply \in Int /\ amount \in Nat
      /\ InitDestination \notin Signers
  BY PoolAssumption, SMT DEF PoolInv, TypeOK, PoolAccounts, Amounts, Signers
<1>3. ASSUME NEW source \in TokenAccounts, DonateA(source, amount) \/ DonateB(source, amount)
      PROVE  LedgerKept
  <2>1. UNCHANGED <<poolToken, supply, initialized>>
    BY <1>3 DEF DonateA, DonateB
  <2>2. QED
    BY <1>2, <2>1, SMT DEF LedgerKept
<1>4. ASSUME NEW source \in PoolAccounts, NEW destination \in PoolAccounts,
             TransferPoolTokens(source, destination, amount)
      PROVE  LedgerKept
  <2>1. /\ poolToken' = Move(poolToken, source, destination, amount)
        /\ amount <= poolToken[source] /\ source # InitDestination
        /\ UNCHANGED <<supply, initialized>>
    BY <1>2, <1>4 DEF TransferPoolTokens
  <2>2. poolToken'[InitDestination] >= poolToken[InitDestination]
    BY <1>2, <2>1, SMT DEF Move
  <2>3. QED
    BY <1>2, <2>1, <2>2, MoveKeepsBacked DEF LedgerKept
<1>5. ASSUME NEW source \in PoolAccounts, BurnPoolTokens(source, amount)
      PROVE  LedgerKept
  <2>1. /\ poolToken' = [poolToken EXCEPT ![source] = @ - amount]
        /\ amount <= poolToken[source] /\ source # InitDestination
        /\ supply' = supply - amount /\ UNCHANGED initialized
    BY <1>2, <1>5 DEF BurnPoolTokens
  <2>2. /\ -amount \in Int /\ supply' = supply + (-amount)
        /\ poolToken' \in [PoolAccounts -> Nat]
        /\ poolToken'[source] = poolToken[source] + (-amount)
        /\ \A other \in PoolAccounts : other # source => poolToken'[other] = poolToken[other]
    BY <1>2, <2>1, SMT
  <2>3. Backed(poolToken, supply) => Backed(poolToken', supply')
    BY <1>2, <2>2, AdjustKeepsBacked
  <2>4. poolToken'[InitDestination] = poolToken[InitDestination]
    BY <1>2, <2>1
  <2>5. QED
    BY <1>2, <2>1, <2>2, <2>3, <2>4, SMT DEF LedgerKept
<1>6. QED
  BY <1>1, <1>3, <1>4, <1>5

LEMMA StepKeepsLedger ==
  ASSUME PoolInv, [Next]_vars, ~ \E f \in FeeSchedules : Initialize(f)
  PROVE  LedgerKept
<1>1. CASE Trading
  BY <1>1, SwapKeepsPoolInv DEF Trading
<1>2. CASE Depositing
  BY <1>2, DepositAllKeepsPoolInv, DepositSingleKeepsPoolInv DEF Depositing
<1>3. CASE Withdrawing
  BY <1>3, WithdrawAllKeepsPoolInv, WithdrawSingleKeepsPoolInv DEF Withdrawing
<1>4. CASE TokenProgram
  BY <1>4, TokenProgramKeepsLedger
<1>5. CASE FeeAccountOwner \/ Reprice \/ UNCHANGED vars
  <2>1. UNCHANGED <<poolToken, supply, initialized>>
    BY <1>5 DEF FeeAccountOwner, CloseFeeAccount, ReopenFeeAccount, Reprice, vars
  <2>2. poolToken[InitDestination] \in Nat
    BY DEF PoolInv, TypeOK, PoolAccounts
  <2>3. QED
    BY <2>1, <2>2, SMT DEF LedgerKept
<1>6. QED
  BY <1>1, <1>2, <1>3, <1>4, <1>5 DEF Next

(***************************************************************************)
(* The strengthening that is inductive: the balances are backed by the     *)
(* supply, and the first pool tokens are all still where they were minted. *)
(***************************************************************************)
LedgerInv ==
  /\ PoolInv
  /\ Backed(poolToken, supply)
  /\ initialized => poolToken[InitDestination] >= InitialSupply

LEMMA LedgerInvHolds == Spec => []LedgerInv
<1>1. Init => Backed(poolToken, supply) /\ ~initialized
  BY NothingIsBacked DEF Init
<1>2. ASSUME LedgerInv, PoolInv', [Next]_vars PROVE LedgerInv'
  <2>1. CASE \E f \in FeeSchedules : Initialize(f)
    <3>1. /\ InitDestination \in Hosts /\ InitDestination # NoAccount
          /\ InitialSupply \in Nat /\ poolToken \in [PoolAccounts -> Nat]
          /\ poolToken[InitDestination] \in Nat
      BY <1>2, PoolAssumption, SMT DEF LedgerInv, PoolInv, TypeOK, PoolAccounts, Hosts
    <3>2. /\ supply = 0 /\ supply' = InitialSupply
          /\ poolToken' = Credit(poolToken, InitDestination, InitialSupply)
      BY <2>1 DEF Initialize
    <3>3. Backed(poolToken', supply')
      <4>1. 0 \in Int /\ 0 + InitialSupply = InitialSupply
        BY <3>1, SMT
      <4>2. Backed(poolToken, 0)
        BY <1>2, <3>2 DEF LedgerInv
      <4>3. QED
        BY <3>1, <3>2, <4>1, <4>2, CreditKeepsBacked
    <3>4. poolToken'[InitDestination] >= InitialSupply
      BY <3>1, <3>2, SMT DEF Credit, PoolAccounts
    <3>5. QED
      BY <1>2, <3>3, <3>4 DEF LedgerInv
  <2>2. CASE ~ \E f \in FeeSchedules : Initialize(f)
    <3>1. LedgerKept
      BY <1>2, <2>2, StepKeepsLedger DEF LedgerInv
    <3>2. /\ poolToken[InitDestination] \in Nat /\ poolToken'[InitDestination] \in Nat
          /\ InitialSupply \in Nat
      BY <1>2, PoolAssumption, SMT DEF LedgerInv, PoolInv, TypeOK, PoolAccounts
    <3>3. initialized' => poolToken'[InitDestination] >= InitialSupply
      BY <1>2, <3>1, <3>2, SMT DEF LedgerInv, LedgerKept
    <3>4. QED
      BY <1>2, <3>1, <3>3 DEF LedgerInv, LedgerKept
  <2>3. QED
    BY <2>1, <2>2
<1>3. Init /\ PoolInv => LedgerInv
  BY <1>1 DEF LedgerInv
<1>4. LedgerInv /\ PoolInv' /\ [Next]_vars => LedgerInv'
  BY <1>2
<1>5. QED
  BY <1>3, <1>4, PoolInvHolds, PTL DEF Spec

(***************************************************************************)
(* The supply every handler divides by never falls below the pool tokens   *)
(* minted by Initialize, and nobody gets at those: for every set of users, *)
(* fee schedule and price.                                                 *)
(***************************************************************************)
THEOREM SupplyIsNeverDrained == Spec => []SupplyNeverDrained
<1>1. LedgerInv => SupplyNeverDrained
  <2>1. SUFFICES ASSUME LedgerInv, initialized
                 PROVE  poolToken[InitDestination] >= InitialSupply /\ supply >= InitialSupply
    BY DEF SupplyNeverDrained
  <2>2. /\ poolToken \in [PoolAccounts -> Nat] /\ supply \in Int /\ InitialSupply \in Nat
        /\ InitDestination \in PoolAccounts /\ FeeAccount \in PoolAccounts
        /\ InitDestination # FeeAccount
    BY <2>1, PoolAssumption, SMT DEF LedgerInv, PoolInv, TypeOK, PoolAccounts, Amounts
  <2>3. poolToken[InitDestination] + poolToken[FeeAccount] <= supply
    BY <2>1, <2>2, TwoAccountsWithinTotal DEF LedgerInv
  <2>4. poolToken[InitDestination] >= InitialSupply
    BY <2>1 DEF LedgerInv
  <2>5. QED
    BY <2>2, <2>3, <2>4, SMT
<1>2. QED
  BY <1>1, LedgerInvHolds, PTL

(***************************************************************************)
(* No state the pool can reach locks a holder in: a withdrawal of all of a *)
(* user's pool tokens passes every check of the handler and of the token   *)
(* program.  The supply covers the burn because the first pool tokens are  *)
(* part of it and nobody's.                                                *)
(***************************************************************************)
THEOREM HoldersCanAlwaysLeave == Spec => []ExitAlwaysOpen
<1>1. LedgerInv => ExitAlwaysOpen
  <2>1. SUFFICES ASSUME LedgerInv, initialized, NEW u \in Users
                 PROVE  WithdrawAllSucceeds(u, u, poolToken[u], 0, 0)
    BY DEF ExitAlwaysOpen
  <2> DEFINE held  == poolToken[u]
             fee   == WithdrawFee(held, u)
             burnt == held - fee
  <2>2. /\ poolToken \in [PoolAccounts -> Nat] /\ supply \in Nat
        /\ u \in PoolAccounts /\ InitDestination \in PoolAccounts
        /\ u # InitDestination /\ u # FeeAccount /\ u # Reserve
        /\ tokenA[Reserve] \in Nat /\ tokenB[Reserve] \in Nat
        /\ fees \in FeeSchedule /\ ValidFees(fees)
        /\ poolToken[InitDestination] >= InitialSupply /\ InitialSupply \in Nat \ {0}
    BY <2>1, PoolAssumption, SMT
       DEF LedgerInv, PoolInv, TypeOK, PoolAccounts, TokenAccounts, Amounts
  <2>3. held \in Nat /\ held + poolToken[InitDestination] <= supply
    BY <2>1, <2>2, TwoAccountsWithinTotal DEF LedgerInv
  <2>4. supply \in Nat \ {0} /\ held <= supply
    <3>1. poolToken[InitDestination] \in Nat
      BY <2>2
    <3>2. QED
      BY <2>2, <2>3, <3>1, SMT
  <2>5. fee \in Nat /\ fee <= held
    BY <2>2, <2>3, WithdrawFeeType
  <2>6. fee > 0 => Exists(FeeAccount)
    BY SMT DEF WithdrawFee, Exists
  <2>7. burnt \in Nat /\ burnt \in 0 .. supply
    <3> HIDE DEF held, fee
    <3>1. QED
      BY <2>3, <2>4, <2>5, SMT
  <2>8. Redeemed(tokenA, burnt) >= 0 /\ Redeemed(tokenB, burnt) >= 0
    <3> HIDE DEF burnt
    <3>1. QED
      BY <2>2, <2>4, <2>7, RedeemedType, SMT
  <2>9. u \in Signers /\ Exists(u)
    BY <2>2 DEF Signers, Exists
  <2>10. poolToken[u] <= poolToken[u]
    BY <2>3, SMT
  <2>11. QED
    BY <2>1, <2>2, <2>4, <2>6, <2>7, <2>8, <2>9, <2>10, SMT DEF WithdrawAllSucceeds
<1>2. QED
  BY <1>1, LedgerInvHolds, PTL

-----------------------------------------------------------------------------
(* Slippage. *)

(***************************************************************************)
(* The account a swap is paid from loses what the curve asks of it in the  *)
(* token given, and nothing of the other one.                              *)
(***************************************************************************)
LEMMA SwapDebits ==
  ASSUME PoolInv, NEW dir \in Direction, NEW source \in Users, NEW destination \in Users,
         NEW amount \in Amounts, NEW minimum, NEW host \in Hosts,
         Swap(dir, source, destination, amount, minimum, host),
         SwapResult(amount, dir, fees, price).sourceAmount <= amount
  PROVE  ~TakesMoreThan(amount, source)
<1> DEFINE from == IF dir = "AtoB" THEN tokenA ELSE tokenB
           into == IF dir = "AtoB" THEN tokenB ELSE tokenA
           r    == SwapResult(amount, dir, fees, price)
<1>1. /\ Reserve \in TokenAccounts /\ amount \in Nat /\ price \in Nat
      /\ source \in TokenAccounts /\ destination \in TokenAccounts
      /\ source # Reserve /\ destination # Reserve
      /\ from \in [TokenAccounts -> Nat] /\ into \in [TokenAccounts -> Nat]
      /\ fees \in FeeSchedule /\ ValidFees(fees)
  BY PoolAssumption, SMT DEF PoolInv, TypeOK, Swap, TokenAccounts, Amounts
<1>2. SwapDefined(amount, into[Reserve], dir, fees, price)
      /\ SwapTransfers(dir, source, destination, r.sourceAmount, r.destinationAmount)
  BY DEF Swap
<1>3. r.sourceAmount \in Nat /\ r.destinationAmount \in Nat
  BY <1>1, <1>2, SwapWithFeesKeepsValue
<1>4. r.sourceAmount <= amount
  OBVIOUS
<1> HIDE DEF r
<1>5. /\ Move(from, source, Reserve, r.sourceAmount)[source] = from[source] - r.sourceAmount
      /\ Move(into, Reserve, destination, r.destinationAmount)[source] >= into[source]
  <2> HIDE DEF from, into
  <2>1. from[source] \in Nat /\ into[source] \in Nat
    BY <1>1
  <2>2. QED
    BY <1>1, <1>3, <2>1, SMT DEF Move
<1>6. CASE dir = "AtoB"
  <2>1. /\ tokenA' = Move(from, source, Reserve, r.sourceAmount) /\ from = tokenA
        /\ tokenB' = Move(into, Reserve, destination, r.destinationAmount) /\ into = tokenB
    BY <1>2, <1>6 DEF SwapTransfers
  <2> HIDE DEF from, into
  <2>2. /\ tokenA'[source] = tokenA[source] - r.sourceAmount
        /\ tokenB'[source] >= tokenB[source]
        /\ tokenA[source] \in Nat /\ tokenB[source] \in Nat /\ tokenB'[source] \in Int
    <3>1. Move(into, Reserve, destination, r.destinationAmount)[source] \in Int
      BY <1>1, <1>3, SMT DEF Move
    <3>2. QED
      BY <1>1, <1>5, <2>1, <3>1
  <2>3. QED
    BY <1>1, <1>3, <1>4, <2>2, SMT DEF TakesMoreThan
<1>7. CASE dir # "AtoB"
  <2>1. /\ tokenB' = Move(from, source, Reserve, r.sourceAmount) /\ from = tokenB
        /\ tokenA' = Move(into, Reserve, destination, r.destinationAmount) /\ into = tokenA
    BY <1>2, <1>7 DEF SwapTransfers
  <2> HIDE DEF from, into
  <2>2. /\ tokenB'[source] = tokenB[source] - r.sourceAmount
        /\ tokenA'[source] >= tokenA[source]
        /\ tokenB[source] \in Nat /\ tokenA[source] \in Nat /\ tokenA'[source] \in Int
    <3>1. Move(into, Reserve, destination, r.destinationAmount)[source] \in Int
      BY <1>1, <1>3, SMT DEF Move
    <3>2. QED
      BY <1>1, <1>5, <2>1, <3>1
  <2>3. QED
    BY <1>1, <1>3, <1>4, <2>2, SMT DEF TakesMoreThan
<1>8. QED
  BY <1>6, <1>7

(***************************************************************************)
(* The bound the minimum-output check gives a caller on one side holds on  *)
(* the other side too while the pool charges one trading fee at most: no   *)
(* swap debits more than its amount_in, at any price and for any fraction. *)
(***************************************************************************)
THEOREM OneFeeDebitsAtMostAmountIn == Spec => OneFeeDebitsWithinAmountIn
<1>1. ASSUME PoolInv, fees.trade.num = 0 \/ fees.owner.num = 0
      PROVE  SwapTakesNoMoreThanAmountIn
  <2>1. SUFFICES ASSUME NEW source \in Users, NEW amount \in Amounts,
                        TakesMoreThan(amount, source),
                        NEW dir \in Direction, NEW destination \in Users, NEW host \in Hosts,
                        Swap(dir, source, destination, amount, 0, host)
                 PROVE  FALSE
    BY DEF SwapTakesNoMoreThanAmountIn
  <2> DEFINE reserve == IF dir = "AtoB" THEN tokenB[Reserve] ELSE tokenA[Reserve]
  <2>2. /\ amount \in Nat /\ price \in Nat /\ reserve \in Nat
        /\ fees \in FeeSchedule /\ ValidFees(fees)
    BY <1>1, <2>1, SMT DEF PoolInv, TypeOK, Swap, TokenAccounts, Amounts
  <2>3. SwapDefined(amount, reserve, dir, fees, price)
    BY <2>1 DEF Swap
  <2>4. SwapResult(amount, dir, fees, price).sourceAmount <= amount
    BY <1>1, <2>2, <2>3, OneFeeSwapWithinAmount
  <2>5. QED
    BY <1>1, <2>1, <2>4, SwapDebits
<1>2. PoolInv => [fees.trade.num = 0 \/ fees.owner.num = 0 => SwapTakesNoMoreThanAmountIn]_vars
  BY <1>1
<1>3. QED
  BY <1>2, PoolInvHolds, PTL DEF OneFeeDebitsWithinAmountIn

-----------------------------------------------------------------------------
(***************************************************************************)
(* Pool implements Vault for every set of users, every fee schedule, price *)
(* and width: no sequence of instructions takes more than the named dust   *)
(* out of a pool token while the price stands still.                       *)
(*                                                                         *)
(* First comes arithmetic over a pool's worth V, its supply S and the unit *)
(* R, then what each step of Pool means for Vault.                         *)
(***************************************************************************)

(* Arithmetic of shares. *)

\* Shares minted at a worth of K, not below V, for what is paid in.
LEMMA MintArithmetic ==
  ASSUME NEW V \in Nat, NEW K \in Nat, NEW paid \in Nat, NEW S \in Nat, NEW m \in Nat,
         NEW R \in Nat, V <= K, m * K <= paid * S + m * R
  PROVE  ((K + paid) - R) * S >= (V - R) * (S + m)
<1>1. V * S <= K * S /\ m * V <= m * K
  BY MulMono
<1>2. /\ ((K + paid) - R) * S = K * S + paid * S - R * S
      /\ (V - R) * (S + m) = V * S + m * V - R * S - m * R
  BY SMT
<1>3. /\ V * S \in Int /\ K * S \in Int /\ m * V \in Int /\ m * K \in Int
      /\ paid * S \in Int /\ m * R \in Int /\ R * S \in Int
  BY SMT
<1>4. QED
  BY <1>1, <1>2, <1>3, SMT

\* Shares burnt for what is paid out, and a unit R that may be short.
LEMMA BurnArithmetic ==
  ASSUME NEW V \in Nat, NEW paid \in Nat, NEW S \in Nat, NEW burnt \in Nat, NEW R \in Nat,
         paid * S <= burnt * V + R * S
  PROVE  (V - paid + R) * S >= V * (S - burnt)
<1>1. /\ (V - paid + R) * S = V * S - paid * S + R * S
      /\ V * (S - burnt) = V * S - burnt * V
  BY SMT
<1>2. V * S \in Int /\ paid * S \in Int /\ R * S \in Int /\ burnt * V \in Int
  BY SMT
<1>3. QED
  BY <1>1, <1>2, SMT

(***************************************************************************)
(* Shares burnt down to T for what is paid out and the fee, and m minted   *)
(* again for the fee, which stays: the dust of both adds up.               *)
(***************************************************************************)
LEMMA BurnAndMintArithmetic ==
  ASSUME NEW V \in Nat, NEW low \in Int, NEW fee \in Nat, NEW S \in Nat, NEW T \in Nat,
         NEW m \in Nat, NEW R \in Nat,
         (low + R) * S >= V * T,
         m * low <= fee * T + m * R
  PROVE  ((low + fee) * S - V * (T + m)) * T + R * S * (2 * (T + m) - T) >= 0
<1> DEFINE U == T + m
<1>1. ((low + R) * S) * U >= (V * T) * U
  <2>1. (low + R) * S \in Int /\ V * T \in Int /\ U \in Nat
    BY SMT
  <2>2. QED
    BY <2>1, MulMono, SMT
<1>2. (fee * T + m * R) * S >= (m * low) * S
  <2>1. fee * T + m * R \in Int /\ m * low \in Int
    BY SMT
  <2>2. QED
    BY <2>1, MulMono, SMT
<1>3. ((low + R) * S) * U = low * S * T + low * S * m + R * S * T + R * S * m
  BY SMT
<1>4. (V * T) * U = (V * U) * T
  BY SMT
<1>5. (fee * T + m * R) * S = fee * S * T + R * S * m
  BY SMT
<1>6. (m * low) * S = low * S * m
  BY SMT
<1>7. ((low + fee) * S - V * U) * T = low * S * T + fee * S * T - (V * U) * T
  BY SMT
<1>8. R * S * (2 * U - T) = R * S * T + R * S * m + R * S * m
  BY SMT
<1>9. /\ low * S * T \in Int /\ low * S * m \in Int /\ fee * S * T \in Int
      /\ R * S * T \in Int /\ R * S * m \in Int /\ (V * U) * T \in Int
  BY SMT
<1>10. low * S * T + fee * S * T - (V * U) * T + (R * S * T + R * S * m + R * S * m) >= 0
  BY <1>1, <1>2, <1>3, <1>4, <1>5, <1>6, <1>9, SMT
<1>11. QED
  BY <1>7, <1>8, <1>10

-----------------------------------------------------------------------------
(* The reserves and their worth. *)

Worth(x, y, p) == x * RAY + y * p

LEMMA WorthType ==
  ASSUME NEW x \in Nat, NEW y \in Nat, NEW p \in Nat
  PROVE  Worth(x, y, p) \in Nat
BY RAYAssumption, SMT DEF Worth

\* What a token account pays the reserve arrives there, and the other way round.
LEMMA MoveToReserve ==
  ASSUME NEW ledger \in [TokenAccounts -> Nat], NEW acc \in TokenAccounts,
         acc # Reserve, NEW amount \in Nat
  PROVE  /\ Move(ledger, acc, Reserve, amount)[Reserve] = ledger[Reserve] + amount
         /\ Move(ledger, Reserve, acc, amount)[Reserve] = ledger[Reserve] - amount
<1>1. Reserve \in TokenAccounts
  BY DEF TokenAccounts
<1>2. QED
  BY <1>1, SMT DEF Move

\* The worth once in of the token that dir takes in has come and out of the
\* other token has gone.
WorthAfter(dir, x, y, in, out, p) ==
  IF dir = "AtoB" THEN Worth(x + in, y - out, p) ELSE Worth(x - out, y + in, p)

LEMMA WorthOfChange ==
  ASSUME NEW dir \in Direction, NEW x \in Nat, NEW y \in Nat, NEW p \in Nat,
         NEW in \in Int, NEW out \in Int
  PROVE  WorthAfter(dir, x, y, in, out, p) =
           Worth(x, y, p) + (in * Weight(dir, p) - out * OtherWeight(dir, p))
<1>1. RAY \in Nat
  BY RAYAssumption
<1>2. /\ (x + in) * RAY = x * RAY + in * RAY
      /\ (y - out) * p = y * p - out * p
      /\ (x - out) * RAY = x * RAY - out * RAY
      /\ (y + in) * p = y * p + in * p
  BY <1>1, SMT
<1>3. /\ x * RAY \in Int /\ in * RAY \in Int /\ out * RAY \in Int
      /\ y * p \in Int /\ in * p \in Int /\ out * p \in Int
  BY <1>1, SMT
<1>4. CASE dir = "AtoB"
  BY <1>2, <1>3, <1>4, SMT DEF WorthAfter, Worth, Weight, OtherWeight
<1>5. CASE dir = "BtoA"
  BY <1>2, <1>3, <1>5, SMT DEF WorthAfter, Worth, Weight, OtherWeight
<1>6. QED
  BY <1>4, <1>5 DEF Direction

\* A step that leaves reserves, supply, price and schedule alone.
LEMMA StutterMaps ==
  ASSUME UNCHANGED <<fees, price, supply>>,
         tokenA'[Reserve] = tokenA[Reserve], tokenB'[Reserve] = tokenB[Reserve]
  PROVE  UNCHANGED ShareValue!vars
BY DEF ShareValue!vars

-----------------------------------------------------------------------------
(* One lemma for each handler. *)

LEMMA InitMaps == Init => ShareValue!Init
<1>1. SUFFICES ASSUME Init PROVE ShareValue!Init
  OBVIOUS
<1>2. tokenA[Reserve] \in Nat /\ tokenB[Reserve] \in Nat
  BY <1>1, PoolAssumption DEF Init, TokenAccounts
<1>3. price \in Nat \cup {NoPrice}
  BY <1>1, PoolAssumption DEF Init
<1>4. (fees.owner.num # 0) = FALSE
  BY <1>1 DEF Init, NoFees
<1>5. QED
  BY <1>1, <1>2, <1>3, <1>4 DEF Init, ShareValue!Init

LEMMA InitializeMaps ==
  ASSUME PoolInv, NEW f \in FeeSchedules, Initialize(f)
  PROVE  ShareValue!Found
<1>1. tokenA[Reserve] \in Nat /\ tokenA[Reserve] # 0
  BY SMT DEF PoolInv, TypeOK, Initialize, TokenAccounts
<1>2. InitialSupply > 0
  BY PoolAssumption, SMT
<1>3. (fees.owner.num # 0)' \in BOOLEAN
  OBVIOUS
<1>4. QED
  BY <1>1, <1>2, <1>3, SMT DEF Initialize, ShareValue!Found

LEMMA DepositAllMaps ==
  ASSUME PoolInv, NEW source \in TokenAccounts, NEW destination \in PoolAccounts,
         NEW poolAmount \in Amounts, NEW limit \in Limits,
         DepositAll(source, destination, poolAmount, limit, limit)
  PROVE  [ShareValue!Next]_ShareValue!vars
<1> DEFINE ra == tokenA[Reserve]
           rb == tokenB[Reserve]
           a == PoolTokensToTradingTokens(poolAmount, ra, supply, "Ceiling")
           b == PoolTokensToTradingTokens(poolAmount, rb, supply, "Ceiling")
<1>1. /\ poolAmount \in Nat /\ "Ceiling" \in Rounding /\ source # Reserve
      /\ ra \in Nat /\ rb \in Nat /\ supply \in Nat \ {0}
      /\ tokenA \in [TokenAccounts -> Nat] /\ tokenB \in [TokenAccounts -> Nat]
  BY SMT DEF PoolInv, TypeOK, DepositAll, TokenAccounts, Amounts, Rounding
<1>2. a \in Nat /\ b \in Nat
  BY <1>1, ReserveShareType
<1>3. tokenA'[Reserve] = ra + a /\ tokenB'[Reserve] = rb + b
  BY <1>1, <1>2, MoveToReserve DEF DepositAll
<1>4. supply' = supply + poolAmount /\ UNCHANGED <<fees, price>>
  BY DEF DepositAll
<1>5. /\ 2 * a * supply + supply >= 2 * (poolAmount * ra)
      /\ 2 * b * supply + supply >= 2 * (poolAmount * rb)
  <2>1. poolAmount * ra \in Nat /\ poolAmount * rb \in Nat
    BY <1>1, SMT
  <2>2. a = CeilDiv(poolAmount * ra, supply) /\ b = CeilDiv(poolAmount * rb, supply)
    BY DEF PoolTokensToTradingTokens, Divide
  <2>3. QED
    BY <1>1, <2>1, <2>2, CeilDivBounds
<1> HIDE DEF ra, rb, a, b
<1>6. CASE poolAmount = 0
  <2>1. ShareValue!Gift
    BY <1>1, <1>2, <1>3, <1>4, <1>6, SMT DEF ShareValue!Gift, ra, rb
  <2>2. QED
    BY <2>1 DEF ShareValue!Next
<1>7. CASE poolAmount > 0
  <2>1. /\ 2 * (ra + a) * supply + supply >= 2 * ra * (supply + poolAmount)
        /\ 2 * (rb + b) * supply + supply >= 2 * rb * (supply + poolAmount)
    <3>1. /\ 2 * (ra + a) * supply = 2 * (ra * supply) + 2 * a * supply
          /\ 2 * ra * (supply + poolAmount) = 2 * (ra * supply) + 2 * (poolAmount * ra)
          /\ 2 * (rb + b) * supply = 2 * (rb * supply) + 2 * b * supply
          /\ 2 * rb * (supply + poolAmount) = 2 * (rb * supply) + 2 * (poolAmount * rb)
      BY <1>1, <1>2, SMT
    <3>2. /\ ra * supply \in Int /\ 2 * a * supply \in Int /\ poolAmount * ra \in Int
          /\ rb * supply \in Int /\ 2 * b * supply \in Int /\ poolAmount * rb \in Int
      BY <1>1, <1>2, SMT
    <3>3. QED
      BY <1>1, <1>5, <3>1, <3>2, SMT
  <2>2. supply' > supply
    BY <1>1, <1>4, <1>7, SMT
  <2>3. ShareValue!SubscribeBoth
    BY <1>3, <1>4, <2>1, <2>2 DEF ShareValue!SubscribeBoth, ra, rb
  <2>4. QED
    BY <2>3 DEF ShareValue!Next
<1>8. QED
  BY <1>1, <1>6, <1>7, SMT

LEMMA WithdrawAllMaps ==
  ASSUME PoolInv, NEW source \in PoolAccounts, NEW destination \in TokenAccounts,
         NEW poolAmount \in Amounts, NEW limit \in Limits,
         WithdrawAll(source, destination, poolAmount, limit, limit)
  PROVE  [ShareValue!Next]_ShareValue!vars
<1> DEFINE ra == tokenA[Reserve]
           rb == tokenB[Reserve]
           fee   == WithdrawFee(poolAmount, source)
           burnt == poolAmount - fee
           shareA == PoolTokensToTradingTokens(burnt, ra, supply, "Floor")
           shareB == PoolTokensToTradingTokens(burnt, rb, supply, "Floor")
           a == AtMost(ra, shareA)
           b == AtMost(rb, shareB)
<1>1. /\ poolAmount \in Nat /\ destination # Reserve
      /\ ra \in Nat /\ rb \in Nat /\ supply \in Nat \ {0}
      /\ tokenA \in [TokenAccounts -> Nat] /\ tokenB \in [TokenAccounts -> Nat]
      /\ fees \in FeeSchedule /\ ValidFees(fees)
  BY SMT DEF PoolInv, TypeOK, WithdrawAll, WithdrawAllSucceeds, TokenAccounts, Amounts
<1>2. burnt \in Nat /\ burnt <= supply
  <2>1. burnt \in 0 .. supply
    BY DEF WithdrawAll, WithdrawAllSucceeds
  <2>2. QED
    BY <1>1, <2>1, SMT
<1>3. /\ shareA \in Nat /\ shareA * supply <= burnt * ra
      /\ shareB \in Nat /\ shareB * supply <= burnt * rb
  <2>1. burnt * ra \in Nat /\ burnt * rb \in Nat
    BY <1>1, <1>2, SMT
  <2>2. shareA = (burnt * ra) \div supply /\ shareB = (burnt * rb) \div supply
    BY DEF PoolTokensToTradingTokens, Divide
  <2> HIDE DEF burnt, shareA, shareB
  <2>3. QED
    BY <1>1, <2>1, <2>2, FloorBounds
<1>4. /\ a \in Nat /\ a <= ra /\ a <= shareA
      /\ b \in Nat /\ b <= rb /\ b <= shareB
  BY <1>1, <1>3, SMT DEF AtMost
<1>5. tokenA'[Reserve] = ra - a /\ tokenB'[Reserve] = rb - b
  BY <1>1, <1>4, MoveToReserve DEF WithdrawAll, Redeemed
<1>6. supply' = supply - burnt /\ UNCHANGED <<fees, price>>
  BY DEF WithdrawAll
<1> HIDE DEF ra, rb, fee, burnt, shareA, shareB, a, b
<1>7. /\ (ra - a) * supply >= ra * (supply - burnt)
      /\ (rb - b) * supply >= rb * (supply - burnt)
  <2>1. a * supply <= shareA * supply /\ b * supply <= shareB * supply
    BY <1>1, <1>3, <1>4, MulMono, SMT
  <2>2. /\ (ra - a) * supply = ra * supply - a * supply
        /\ ra * (supply - burnt) = ra * supply - burnt * ra
        /\ (rb - b) * supply = rb * supply - b * supply
        /\ rb * (supply - burnt) = rb * supply - burnt * rb
    BY <1>1, <1>2, <1>4, SMT
  <2>3. /\ ra * supply \in Int /\ a * supply \in Int /\ burnt * ra \in Int
        /\ rb * supply \in Int /\ b * supply \in Int /\ burnt * rb \in Int
        /\ shareA * supply \in Int /\ shareB * supply \in Int
    BY <1>1, <1>2, <1>3, <1>4, SMT
  <2>4. QED
    BY <1>3, <2>1, <2>2, <2>3, SMT
<1>8. CASE burnt = 0
  <2>1. shareA = 0 /\ shareB = 0
    <3>1. shareA * supply <= 0 /\ shareB * supply <= 0
      BY <1>1, <1>3, <1>8, SMT
    <3>2. QED
      BY <1>1, <1>3, <3>1, SMT
  <2>2. a = 0 /\ b = 0
    BY <1>4, <2>1, SMT
  <2>3. UNCHANGED ShareValue!vars
    <3>1. supply' = supply /\ tokenA'[Reserve] = tokenA[Reserve]
          /\ tokenB'[Reserve] = tokenB[Reserve]
      BY <1>1, <1>5, <1>6, <1>8, <2>2, SMT DEF ra, rb
    <3>2. QED
      BY <1>6, <3>1, StutterMaps
  <2>4. QED
    BY <2>3
<1>9. CASE burnt > 0
  <2>1. supply' < supply
    BY <1>1, <1>2, <1>6, <1>9, SMT
  <2>2. ShareValue!RedeemBoth
    BY <1>5, <1>6, <1>7, <2>1 DEF ShareValue!RedeemBoth, ra, rb
  <2>3. QED
    BY <2>2 DEF ShareValue!Next
<1>10. QED
  BY <1>2, <1>8, <1>9, SMT

-----------------------------------------------------------------------------
(* Shares minted at the price of the moment. *)

LEMMA WeightType ==
  ASSUME NEW dir \in Direction, NEW p \in Nat
  PROVE  Weight(dir, p) \in Nat /\ OtherWeight(dir, p) \in Nat
BY RAYAssumption DEF Weight, OtherWeight

\* m shares for an amount that is worth them at reserves x and y.
LEMMA MintStep ==
  ASSUME NEW x \in Nat, NEW y \in Nat, NEW p \in Nat, NEW S \in Nat, NEW dir \in Direction,
         NEW amount \in Nat, NEW paid \in Nat, NEW m \in Nat, NEW V \in Nat,
         TotalValue(x, y, p) > 0,
         m <= TradingTokensToPoolTokens(amount, x, y, S, dir, "Floor", p),
         amount * Weight(dir, p) <= paid, V <= Worth(x, y, p)
  PROVE  ((Worth(x, y, p) + paid) - RAY) * S >= (V - RAY) * (S + m)
<1> DEFINE K == Worth(x, y, p)
           least == amount * Weight(dir, p)
<1>1. K \in Nat /\ RAY \in Nat /\ least \in Nat
  <2>1. Weight(dir, p) \in Nat
    BY WeightType
  <2>2. K \in Nat
    BY WorthType
  <2>3. least \in Nat
    BY <2>1, SMT
  <2>4. QED
    BY <2>2, <2>3, RAYAssumption
<1>2. m * K <= least * S + m * RAY
  BY MintKeepsShareValue DEF Worth
<1> HIDE DEF K, least
<1>3. m * K <= paid * S + m * RAY
  <2>1. least * S <= paid * S
    BY <1>1, MulMono DEF least
  <2>2. m * K \in Int /\ least * S \in Int /\ paid * S \in Int /\ m * RAY \in Int
    BY <1>1, SMT
  <2>3. QED
    BY <1>2, <2>1, <2>2, SMT
<1>4. V <= K
  BY DEF K
<1>5. ((K + paid) - RAY) * S >= (V - RAY) * (S + m)
  BY <1>1, <1>3, <1>4, MintArithmetic
<1>6. QED
  BY <1>5 DEF K

\* When any of the owner's fee is minted, it was priced at a pool worth something.
LEMMA FeeMintBound ==
  ASSUME fees \in FeeSchedule, ValidFees(fees), price \in Nat,
         NEW ownerFee \in Nat, NEW a \in Int, NEW b \in Int, NEW total \in Nat,
         NEW dir \in Direction, NEW host \in Hosts, NEW given \in BOOLEAN,
         FeePoolTokensDefined(ownerFee, a, b),
         FeeMinted(FeePoolTokens(ownerFee, a, b, total, dir), host, given) > 0
  PROVE  /\ ownerFee > 0 /\ a \in Nat /\ b \in Nat /\ TotalValue(a, b, price) > 0
         /\ FeeMinted(FeePoolTokens(ownerFee, a, b, total, dir), host, given)
              <= TradingTokensToPoolTokens(ownerFee, a, b, total, dir, "Floor", price)
<1> DEFINE fee == FeePoolTokens(ownerFee, a, b, total, dir)
           minted == FeeMinted(fee, host, given)
<1>1. fee \in Nat
  BY FeePoolTokensType
<1>2. minted \in Nat /\ minted <= fee
  BY <1>1, FeeParts
<1>3. ownerFee # 0
  <2>1. ownerFee = 0 => fee = 0
    BY DEF FeePoolTokens
  <2> HIDE DEF fee
  <2>2. fee # 0
    BY <1>1, <1>2, SMT DEF minted, fee
  <2>3. QED
    BY <2>1, <2>2
<1>4. fee = TradingTokensToPoolTokens(ownerFee, a, b, total, dir, "Floor", price)
  BY <1>3 DEF FeePoolTokens
<1>5. ownerFee > 0 /\ a \in Nat /\ b \in Nat /\ TotalValue(a, b, price) > 0
  BY <1>3, SMT DEF FeePoolTokensDefined
<1>6. QED
  BY <1>2, <1>4, <1>5

LEMMA SwapMaps ==
  ASSUME PoolInv, NEW dir \in Direction, NEW source \in TokenAccounts,
         NEW destination \in TokenAccounts, NEW amount \in Amounts,
         NEW minimum \in Limits, NEW host \in Hosts,
         Swap(dir, source, destination, amount, minimum, host)
  PROVE  ShareValue!Trade \/ ShareValue!SubscribeSingle
<1> DEFINE ra == tokenA[Reserve]
           rb == tokenB[Reserve]
           from == IF dir = "AtoB" THEN tokenA ELSE tokenB
           into == IF dir = "AtoB" THEN tokenB ELSE tokenA
           r    == SwapResult(amount, dir, fees, price)
           in   == r.sourceAmount
           out  == r.destinationAmount
           owner == r.ownerFee
           kept == from[Reserve] + in - owner
           left == into[Reserve] - out
           a    == IF dir = "AtoB" THEN kept ELSE left
           b    == IF dir = "AtoB" THEN left ELSE kept
           fee  == FeePoolTokens(owner, a, b, supply, dir)
           minted == FeeMinted(fee, host, TRUE)
           W    == Weight(dir, price)
           O    == OtherWeight(dir, price)
           V    == Worth(ra, rb, price)
           K    == Worth(a, b, price)
<1>1. /\ amount \in Nat /\ price \in Nat /\ supply \in Nat
      /\ source # Reserve /\ destination # Reserve
      /\ ra \in Nat /\ rb \in Nat
      /\ tokenA \in [TokenAccounts -> Nat] /\ tokenB \in [TokenAccounts -> Nat]
      /\ fees \in FeeSchedule /\ ValidFees(fees)
  BY PoolAssumption, SMT DEF PoolInv, TypeOK, Swap, TokenAccounts, Amounts
<1>2. SwapDefined(amount, into[Reserve], dir, fees, price)
  BY DEF Swap
<1>3. /\ from[Reserve] \in Nat /\ into[Reserve] \in Nat
      /\ W \in Nat /\ O \in Nat
  BY <1>1, WeightType
<1>4. /\ in \in Nat /\ out \in Nat /\ owner \in Nat /\ owner <= in
      /\ out <= into[Reserve]
      /\ out * O <= (in - owner) * W
  BY <1>1, <1>2, <1>3, SwapWithFeesKeepsValue
<1>5. FeePoolTokensDefined(owner, a, b)
  BY DEF Swap
<1>6. supply' = supply + minted /\ UNCHANGED <<fees, price>>
  BY DEF Swap
<1>7. /\ dir = "AtoB" => tokenA'[Reserve] = ra + in /\ tokenB'[Reserve] = rb - out
      /\ dir = "BtoA" => tokenA'[Reserve] = ra - out /\ tokenB'[Reserve] = rb + in
  <2>1. SwapTransfers(dir, source, destination, in, out)
    BY DEF Swap
  <2> HIDE DEF r, in, out
  <2>2. CASE dir = "AtoB"
    <3>1. /\ tokenA' = Move(tokenA, source, Reserve, in)
          /\ tokenB' = Move(tokenB, Reserve, destination, out)
      BY <2>1, <2>2 DEF SwapTransfers
    <3>2. QED
      BY <1>1, <1>4, <2>2, <3>1, MoveToReserve
  <2>3. CASE dir = "BtoA"
    <3>1. /\ tokenB' = Move(tokenB, source, Reserve, in)
          /\ tokenA' = Move(tokenA, Reserve, destination, out)
      BY <2>1, <2>3 DEF SwapTransfers
    <3>2. QED
      BY <1>1, <1>4, <2>3, <3>1, MoveToReserve
  <2>4. QED
    BY <2>2, <2>3 DEF Direction
<1>8. /\ dir = "AtoB" => a = ra + (in - owner) /\ b = rb - out
      /\ dir = "BtoA" => a = ra - out /\ b = rb + (in - owner)
  BY <1>1, <1>4, SMT
<1>9. a \in Nat /\ b \in Nat
  BY <1>3, <1>4, SMT
<1> HIDE DEF r, in, out, owner, from, into, a, b, fee, minted
<1>10. minted \in Nat
  <2>1. fee \in Nat
    BY <1>1, <1>4, <1>5, <1>9, FeePoolTokensType DEF fee
  <2>2. QED
    BY <1>1, <2>1, FeeParts DEF minted
<1> HIDE DEF ra, rb
<1>11. in - owner \in Nat
  BY <1>4, SMT
<1>12. /\ K = WorthAfter(dir, ra, rb, in - owner, out, price)
       /\ ShareValue!Value' = WorthAfter(dir, ra, rb, in, out, price)
  <2>1. CASE dir = "AtoB"
    BY <1>6, <1>7, <1>8, <2>1 DEF ShareValue!Value, WorthAfter, Worth, K
  <2>2. CASE dir = "BtoA"
    BY <1>6, <1>7, <1>8, <2>2 DEF ShareValue!Value, WorthAfter, Worth, K
  <2>3. QED
    BY <2>1, <2>2 DEF Direction
<1>13. /\ K = V + ((in - owner) * W - out * O)
       /\ ShareValue!Value' = V + (in * W - out * O)
  <2>1. in \in Int /\ in - owner \in Int /\ out \in Int
    BY <1>4, <1>11, SMT
  <2>2. QED
    BY <1>1, <1>12, <2>1, WorthOfChange DEF V, W, O
<1>14. ShareValue!Value = V
  BY DEF ShareValue!Value, Worth, V, ra, rb
<1>15. V \in Nat /\ K \in Nat
  BY <1>1, <1>9, WorthType
<1> HIDE DEF V, K, W, O
<1>16. V <= K /\ V + (in * W - out * O) = K + owner * W
  <2>1. (in - owner) * W = in * W - owner * W
    BY <1>3, <1>4, SMT
  <2>2. in * W \in Int /\ owner * W \in Int /\ out * O \in Int
    BY <1>3, <1>4, SMT
  <2>3. QED
    BY <1>4, <1>13, <1>15, <2>1, <2>2, SMT
<1>17. owner * W \in Nat
  BY <1>3, <1>4, SMT
<1>18. ShareValue!Priced
  BY <1>1, <1>6 DEF ShareValue!Priced
<1>19. CASE minted = 0
  <2>1. ShareValue!Value' >= ShareValue!Value
    BY <1>13, <1>14, <1>15, <1>16, <1>17, SMT
  <2>2. supply' = supply
    BY <1>1, <1>6, <1>19, SMT
  <2>3. QED
    BY <1>6, <1>18, <2>1, <2>2 DEF ShareValue!Trade
<1>20. CASE minted > 0
  <2>1. /\ TotalValue(a, b, price) > 0
        /\ minted <= TradingTokensToPoolTokens(owner, a, b, supply, dir, "Floor", price)
    <3>1. a \in Int /\ b \in Int
      BY <1>9, SMT
    <3>2. minted = FeeMinted(FeePoolTokens(owner, a, b, supply, dir), host, TRUE)
      BY DEF minted, fee
    <3>3. FeeMinted(FeePoolTokens(owner, a, b, supply, dir), host, TRUE) > 0
      BY <1>20, <3>2
    <3>4. QED
      BY <1>1, <1>4, <1>5, <3>1, <3>2, <3>3, FeeMintBound
  <2>2. owner * Weight(dir, price) <= owner * W
    BY <1>17, SMT DEF W
  <2>3. V <= Worth(a, b, price)
    BY <1>16 DEF K
  <2>4. ((Worth(a, b, price) + owner * W) - RAY) * supply >= (V - RAY) * (supply + minted)
    BY <1>1, <1>4, <1>9, <1>10, <1>15, <1>17, <2>1, <2>2, <2>3, MintStep
  <2>5. ShareValue!Value' = Worth(a, b, price) + owner * W
    BY <1>13, <1>16 DEF K
  <2>6. supply' > supply
    BY <1>1, <1>6, <1>10, <1>20, SMT
  <2>7. (ShareValue!Value' - RAY) * supply >= (ShareValue!Value - RAY) * supply'
    <3>1. supply' = supply + minted
      BY <1>6
    <3>2. QED
      BY <1>14, <2>4, <2>5, <3>1, Zenon
  <2>8. UNCHANGED (fees.owner.num # 0)
    BY <1>6
  <2>9. QED
    BY <1>18, <2>6, <2>7, <2>8 DEF ShareValue!SubscribeSingle
<1>21. QED
  BY <1>10, <1>19, <1>20, SMT

LEMMA DepositSingleMaps ==
  ASSUME PoolInv, NEW dir \in Direction, NEW source \in TokenAccounts,
         NEW destination \in PoolAccounts, NEW amount \in Amounts, NEW limit \in Limits,
         NEW given \in BOOLEAN, NEW host \in Hosts,
         DepositSingleExactIn(dir, source, destination, amount, limit, given, host)
  PROVE  ShareValue!SubscribeSingle
<1> DEFINE ra   == tokenA[Reserve]
           rb   == tokenB[Reserve]
           net  == DepositNet(amount, fees)
           owner == DepositOwnerFee(amount, fees)
           first == DepositSingle(amount, ra, rb, supply, dir, fees, price)
           a    == IF dir = "AtoB" THEN ra + amount - owner ELSE ra
           b    == IF dir = "AtoB" THEN rb ELSE rb + amount - owner
           fee  == FeePoolTokens(owner, a, b, supply + first, dir)
           minted == FeeMinted(fee, host, given)
           W    == Weight(dir, price)
           V    == Worth(ra, rb, price)
           K    == Worth(a, b, price)
           T    == supply + first
<1>1. /\ amount \in Nat /\ price \in Nat /\ supply \in Nat /\ source # Reserve
      /\ ra \in Nat /\ rb \in Nat /\ "Floor" \in Rounding
      /\ tokenA \in [TokenAccounts -> Nat] /\ tokenB \in [TokenAccounts -> Nat]
      /\ fees \in FeeSchedule /\ ValidFees(fees)
  BY PoolAssumption, SMT
     DEF PoolInv, TypeOK, DepositSingleExactIn, TokenAccounts, Amounts, Rounding
<1>2. net >= 0 /\ TotalValue(ra, rb, price) > 0
  BY DEF DepositSingleExactIn, DepositDefined
<1>3. net \in Nat /\ owner \in Nat /\ net + owner <= amount /\ W \in Nat
  BY <1>1, <1>2, DepositAmountTypes, WeightType
<1>4. /\ first = TradingTokensToPoolTokens(net, ra, rb, supply, dir, "Floor", price)
      /\ first \in Nat /\ first # 0
  <2>1. first = TradingTokensToPoolTokens(net, ra, rb, supply, dir, "Floor", price)
    BY DEF DepositSingle
  <2>2. first # 0
    BY DEF DepositSingleExactIn
  <2>3. TradingTokensToPoolTokens(net, ra, rb, supply, dir, "Floor", price) \in Nat
    BY <1>1, <1>2, <1>3, PoolTokensType
  <2> HIDE DEF first
  <2>4. QED
    BY <2>1, <2>2, <2>3
<1>5. FeePoolTokensDefined(owner, a, b)
  BY DEF DepositSingleExactIn
<1>6. supply' = T + minted /\ UNCHANGED <<fees, price>>
  BY DEF DepositSingleExactIn
<1>7. /\ dir = "AtoB" => tokenA'[Reserve] = ra + amount /\ tokenB'[Reserve] = rb
      /\ dir = "BtoA" => tokenA'[Reserve] = ra /\ tokenB'[Reserve] = rb + amount
  <2>1. CASE dir = "AtoB"
    <3>1. tokenA' = Move(tokenA, source, Reserve, amount) /\ tokenB' = tokenB
      BY <2>1 DEF DepositSingleExactIn
    <3>2. QED
      BY <1>1, <2>1, <3>1, MoveToReserve
  <2>2. CASE dir = "BtoA"
    <3>1. tokenB' = Move(tokenB, source, Reserve, amount) /\ tokenA' = tokenA
      BY <2>2 DEF DepositSingleExactIn
    <3>2. QED
      BY <1>1, <2>2, <3>1, MoveToReserve
  <2>3. QED
    BY <2>1, <2>2 DEF Direction
<1> HIDE DEF net, owner, first
<1>8. a \in Nat /\ b \in Nat /\ T \in Nat \ {0}
  BY <1>1, <1>3, <1>4, SMT
<1>9. /\ dir = "AtoB" => a = ra + (amount - owner) /\ b = rb
      /\ dir = "BtoA" => a = ra /\ b = rb + (amount - owner)
  BY <1>1, <1>3, SMT
<1> HIDE DEF ra, rb, a, b, fee, minted, T
<1>10. minted \in Nat
  <2>1. fee \in Nat
    BY <1>1, <1>3, <1>5, <1>8, FeePoolTokensType DEF fee, T
  <2>2. QED
    BY <1>1, <2>1, FeeParts DEF minted
<1>11. ShareValue!Value = V
  BY DEF ShareValue!Value, Worth, V, ra, rb
<1>12. /\ K = WorthAfter(dir, ra, rb, amount - owner, 0, price)
       /\ ShareValue!Value' = WorthAfter(dir, ra, rb, amount, 0, price)
  <2>1. ra - 0 = ra /\ rb - 0 = rb
    BY <1>1, SMT
  <2>2. CASE dir = "AtoB"
    BY <1>6, <1>7, <1>9, <2>1, <2>2 DEF ShareValue!Value, WorthAfter, Worth, K
  <2>3. CASE dir = "BtoA"
    BY <1>6, <1>7, <1>9, <2>1, <2>3 DEF ShareValue!Value, WorthAfter, Worth, K
  <2>4. QED
    BY <2>2, <2>3 DEF Direction
<1>13. K = V + (amount - owner) * W /\ ShareValue!Value' = V + amount * W
  <2>1. amount \in Int /\ amount - owner \in Int /\ 0 \in Int
    BY <1>1, <1>3, SMT
  <2>2. /\ K = V + ((amount - owner) * W - 0 * OtherWeight(dir, price))
        /\ ShareValue!Value' = V + (amount * W - 0 * OtherWeight(dir, price))
    BY <1>1, <1>12, <2>1, WorthOfChange DEF V, W
  <2>3. OtherWeight(dir, price) \in Nat
    BY <1>1, WeightType
  <2>4. /\ 0 * OtherWeight(dir, price) = 0
        /\ amount * W \in Int /\ (amount - owner) * W \in Int
    BY <1>1, <1>3, <2>1, <2>3, SMT
  <2>5. QED
    BY <2>2, <2>4, SMT
<1>14. V \in Nat /\ K \in Nat
  BY <1>1, <1>8, WorthType
<1>15. (K - RAY) * supply >= (V - RAY) * T
  <2> DEFINE paid == (amount - owner) * W
  <2>1. paid \in Nat /\ net * Weight(dir, price) <= paid
    <3>1. amount - owner \in Nat /\ net <= amount - owner
      BY <1>1, <1>3, SMT
    <3>2. net * W <= paid /\ paid \in Nat
      BY <1>3, <3>1, MulMono, SMT
    <3>3. QED
      BY <3>2
  <2>2. V <= Worth(ra, rb, price) /\ first <= first /\ K = Worth(ra, rb, price) + paid
    BY <1>4, <1>13, <1>14, SMT DEF V
  <2> HIDE DEF paid, V, K
  <2>3. ((Worth(ra, rb, price) + paid) - RAY) * supply >= (V - RAY) * (supply + first)
    BY <1>1, <1>2, <1>3, <1>4, <1>14, <2>1, <2>2, MintStep
  <2>4. QED
    BY <2>2, <2>3 DEF T
<1>16. K + owner * W = V + amount * W /\ owner * W \in Nat
  <2>1. (amount - owner) * W = amount * W - owner * W
    BY <1>1, <1>3, SMT
  <2>2. amount * W \in Int /\ owner * W \in Nat
    BY <1>1, <1>3, SMT
  <2>3. QED
    BY <1>13, <1>14, <2>1, <2>2, SMT
<1> HIDE DEF V, K, W
<1>17. ((K + owner * W) - RAY) * T >= (K - RAY) * (T + minted)
  <2>1. CASE minted = 0
    <3>1. K - RAY <= (K + owner * W) - RAY /\ K - RAY \in Int
          /\ (K + owner * W) - RAY \in Int
      BY <1>14, <1>16, RAYAssumption, SMT
    <3>2. (K - RAY) * T <= ((K + owner * W) - RAY) * T
      BY <1>8, <3>1, MulMono
    <3>3. T + minted = T
      BY <1>8, <2>1, SMT
    <3>4. (K - RAY) * T \in Int /\ ((K + owner * W) - RAY) * T \in Int
      BY <1>8, <3>1, SMT
    <3>5. QED
      BY <3>2, <3>3, <3>4, SMT
  <2>2. CASE minted > 0
    <3>1. a \in Int /\ b \in Int /\ T \in Nat
      BY <1>8, SMT
    <3>2. minted = FeeMinted(FeePoolTokens(owner, a, b, T, dir), host, given)
      BY DEF minted, fee, T
    <3>3. FeeMinted(FeePoolTokens(owner, a, b, T, dir), host, given) > 0
      BY <2>2, <3>2
    <3>4. /\ TotalValue(a, b, price) > 0
          /\ minted <= TradingTokensToPoolTokens(owner, a, b, T, dir, "Floor", price)
      BY <1>1, <1>3, <1>5, <3>1, <3>2, <3>3, FeeMintBound
    <3>5. owner * Weight(dir, price) <= owner * W
      BY <1>16, SMT DEF W
    <3>6. K <= Worth(a, b, price)
      BY <1>14, SMT DEF K
    <3>7. ((Worth(a, b, price) + owner * W) - RAY) * T >= (K - RAY) * (T + minted)
      BY <1>1, <1>3, <1>8, <1>10, <1>14, <1>16, <3>1, <3>4, <3>5, <3>6, MintStep
    <3>8. QED
      BY <3>7 DEF K
  <2>3. QED
    BY <1>10, <2>1, <2>2, SMT
<1>18. ((K + owner * W) - RAY) * supply >= (V - RAY) * (T + minted)
  <2>1. /\ (K + owner * W) - RAY \in Int /\ K - RAY \in Int /\ V - RAY \in Int
        /\ T + minted \in Nat
    BY <1>8, <1>10, <1>14, <1>16, RAYAssumption, SMT
  <2>2. QED
    BY <1>1, <1>8, <1>15, <1>17, <2>1, RatioTransitive
<1>19. (ShareValue!Value' - RAY) * supply >= (ShareValue!Value - RAY) * supply'
  BY <1>6, <1>11, <1>13, <1>16, <1>18
<1>20. supply' > supply
  <2>1. T > supply
    BY <1>1, <1>4, SMT DEF T
  <2>2. QED
    BY <1>1, <1>6, <1>8, <1>10, <2>1, SMT
<1>21. UNCHANGED (fees.owner.num # 0) /\ ShareValue!Priced
  BY <1>1, <1>6 DEF ShareValue!Priced
<1>22. QED
  BY <1>19, <1>20, <1>21 DEF ShareValue!SubscribeSingle

LEMMA WithdrawSingleMaps ==
  ASSUME PoolInv, NEW dir \in Direction, NEW source \in PoolAccounts,
         NEW destination \in TokenAccounts, NEW amount \in Amounts, NEW limit \in Limits,
         NEW host \in Hosts,
         WithdrawSingleExactOut(dir, source, destination, amount, limit, host)
  PROVE  ShareValue!RedeemSingle \/ ShareValue!RedeemSingleForFee
<1> DEFINE ra   == tokenA[Reserve]
           rb   == tokenB[Reserve]
           gross == WithdrawGross(amount, fees)
           owner == WithdrawOwnerFee(amount, fees)
           burnt == WithdrawSingle(amount, ra, rb, supply, dir, fees, price)
           withdrawFee == WithdrawFee(burnt, source)
           a    == IF dir = "AtoB" THEN ra - amount - owner ELSE ra
           b    == IF dir = "AtoB" THEN rb ELSE rb - amount - owner
           fee  == FeePoolTokens(owner, a, b, supply - burnt, dir)
           minted == FeeMinted(fee, host, TRUE)
           W    == Weight(dir, price)
           V    == Worth(ra, rb, price)
           K    == Worth(a, b, price)
           T    == supply - burnt
<1>1. /\ amount \in Nat /\ price \in Nat /\ supply \in Nat /\ destination # Reserve
      /\ ra \in Nat /\ rb \in Nat /\ "Ceiling" \in Rounding
      /\ tokenA \in [TokenAccounts -> Nat] /\ tokenB \in [TokenAccounts -> Nat]
      /\ fees \in FeeSchedule /\ ValidFees(fees)
  BY PoolAssumption, SMT
     DEF PoolInv, TypeOK, WithdrawSingleExactOut, TokenAccounts, Amounts, Rounding
<1>2. PreTradingFeeDefined(fees) /\ TotalValue(ra, rb, price) > 0
  BY DEF WithdrawSingleExactOut, WithdrawDefined
<1>3. /\ gross \in Nat /\ owner \in Nat /\ amount + owner <= gross /\ amount <= gross
      /\ W \in Nat
  <2>1. gross \in Nat /\ owner \in Nat /\ gross >= amount /\ amount + owner <= gross
    BY <1>1, <1>2, WithdrawAmountTypes, OwnerFeeWithinGross
  <2>2. W \in Nat
    BY <1>1, WeightType
  <2>3. QED
    BY <1>1, <2>1, <2>2, SMT
<1>4. /\ burnt = TradingTokensToPoolTokens(gross, ra, rb, supply, dir, "Ceiling", price)
      /\ burnt \in Nat /\ burnt <= supply
  <2>1. burnt = TradingTokensToPoolTokens(gross, ra, rb, supply, dir, "Ceiling", price)
    BY DEF WithdrawSingle
  <2>2. burnt <= supply
    BY DEF WithdrawSingleExactOut
  <2>3. TradingTokensToPoolTokens(gross, ra, rb, supply, dir, "Ceiling", price) \in Nat
    BY <1>1, <1>2, <1>3, PoolTokensType
  <2> HIDE DEF burnt
  <2>4. QED
    BY <2>1, <2>2, <2>3
<1>5. burnt > 0
  <2>1. withdrawFee \in Nat /\ withdrawFee <= burnt
    BY <1>1, <1>4, WithdrawFeeType
  <2>2. burnt + withdrawFee # 0
    BY DEF WithdrawSingleExactOut
  <2> HIDE DEF burnt, withdrawFee
  <2>3. QED
    BY <1>4, <2>1, <2>2, SMT
<1>6. /\ supply' = supply + minted - burnt /\ UNCHANGED <<fees, price>>
      /\ FeePoolTokensDefined(owner, a, b)
  BY DEF WithdrawSingleExactOut
<1>7. /\ dir = "AtoB" => /\ amount <= ra
                         /\ tokenA'[Reserve] = ra - amount /\ tokenB'[Reserve] = rb
      /\ dir = "BtoA" => /\ amount <= rb
                         /\ tokenA'[Reserve] = ra /\ tokenB'[Reserve] = rb - amount
  <2>1. CASE dir = "AtoB"
    <3>1. /\ tokenA' = Move(tokenA, Reserve, destination, amount) /\ tokenB' = tokenB
          /\ amount <= tokenA[Reserve]
      BY <2>1 DEF WithdrawSingleExactOut
    <3>2. QED
      BY <1>1, <2>1, <3>1, MoveToReserve
  <2>2. CASE dir = "BtoA"
    <3>1. /\ tokenB' = Move(tokenB, Reserve, destination, amount) /\ tokenA' = tokenA
          /\ amount <= tokenB[Reserve]
      BY <2>2 DEF WithdrawSingleExactOut
    <3>2. QED
      BY <1>1, <2>2, <3>1, MoveToReserve
  <2>3. QED
    BY <2>1, <2>2 DEF Direction
<1> HIDE DEF gross, owner, burnt, withdrawFee
<1>8. /\ T \in Nat /\ T < supply /\ a \in Int /\ b \in Int
  BY <1>1, <1>3, <1>4, <1>5, SMT
<1>9. /\ dir = "AtoB" => a = ra + (-(amount + owner)) /\ b = rb
      /\ dir = "BtoA" => a = ra /\ b = rb + (-(amount + owner))
      /\ dir = "AtoB" => ra - amount = ra + (-amount)
      /\ dir = "BtoA" => rb - amount = rb + (-amount)
  BY <1>1, <1>3, SMT
<1> HIDE DEF ra, rb, a, b, fee, minted
<1>10. minted \in Nat
  <2>1. fee \in Nat
    BY <1>1, <1>3, <1>6, <1>8, FeePoolTokensType DEF fee
  <2>2. QED
    BY <1>1, <2>1, FeeParts DEF minted
<1>11. supply' = T + minted
  BY <1>1, <1>4, <1>6, <1>10, SMT
<1> HIDE DEF T
<1>12. ShareValue!Value = V
  BY DEF ShareValue!Value, Worth, V, ra, rb
<1>13. /\ K = WorthAfter(dir, ra, rb, -(amount + owner), 0, price)
       /\ ShareValue!Value' = WorthAfter(dir, ra, rb, -amount, 0, price)
  <2>1. ra - 0 = ra /\ rb - 0 = rb
    BY <1>1, SMT
  <2>2. CASE dir = "AtoB"
    BY <1>6, <1>7, <1>9, <2>1, <2>2 DEF ShareValue!Value, WorthAfter, Worth, K
  <2>3. CASE dir = "BtoA"
    BY <1>6, <1>7, <1>9, <2>1, <2>3 DEF ShareValue!Value, WorthAfter, Worth, K
  <2>4. QED
    BY <2>2, <2>3 DEF Direction
<1>14. K = V - (amount + owner) * W /\ ShareValue!Value' = V - amount * W
  <2>1. -(amount + owner) \in Int /\ -amount \in Int /\ 0 \in Int
    BY <1>1, <1>3, SMT
  <2>2. /\ K = V + ((-(amount + owner)) * W - 0 * OtherWeight(dir, price))
        /\ ShareValue!Value' = V + ((-amount) * W - 0 * OtherWeight(dir, price))
    BY <1>1, <1>13, <2>1, WorthOfChange DEF V, W
  <2>3. OtherWeight(dir, price) \in Nat /\ V \in Nat
    BY <1>1, WeightType, WorthType
  <2> HIDE DEF V, W, K
  <2>4. /\ 0 * OtherWeight(dir, price) = 0
        /\ (-(amount + owner)) * W = -((amount + owner) * W)
        /\ (-amount) * W = -(amount * W)
        /\ (amount + owner) * W \in Int /\ amount * W \in Int
    BY <1>1, <1>3, <2>3, SMT
  <2>5. QED
    BY <2>2, <2>3, <2>4, SMT
<1>15. V \in Nat
  BY <1>1, WorthType
<1> HIDE DEF K
<1>16. (V - gross * W + RAY) * supply >= V * T
  <2>1. gross * Weight(dir, price) * supply <= burnt * V + RAY * supply
    BY <1>1, <1>2, <1>3, <1>4, <1>5, BurnKeepsShareValue DEF Worth
  <2> HIDE DEF V
  <2>2. gross * W \in Nat /\ gross * W * supply <= burnt * V + RAY * supply
    <3>1. gross * W \in Nat
      BY <1>3, SMT
    <3>2. QED
      BY <2>1, <3>1
  <2>3. QED
    BY <1>1, <1>4, <1>15, <2>2, RAYAssumption, BurnArithmetic DEF T
<1> HIDE DEF V, W
\* Whatever leaves no less than V - gross * W is covered by the shares burnt.
<1>17. ASSUME NEW low \in Int, V - gross * W <= low
       PROVE  (low + RAY) * supply >= V * T
  <2>1. gross * W \in Int
    BY <1>3, SMT
  <2>2. /\ V - gross * W + RAY \in Int /\ low + RAY \in Int
        /\ V - gross * W + RAY <= low + RAY
    BY <1>15, <1>17, <2>1, RAYAssumption, SMT
  <2>3. (V - gross * W + RAY) * supply <= (low + RAY) * supply
    BY <1>1, <2>2, MulMono
  <2>4. /\ (V - gross * W + RAY) * supply \in Int /\ (low + RAY) * supply \in Int
        /\ V * T \in Int
    BY <1>1, <1>8, <1>15, <2>2, SMT
  <2>5. QED
    BY <1>16, <2>3, <2>4, SMT
<1>18. /\ amount * W <= gross * W /\ (amount + owner) * W <= gross * W
       /\ (amount + owner) * W = amount * W + owner * W
       /\ amount * W \in Nat /\ (amount + owner) * W \in Nat /\ owner * W \in Nat
       /\ gross * W \in Nat
  <2>1. amount + owner \in Nat
    BY <1>1, <1>3, SMT
  <2>2. amount * W <= gross * W /\ (amount + owner) * W <= gross * W
    BY <1>1, <1>3, <2>1, MulMono
  <2>3. QED
    BY <1>1, <1>3, <2>1, <2>2, SMT
<1>19. ShareValue!Priced /\ UNCHANGED (fees.owner.num # 0)
  BY <1>1, <1>6 DEF ShareValue!Priced
<1>20. CASE minted = 0
  <2>1. supply' = T
    BY <1>8, <1>11, <1>20, SMT
  <2>2. supply' < supply
    BY <1>8, <2>1
  <2>3. V - gross * W <= V - amount * W /\ V - amount * W \in Int
    BY <1>15, <1>18, SMT
  <2>4. ((V - amount * W) + RAY) * supply >= V * T
    BY <1>17, <2>3
  <2>5. (ShareValue!Value' + RAY) * supply >= ShareValue!Value * supply'
    BY <1>12, <1>14, <2>1, <2>4
  <2>6. ShareValue!RedeemSingle
    BY <1>19, <2>2, <2>5 DEF ShareValue!RedeemSingle
  <2>7. QED
    BY <2>6
<1>21. CASE minted > 0
  <2>1. minted = FeeMinted(FeePoolTokens(owner, a, b, T, dir), host, TRUE)
    BY DEF minted, fee, T
  <2>2. FeeMinted(FeePoolTokens(owner, a, b, T, dir), host, TRUE) > 0
    BY <1>21, <2>1
  <2>3. /\ owner > 0 /\ a \in Nat /\ b \in Nat /\ TotalValue(a, b, price) > 0
        /\ minted <= TradingTokensToPoolTokens(owner, a, b, T, dir, "Floor", price)
    BY <1>1, <1>3, <1>6, <1>8, <2>1, <2>2, FeeMintBound
  <2>4. minted * K <= owner * W * T + minted * RAY
    BY <1>1, <1>3, <1>8, <1>10, <2>3, MintKeepsShareValue DEF K, Worth, W
  <2>5. K \in Nat
    BY <1>1, <2>3, WorthType DEF K
  <2>6. V - gross * W <= K
    BY <1>14, <1>15, <1>18, SMT
  <2>7. (K + RAY) * supply >= V * T
    BY <1>17, <2>5, <2>6, SMT
  <2>8. ((K + owner * W) * supply - V * (T + minted)) * T
          + RAY * supply * (2 * (T + minted) - T) >= 0
    <3>1. K \in Int
      BY <2>5, SMT
    <3>2. QED
      BY <1>1, <1>8, <1>10, <1>15, <1>18, <2>4, <2>7, <3>1, RAYAssumption, BurnAndMintArithmetic
  <2>9. ShareValue!Value' = K + owner * W
    BY <1>14, <1>15, <1>18, <2>5, SMT
  <2>10. (ShareValue!Value' * supply - ShareValue!Value * supply') * T
           + RAY * supply * (2 * supply' - T) >= 0
    BY <1>11, <1>12, <2>8, <2>9
  <2>11. T # 0
    <3>1. SUFFICES ASSUME T = 0 PROVE FALSE
      OBVIOUS
    <3>2. GivenValue(owner, dir, price) \in Nat /\ TotalValue(a, b, price) \in Nat \ {0}
      BY <1>1, <1>3, <2>3, GivenValueBounds, TotalValueBounds, SMT
    <3>3. T * GivenValue(owner, dir, price) = 0
      BY <3>1, <3>2, SMT
    <3>4. TradingTokensToPoolTokens(owner, a, b, T, dir, "Floor", price)
            = 0 \div TotalValue(a, b, price)
      BY <3>3 DEF TradingTokensToPoolTokens, Divide
    <3>5. 0 \div TotalValue(a, b, price) = 0
      BY <3>2, SMT
    <3>6. QED
      BY <1>10, <1>21, <2>3, <3>4, <3>5, SMT
  <2>12. T \in 1 .. (supply - 1) /\ T < supply'
    BY <1>1, <1>8, <1>10, <1>11, <1>21, <2>11, SMT
  <2>13. fees.owner.num # 0
    <3>1. SUFFICES ASSUME fees.owner.num = 0 PROVE FALSE
      OBVIOUS
    <3>2. owner = 0
      BY <3>1 DEF owner, WithdrawOwnerFee, OwnerTradingFee, CalculateFee
    <3>3. QED
      BY <2>3, <3>2, SMT
  <2>14. /\ tokenA'[Reserve] <= tokenA[Reserve] /\ tokenB'[Reserve] <= tokenB[Reserve]
         /\ tokenA'[Reserve] = tokenA[Reserve] \/ tokenB'[Reserve] = tokenB[Reserve]
    <3>1. CASE dir = "AtoB"
      BY <1>1, <1>7, <3>1, SMT DEF ra, rb
    <3>2. CASE dir = "BtoA"
      BY <1>1, <1>7, <3>2, SMT DEF ra, rb
    <3>3. QED
      BY <3>1, <3>2 DEF Direction
  <2>15. (fees.owner.num # 0)'
    BY <1>6, <2>13
  <2>16. ShareValue!RedeemSingleForFee
    BY <1>19, <2>10, <2>12, <2>13, <2>14, <2>15 DEF ShareValue!RedeemSingleForFee
  <2>17. QED
    BY <2>16
<1>22. QED
  BY <1>10, <1>20, <1>21, SMT

LEMMA TokenProgramMaps ==
  ASSUME PoolInv, TokenProgram
  PROVE  [ShareValue!Next]_ShareValue!vars
<1>1. PICK amount \in Amounts :
        \/ \E source \in TokenAccounts : DonateA(source, amount) \/ DonateB(source, amount)
        \/ \E source, destination \in PoolAccounts :
             TransferPoolTokens(source, destination, amount)
        \/ \E source \in PoolAccounts : BurnPoolTokens(source, amount)
  BY DEF TokenProgram
<1>2. /\ amount \in Nat /\ supply \in Nat
      /\ tokenA[Reserve] \in Nat /\ tokenB[Reserve] \in Nat
      /\ tokenA \in [TokenAccounts -> Nat] /\ tokenB \in [TokenAccounts -> Nat]
  BY SMT DEF PoolInv, TypeOK, TokenAccounts, Amounts
<1>3. ASSUME NEW source \in TokenAccounts, DonateA(source, amount)
      PROVE  ShareValue!Gift
  <2>1. tokenA'[Reserve] = tokenA[Reserve] + amount /\ tokenB' = tokenB
    BY <1>2, <1>3, MoveToReserve DEF DonateA, Donate
  <2>2. tokenA'[Reserve] >= tokenA[Reserve] /\ tokenB'[Reserve] >= tokenB[Reserve]
    BY <1>2, <2>1, SMT
  <2>3. UNCHANGED <<fees, price, supply>>
    BY <1>3 DEF DonateA
  <2>4. QED
    BY <2>2, <2>3 DEF ShareValue!Gift
<1>4. ASSUME NEW source \in TokenAccounts, DonateB(source, amount)
      PROVE  ShareValue!Gift
  <2>1. tokenB'[Reserve] = tokenB[Reserve] + amount /\ tokenA' = tokenA
    BY <1>2, <1>4, MoveToReserve DEF DonateB, Donate
  <2>2. tokenA'[Reserve] >= tokenA[Reserve] /\ tokenB'[Reserve] >= tokenB[Reserve]
    BY <1>2, <2>1, SMT
  <2>3. UNCHANGED <<fees, price, supply>>
    BY <1>4 DEF DonateB
  <2>4. QED
    BY <2>2, <2>3 DEF ShareValue!Gift
<1>5. ASSUME NEW source \in PoolAccounts, NEW destination \in PoolAccounts,
             TransferPoolTokens(source, destination, amount)
      PROVE  UNCHANGED ShareValue!vars
  BY <1>5, StutterMaps DEF TransferPoolTokens
<1>6. ASSUME NEW source \in PoolAccounts, BurnPoolTokens(source, amount)
      PROVE  ShareValue!RedeemBoth \/ UNCHANGED ShareValue!vars
  <2>1. supply' = supply - amount /\ UNCHANGED <<fees, price, tokenA, tokenB>>
    BY <1>6 DEF BurnPoolTokens
  <2>2. CASE amount = 0
    <3>1. supply' = supply
      BY <1>2, <2>1, <2>2, SMT
    <3>2. QED
      BY <2>1, <3>1, StutterMaps
  <2>3. CASE amount > 0
    <3>1. supply' < supply /\ supply' \in Int /\ supply' <= supply
      BY <1>2, <2>1, <2>3, SMT
    <3>2. supply' * tokenA[Reserve] <= supply * tokenA[Reserve]
          /\ supply' * tokenB[Reserve] <= supply * tokenB[Reserve]
      BY <1>2, <3>1, MulMono, SMT
    <3>3. /\ tokenA'[Reserve] * supply >= tokenA[Reserve] * supply'
          /\ tokenB'[Reserve] * supply >= tokenB[Reserve] * supply'
      BY <1>2, <2>1, <3>1, <3>2, SMT
    <3>4. ShareValue!RedeemBoth
      BY <2>1, <3>1, <3>3 DEF ShareValue!RedeemBoth
    <3>5. QED
      BY <3>4
  <2>4. QED
    BY <1>2, <2>2, <2>3, SMT
<1>7. QED
  BY <1>1, <1>3, <1>4, <1>5, <1>6 DEF ShareValue!Next

-----------------------------------------------------------------------------
LEMMA StepMaps ==
  ASSUME PoolInv, [Next]_vars
  PROVE  [ShareValue!Next]_ShareValue!vars
<1>1. ASSUME NEW f \in FeeSchedules, Initialize(f)
      PROVE  [ShareValue!Next]_ShareValue!vars
  BY <1>1, InitializeMaps DEF ShareValue!Next
<1>2. CASE Trading
  BY <1>2, SwapMaps DEF Trading, ShareValue!Next
<1>3. CASE Depositing
  BY <1>3, DepositAllMaps, DepositSingleMaps DEF Depositing, ShareValue!Next
<1>4. CASE Withdrawing
  BY <1>4, WithdrawAllMaps, WithdrawSingleMaps DEF Withdrawing, ShareValue!Next
<1>5. CASE TokenProgram
  BY <1>5, TokenProgramMaps
<1>6. CASE FeeAccountOwner
  <2>1. UNCHANGED <<fees, price, supply, tokenA, tokenB>>
    BY <1>6 DEF FeeAccountOwner, CloseFeeAccount, ReopenFeeAccount
  <2>2. QED
    BY <2>1, StutterMaps
<1>7. CASE Reprice
  <2>1. /\ price' \in Nat \cup {NoPrice}
        /\ UNCHANGED <<fees, supply, tokenA, tokenB>>
    BY <1>7, PoolAssumption DEF Reprice
  <2>2. ShareValue!Reprice
    BY <2>1 DEF ShareValue!Reprice
  <2>3. QED
    BY <2>2 DEF ShareValue!Next
<1>8. CASE UNCHANGED vars
  <2>1. UNCHANGED <<fees, price, supply, tokenA, tokenB>>
    BY <1>8 DEF vars
  <2>2. QED
    BY <2>1, StutterMaps
<1>9. QED
  BY <1>1, <1>2, <1>3, <1>4, <1>5, <1>6, <1>7, <1>8 DEF Next

(***************************************************************************)
(* Every instruction of processor.rs, every transfer or burn of the token  *)
(* program and every move of the price is a step Vault allows: whatever    *)
(* the schedule, the amounts and the order, a pool token keeps its value   *)
(* at a standing price, up to the dust of each step.                       *)
(***************************************************************************)
THEOREM PoolImplementsVault == Spec => ImplementsVault
<1>1. Init => ShareValue!Init
  BY InitMaps
<1>2. PoolInv /\ [Next]_vars => [ShareValue!Next]_ShareValue!vars
  BY StepMaps
<1>3. QED
  BY <1>1, <1>2, PoolInvHolds, PTL DEF Spec, ImplementsVault, ShareValue!Spec
=============================================================================
