-------------------------------- MODULE Pool --------------------------------
(***************************************************************************)
(* One PSM pool under the two price curves: the five token instructions    *)
(* of program/src/processor.rs and Initialize's effect on the pool, over   *)
(* the token accounts they move tokens between.                            *)
(*                                                                         *)
(* A Solana transaction is atomic: a handler that returns an error changes *)
(* nothing.  One handler is therefore one action: its guard is that no     *)
(* check of the handler, and none of the token program it calls, fails.    *)
(* The price the curve answers with is a variable here, free to move at    *)
(* any time; what moves it is for module RedemptionRate.                   *)
(***************************************************************************)
EXTENDS SwapCurve

CONSTANTS
  Users,            \* the holders of token accounts, one account per mint each
  Reserve,          \* the pool's own token A and token B accounts
  FeeAccount,       \* the pool fee account (pool tokens)
  InitDestination,  \* the pool tokens of the "init_destination" address
  NoAccount,        \* an optional account that was not passed
  NoPrice,          \* the price when the curve cannot compute one
  Prices,           \* the prices the curve may answer with
  FeeSchedules,     \* the schedules Initialize may be called with
  InitialA,         \* the token A of every token account at the start
  InitialB,         \* the same for token B
  InitialSupply,    \* INITIAL_SWAP_POOL_AMOUNT
  U64_MAX,          \* the largest amount an instruction or an account holds
  Limits            \* the slippage limits callers pass

TokenAccounts == Users \cup {Reserve}
PoolAccounts  == Users \cup {FeeAccount, InitDestination}
Amounts       == 0 .. U64_MAX

ASSUME PoolAssumption ==
  /\ Reserve \notin Users
  /\ FeeAccount \notin Users /\ InitDestination \notin Users
  /\ FeeAccount # InitDestination
  /\ NoAccount \notin PoolAccounts
  /\ NoPrice \notin Nat
  /\ Prices \subseteq Nat
  /\ FeeSchedules \subseteq FeeSchedule
  /\ InitialA \in [TokenAccounts -> Nat] /\ InitialB \in [TokenAccounts -> Nat]
  /\ U64_MAX \in Nat
  /\ InitialSupply \in 1 .. U64_MAX
  /\ Limits \subseteq Nat

VARIABLES
  initialized,  \* SwapV1.is_initialized
  fees,         \* SwapV1.fees, fixed by Initialize
  price,        \* what the curve answers now: RAY * (A per B), or NoPrice
  tokenA,       \* token A held by each token account
  tokenB,       \* token B held by each token account
  poolToken,    \* pool tokens held by each pool token account
  supply,       \* pool_mint.supply
  feeAccountOpen \* the pool fee account exists and is a token account

vars == <<initialized, fees, price, tokenA, tokenB, poolToken, supply, feeAccountOpen>>

TypeOK ==
  /\ initialized \in BOOLEAN
  /\ fees \in FeeSchedule
  /\ price \in Nat \cup {NoPrice}
  /\ tokenA \in [TokenAccounts -> Nat]
  /\ tokenB \in [TokenAccounts -> Nat]
  /\ poolToken \in [PoolAccounts -> Nat]
  /\ supply \in Amounts
  /\ feeAccountOpen \in BOOLEAN

NoFees ==
  LET none == [num |-> 0, den |-> 0]
  IN  [trade |-> none, owner |-> none, withdraw |-> none, host |-> none]

Init ==
  /\ initialized = FALSE
  /\ fees = NoFees
  /\ price \in Prices
  /\ tokenA = InitialA /\ tokenB = InitialB
  /\ poolToken = [acc \in PoolAccounts |-> 0]
  /\ supply = 0
  /\ feeAccountOpen = TRUE

-----------------------------------------------------------------------------
(* The token program: moving, minting and burning. *)

Move(ledger, from, to, amount) ==
  LET debited == [ledger EXCEPT ![from] = @ - amount]
  IN  [debited EXCEPT ![to] = @ + amount]

Credit(ledger, to, amount) ==
  IF to = NoAccount THEN ledger ELSE [ledger EXCEPT ![to] = @ + amount]

Exists(acc) == acc = FeeAccount => feeAccountOpen

\* Mutant: the owner of the account the first pool tokens go to is not checked.
SignersOfEveryAccount == PoolAccounts

\* The accounts whose owner can sign; nobody can sign for InitDestination.
Signers == Users \cup {FeeAccount}

-----------------------------------------------------------------------------
(***************************************************************************)
(* The owner's trading fee leaves as pool tokens: fee of them are split    *)
(* between the host account, when the caller passed one, and the pool fee  *)
(* account, when it still can receive them.                                *)
(***************************************************************************)
HostPart(fee, host) == IF host = NoAccount \/ fee = 0 THEN 0 ELSE HostFee(fee, fees)

OwnerPart(fee, host, feeAccountGiven) ==
  IF feeAccountGiven /\ feeAccountOpen THEN fee - HostPart(fee, host) ELSE 0

FeeMinted(fee, host, feeAccountGiven) ==
  HostPart(fee, host) + OwnerPart(fee, host, feeAccountGiven)

CreditFee(ledger, fee, host, feeAccountGiven) ==
  Credit(Credit(ledger, host, HostPart(fee, host)),
         FeeAccount, OwnerPart(fee, host, feeAccountGiven))

\* The pool tokens the owner's fee is worth; 0 when there is no fee.
FeePoolTokens(ownerFee, a, b, total, dir) ==
  IF ownerFee = 0 THEN 0
  ELSE TradingTokensToPoolTokens(ownerFee, a, b, total, dir, "Floor", price)

FeePoolTokensDefined(ownerFee, a, b) ==
  ownerFee > 0 => a >= 0 /\ b >= 0 /\ TotalValue(a, b, price) > 0

HostOK(fee, host) == fee > 0 => Exists(host)

-----------------------------------------------------------------------------
(***************************************************************************)
(* process_initialize, as far as the pool's tokens go: the first pool      *)
(* tokens are minted to an account nobody can sign for.                    *)
(***************************************************************************)
Initialize(f) ==
  /\ ~initialized
  /\ supply = 0
  /\ feeAccountOpen
  /\ tokenA[Reserve] # 0                       \* validate_supply
  /\ ValidFees(f)
  /\ price # NoPrice /\ price # 0               \* validate
  /\ initialized' = TRUE
  /\ fees' = f
  /\ supply' = InitialSupply
  /\ poolToken' = Credit(poolToken, InitDestination, InitialSupply)
  /\ UNCHANGED <<price, tokenA, tokenB, feeAccountOpen>>

(***************************************************************************)
(* process_swap: amount of one token from source against the other token   *)
(* to destination.  Any token account may be named: the pool's authority   *)
(* signs every transfer, so only the two checks keep its accounts out.     *)
(***************************************************************************)
SwapTransfers(dir, source, destination, in, out) ==
  IF dir = "AtoB"
    THEN /\ tokenA' = Move(tokenA, source, Reserve, in)
         /\ tokenB' = Move(tokenB, Reserve, destination, out)
    ELSE /\ tokenB' = Move(tokenB, source, Reserve, in)
         /\ tokenA' = Move(tokenA, Reserve, destination, out)

Swap(dir, source, destination, amount, minimumOut, host) ==
  LET from == IF dir = "AtoB" THEN tokenA ELSE tokenB
      into == IF dir = "AtoB" THEN tokenB ELSE tokenA
      r    == SwapResult(amount, dir, fees, price)
      \* the reserves after the swap, the owner's fee left out
      kept == from[Reserve] + r.sourceAmount - r.ownerFee
      left == into[Reserve] - r.destinationAmount
      a    == IF dir = "AtoB" THEN kept ELSE left
      b    == IF dir = "AtoB" THEN left ELSE kept
      fee  == FeePoolTokens(r.ownerFee, a, b, supply, dir)
      minted == FeeMinted(fee, host, TRUE)
  IN  /\ initialized
      /\ price # NoPrice
      /\ source # Reserve /\ destination # Reserve
      /\ SwapDefined(amount, into[Reserve], dir, fees, price)
      /\ r.destinationAmount >= minimumOut
      /\ r.sourceAmount <= from[source]
      /\ FeePoolTokensDefined(r.ownerFee, a, b)
      /\ HostOK(fee, host)
      /\ supply + minted <= U64_MAX
      /\ SwapTransfers(dir, source, destination, r.sourceAmount, r.destinationAmount)
      /\ poolToken' = CreditFee(poolToken, fee, host, TRUE)
      /\ supply' = supply + minted
      /\ UNCHANGED <<initialized, fees, price, feeAccountOpen>>

(***************************************************************************)
(* process_deposit_all_token_types: poolAmount pool tokens for their part  *)
(* of both reserves.  No price is needed.                                  *)
(***************************************************************************)
DepositAll(source, destination, poolAmount, maximumA, maximumB) ==
  LET a == PoolTokensToTradingTokens(poolAmount, tokenA[Reserve], supply, "Ceiling")
      b == PoolTokensToTradingTokens(poolAmount, tokenB[Reserve], supply, "Ceiling")
  IN  /\ initialized
      /\ supply > 0
      /\ source # Reserve
      /\ a <= maximumA /\ b <= maximumB
      /\ a <= tokenA[source] /\ b <= tokenB[source]
      /\ Exists(destination)
      /\ supply + poolAmount <= U64_MAX
      /\ tokenA' = Move(tokenA, source, Reserve, a)
      /\ tokenB' = Move(tokenB, source, Reserve, b)
      /\ poolToken' = Credit(poolToken, destination, poolAmount)
      /\ supply' = supply + poolAmount
      /\ UNCHANGED <<initialized, fees, price, feeAccountOpen>>

-----------------------------------------------------------------------------
\* Mutant: the withdrawal fee is charged whether or not it can be received.
WithdrawFeeToClosedAccount(poolAmount, source) ==
  IF source # FeeAccount THEN OwnerWithdrawFee(poolAmount, fees) ELSE 0

\* Pool tokens kept back from a withdrawal, unless it is the fee account's own.
WithdrawFee(poolAmount, source) ==
  IF feeAccountOpen /\ source # FeeAccount THEN OwnerWithdrawFee(poolAmount, fees) ELSE 0

AtMost(bound, x) == IF x <= bound THEN x ELSE bound

\* The part of a reserve that burnt pool tokens redeem.
Redeemed(ledger, burnt) ==
  AtMost(ledger[Reserve], PoolTokensToTradingTokens(burnt, ledger[Reserve], supply, "Floor"))

BurnFrom(ledger, source, burnt, withdrawFee) ==
  [Move(ledger, source, FeeAccount, withdrawFee) EXCEPT ![source] = @ - burnt]

(***************************************************************************)
(* process_withdraw_all_token_types: poolAmount pool tokens, less the      *)
(* withdrawal fee, for their part of both reserves.  No price is needed.   *)
(***************************************************************************)
WithdrawAllSucceeds(source, destination, poolAmount, minimumA, minimumB) ==
  LET fee   == WithdrawFee(poolAmount, source)
      burnt == poolAmount - fee
  IN  /\ initialized
      /\ supply > 0
      /\ source \in Signers /\ Exists(source)
      /\ destination # Reserve
      /\ burnt \in 0 .. supply
      /\ fee > 0 => Exists(FeeAccount)
      /\ poolAmount <= poolToken[source]
      /\ Redeemed(tokenA, burnt) >= minimumA /\ Redeemed(tokenB, burnt) >= minimumB

WithdrawAll(source, destination, poolAmount, minimumA, minimumB) ==
  LET fee   == WithdrawFee(poolAmount, source)
      burnt == poolAmount - fee
  IN  /\ WithdrawAllSucceeds(source, destination, poolAmount, minimumA, minimumB)
      /\ poolToken' = BurnFrom(poolToken, source, burnt, fee)
      /\ supply' = supply - burnt
      /\ tokenA' = Move(tokenA, Reserve, destination, Redeemed(tokenA, burnt))
      /\ tokenB' = Move(tokenB, Reserve, destination, Redeemed(tokenB, burnt))
      /\ UNCHANGED <<initialized, fees, price, feeAccountOpen>>

-----------------------------------------------------------------------------
(***************************************************************************)
(* process_deposit_single_token_type_exact_amount_in: amount of one token  *)
(* for the pool tokens it is worth.  The two fee accounts are optional and *)
(* the host account comes after the pool fee account.                      *)
(***************************************************************************)
DepositSingleExactIn(dir, source, destination, amount, minimumPool, feeAccountGiven, host) ==
  LET from == IF dir = "AtoB" THEN tokenA ELSE tokenB
      a    == tokenA[Reserve]
      b    == tokenB[Reserve]
      poolAmount == DepositSingle(amount, a, b, supply, dir, fees, price)
      ownerFee   == DepositOwnerFee(amount, fees)
      a2   == IF dir = "AtoB" THEN a + amount - ownerFee ELSE a
      b2   == IF dir = "AtoB" THEN b ELSE b + amount - ownerFee
      fee  == FeePoolTokens(ownerFee, a2, b2, supply + poolAmount, dir)
      minted == FeeMinted(fee, host, feeAccountGiven)
  IN  /\ initialized
      /\ price # NoPrice
      /\ host # NoAccount => feeAccountGiven
      /\ source # Reserve
      /\ DepositDefined(amount, a, b, fees, price)
      /\ poolAmount >= minimumPool
      /\ poolAmount # 0
      /\ FeePoolTokensDefined(ownerFee, a2, b2)
      /\ HostOK(fee, host)
      /\ amount <= from[source]
      /\ Exists(destination)
      /\ supply + poolAmount + minted <= U64_MAX
      /\ IF dir = "AtoB"
           THEN tokenA' = Move(tokenA, source, Reserve, amount) /\ UNCHANGED tokenB
           ELSE tokenB' = Move(tokenB, source, Reserve, amount) /\ UNCHANGED tokenA
      /\ poolToken' = Credit(CreditFee(poolToken, fee, host, feeAccountGiven),
                             destination, poolAmount)
      /\ supply' = supply + poolAmount + minted
      /\ UNCHANGED <<initialized, fees, price, feeAccountOpen>>

(***************************************************************************)
(* process_withdraw_single_token_type_exact_amount_out: the exact amount   *)
(* of one token for the pool tokens it costs.  The owner's fee is minted   *)
(* before the pool tokens are burnt.                                       *)
(***************************************************************************)
WithdrawSingleExactOut(dir, source, destination, amount, maximumPool, host) ==
  LET into == IF dir = "AtoB" THEN tokenA ELSE tokenB
      a    == tokenA[Reserve]
      b    == tokenB[Reserve]
      burnt == WithdrawSingle(amount, a, b, supply, dir, fees, price)
      withdrawFee == WithdrawFee(burnt, source)
      ownerFee    == WithdrawOwnerFee(amount, fees)
      a2   == IF dir = "AtoB" THEN a - amount - ownerFee ELSE a
      b2   == IF dir = "AtoB" THEN b ELSE b - amount - ownerFee
      fee  == FeePoolTokens(ownerFee, a2, b2, supply - burnt, dir)
      minted == FeeMinted(fee, host, TRUE)
      credited == CreditFee(poolToken, fee, host, TRUE)
  IN  /\ initialized
      /\ price # NoPrice
      /\ source \in Signers /\ Exists(source)
      /\ destination # Reserve
      /\ WithdrawDefined(a, b, fees, price)
      /\ burnt <= supply
      /\ FeePoolTokensDefined(ownerFee, a2, b2)
      /\ HostOK(fee, host)
      /\ burnt + withdrawFee <= maximumPool
      /\ burnt + withdrawFee # 0
      /\ withdrawFee > 0 => Exists(FeeAccount)
      /\ supply + minted <= U64_MAX
      /\ burnt + withdrawFee <= credited[source]
      /\ amount <= into[Reserve]
      /\ poolToken' = BurnFrom(credited, source, burnt, withdrawFee)
      /\ supply' = supply + minted - burnt
      /\ IF dir = "AtoB"
           THEN tokenA' = Move(tokenA, Reserve, destination, amount) /\ UNCHANGED tokenB
           ELSE tokenB' = Move(tokenB, Reserve, destination, amount) /\ UNCHANGED tokenA
      /\ UNCHANGED <<initialized, fees, price, feeAccountOpen>>

-----------------------------------------------------------------------------
(* What the token program and the curve do without a pool instruction. *)

\* The curve answers with another price: time passes or SetRates is called.
Reprice ==
  /\ price' \in Prices \cup {NoPrice}
  /\ UNCHANGED <<initialized, fees, tokenA, tokenB, poolToken, supply, feeAccountOpen>>

Donate(ledger, source, amount) ==
  /\ source # Reserve
  /\ amount <= ledger[source]

DonateA(source, amount) ==
  /\ Donate(tokenA, source, amount)
  /\ tokenA' = Move(tokenA, source, Reserve, amount)
  /\ UNCHANGED <<initialized, fees, price, tokenB, poolToken, supply, feeAccountOpen>>

DonateB(source, amount) ==
  /\ Donate(tokenB, source, amount)
  /\ tokenB' = Move(tokenB, source, Reserve, amount)
  /\ UNCHANGED <<initialized, fees, price, tokenA, poolToken, supply, feeAccountOpen>>

TransferPoolTokens(source, destination, amount) ==
  /\ source \in Signers /\ Exists(source) /\ Exists(destination)
  /\ amount <= poolToken[source]
  /\ poolToken' = Move(poolToken, source, destination, amount)
  /\ UNCHANGED <<initialized, fees, price, tokenA, tokenB, supply, feeAccountOpen>>

BurnPoolTokens(source, amount) ==
  /\ source \in Signers /\ Exists(source)
  /\ amount <= poolToken[source] /\ amount <= supply
  /\ poolToken' = [poolToken EXCEPT ![source] = @ - amount]
  /\ supply' = supply - amount
  /\ UNCHANGED <<initialized, fees, price, tokenA, tokenB, feeAccountOpen>>

\* The owner of the fee account may close it when it is empty, and recreate it.
CloseFeeAccount ==
  /\ feeAccountOpen /\ poolToken[FeeAccount] = 0
  /\ feeAccountOpen' = FALSE
  /\ UNCHANGED <<initialized, fees, price, tokenA, tokenB, poolToken, supply>>

ReopenFeeAccount ==
  /\ ~feeAccountOpen
  /\ feeAccountOpen' = TRUE
  /\ UNCHANGED <<initialized, fees, price, tokenA, tokenB, poolToken, supply>>

-----------------------------------------------------------------------------
Hosts == PoolAccounts \cup {NoAccount}

Trading ==
  \E dir \in Direction, source, destination \in TokenAccounts,
     amount \in Amounts, minimum \in Limits, host \in Hosts :
       Swap(dir, source, destination, amount, minimum, host)

Depositing ==
  \E source \in TokenAccounts, destination \in PoolAccounts,
     amount \in Amounts, limit \in Limits :
       \/ DepositAll(source, destination, amount, limit, limit)
       \/ \E dir \in Direction, given \in BOOLEAN, host \in Hosts :
            DepositSingleExactIn(dir, source, destination, amount, limit, given, host)

Withdrawing ==
  \E source \in PoolAccounts, destination \in TokenAccounts,
     amount \in Amounts, limit \in Limits :
       \/ WithdrawAll(source, destination, amount, limit, limit)
       \/ \E dir \in Direction, host \in Hosts :
            WithdrawSingleExactOut(dir, source, destination, amount, limit, host)

TokenProgram ==
  \E amount \in Amounts :
    \/ \E source \in TokenAccounts : DonateA(source, amount) \/ DonateB(source, amount)
    \/ \E source, destination \in PoolAccounts :
         TransferPoolTokens(source, destination, amount)
    \/ \E source \in PoolAccounts : BurnPoolTokens(source, amount)

FeeAccountOwner == CloseFeeAccount \/ ReopenFeeAccount

Next ==
  \/ \E f \in FeeSchedules : Initialize(f)
  \/ Trading \/ Depositing \/ Withdrawing
  \/ TokenProgram \/ FeeAccountOwner
  \/ Reprice

Spec == Init /\ [][Next]_vars

-----------------------------------------------------------------------------
(* Properties. *)

(***************************************************************************)
(* The pool never runs out of pool tokens: the handlers of processor.rs    *)
(* divide by the supply and rely on the tokens minted by Initialize being  *)
(* out of everybody's reach.                                               *)
(***************************************************************************)
SupplyNeverDrained ==
  initialized => /\ poolToken[InitDestination] >= InitialSupply
                 /\ supply >= InitialSupply

(***************************************************************************)
(* Whoever holds pool tokens can redeem all of them at once for both       *)
(* tokens, whatever the curve's rate does (even if it cannot be computed)  *)
(* and whether or not the fee account still exists: no check of the        *)
(* handler and no call it makes fails.                                     *)
(***************************************************************************)
ExitAlwaysOpen ==
  initialized =>
    \A u \in Users : WithdrawAllSucceeds(u, u, poolToken[u], 0, 0)

(***************************************************************************)
(* A swap takes no more from its source account than the amount_in of the  *)
(* instruction, also when the curve uses less than the amount and the fees *)
(* are computed again.                                                     *)
(***************************************************************************)
TakesMoreThan(amount, source) ==
  \/ tokenA[source] - tokenA'[source] > amount
  \/ tokenB[source] - tokenB'[source] > amount

SwapTakesNoMoreThanAmountIn ==
  \A source \in Users, amount \in Amounts :
    TakesMoreThan(amount, source) =>
      \A dir \in Direction, destination \in Users, host \in Hosts :
        ~Swap(dir, source, destination, amount, 0, host)

DebitWithinAmountIn == [][SwapTakesNoMoreThanAmountIn]_vars

(***************************************************************************)
(* The same of a pool that charges no more than one of the two trading     *)
(* fees: then the fee computed again for the amount used rounds no higher  *)
(* than the one computed first.                                            *)
(***************************************************************************)
OneFeeDebitsWithinAmountIn ==
  [][fees.trade.num = 0 \/ fees.owner.num = 0 => SwapTakesNoMoreThanAmountIn]_vars

(***************************************************************************)
(* At a standing price no step of the pool takes value out of a pool token *)
(* beyond the dust module Vault names.                                     *)
(***************************************************************************)
ShareValue == INSTANCE Vault WITH
  a <- tokenA[Reserve], b <- tokenB[Reserve], exitFee <- (fees.owner.num # 0)
ImplementsVault == ShareValue!Spec
=============================================================================
