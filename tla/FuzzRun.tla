------------------------------- MODULE FuzzRun ------------------------------
(***************************************************************************)
(* The repository's fuzz target (program/fuzz/src): a pool is opened with  *)
(* a fixed schedule and one of four curves, any list of token instructions *)
(* is run on it, each with its own delegate, and the target asserts that   *)
(* no instruction fails in an unexpected way, that no value is lost, that  *)
(* tokens are neither made nor lost, and that everything can be withdrawn. *)
(*                                                                         *)
(* The target reads the instruction list before it runs it, to create the  *)
(* accounts.  Here an account is created by the first instruction that     *)
(* names it: nothing looks at it earlier.  Every state that is Running is  *)
(* the end of the run of the list executed so far.                         *)
(***************************************************************************)
EXTENDS Ledgers

CONSTANTS
  Withdrawn,        \* the accounts the last withdrawal goes to
  Schedule,         \* the fees of run_fuzz
  InitialSwapA, InitialSwapB,   \* INITIAL_SWAP_TOKEN_A_AMOUNT and B
  InitialUserA, InitialUserB,   \* INITIAL_USER_TOKEN_A_AMOUNT and B
  Numbers,          \* the amounts of instructions
  Bounds,           \* their slippage bounds
  MaxInstructions   \* the length of the longest list

\* AccountId: the names the lists give to accounts.
AccountIds == Users \ {Withdrawn}

ASSUME FuzzAssumption ==
  /\ Withdrawn \in Users
  /\ Schedule \in FeeSchedule
  /\ InitialSwapA \in Nat /\ InitialSwapB \in Nat
  /\ InitialUserA \in Nat /\ InitialUserB \in Nat
  /\ Numbers \subseteq 0 .. U64_MAX
  /\ MaxInstructions \in Nat

VARIABLES
  created,   \* the keys of token_a_accounts, token_b_accounts and pool_accounts
  counted,   \* the ids the totals of token A and B count
  executed,  \* how many instructions were run
  phase      \* "Running", "Panicked" or "Finished"

fuzzVars == <<curve, ledger, created, counted, executed, phase>>

FuzzTypeOK ==
  /\ curve \in Curves
  /\ ledger \in Ledger
  /\ created \in [a : SUBSET AccountIds, b : SUBSET AccountIds, pool : SUBSET AccountIds]
  /\ counted \in [a : SUBSET AccountIds, b : SUBSET AccountIds]
  /\ executed \in 0 .. MaxInstructions
  /\ phase \in {"Running", "Panicked", "Finished"}

-----------------------------------------------------------------------------
(* NativeTokenSwap::new: the accounts and the pool. *)

NewLedger ==
  [a |-> [acc \in TokenAccounts |-> IF acc = Reserve THEN InitialSwapA ELSE 0],
   b |-> [acc \in TokenAccounts |-> IF acc = Reserve THEN InitialSwapB ELSE 0],
   pool |-> [acc \in PoolAccounts |-> 0],
   supply |-> 0]

FuzzInit ==
  /\ curve \in Curves
  /\ LET o == InitializePool(curve, Schedule, NewLedger)
     IN  /\ ledger = Committed(NewLedger, o)
         /\ phase = IF o.code = Ok THEN "Running" ELSE "Panicked"
  /\ created = [a |-> {}, b |-> {}, pool |-> {}]
  /\ counted = [a |-> {}, b |-> {}]
  /\ executed = 0

-----------------------------------------------------------------------------
(* A fuzzed instruction and the accounts it makes the target create. *)

Instruction(kind, tokenA, tokenB, pool, dir) ==
  [kind |-> kind, a |-> tokenA, b |-> tokenB, pool |-> pool, dir |-> dir]

OneToken(i) == i.kind \in {"DepositSingleTokenTypeExactAmountIn",
                           "WithdrawSingleTokenTypeExactAmountOut"}

Names(i) ==
  [a |-> IF OneToken(i) /\ i.dir = "BtoA" THEN {} ELSE {i.a},
   b |-> IF OneToken(i) /\ i.dir = "AtoB" THEN {} ELSE {i.b},
   pool |-> IF i.kind = "Swap" THEN {} ELSE {i.pool}]

CreateAccounts(i) ==
  [ledger EXCEPT
    !.a = [acc \in TokenAccounts |-> IF acc \in Names(i).a \ created.a THEN InitialUserA ELSE @[acc]],
    !.b = [acc \in TokenAccounts |-> IF acc \in Names(i).b \ created.b THEN InitialUserB ELSE @[acc]]]

\* get_total_token_a_amount and get_total_token_b_amount: the ids they count.
CountedA(i) == IF OneToken(i) /\ i.dir # "AtoB" THEN {} ELSE {i.a}

\* Mutant: the total of token B counts the deposits and withdrawals of token A.
CountedBOfA(i) == IF OneToken(i) /\ i.dir # "AtoB" THEN {} ELSE {i.b}

CountedB(i) == IF OneToken(i) /\ i.dir # "BtoA" THEN {} ELSE {i.b}

\* Mutant: a curve that takes no deposits is not expected.
ExpectedOfEveryCurve ==
  {SwapCode(e) : e \in {"CalculationFailure", "ConversionFailure", "FeeCalculationFailure",
                        "ExceededSlippage", "ZeroTradingTokens"}}
    \cup {TokenCode("InsufficientFunds")}

\* The failures run_fuzz_instruction expects; it compares numbers.
Expected ==
  {SwapCode(e) : e \in {"CalculationFailure", "ConversionFailure", "FeeCalculationFailure",
                        "ExceededSlippage", "ZeroTradingTokens", "UnsupportedCurveOperation"}}
    \cup {TokenCode("InsufficientFunds")}

\* run_fuzz_instruction, once the outcome of the instruction is known.
Ran(i, before, outcome) ==
  /\ phase = "Running" /\ executed < MaxInstructions
  /\ ledger' = Committed(before, outcome)
  /\ phase' = IF outcome.code \in Expected \cup {Ok} THEN "Running" ELSE "Panicked"
  /\ created' = [k \in {"a", "b", "pool"} |-> created[k] \cup Names(i)[k]]
  /\ counted' = [a |-> counted.a \cup CountedA(i), b |-> counted.b \cup CountedB(i)]
  /\ executed' = executed + 1
  /\ UNCHANGED curve

-----------------------------------------------------------------------------
(* NativeTokenSwap's five instructions: what the delegate may take, and    *)
(* the amounts that are changed so that no single pool token is left.      *)

RunSwap(tokenA, tokenB, dir, amount, minimum) ==
  LET i == Instruction("Swap", tokenA, tokenB, tokenA, dir)
      l == CreateAccounts(i)
  IN  Ran(i, l, IF dir = "AtoB"
        THEN ProcessSwap(curve, Schedule, l, dir, tokenA, tokenB, amount, minimum,
                         InitDestination, amount)
        ELSE ProcessSwap(curve, Schedule, l, dir, tokenB, tokenA, amount, minimum,
                         InitDestination, amount))

RunDepositAll(tokenA, tokenB, pool, amount, maximum) ==
  LET i == Instruction("DepositAllTokenTypes", tokenA, tokenB, pool, "AtoB")
      l == CreateAccounts(i)
  IN  Ran(i, l, DepositAllTokenTypes(curve, Schedule, l, tokenA, tokenB, pool,
                                     IF amount = 1 THEN 2 ELSE amount, maximum, maximum))

\* All of the balance when one pool token would be left.
NotAllButOne(balance, amount) == IF balance - amount = 1 THEN balance ELSE amount

RunWithdrawAll(tokenA, tokenB, pool, amount, minimum) ==
  LET i == Instruction("WithdrawAllTokenTypes", tokenA, tokenB, pool, "AtoB")
      l == CreateAccounts(i)
      asked == NotAllButOne(l.pool[pool], amount)
  IN  Ran(i, l, WithdrawAllTokenTypes(curve, Schedule, l, pool, tokenA, tokenB, asked,
                                      minimum, minimum, asked))

RunDepositSingle(account, dir, pool, amount, minimum) ==
  LET i == Instruction("DepositSingleTokenTypeExactAmountIn", account, account, pool, dir)
      l == CreateAccounts(i)
  IN  Ran(i, l, DepositSingleExactAmountIn(curve, Schedule, l, dir, account, pool, amount,
                                           IF minimum < 2 THEN 2 ELSE minimum,
                                           FALSE, NoAccount, amount))

RunWithdrawSingle(account, dir, pool, amount, maximum) ==
  LET i == Instruction("WithdrawSingleTokenTypeExactAmountOut", account, account, pool, dir)
      l == CreateAccounts(i)
      asked == NotAllButOne(l.pool[pool], maximum)
  IN  Ran(i, l, WithdrawSingleExactAmountOut(curve, Schedule, l, dir, pool, account, amount,
                                             asked, NoAccount, asked))

-----------------------------------------------------------------------------
(* The end of run_fuzz: all pool tokens are moved to a copy of the fee     *)
(* account, which pays no withdrawal fee, and withdrawn at once.           *)

WithdrawEverything ==
  LET all == MapThenSumSet(LAMBDA acc : ledger.pool[acc], PoolAccounts)
      l == [ledger EXCEPT !.pool = [acc \in PoolAccounts |-> IF acc = FeeAccount THEN all ELSE 0]]
      o == WithdrawAllTokenTypes(curve, Schedule, l, FeeAccount, Withdrawn, Withdrawn, all, 0, 0, all)
  IN  /\ phase = "Running"
      /\ ledger' = Committed(l, o)
      /\ phase' = IF o.code = Ok THEN "Finished" ELSE "Panicked"
      /\ UNCHANGED <<curve, created, counted, executed>>

FuzzNext ==
  \/ \E a, b \in AccountIds, amount \in Numbers, bound \in Bounds :
       \/ \E dir \in Direction : RunSwap(a, b, dir, amount, bound)
       \/ \E pool \in AccountIds :
            \/ RunDepositAll(a, b, pool, amount, bound)
            \/ RunWithdrawAll(a, b, pool, amount, bound)
  \/ \E account, pool \in AccountIds, dir \in Direction, amount \in Numbers, bound \in Bounds :
       \/ RunDepositSingle(account, dir, pool, amount, bound)
       \/ RunWithdrawSingle(account, dir, pool, amount, bound)
  \/ WithdrawEverything

FuzzSpec == FuzzInit /\ [][FuzzNext]_fuzzVars

-----------------------------------------------------------------------------
(* The target's assertions. *)

\* The pool tokens the target counts: those of the fees are left out.
PoolTokensCounted == InitialSupply + MapThenSumSet(LAMBDA acc : ledger.pool[acc], AccountIds)

(***************************************************************************)
(* instructions.rs: the value of a pool token, fees left out, is never     *)
(* less after a list of instructions than before it.                       *)
(***************************************************************************)
ValueNotLost ==
  phase = "Running" =>
    LET now  == NormalizedValue(curve, ledger.a[Reserve], ledger.b[Reserve])
        then == NormalizedValue(curve, InitialSwapA, InitialSwapB)
    IN  IF Priced(curve)
          THEN then * PoolTokensCounted <= now * InitialSupply
          ELSE then * PoolTokensCounted * PoolTokensCounted <= now * InitialSupply * InitialSupply

(***************************************************************************)
(* instructions.rs: no instruction ends in a panic or in an error that is  *)
(* not one of the seven the target expects, and the last withdrawal works. *)
(***************************************************************************)
NothingPanics == phase # "Panicked"

(***************************************************************************)
(* instructions.rs: the tokens of the accounts created and of the reserve, *)
(* and what was withdrawn last, are all the tokens the totals count.       *)
(***************************************************************************)
TokensConserved ==
  phase # "Panicked" =>
    \A token \in {"a", "b"} :
      LET held == MapThenSumSet(LAMBDA acc : ledger[token][acc],
                                created[token] \cup {Reserve, Withdrawn})
          user == IF token = "a" THEN InitialUserA ELSE InitialUserB
          swap == IF token = "a" THEN InitialSwapA ELSE InitialSwapB
      IN  held = swap + Cardinality(counted[token]) * user

(***************************************************************************)
(* instructions.rs: "Final check to make sure that withdrawing everything  *)
(* works".  All pool tokens together take both reserves to the last token. *)
(***************************************************************************)
EverythingWithdraws ==
  phase = "Finished" => ledger.a[Reserve] = 0 /\ ledger.b[Reserve] = 0 /\ ledger.supply = 0

(***************************************************************************)
(* What the target asserts of the totals after every list, whatever the    *)
(* handlers did to the balances: no token is made or lost on the way, and  *)
(* none is left behind at the end.                                         *)
(***************************************************************************)
TokensAccountedFor == FuzzTypeOK /\ TokensConserved /\ EverythingWithdraws
=============================================================================
