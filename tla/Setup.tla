-------------------------------- MODULE Setup -------------------------------
(***************************************************************************)
(* How a pool comes to own its accounts: process_initialize and            *)
(* check_accounts of program/src/processor.rs and the constraints of       *)
(* program/src/constraints.rs, among everything the token program lets     *)
(* other people do with the same accounts before and afterwards.           *)
(*                                                                         *)
(* The token program knows nothing of pools; what the five token           *)
(* instructions may count on is what Initialize looked at once.  Which     *)
(* amounts they move is for module Pool: here a pool that pays or mints    *)
(* moves one unit.                                                         *)
(***************************************************************************)
EXTENDS Fees

CONSTANTS
  Swaps,        \* the accounts a pool can be made in
  Keys,         \* the keys that can sign
  Delegates,    \* bound: the keys that become a delegate of an account,
  Closers,      \* bound: the close authority of an account,
  Freezers,     \* bound: the freeze authority of a mint
  Accounts,     \* the addresses of token accounts
  Mints,        \* the addresses of mints
  MintKinds,    \* bound: the extensions and decimals mints are made with
  MaxAmount,    \* bound: the tokens of one mint
  NoKey,        \* COption::None of a key
  Absent,       \* nothing is stored at an address
  NoPool,       \* the swap account is not initialized
  NoConstraints,    \* SWAP_CONSTRAINTS of a build without "production"
  SwapConstraints,  \* SWAP_CONSTRAINTS
  FeeSchedules, \* the fees Initialize may be called with
  SwapCurves,   \* the curves Initialize may be called with
  FeeAmounts    \* bound: the amounts MinimumFeesCharged looks at

\* Program derived addresses: they own accounts and hold authorities, and only
\* the program signs for the first; nobody ever signs for the second.
SwapAuthority(swap)   == <<"authority", swap>>
InitDestination(swap) == <<"init_destination", swap>>
Signers == Keys \cup {SwapAuthority(s) : s \in Swaps}
Owners  == Signers \cup {InitDestination(s) : s \in Swaps}

CurveTypes == {"ConstantProduct", "ConstantPrice", "Offset", "RedemptionRateCurve"}

\* A curve and the number that decides whether it is valid: the price, the
\* offset of token B or the rate quoted at the clock's time.
SwapCurve == [curve_type : CurveTypes, parameter : Nat]

ExtensionType == {"ConfidentialTransferMint", "MetadataPointer", "TokenMetadata",
                  "MintCloseAuthority", "PermanentDelegate"}

MintKind == [extensions : SUBSET ExtensionType, decimals : Nat]

Mint == [authority : Signers \cup {NoKey}, freeze : Freezers \cup {NoKey},
         supply : 0 .. MaxAmount, kind : MintKinds]

TokenAccount == [mint : Mints, owner : Owners, delegate : Delegates \cup {NoKey},
                 close_authority : Closers \cup {NoKey}, amount : Nat]

Constraints == [owner_key : Keys, valid_curve_types : SUBSET CurveTypes, fees : FeeSchedule]

\* struct SwapV1; the address of its authority is derived from the swap's.
SwapV1 == [token_a : Accounts, token_b : Accounts, pool_mint : Mints,
           token_a_mint : Mints, token_b_mint : Mints, pool_fee_account : Accounts,
           fees : FeeSchedule, swap_curve : SwapCurve]

ASSUME SetupAssumption ==
  /\ NoKey \notin Owners
  /\ Delegates \subseteq Keys /\ Closers \subseteq Keys /\ Freezers \subseteq Keys
  /\ \A s, t \in Swaps : SwapAuthority(s) \notin Keys /\ InitDestination(t) \notin Keys
  /\ Absent \notin TokenAccount \cup Mint
  /\ NoPool \notin SwapV1
  /\ MaxAmount \in Nat \ {0}
  /\ MintKinds \subseteq MintKind
  /\ FeeSchedules \subseteq FeeSchedule
  /\ SwapCurves \subseteq SwapCurve
  /\ FeeAmounts \subseteq Nat
  /\ SwapConstraints = NoConstraints \/ SwapConstraints \in Constraints

VARIABLES
  pool,   \* the state of every swap account
  token,  \* the token account at every address
  mint,   \* the mint at every address
  remade  \* history: the addresses whose mint has been closed once

vars == <<pool, token, mint, remade>>

Initialized == {s \in Swaps : pool[s] # NoPool}

TypeOK ==
  /\ pool \in [Swaps -> SwapV1 \cup {NoPool}]
  /\ token \in [Accounts -> TokenAccount \cup {Absent}]
  /\ mint \in [Mints -> Mint \cup {Absent}]
  /\ remade \subseteq Mints

Init ==
  /\ pool = [s \in Swaps |-> NoPool]
  /\ token = [acc \in Accounts |-> Absent]
  /\ mint = [m \in Mints |-> Absent]
  /\ remade = {}

-----------------------------------------------------------------------------
(* constraints.rs *)

ValidPoolMintExtensions == {"ConfidentialTransferMint", "MetadataPointer", "TokenMetadata"}
ValidTokenExtensions    == ValidPoolMintExtensions \cup {"MintCloseAuthority"}

\* Mutant: only the pool mint is looked at.
ValidMintExtensionsOfPool(m, isPoolMint) ==
  isPoolMint => mint[m].kind.extensions \subseteq ValidPoolMintExtensions

\* Mutant: one list of extensions serves both kinds of mint.
ValidMintExtensionsOneList(m, isPoolMint) == mint[m].kind.extensions \subseteq ValidTokenExtensions

ValidMintExtensions(m, isPoolMint) ==
  mint[m].kind.extensions \subseteq IF isPoolMint THEN ValidPoolMintExtensions
                                                  ELSE ValidTokenExtensions

\* Mutant: a smaller denominator is taken for a higher fee.
FeeAtLeastByParts(f, required) == f.num >= required.num /\ f.den >= required.den

FeeAtLeast(f, required) == f.num >= required.num /\ f.den = required.den

ConstraintsAllow(feeOwner, fees, curve) ==
  SwapConstraints # NoConstraints =>
    /\ feeOwner = SwapConstraints.owner_key
    /\ curve.curve_type \in SwapConstraints.valid_curve_types
    /\ FeeAtLeast(fees.trade, SwapConstraints.fees.trade)
    /\ FeeAtLeast(fees.owner, SwapConstraints.fees.owner)
    /\ FeeAtLeast(fees.withdraw, SwapConstraints.fees.withdraw)
    /\ fees.host = SwapConstraints.fees.host

-----------------------------------------------------------------------------
(* process_initialize *)

\* The two methods of the curve that Initialize calls.
ValidSupply(curve, amountA, amountB) ==
  amountA # 0 /\ (curve.curve_type = "ConstantProduct" => amountB # 0)
ValidCurve(curve) == curve.curve_type # "ConstantProduct" => curve.parameter # 0

\* Mutant: an account of any pool's authority will do where that of one pool is asked for.
HoldsForAnyPool(acc, owner) ==
  LET authorities == {SwapAuthority(s) : s \in Swaps}
  IN  /\ token[acc] # Absent /\ mint[token[acc].mint] # Absent
      /\ IF owner \in authorities THEN token[acc].owner \in authorities
                                  ELSE token[acc].owner = owner

\* A token account of a mint that exists, owned by owner.
Holds(acc, owner) == token[acc] # Absent /\ mint[token[acc].mint] # Absent /\ token[acc].owner = owner

\* Mutant: who may close the account is not asked.
ReserveIgnoringCloseAuthority(acc, swap) ==
  /\ Holds(acc, SwapAuthority(swap))
  /\ ValidMintExtensions(token[acc].mint, FALSE)
  /\ token[acc].delegate = NoKey

ReserveOK(acc, swap) ==
  /\ Holds(acc, SwapAuthority(swap))
  /\ ValidMintExtensions(token[acc].mint, FALSE)
  /\ token[acc].delegate = NoKey
  /\ token[acc].close_authority = NoKey

\* Mutant: pool tokens may be about already.
PoolMintOfAnySupply(m, swap) ==
  /\ mint[m] # Absent
  /\ ValidMintExtensions(m, TRUE)
  /\ mint[m].authority = SwapAuthority(swap)
  /\ mint[m].freeze = NoKey

PoolMintOK(m, swap) ==
  /\ mint[m] # Absent
  /\ ValidMintExtensions(m, TRUE)
  /\ mint[m].authority = SwapAuthority(swap)
  /\ mint[m].supply = 0
  /\ mint[m].freeze = NoKey

\* Nothing asks for the fee account and the destination to be two accounts.
PoolTokenAccountsOK(fee, destination, m, swap) ==
  /\ token[fee] # Absent /\ token[fee].mint = m
  /\ token[fee].owner # SwapAuthority(swap)
  /\ Holds(destination, InitDestination(swap)) /\ token[destination].mint = m

\* Mutant: the pool mint may be one of the mints that are traded.
DifferentReserveMints(a, b, m) == token[a].mint # token[b].mint

DifferentMints(a, b, m) ==
  /\ token[a].mint # token[b].mint
  /\ m \notin {token[a].mint, token[b].mint}

SameDecimals(a, b) == mint[token[a].mint].kind.decimals = mint[token[b].mint].kind.decimals

\* The token program: authority mints one token.
Minted(authority, m, acc) ==
  /\ mint[m] # Absent /\ mint[m].authority = authority
  /\ token[acc] # Absent /\ token[acc].mint = m
  /\ mint[m].supply < MaxAmount
  /\ mint' = [mint EXCEPT ![m].supply = @ + 1]
  /\ token' = [token EXCEPT ![acc].amount = @ + 1]

NewSwap(a, b, m, fee, f, c) ==
  [token_a |-> a, token_b |-> b, pool_mint |-> m,
   token_a_mint |-> token[a].mint, token_b_mint |-> token[b].mint,
   pool_fee_account |-> fee, fees |-> f, swap_curve |-> c]

\* Mutant: an initialized swap may be initialized again.
AnyUse(swap) == swap \in Swaps

NotInUse(swap) == pool[swap] = NoPool

(***************************************************************************)
(* The authority and the two traded mints are named by the caller as well, *)
(* but only one name passes: the swap's own address, the accounts' mints.  *)
(* The permission of a redemption rate is for module Permission.           *)
(***************************************************************************)
Initialize(swap, a, b, m, fee, destination, f, c) ==
  /\ NotInUse(swap)
  /\ PoolTokenAccountsOK(fee, destination, m, swap)
  /\ PoolMintOK(m, swap)
  /\ ReserveOK(a, swap) /\ ReserveOK(b, swap)
  /\ DifferentMints(a, b, m)
  /\ ValidSupply(c, token[a].amount, token[b].amount)
  /\ ConstraintsAllow(token[fee].owner, f, c)
  /\ ValidFees(f) /\ ValidCurve(c)
  /\ c.curve_type = "RedemptionRateCurve" => SameDecimals(a, b)
  /\ Minted(SwapAuthority(swap), m, destination)
  /\ pool' = [pool EXCEPT ![swap] = NewSwap(a, b, m, fee, f, c)]
  /\ UNCHANGED remade

-----------------------------------------------------------------------------
(***************************************************************************)
(* The token instructions of an initialized pool, as far as authority      *)
(* goes: the program signs as the swap's authority, for the accounts       *)
(* check_accounts finds in the swap.                                       *)
(***************************************************************************)
ReservesOf(swap) == {pool[swap].token_a, pool[swap].token_b}

\* check_accounts: the reserve and the pool mint the caller names are the pool's.
CheckAccounts(swap, reserve, m) == reserve \in ReservesOf(swap) /\ m = pool[swap].pool_mint

Transferred(from, to) ==
  /\ token[from] # Absent /\ token[to] # Absent /\ from # to
  /\ token[from].mint = token[to].mint
  /\ token[from].amount > 0
  /\ token' = [token EXCEPT ![from].amount = @ - 1, ![to].amount = @ + 1]

PoolPays(swap, reserve, to) ==
  /\ pool[swap] # NoPool
  /\ CheckAccounts(swap, reserve, pool[swap].pool_mint)
  /\ Holds(reserve, SwapAuthority(swap))
  /\ Transferred(reserve, to)
  /\ UNCHANGED <<pool, mint, remade>>

PoolMints(swap, m, to) ==
  /\ pool[swap] # NoPool
  /\ CheckAccounts(swap, pool[swap].token_a, m)
  /\ Minted(SwapAuthority(swap), m, to)
  /\ UNCHANGED <<pool, remade>>

-----------------------------------------------------------------------------
(* The token program for everybody else: a step of key k. *)

CreateMint(m, authority, freeze, kind) ==
  /\ mint[m] = Absent
  /\ mint' = [mint EXCEPT ![m] =
       [authority |-> authority, freeze |-> freeze, supply |-> 0, kind |-> kind]]
  /\ UNCHANGED <<pool, token, remade>>

CreateAccount(acc, m, owner) ==
  /\ token[acc] = Absent /\ mint[m] # Absent
  /\ token' = [token EXCEPT ![acc] =
       [mint |-> m, owner |-> owner, delegate |-> NoKey, close_authority |-> NoKey, amount |-> 0]]
  /\ UNCHANGED <<pool, mint, remade>>

MintTo(k, m, acc) ==
  /\ Minted(k, m, acc)
  /\ UNCHANGED <<pool, remade>>

SetMintAuthority(k, m, new) ==
  /\ mint[m] # Absent /\ mint[m].authority = k
  /\ mint' = [mint EXCEPT ![m].authority = new]
  /\ UNCHANGED <<pool, token, remade>>

SetFreezeAuthority(k, m, new) ==
  /\ mint[m] # Absent /\ mint[m].freeze = k
  /\ mint' = [mint EXCEPT ![m].freeze = new]
  /\ UNCHANGED <<pool, token, remade>>

\* A mint made with a close authority is closed by it when nothing of it is left.
CloseMint(m) ==
  /\ mint[m] # Absent /\ mint[m].supply = 0
  /\ "MintCloseAuthority" \in mint[m].kind.extensions
  /\ mint' = [mint EXCEPT ![m] = Absent]
  /\ remade' = remade \cup {m}
  /\ UNCHANGED <<pool, token>>

MaySpend(k, acc) ==
  \/ k \in {token[acc].owner, token[acc].delegate}
  \/ mint[token[acc].mint] # Absent
     /\ "PermanentDelegate" \in mint[token[acc].mint].kind.extensions

Transfer(k, from, to) ==
  /\ token[from] # Absent /\ mint[token[from].mint] # Absent
  /\ MaySpend(k, from)
  /\ Transferred(from, to)
  /\ UNCHANGED <<pool, mint, remade>>

Burn(k, acc) ==
  /\ token[acc] # Absent /\ mint[token[acc].mint] # Absent
  /\ MaySpend(k, acc)
  /\ token[acc].amount > 0 /\ mint[token[acc].mint].supply > 0
  /\ token' = [token EXCEPT ![acc].amount = @ - 1]
  /\ mint' = [mint EXCEPT ![token[acc].mint].supply = @ - 1]
  /\ UNCHANGED <<pool, remade>>

Approve(k, acc, delegate) ==
  /\ token[acc] # Absent /\ token[acc].owner = k
  /\ token' = [token EXCEPT ![acc].delegate = delegate]
  /\ UNCHANGED <<pool, mint, remade>>

\* A new owner starts without the old one's delegate, but not without the old
\* one's close authority.
SetOwner(k, acc, new) ==
  /\ token[acc] # Absent /\ token[acc].owner = k
  /\ token' = [token EXCEPT ![acc].owner = new, ![acc].delegate = NoKey]
  /\ UNCHANGED <<pool, mint, remade>>

MayClose(k, acc) ==
  k = IF token[acc].close_authority = NoKey THEN token[acc].owner ELSE token[acc].close_authority

SetCloseAuthority(k, acc, new) ==
  /\ token[acc] # Absent /\ MayClose(k, acc)
  /\ token' = [token EXCEPT ![acc].close_authority = new]
  /\ UNCHANGED <<pool, mint, remade>>

CloseAccount(k, acc) ==
  /\ token[acc] # Absent /\ MayClose(k, acc)
  /\ token[acc].amount = 0
  /\ token' = [token EXCEPT ![acc] = Absent]
  /\ UNCHANGED <<pool, mint, remade>>

-----------------------------------------------------------------------------
\* Only reserves that pass, and accounts of the pool mint, are worth naming.
Initializing ==
  \E swap \in Swaps, m \in Mints :
    \E a, b \in {acc \in Accounts : ReserveOK(acc, swap)},
       fee, destination \in {acc \in Accounts : token[acc] # Absent /\ token[acc].mint = m},
       f \in FeeSchedules, c \in SwapCurves :
         Initialize(swap, a, b, m, fee, destination, f, c)

PoolInstruction(swap) ==
  \E acc \in Accounts : \/ \E m \in Mints : PoolMints(swap, m, acc)
                        \/ \E reserve \in Accounts : PoolPays(swap, reserve, acc)

Making ==
  \/ \E m \in Mints, authority \in Signers, freeze \in Freezers \cup {NoKey}, kind \in MintKinds :
       CreateMint(m, authority, freeze, kind)
  \/ \E acc \in Accounts, m \in Mints, owner \in Owners : CreateAccount(acc, m, owner)

MintOwner(k) ==
  \E m \in Mints :
    \/ \E acc \in Accounts : MintTo(k, m, acc)
    \/ \E new \in Signers \cup {NoKey} : SetMintAuthority(k, m, new)
    \/ \E new \in Freezers \cup {NoKey} : SetFreezeAuthority(k, m, new)
    \/ CloseMint(m)

AccountOwner(k) ==
  \E acc \in Accounts :
    \/ \E to \in Accounts : Transfer(k, acc, to)
    \/ \E delegate \in Delegates \cup {NoKey} : Approve(k, acc, delegate)
    \/ \E new \in Owners : SetOwner(k, acc, new)
    \/ \E new \in Closers \cup {NoKey} : SetCloseAuthority(k, acc, new)
    \/ CloseAccount(k, acc) \/ Burn(k, acc)

Next ==
  \/ Initializing
  \/ \E swap \in Swaps : PoolInstruction(swap)
  \/ Making
  \/ \E k \in Keys : MintOwner(k) \/ AccountOwner(k)

Spec == Init /\ [][Next]_vars

-----------------------------------------------------------------------------
(* Properties. *)

(***************************************************************************)
(* What check_accounts trusts without looking again: the accounts written  *)
(* into a swap by process_initialize are still there, hold two different   *)
(* tokens, neither of them the pool's, and obey the swap's authority       *)
(* alone: nobody else spends from them, or closes them when a trade has    *)
(* emptied one.                                                            *)
(***************************************************************************)
ReservesObeyThePool ==
  \A s \in Initialized : \A acc \in ReservesOf(s) :
    /\ token[acc] # Absent
    /\ token[acc].owner = SwapAuthority(s)
    /\ token[acc].delegate = NoKey /\ token[acc].close_authority = NoKey

MintsStayApart ==
  \A s \in Initialized :
    /\ token[pool[s].token_a].mint = pool[s].token_a_mint
    /\ token[pool[s].token_b].mint = pool[s].token_b_mint
    /\ pool[s].token_a_mint # pool[s].token_b_mint
    /\ pool[s].pool_mint \notin {pool[s].token_a_mint, pool[s].token_b_mint}

(***************************************************************************)
(* The pool mint of an initialized pool stays: nobody freezes its tokens,  *)
(* closes it or gives it another authority, even when every pool token     *)
(* that can be burnt has been.                                             *)
(***************************************************************************)
PoolMintObeysThePool ==
  \A s \in Initialized :
    LET m == pool[s].pool_mint
    IN  /\ mint[m] # Absent
        /\ mint[m].authority = SwapAuthority(s) /\ mint[m].freeze = NoKey
        /\ mint[m].kind.extensions \subseteq ValidPoolMintExtensions

(***************************************************************************)
(* Pools made out of the same accounts would pay each other's debts: no    *)
(* two of them share a reserve or a pool mint.                             *)
(***************************************************************************)
PoolsShareNothing ==
  \A s, t \in Initialized :
    s # t => /\ ReservesOf(s) \cap ReservesOf(t) = {}
             /\ pool[s].pool_mint # pool[t].pool_mint

(***************************************************************************)
(* A reserve falls, and pool tokens come into being, by an instruction of  *)
(* that very pool only.  A traded mint may be closed while the pool holds  *)
(* none of it, and made again with any extension: then the token obeys     *)
(* that extension, in the pool as everywhere.                              *)
(***************************************************************************)
OnlyThePoolActs ==
  [][\A s \in Initialized :
       /\ \A acc \in ReservesOf(s) :
            token[acc].mint \notin remade /\ token[acc].amount > token'[acc].amount => PoolInstruction(s)
       /\ mint'[pool[s].pool_mint].supply > mint[pool[s].pool_mint].supply => PoolInstruction(s)]_vars

(***************************************************************************)
(* A swap account is initialized at most once: the accounts, the fees and  *)
(* the curve type its depositors looked at never change.                   *)
(***************************************************************************)
PoolIsFinal == [][\A s \in Initialized : pool'[s] = pool[s]]_vars

(***************************************************************************)
(* SwapConstraints keeps "min fees that creator of the pool can specify":  *)
(* whatever the amount, no pool it let through charges less than the fees  *)
(* of the build, although a fee rounds down and is one unit at least.      *)
(***************************************************************************)
ChargesTheMinimum(fees, required, amount) ==
  /\ TradingFee(amount, fees) >= TradingFee(amount, required)
  /\ OwnerTradingFee(amount, fees) >= OwnerTradingFee(amount, required)
  /\ OwnerWithdrawFee(amount, fees) >= OwnerWithdrawFee(amount, required)
  /\ HostFee(amount, fees) = HostFee(amount, required)

MinimumFeesCharged ==
  SwapConstraints # NoConstraints =>
    \A s \in Initialized, amount \in FeeAmounts :
      ChargesTheMinimum(pool[s].fees, SwapConstraints.fees, amount)

(***************************************************************************)
(* instruction.rs on Initialize: the fee account and the destination "Must *)
(* be empty".  No line compares their amounts with 0; the supply of the    *)
(* pool mint and the mints of the accounts must be enough.                 *)
(***************************************************************************)
Becomes(s) == pool[s] = NoPool /\ pool'[s] # NoPool

StartsEmpty ==
  [][\A s \in Swaps : Becomes(s) =>
       \A acc \in Accounts :
         token[acc] # Absent /\ token[acc].mint = pool'[s].pool_mint => token[acc].amount = 0]_vars

(***************************************************************************)
(* Whatever becomes of the accounts and mints people hand over, everything *)
(* Initialize looked at of a finished pool is still so.                    *)
(***************************************************************************)
SetupSafe == TypeOK /\ ReservesObeyThePool /\ MintsStayApart /\ PoolMintObeysThePool

(***************************************************************************)
(* A pool comes into being once, and nobody holds a claim on it before.    *)
(***************************************************************************)
MadeOnce == PoolIsFinal /\ StartsEmpty
=============================================================================
