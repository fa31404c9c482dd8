---------------------------- MODULE SetupProofs -----------------------------
(***************************************************************************)
(* For every set of swaps, keys, accounts, mints and fees: what Initialize *)
(* looked at once keeps holding, whatever the token program lets other     *)
(* people do afterwards.                                                   *)
(***************************************************************************)
EXTENDS Setup, TLAPS

(***************************************************************************)
(* An account obeys the authority of swap, and so does a mint.  Neither    *)
(* leaves this condition by a step of a key.                               *)
(***************************************************************************)
AccountObeys(acc, swap) ==
  /\ token[acc] # Absent
  /\ token[acc].owner = SwapAuthority(swap)
  /\ token[acc].delegate = NoKey /\ token[acc].close_authority = NoKey

MintObeys(m, swap) ==
  /\ mint[m] # Absent
  /\ mint[m].authority = SwapAuthority(swap) /\ mint[m].freeze = NoKey
  /\ mint[m].kind.extensions \subseteq ValidPoolMintExtensions

\* The fees of every pool were let through, and are valid.
AdmittedFees ==
  \A s \in Initialized :
    /\ ValidFees(pool[s].fees)
    /\ SwapConstraints # NoConstraints =>
         /\ FeeAtLeast(pool[s].fees.trade, SwapConstraints.fees.trade)
         /\ FeeAtLeast(pool[s].fees.owner, SwapConstraints.fees.owner)
         /\ FeeAtLeast(pool[s].fees.withdraw, SwapConstraints.fees.withdraw)
         /\ pool[s].fees.host = SwapConstraints.fees.host

SetupInv ==
  /\ TypeOK
  /\ ReservesObeyThePool /\ MintsStayApart /\ PoolMintObeysThePool
  /\ AdmittedFees

-----------------------------------------------------------------------------
\* Keys differ from the program's addresses, whatever keys there are.
LEMMA AuthorityIsNoKey ==
  ASSUME NEW s \in Swaps
  PROVE  SwapAuthority(s) \notin Keys /\ NoKey \notin Keys /\ SwapAuthority(s) # NoKey
BY SetupAssumption DEF Owners, Signers

LEMMA InitSetupInv == Init => SetupInv
<1> SUFFICES ASSUME Init PROVE SetupInv
  OBVIOUS
<1>1. Initialized = {}
  BY DEF Init, Initialized
<1>2. TypeOK
  BY DEF Init, TypeOK
<1>3. QED
  BY <1>1, <1>2
     DEF SetupInv, ReservesObeyThePool, MintsStayApart, PoolMintObeysThePool, AdmittedFees

-----------------------------------------------------------------------------
(* Types. *)

LEMMA TransferredTypes ==
  ASSUME TypeOK, NEW from \in Accounts, NEW to \in Accounts, Transferred(from, to)
  PROVE  token' \in [Accounts -> TokenAccount \cup {Absent}]
<1>1. token[from] \in TokenAccount /\ token[to] \in TokenAccount
  BY DEF TypeOK, Transferred
<1>2. token[from].amount - 1 \in Nat /\ token[to].amount + 1 \in Nat
  BY <1>1 DEF Transferred, TokenAccount
<1>3. /\ [token[from] EXCEPT !.amount = token[from].amount - 1] \in TokenAccount
      /\ [token[to] EXCEPT !.amount = token[to].amount + 1] \in TokenAccount
  BY <1>1, <1>2 DEF TokenAccount
<1>4. token' = [acc \in Accounts |->
         IF acc = to THEN [token[to] EXCEPT !.amount = token[to].amount + 1]
         ELSE IF acc = from THEN [token[from] EXCEPT !.amount = token[from].amount - 1]
         ELSE token[acc]]
  BY DEF TypeOK, Transferred
<1>5. QED
  BY <1>3, <1>4 DEF TypeOK

LEMMA MintedTypes ==
  ASSUME TypeOK, NEW authority, NEW m \in Mints, NEW acc \in Accounts, Minted(authority, m, acc)
  PROVE  /\ token' \in [Accounts -> TokenAccount \cup {Absent}]
         /\ mint' \in [Mints -> Mint \cup {Absent}]
<1>1. token[acc] \in TokenAccount /\ mint[m] \in Mint
  BY DEF TypeOK, Minted
<1>2. [token[acc] EXCEPT !.amount = token[acc].amount + 1] \in TokenAccount
  BY <1>1 DEF TokenAccount
<1>3. mint[m].supply + 1 \in 0 .. MaxAmount
  BY <1>1, SetupAssumption DEF Minted, Mint
<1>4. [mint[m] EXCEPT !.supply = mint[m].supply + 1] \in Mint
  BY <1>1, <1>3 DEF Mint
<1>5. QED
  BY <1>2, <1>4 DEF TypeOK, Minted

-----------------------------------------------------------------------------
(* What every step that initializes no pool keeps. *)

AccountsKeepObeying ==
  \A s \in Swaps, acc \in Accounts :
    AccountObeys(acc, s) => AccountObeys(acc, s)' /\ token'[acc].mint = token[acc].mint

MintsKeepObeying == \A s \in Swaps, m \in Mints : MintObeys(m, s) => MintObeys(m, s)'

Keeps == TypeOK' /\ pool' = pool /\ AccountsKeepObeying /\ MintsKeepObeying

LEMMA MintUnchangedKeeps == ASSUME UNCHANGED mint PROVE MintsKeepObeying
BY DEF MintsKeepObeying, MintObeys

LEMMA TokenUnchangedKeeps == ASSUME UNCHANGED token PROVE AccountsKeepObeying
BY DEF AccountsKeepObeying, AccountObeys

LEMMA TransferredKeeps ==
  ASSUME TypeOK, NEW from \in Accounts, NEW to \in Accounts, Transferred(from, to),
         UNCHANGED <<pool, mint, remade>>
  PROVE  Keeps
<1>1. TypeOK'
  BY TransferredTypes DEF TypeOK
<1>2. ASSUME NEW acc \in Accounts, token[acc] # Absent
      PROVE  /\ token'[acc] \in TokenAccount
             /\ token'[acc].mint = token[acc].mint /\ token'[acc].owner = token[acc].owner
             /\ token'[acc].delegate = token[acc].delegate
             /\ token'[acc].close_authority = token[acc].close_authority
  <2>1. token[from] \in TokenAccount /\ token[to] \in TokenAccount /\ token[acc] \in TokenAccount
    BY <1>2 DEF TypeOK, Transferred
  <2>2. token' = [x \in Accounts |->
           IF x = to THEN [token[to] EXCEPT !.amount = token[to].amount + 1]
           ELSE IF x = from THEN [token[from] EXCEPT !.amount = token[from].amount - 1]
           ELSE token[x]]
    BY DEF TypeOK, Transferred
  <2>3. token'[acc] = IF acc = to THEN [token[to] EXCEPT !.amount = token[to].amount + 1]
           ELSE IF acc = from THEN [token[from] EXCEPT !.amount = token[from].amount - 1]
           ELSE token[acc]
    BY <2>2
  <2>4. token[from].amount - 1 \in Nat /\ token[to].amount + 1 \in Nat
    BY <2>1 DEF Transferred, TokenAccount
  <2>5. QED
    BY <2>1, <2>3, <2>4 DEF TokenAccount
<1>3. AccountsKeepObeying
  <2>1. SUFFICES ASSUME NEW s \in Swaps, NEW acc \in Accounts, AccountObeys(acc, s)
                 PROVE  AccountObeys(acc, s)' /\ token'[acc].mint = token[acc].mint
    BY DEF AccountsKeepObeying
  <2>2. token'[acc] # Absent
    BY <1>2, <2>1, SetupAssumption DEF AccountObeys
  <2>3. QED
    BY <1>2, <2>1, <2>2 DEF AccountObeys
<1>4. QED
  BY <1>1, <1>3, MintUnchangedKeeps DEF Keeps

LEMMA MintedKeeps ==
  ASSUME TypeOK, NEW authority, NEW m \in Mints, NEW acc \in Accounts,
         Minted(authority, m, acc), UNCHANGED remade
  PROVE  AccountsKeepObeying /\ MintsKeepObeying
<1>1. token[acc] \in TokenAccount /\ mint[m] \in Mint
  BY DEF TypeOK, Minted
<1>2. /\ [token[acc] EXCEPT !.amount = token[acc].amount + 1] \in TokenAccount
      /\ [mint[m] EXCEPT !.supply = mint[m].supply + 1] # Absent
  <2>1. token[acc].amount + 1 \in Nat
    BY <1>1 DEF TokenAccount
  <2>2. mint[m].supply + 1 \in 0 .. MaxAmount
    BY <1>1, SetupAssumption DEF Minted, Mint
  <2>3. [mint[m] EXCEPT !.supply = mint[m].supply + 1] \in Mint
    BY <1>1, <2>2 DEF Mint
  <2>4. QED
    BY <1>1, <2>1, <2>3, SetupAssumption DEF TokenAccount
<1>3. \A x \in Accounts : token'[x] =
        IF x = acc THEN [token[acc] EXCEPT !.amount = token[acc].amount + 1] ELSE token[x]
  BY DEF TypeOK, Minted
<1>4. \A x \in Mints : mint'[x] =
        IF x = m THEN [mint[m] EXCEPT !.supply = mint[m].supply + 1] ELSE mint[x]
  BY DEF TypeOK, Minted
<1>5. AccountsKeepObeying
  BY <1>1, <1>2, <1>3, SetupAssumption DEF AccountsKeepObeying, AccountObeys, TokenAccount
<1>6. MintsKeepObeying
  BY <1>1, <1>2, <1>4 DEF MintsKeepObeying, MintObeys, Mint
<1>7. QED
  BY <1>5, <1>6

LEMMA PoolInstructionKeeps ==
  ASSUME TypeOK, NEW swap \in Swaps, PoolInstruction(swap)
  PROVE  Keeps
<1>1. CASE \E reserve, acc \in Accounts : PoolPays(swap, reserve, acc)
  BY <1>1, TransferredKeeps DEF PoolPays
<1>2. CASE \E m \in Mints, acc \in Accounts : PoolMints(swap, m, acc)
  <2>1. PICK m \in Mints, acc \in Accounts : PoolMints(swap, m, acc)
    BY <1>2
  <2>2. Minted(SwapAuthority(swap), m, acc) /\ UNCHANGED <<pool, remade>>
    BY <2>1 DEF PoolMints
  <2>3. TypeOK'
    BY <2>2, MintedTypes DEF TypeOK
  <2>4. QED
    BY <2>2, <2>3, MintedKeeps DEF Keeps
<1>3. QED
  BY <1>1, <1>2 DEF PoolInstruction

LEMMA MakingKeeps == ASSUME TypeOK, Making PROVE Keeps
<1>1. ASSUME NEW m \in Mints, NEW authority \in Signers, NEW freeze \in Freezers \cup {NoKey},
             NEW kind \in MintKinds, CreateMint(m, authority, freeze, kind)
      PROVE  Keeps
  <2> DEFINE new == [authority |-> authority, freeze |-> freeze, supply |-> 0, kind |-> kind]
  <2>1. new \in Mint
    BY SetupAssumption DEF Mint
  <2>2. mint' = [mint EXCEPT ![m] = new] /\ mint[m] = Absent /\ UNCHANGED <<pool, token, remade>>
    BY <1>1 DEF CreateMint
  <2> HIDE DEF new
  <2>3. TypeOK'
    BY <2>1, <2>2 DEF TypeOK
  <2>4. MintsKeepObeying
    BY <2>2 DEF MintsKeepObeying, MintObeys, TypeOK
  <2>5. QED
    BY <2>2, <2>3, <2>4, TokenUnchangedKeeps DEF Keeps
<1>2. ASSUME NEW acc \in Accounts, NEW m \in Mints, NEW owner \in Owners,
             CreateAccount(acc, m, owner)
      PROVE  Keeps
  <2> DEFINE new == [mint |-> m, owner |-> owner, delegate |-> NoKey,
                     close_authority |-> NoKey, amount |-> 0]
  <2>1. new \in TokenAccount
    BY DEF TokenAccount
  <2>2. token' = [token EXCEPT ![acc] = new] /\ token[acc] = Absent /\ UNCHANGED <<pool, mint, remade>>
    BY <1>2 DEF CreateAccount
  <2> HIDE DEF new
  <2>3. TypeOK'
    BY <2>1, <2>2 DEF TypeOK
  <2>4. AccountsKeepObeying
    BY <2>2 DEF AccountsKeepObeying, AccountObeys, TypeOK
  <2>5. QED
    BY <2>2, <2>3, <2>4, MintUnchangedKeeps DEF Keeps
<1>3. QED
  BY <1>1, <1>2 DEF Making

\* A key changes a mint it holds an authority of, which no pool's mint is.
LEMMA MintOwnerKeeps == ASSUME TypeOK, NEW k \in Keys, MintOwner(k) PROVE Keeps
<1>1. ASSUME NEW m \in Mints, NEW acc \in Accounts, MintTo(k, m, acc) PROVE Keeps
  <2>1. Minted(k, m, acc) /\ UNCHANGED <<pool, remade>>
    BY <1>1 DEF MintTo
  <2>2. TypeOK'
    BY <2>1, MintedTypes DEF TypeOK
  <2>3. QED
    BY <2>1, <2>2, MintedKeeps DEF Keeps
<1>2. ASSUME NEW m \in Mints, NEW new \in Signers \cup {NoKey}, SetMintAuthority(k, m, new)
      PROVE  Keeps
  <2>1. /\ mint[m] \in Mint /\ mint[m].authority = k
        /\ mint' = [mint EXCEPT ![m] = [mint[m] EXCEPT !.authority = new]]
        /\ UNCHANGED <<pool, token, remade>>
    BY <1>2 DEF SetMintAuthority, TypeOK
  <2>2. [mint[m] EXCEPT !.authority = new] \in Mint
    BY <2>1 DEF Mint
  <2>3. TypeOK'
    BY <2>1, <2>2 DEF TypeOK
  <2>4. ASSUME NEW s \in Swaps, NEW x \in Mints, MintObeys(x, s) PROVE MintObeys(x, s)'
    <3>1. x # m
      BY <2>1, <2>4, AuthorityIsNoKey DEF MintObeys
    <3>2. mint'[x] = mint[x]
      BY <2>1, <3>1 DEF TypeOK
    <3>3. QED
      BY <2>4, <3>2 DEF MintObeys
  <2>5. QED
    BY <2>1, <2>3, <2>4, TokenUnchangedKeeps DEF Keeps, MintsKeepObeying
<1>3. ASSUME NEW m \in Mints, NEW new \in Freezers \cup {NoKey}, SetFreezeAuthority(k, m, new)
      PROVE  Keeps
  <2>1. /\ mint[m] \in Mint /\ mint[m].freeze = k
        /\ mint' = [mint EXCEPT ![m] = [mint[m] EXCEPT !.freeze = new]]
        /\ UNCHANGED <<pool, token, remade>>
    BY <1>3 DEF SetFreezeAuthority, TypeOK
  <2>2. [mint[m] EXCEPT !.freeze = new] \in Mint
    BY <2>1 DEF Mint
  <2>3. TypeOK'
    BY <2>1, <2>2 DEF TypeOK
  <2>4. ASSUME NEW s \in Swaps, NEW x \in Mints, MintObeys(x, s) PROVE MintObeys(x, s)'
    <3>1. x # m
      BY <2>1, <2>4, AuthorityIsNoKey DEF MintObeys
    <3>2. mint'[x] = mint[x]
      BY <2>1, <3>1 DEF TypeOK
    <3>3. QED
      BY <2>4, <3>2 DEF MintObeys
  <2>5. QED
    BY <2>1, <2>3, <2>4, TokenUnchangedKeeps DEF Keeps, MintsKeepObeying
<1>4. ASSUME NEW m \in Mints, CloseMint(m) PROVE Keeps
  <2>1. /\ "MintCloseAuthority" \in mint[m].kind.extensions
        /\ mint' = [mint EXCEPT ![m] = Absent] /\ remade' = remade \cup {m}
        /\ UNCHANGED <<pool, token>>
    BY <1>4 DEF CloseMint
  <2>2. TypeOK'
    BY <2>1 DEF TypeOK
  <2>3. ASSUME NEW s \in Swaps, NEW x \in Mints, MintObeys(x, s) PROVE MintObeys(x, s)'
    <3>1. x # m
      BY <2>1, <2>3 DEF MintObeys, ValidPoolMintExtensions
    <3>2. mint'[x] = mint[x]
      BY <2>1, <3>1 DEF TypeOK
    <3>3. QED
      BY <2>3, <3>2 DEF MintObeys
  <2>4. QED
    BY <2>1, <2>2, <2>3, TokenUnchangedKeeps DEF Keeps, MintsKeepObeying
<1>5. QED
  BY <1>1, <1>2, <1>3, <1>4 DEF MintOwner

LEMMA BurnKeeps ==
  ASSUME TypeOK, NEW k \in Keys, NEW acc \in Accounts, Burn(k, acc)
  PROVE  Keeps
<1> DEFINE m == token[acc].mint
           less == [token[acc] EXCEPT !.amount = token[acc].amount - 1]
           fewer == [mint[m] EXCEPT !.supply = mint[m].supply - 1]
<1>1. token[acc] \in TokenAccount /\ m \in Mints /\ mint[m] \in Mint
  BY DEF TypeOK, Burn, TokenAccount
<1>2. /\ token' = [token EXCEPT ![acc] = less] /\ mint' = [mint EXCEPT ![m] = fewer]
      /\ UNCHANGED <<pool, remade>>
  BY DEF Burn, TypeOK
<1>3. less \in TokenAccount /\ fewer \in Mint
  <2>1. token[acc].amount - 1 \in Nat
    BY <1>1 DEF Burn, TokenAccount
  <2>2. mint[m].supply - 1 \in 0 .. MaxAmount
    BY <1>1, SetupAssumption DEF Burn, Mint
  <2>3. QED
    BY <1>1, <2>1, <2>2 DEF TokenAccount, Mint
<1>4. TypeOK'
  BY <1>1, <1>2, <1>3 DEF TypeOK
<1>5. /\ less.mint = m /\ less.owner = token[acc].owner /\ less.delegate = token[acc].delegate
      /\ less.close_authority = token[acc].close_authority
      /\ fewer.authority = mint[m].authority /\ fewer.freeze = mint[m].freeze
      /\ fewer.kind = mint[m].kind
  BY <1>1 DEF TokenAccount, Mint
<1>6. less # Absent /\ fewer # Absent
  BY <1>3, SetupAssumption
<1> HIDE DEF less, fewer
<1>7. AccountsKeepObeying
  BY <1>1, <1>2, <1>5, <1>6 DEF AccountsKeepObeying, AccountObeys, TypeOK
<1>8. MintsKeepObeying
  BY <1>1, <1>2, <1>5, <1>6 DEF MintsKeepObeying, MintObeys, TypeOK
<1>9. QED
  BY <1>2, <1>4, <1>7, <1>8 DEF Keeps

\* A key changes an account it owns or may close, which no pool's reserve is.
LEMMA OneAccountKeeps ==
  ASSUME TypeOK, NEW acc \in Accounts, NEW new \in TokenAccount \cup {Absent},
         token' = [token EXCEPT ![acc] = new], UNCHANGED <<pool, mint, remade>>,
         \A s \in Swaps : ~AccountObeys(acc, s)
  PROVE  Keeps
<1>1. TypeOK'
  BY DEF TypeOK
<1>2. ASSUME NEW s \in Swaps, NEW x \in Accounts, AccountObeys(x, s)
      PROVE  AccountObeys(x, s)' /\ token'[x].mint = token[x].mint
  <2>1. token'[x] = token[x]
    BY <1>2 DEF TypeOK
  <2>2. QED
    BY <1>2, <2>1 DEF AccountObeys
<1>3. QED
  BY <1>1, <1>2, MintUnchangedKeeps DEF Keeps, AccountsKeepObeying

LEMMA AccountOwnerKeeps == ASSUME TypeOK, NEW k \in Keys, AccountOwner(k) PROVE Keeps
<1>1. ASSUME NEW acc \in Accounts, token[acc].owner = k \/ MayClose(k, acc)
      PROVE  \A s \in Swaps : ~AccountObeys(acc, s)
  BY <1>1, AuthorityIsNoKey DEF AccountObeys, MayClose
<1>2. ASSUME NEW acc \in Accounts, NEW to \in Accounts, Transfer(k, acc, to) PROVE Keeps
  BY <1>2, TransferredKeeps DEF Transfer
<1>3. ASSUME NEW acc \in Accounts, NEW delegate \in Delegates \cup {NoKey},
             Approve(k, acc, delegate)
      PROVE  Keeps
  <2> DEFINE new == [token[acc] EXCEPT !.delegate = delegate]
  <2>1. token[acc] \in TokenAccount /\ token' = [token EXCEPT ![acc] = new]
    BY <1>3 DEF Approve, TypeOK
  <2>2. new \in TokenAccount
    BY <2>1 DEF TokenAccount
  <2> HIDE DEF new
  <2>3. QED
    BY <1>1, <1>3, <2>1, <2>2, OneAccountKeeps DEF Approve
<1>4. ASSUME NEW acc \in Accounts, NEW new \in Owners, SetOwner(k, acc, new) PROVE Keeps
  <2> DEFINE given == [token[acc] EXCEPT !.owner = new, !.delegate = NoKey]
  <2>1. token[acc] \in TokenAccount /\ token' = [token EXCEPT ![acc] = given]
    BY <1>4 DEF SetOwner, TypeOK
  <2>2. given \in TokenAccount
    BY <2>1 DEF TokenAccount
  <2> HIDE DEF given
  <2>3. QED
    BY <1>1, <1>4, <2>1, <2>2, OneAccountKeeps DEF SetOwner
<1>5. ASSUME NEW acc \in Accounts, NEW new \in Closers \cup {NoKey},
             SetCloseAuthority(k, acc, new)
      PROVE  Keeps
  <2> DEFINE given == [token[acc] EXCEPT !.close_authority = new]
  <2>1. token[acc] \in TokenAccount /\ token' = [token EXCEPT ![acc] = given]
    BY <1>5 DEF SetCloseAuthority, TypeOK
  <2>2. given \in TokenAccount
    BY <2>1 DEF TokenAccount
  <2> HIDE DEF given
  <2>3. QED
    BY <1>1, <1>5, <2>1, <2>2, OneAccountKeeps DEF SetCloseAuthority
<1>6. ASSUME NEW acc \in Accounts, CloseAccount(k, acc) PROVE Keeps
  BY <1>1, <1>6, OneAccountKeeps DEF CloseAccount
<1>7. ASSUME NEW acc \in Accounts, Burn(k, acc) PROVE Keeps
  BY <1>7, BurnKeeps
<1>8. QED
  BY <1>2, <1>3, <1>4, <1>5, <1>6, <1>7 DEF AccountOwner

-----------------------------------------------------------------------------
\* A step that initializes no pool keeps the invariant.
LEMMA KeepsSetupInv == ASSUME SetupInv, Keeps PROVE SetupInv'
<1>1. Initialized' = Initialized /\ pool' = pool /\ TypeOK'
  BY DEF Keeps, Initialized
<1>2. \A s \in Initialized : s \in Swaps /\ pool[s] \in SwapV1 /\ ReservesOf(s)' = ReservesOf(s)
  BY <1>1 DEF SetupInv, TypeOK, Initialized, ReservesOf
<1>3. \A s \in Initialized : /\ pool[s].token_a \in Accounts /\ pool[s].token_b \in Accounts
                             /\ pool[s].pool_mint \in Mints
                             /\ ReservesOf(s) = {pool[s].token_a, pool[s].token_b}
  BY <1>2 DEF SwapV1, ReservesOf
<1>4. \A s \in Initialized : \A acc \in ReservesOf(s) : AccountObeys(acc, s)
  BY DEF SetupInv, ReservesObeyThePool, AccountObeys
<1>5. \A s \in Initialized : \A acc \in ReservesOf(s) :
        AccountObeys(acc, s)' /\ token'[acc].mint = token[acc].mint
  BY <1>2, <1>3, <1>4 DEF Keeps, AccountsKeepObeying
<1>6. ReservesObeyThePool'
  BY <1>1, <1>2, <1>5 DEF ReservesObeyThePool, AccountObeys
<1>7. MintsStayApart'
  BY <1>1, <1>3, <1>5 DEF SetupInv, MintsStayApart
<1>8. PoolMintObeysThePool'
  <2>1. \A s \in Initialized : MintObeys(pool[s].pool_mint, s)
    BY DEF SetupInv, PoolMintObeysThePool, MintObeys
  <2>2. \A s \in Initialized : MintObeys(pool[s].pool_mint, s)'
    BY <1>1, <1>2, <1>3, <2>1 DEF Keeps, MintsKeepObeying, MintObeys
  <2>3. QED
    BY <1>1, <2>2 DEF PoolMintObeysThePool, MintObeys
<1>9. AdmittedFees'
  BY <1>1 DEF SetupInv, AdmittedFees
<1>10. QED
  BY <1>1, <1>6, <1>7, <1>8, <1>9 DEF SetupInv

(***************************************************************************)
(* A new pool starts with two reserves and a mint that obey it, and takes  *)
(* nothing away from the pools there are.                                  *)
(***************************************************************************)
LEMMA InitializeKeepsInv ==
  ASSUME SetupInv, NEW swap \in Swaps, NEW a \in Accounts, NEW b \in Accounts, NEW m \in Mints,
         NEW fee \in Accounts, NEW destination \in Accounts, NEW f \in FeeSchedules,
         NEW c \in SwapCurves, Initialize(swap, a, b, m, fee, destination, f, c)
  PROVE  SetupInv'
<1> DEFINE new == NewSwap(a, b, m, fee, f, c)
<1>1. TypeOK /\ pool[swap] = NoPool /\ pool' = [pool EXCEPT ![swap] = new]
  BY DEF SetupInv, Initialize, NotInUse
<1>2. /\ AccountObeys(a, swap) /\ AccountObeys(b, swap) /\ MintObeys(m, swap)
      /\ token[a] \in TokenAccount /\ token[b] \in TokenAccount
      /\ token[a].mint # token[b].mint /\ m \notin {token[a].mint, token[b].mint}
  BY <1>1 DEF Initialize, ReserveOK, Holds, AccountObeys, PoolMintOK, ValidMintExtensions, MintObeys,
              DifferentMints, TypeOK
<1>3. /\ token' \in [Accounts -> TokenAccount \cup {Absent}]
      /\ mint' \in [Mints -> Mint \cup {Absent}]
      /\ AccountsKeepObeying /\ MintsKeepObeying
  BY <1>1, MintedTypes, MintedKeeps DEF Initialize
<1>4. new \in SwapV1
  BY <1>2, SetupAssumption DEF NewSwap, SwapV1, TokenAccount
<1>5. /\ new.token_a = a /\ new.token_b = b /\ new.pool_mint = m /\ new.fees = f
      /\ new.token_a_mint = token[a].mint /\ new.token_b_mint = token[b].mint
  BY DEF NewSwap
<1>6. new # NoPool
  BY <1>4, SetupAssumption
<1> HIDE DEF new
<1>7. TypeOK'
  BY <1>1, <1>3, <1>4 DEF TypeOK, Initialize
<1>8. /\ pool'[swap] = new /\ \A s \in Swaps \ {swap} : pool'[s] = pool[s]
      /\ Initialized' = Initialized \cup {swap} /\ swap \notin Initialized
      /\ Initialized \subseteq Swaps
  BY <1>1, <1>6 DEF TypeOK, Initialized
<1>9. \A s \in Initialized : /\ pool[s].token_a \in Accounts /\ pool[s].token_b \in Accounts
                             /\ pool[s].pool_mint \in Mints
  BY <1>1 DEF TypeOK, Initialized, SwapV1
<1>10. ReservesObeyThePool' /\ MintsStayApart'
  <2>1. ASSUME NEW s \in Initialized'
        PROVE  /\ \A acc \in ReservesOf(s)' : AccountObeys(acc, s)'
               /\ token'[pool'[s].token_a].mint = pool'[s].token_a_mint
               /\ token'[pool'[s].token_b].mint = pool'[s].token_b_mint
               /\ pool'[s].token_a_mint # pool'[s].token_b_mint
               /\ pool'[s].pool_mint \notin {pool'[s].token_a_mint, pool'[s].token_b_mint}
    <3>1. CASE s = swap
      <4>1. ReservesOf(s)' = {a, b}
        BY <1>5, <1>8, <3>1 DEF ReservesOf
      <4>2. /\ AccountObeys(a, swap)' /\ AccountObeys(b, swap)'
            /\ token'[a].mint = token[a].mint /\ token'[b].mint = token[b].mint
        BY <1>2, <1>3 DEF AccountsKeepObeying
      <4>3. QED
        BY <1>2, <1>5, <1>8, <3>1, <4>1, <4>2
    <3>2. CASE s # swap
      <4>1. s \in Initialized /\ pool'[s] = pool[s] /\ s \in Swaps
        BY <1>8, <3>2
      <4>2. ReservesOf(s)' = {pool[s].token_a, pool[s].token_b}
        BY <4>1 DEF ReservesOf
      <4>3. AccountObeys(pool[s].token_a, s) /\ AccountObeys(pool[s].token_b, s)
        BY <4>1 DEF SetupInv, ReservesObeyThePool, ReservesOf, AccountObeys
      <4>4. \A acc \in {pool[s].token_a, pool[s].token_b} :
              AccountObeys(acc, s)' /\ token'[acc].mint = token[acc].mint
        BY <1>3, <1>9, <4>1, <4>3 DEF AccountsKeepObeying
      <4>5. QED
        BY <4>1, <4>2, <4>4 DEF SetupInv, MintsStayApart
    <3>3. QED
      BY <3>1, <3>2
  <2>2. ReservesObeyThePool'
    BY <2>1 DEF ReservesObeyThePool, AccountObeys
  <2>3. MintsStayApart'
    BY <2>1 DEF MintsStayApart
  <2>4. QED
    BY <2>2, <2>3
<1>11. PoolMintObeysThePool'
  <2>1. ASSUME NEW s \in Initialized' PROVE MintObeys(pool[s].pool_mint, s)'
    <3>1. CASE s = swap
      <4>1. MintObeys(m, swap)'
        BY <1>2, <1>3 DEF MintsKeepObeying
      <4>2. QED
        BY <1>5, <1>8, <3>1, <4>1 DEF MintObeys
    <3>2. CASE s # swap
      <4>1. s \in Initialized /\ s \in Swaps /\ pool'[s] = pool[s]
        BY <1>8, <3>2
      <4>2. MintObeys(pool[s].pool_mint, s) /\ pool[s].pool_mint \in Mints
        BY <1>9, <4>1 DEF SetupInv, PoolMintObeysThePool, MintObeys
      <4>3. QED
        BY <1>3, <4>1, <4>2 DEF MintsKeepObeying, MintObeys
    <3>3. QED
      BY <3>1, <3>2
  <2>2. QED
    BY <2>1 DEF PoolMintObeysThePool, MintObeys
<1>12. AdmittedFees'
  <2>1. /\ ValidFees(f)
        /\ SwapConstraints # NoConstraints =>
             /\ FeeAtLeast(f.trade, SwapConstraints.fees.trade)
             /\ FeeAtLeast(f.owner, SwapConstraints.fees.owner)
             /\ FeeAtLeast(f.withdraw, SwapConstraints.fees.withdraw)
             /\ f.host = SwapConstraints.fees.host
    BY DEF Initialize, ConstraintsAllow
  <2>2. QED
    BY <1>5, <1>8, <2>1 DEF SetupInv, AdmittedFees
<1>13. QED
  BY <1>7, <1>10, <1>11, <1>12 DEF SetupInv

LEMMA NextKeepsSetupInv == SetupInv /\ [Next]_vars => SetupInv'
<1> SUFFICES ASSUME SetupInv, [Next]_vars PROVE SetupInv'
  OBVIOUS
<1>1. CASE Initializing
  BY <1>1, InitializeKeepsInv DEF Initializing
<1>2. CASE Next /\ ~Initializing
  BY <1>2, PoolInstructionKeeps, MakingKeeps, MintOwnerKeeps, AccountOwnerKeeps, KeepsSetupInv
     DEF Next, SetupInv
<1>3. CASE UNCHANGED vars
  <2>1. Keeps
    BY <1>3, MintUnchangedKeeps, TokenUnchangedKeeps DEF vars, Keeps, SetupInv, TypeOK
  <2>2. QED
    BY <2>1, KeepsSetupInv
<1>4. QED
  BY <1>1, <1>2, <1>3

-----------------------------------------------------------------------------
(***************************************************************************)
(* The accounts Initialize wrote into a swap obey its authority alone, and *)
(* the pool mint too, in every state any mix of pool instructions and      *)
(* token instructions of other people leads to.                            *)
(***************************************************************************)
THEOREM SetupIsSafe == Spec => []SetupSafe
<1>1. SetupInv => SetupSafe
  BY DEF SetupInv, SetupSafe
<1>2. QED
  BY <1>1, InitSetupInv, NextKeepsSetupInv, PTL DEF Spec

(***************************************************************************)
(* No two pools share a reserve or a pool mint, however many pools are     *)
(* made and whoever makes them.                                            *)
(***************************************************************************)
THEOREM PoolsAreSeparate == Spec => []PoolsShareNothing
<1>1. SetupInv => PoolsShareNothing
  <2> SUFFICES ASSUME SetupInv, NEW s \in Initialized, NEW t \in Initialized, s # t
               PROVE  /\ ReservesOf(s) \cap ReservesOf(t) = {}
                      /\ pool[s].pool_mint # pool[t].pool_mint
    BY DEF PoolsShareNothing
  <2>1. SwapAuthority(s) # SwapAuthority(t)
    BY DEF SwapAuthority
  <2>2. \A acc \in ReservesOf(s) : token[acc].owner = SwapAuthority(s)
    BY DEF SetupInv, ReservesObeyThePool
  <2>3. \A acc \in ReservesOf(t) : token[acc].owner = SwapAuthority(t)
    BY DEF SetupInv, ReservesObeyThePool
  <2>4. mint[pool[s].pool_mint].authority # mint[pool[t].pool_mint].authority
    BY <2>1 DEF SetupInv, PoolMintObeysThePool
  <2>5. QED
    BY <2>1, <2>2, <2>3, <2>4
<1>2. QED
  BY <1>1, InitSetupInv, NextKeepsSetupInv, PTL DEF Spec

LEMMA SwapStays ==
  ASSUME SetupInv, Next, NEW s \in Initialized
  PROVE  pool'[s] = pool[s] /\ s \in Initialized'
<1>1. CASE Initializing
  <2>1. PICK swap \in Swaps, a \in Accounts, b \in Accounts, m \in Mints, fee \in Accounts,
             destination \in Accounts, f \in FeeSchedules, c \in SwapCurves :
               Initialize(swap, a, b, m, fee, destination, f, c)
    BY <1>1 DEF Initializing
  <2>2. swap # s /\ pool' = [pool EXCEPT ![swap] = NewSwap(a, b, m, fee, f, c)]
    BY <2>1 DEF Initialize, NotInUse, Initialized
  <2>3. QED
    BY <2>2 DEF SetupInv, TypeOK, Initialized
<1>2. CASE ~Initializing
  BY <1>2, PoolInstructionKeeps, MakingKeeps, MintOwnerKeeps, AccountOwnerKeeps
     DEF Next, SetupInv, Keeps, Initialized
<1>3. QED
  BY <1>1, <1>2

\* A swap account is initialized once, by the only step that writes it.
THEOREM SwapsAreWrittenOnce == Spec => PoolIsFinal
<1>1. SetupInv /\ [Next]_vars => [\A s \in Initialized : pool'[s] = pool[s]]_vars
  BY SwapStays
<1>2. QED
  BY <1>1, InitSetupInv, NextKeepsSetupInv, PTL DEF Spec, PoolIsFinal

-----------------------------------------------------------------------------
\* A greater part of the same amount is no smaller fee.
LEMMA FeeGrowsWithNumerator ==
  ASSUME NEW amount \in Nat, NEW f \in Fraction, NEW required \in Fraction,
         ValidFraction(f), FeeAtLeast(f, required)
  PROVE  CalculateFee(amount, f) >= CalculateFee(amount, required)
<1> DEFINE n == f.num
           r == required.num
           d == f.den
<1>1. n \in Nat /\ r \in Nat /\ d \in Nat /\ n >= r /\ required.den = d
  BY DEF Fraction, FeeAtLeast
<1>2. f = [num |-> 0, den |-> 0] \/ n < d
  BY DEF ValidFraction
<1>3. CASE n = 0 \/ amount = 0
  BY <1>1, <1>3 DEF CalculateFee
<1>4. CASE n # 0 /\ amount # 0
  <2>1. d > 0
    BY <1>1, <1>2, <1>4
  <2> HIDE DEF n, r, d
  <2>2. amount * r <= amount * n /\ amount * r \in Nat /\ amount * n \in Nat
    BY <1>1, SMT
  <2>3. (amount * r) \div d <= (amount * n) \div d
    BY <1>1, <2>1, <2>2, SMT
  <2>4. (amount * r) \div d \in Nat /\ (amount * n) \div d \in Nat
    BY <1>1, <2>1, <2>2, SMT
  <2>5. QED
    BY <1>1, <1>4, <2>3, <2>4, SMT DEF CalculateFee, n, r, d
<1>5. QED
  BY <1>3, <1>4

(***************************************************************************)
(* SwapConstraints: no pool a build with constraints let through charges   *)
(* less than the minimum on any amount.                                    *)
(***************************************************************************)
THEOREM MinimumFeesAreCharged == Spec => []MinimumFeesCharged
<1>1. SetupInv => MinimumFeesCharged
  <2> SUFFICES ASSUME SetupInv, SwapConstraints # NoConstraints, NEW s \in Initialized,
                      NEW amount \in FeeAmounts
               PROVE  ChargesTheMinimum(pool[s].fees, SwapConstraints.fees, amount)
    BY DEF MinimumFeesCharged
  <2>1. /\ pool[s].fees \in FeeSchedule /\ SwapConstraints.fees \in FeeSchedule /\ amount \in Nat
        /\ ValidFees(pool[s].fees)
    BY SetupAssumption DEF SetupInv, TypeOK, Initialized, SwapV1, Constraints, AdmittedFees
  <2>2. /\ pool[s].fees.trade \in Fraction /\ pool[s].fees.owner \in Fraction
        /\ pool[s].fees.withdraw \in Fraction
        /\ SwapConstraints.fees.trade \in Fraction /\ SwapConstraints.fees.owner \in Fraction
        /\ SwapConstraints.fees.withdraw \in Fraction
    BY <2>1 DEF FeeSchedule
  <2>3. /\ ValidFraction(pool[s].fees.trade) /\ ValidFraction(pool[s].fees.owner)
        /\ ValidFraction(pool[s].fees.withdraw)
    BY <2>1 DEF ValidFees
  <2>4. /\ FeeAtLeast(pool[s].fees.trade, SwapConstraints.fees.trade)
        /\ FeeAtLeast(pool[s].fees.owner, SwapConstraints.fees.owner)
        /\ FeeAtLeast(pool[s].fees.withdraw, SwapConstraints.fees.withdraw)
        /\ pool[s].fees.host = SwapConstraints.fees.host
    BY DEF SetupInv, AdmittedFees
  <2>5. QED
    BY <2>1, <2>2, <2>3, <2>4, FeeGrowsWithNumerator
       DEF ChargesTheMinimum, TradingFee, OwnerTradingFee, OwnerWithdrawFee, HostFee
<1>2. QED
  BY <1>1, InitSetupInv, NextKeepsSetupInv, PTL DEF Spec

-----------------------------------------------------------------------------
(***************************************************************************)
(* The mints of the reserves carry listed extensions only, unless they     *)
(* have been closed and made again.                                        *)
(***************************************************************************)
MintListed(m) == mint[m] # Absent /\ mint[m].kind.extensions \subseteq ValidTokenExtensions

ReservesListed ==
  \A s \in Initialized : \A m \in {pool[s].token_a_mint, pool[s].token_b_mint} :
    m \notin remade => MintListed(m)

LEMMA RemadeGrows == Next => remade \subseteq remade'
<1>1. Initializing => UNCHANGED remade
  BY DEF Initializing, Initialize
<1>2. \A swap \in Swaps : PoolInstruction(swap) => UNCHANGED remade
  BY DEF PoolInstruction, PoolPays, PoolMints
<1>3. Making => UNCHANGED remade
  BY DEF Making, CreateMint, CreateAccount
<1>4. ASSUME NEW k \in Keys, MintOwner(k) PROVE remade \subseteq remade'
  BY <1>4 DEF MintOwner, MintTo, SetMintAuthority, SetFreezeAuthority, CloseMint
<1>5. \A k \in Keys : AccountOwner(k) => UNCHANGED remade
  BY DEF AccountOwner, Transfer, Approve, SetOwner, SetCloseAuthority, CloseAccount, Burn
<1>6. QED
  BY <1>1, <1>2, <1>3, <1>4, <1>5 DEF Next

\* A listed mint stays listed as long as it is not closed.
LEMMA ListedStays ==
  ASSUME TypeOK, Next, NEW m \in Mints, MintListed(m), m \notin remade'
  PROVE  MintListed(m)' /\ m \notin remade
<1>1. ASSUME NEW authority, NEW x \in Mints, NEW acc \in Accounts, Minted(authority, x, acc),
             UNCHANGED remade
      PROVE  MintListed(m)' /\ m \notin remade
  <2>1. /\ mint[x] \in Mint
        /\ mint' = [mint EXCEPT ![x] = [mint[x] EXCEPT !.supply = mint[x].supply + 1]]
    BY <1>1 DEF Minted, TypeOK
  <2>2. [mint[x] EXCEPT !.supply = mint[x].supply + 1] \in Mint
    BY <1>1, <2>1, SetupAssumption DEF Minted, Mint
  <2>3. [mint[x] EXCEPT !.supply = mint[x].supply + 1].kind = mint[x].kind
    BY <2>1 DEF Mint
  <2>4. QED
    BY <1>1, <2>1, <2>2, <2>3, SetupAssumption DEF MintListed, TypeOK
<1>2. ASSUME NEW x \in Mints, NEW new \in Mint, mint' = [mint EXCEPT ![x] = new],
             x = m => new.kind = mint[m].kind, UNCHANGED remade
      PROVE  MintListed(m)' /\ m \notin remade
  BY <1>2, SetupAssumption DEF MintListed, TypeOK
<1>3. CASE UNCHANGED <<mint, remade>>
  BY <1>3 DEF MintListed
<1>4. CASE Initializing
  BY <1>1, <1>4 DEF Initializing, Initialize
<1>5. CASE \E swap \in Swaps : PoolInstruction(swap)
  BY <1>1, <1>3, <1>5 DEF PoolInstruction, PoolPays, PoolMints
<1>6. CASE Making
  <2>1. ASSUME NEW x \in Mints, NEW authority \in Signers, NEW freeze \in Freezers \cup {NoKey},
               NEW kind \in MintKinds, CreateMint(x, authority, freeze, kind)
        PROVE  MintListed(m)' /\ m \notin remade
    <3>1. x # m /\ mint'[m] = mint[m] /\ UNCHANGED remade
      BY <2>1 DEF CreateMint, MintListed, TypeOK
    <3>2. QED
      BY <3>1 DEF MintListed
  <2>2. QED
    BY <1>3, <1>6, <2>1 DEF Making, CreateAccount
<1>7. ASSUME NEW k \in Keys, MintOwner(k) PROVE MintListed(m)' /\ m \notin remade
  <2>1. ASSUME NEW x \in Mints, NEW acc \in Accounts, MintTo(k, x, acc)
        PROVE  MintListed(m)' /\ m \notin remade
    BY <1>1, <2>1 DEF MintTo
  <2>2. ASSUME NEW x \in Mints, NEW new \in Signers \cup {NoKey}, SetMintAuthority(k, x, new)
        PROVE  MintListed(m)' /\ m \notin remade
    <3>1. /\ mint[x] \in Mint /\ UNCHANGED remade
          /\ mint' = [mint EXCEPT ![x] = [mint[x] EXCEPT !.authority = new]]
      BY <2>2 DEF SetMintAuthority, TypeOK
    <3>2. /\ [mint[x] EXCEPT !.authority = new] \in Mint
          /\ [mint[x] EXCEPT !.authority = new].kind = mint[x].kind
      BY <3>1 DEF Mint
    <3>3. QED
      BY <1>2, <3>1, <3>2
  <2>3. ASSUME NEW x \in Mints, NEW new \in Freezers \cup {NoKey}, SetFreezeAuthority(k, x, new)
        PROVE  MintListed(m)' /\ m \notin remade
    <3>1. /\ mint[x] \in Mint /\ UNCHANGED remade
          /\ mint' = [mint EXCEPT ![x] = [mint[x] EXCEPT !.freeze = new]]
      BY <2>3 DEF SetFreezeAuthority, TypeOK
    <3>2. /\ [mint[x] EXCEPT !.freeze = new] \in Mint
          /\ [mint[x] EXCEPT !.freeze = new].kind = mint[x].kind
      BY <3>1 DEF Mint
    <3>3. QED
      BY <1>2, <3>1, <3>2
  <2>4. ASSUME NEW x \in Mints, CloseMint(x) PROVE MintListed(m)' /\ m \notin remade
    BY <2>4 DEF CloseMint, MintListed, TypeOK
  <2>5. QED
    BY <1>7, <2>1, <2>2, <2>3, <2>4 DEF MintOwner
<1>8. ASSUME NEW k \in Keys, AccountOwner(k) PROVE MintListed(m)' /\ m \notin remade
  <2>1. ASSUME NEW acc \in Accounts, Burn(k, acc) PROVE MintListed(m)' /\ m \notin remade
    <3> DEFINE x == token[acc].mint
    <3>1. /\ x \in Mints /\ mint[x] \in Mint /\ mint[x].supply > 0 /\ UNCHANGED remade
          /\ mint' = [mint EXCEPT ![x] = [mint[x] EXCEPT !.supply = mint[x].supply - 1]]
      BY <2>1 DEF Burn, TypeOK, TokenAccount
    <3>2. mint[x].supply - 1 \in 0 .. MaxAmount
      BY <3>1, SetupAssumption DEF Mint
    <3>3. /\ [mint[x] EXCEPT !.supply = mint[x].supply - 1] \in Mint
          /\ [mint[x] EXCEPT !.supply = mint[x].supply - 1].kind = mint[x].kind
      BY <3>1, <3>2 DEF Mint
    <3> HIDE DEF x
    <3>4. QED
      BY <1>2, <3>1, <3>3
  <2>2. QED
    BY <1>3, <1>8, <2>1
       DEF AccountOwner, Transfer, Approve, SetOwner, SetCloseAuthority, CloseAccount
<1>9. QED
  BY <1>4, <1>5, <1>6, <1>7, <1>8 DEF Next

LEMMA ListedInductive == SetupInv /\ ReservesListed /\ [Next]_vars => ReservesListed'
<1> SUFFICES ASSUME SetupInv, ReservesListed, [Next]_vars PROVE ReservesListed'
  OBVIOUS
<1>1. CASE UNCHANGED vars
  BY <1>1 DEF vars, ReservesListed, MintListed, Initialized
<1>2. CASE Next
  <2>1. TypeOK /\ \A s \in Initialized : s \in Swaps /\ pool[s] \in SwapV1
    BY DEF SetupInv, TypeOK, Initialized
  <2>2. \A s \in Initialized : \A m \in {pool[s].token_a_mint, pool[s].token_b_mint} : m \in Mints
    BY <2>1 DEF SwapV1
  <2>3. CASE pool' = pool
    <3>1. ASSUME NEW s \in Initialized, NEW m \in {pool[s].token_a_mint, pool[s].token_b_mint},
                 m \notin remade'
          PROVE  MintListed(m)'
      <4>1. m \in Mints /\ m \notin remade
        BY <1>2, <2>2, <3>1, RemadeGrows
      <4>2. MintListed(m)
        BY <3>1, <4>1 DEF ReservesListed
      <4>3. QED
        BY <1>2, <2>1, <3>1, <4>1, <4>2, ListedStays
    <3>2. QED
      BY <2>3, <3>1 DEF ReservesListed, Initialized
  <2>4. CASE Initializing
    <3>1. PICK swap \in Swaps, a \in Accounts, b \in Accounts, m \in Mints, fee \in Accounts,
               destination \in Accounts, f \in FeeSchedules, c \in SwapCurves :
                 Initialize(swap, a, b, m, fee, destination, f, c)
      BY <2>4 DEF Initializing
    <3> DEFINE new == NewSwap(a, b, m, fee, f, c)
    <3>2. pool' = [pool EXCEPT ![swap] = new] /\ remade' = remade
      BY <3>1 DEF Initialize
    <3>3. new.token_a_mint = token[a].mint /\ new.token_b_mint = token[b].mint
      BY DEF NewSwap
    <3> HIDE DEF new
    <3>4. /\ MintListed(token[a].mint) /\ MintListed(token[b].mint)
          /\ token[a].mint \in Mints /\ token[b].mint \in Mints
      BY <2>1, <3>1 DEF Initialize, ReserveOK, Holds, ValidMintExtensions, MintListed, TypeOK, TokenAccount
    <3>5. ASSUME NEW s \in Initialized',
                 NEW x \in {pool'[s].token_a_mint, pool'[s].token_b_mint}, x \notin remade'
          PROVE  x \in Mints /\ MintListed(x)
      <4>1. CASE s = swap
        BY <2>1, <3>2, <3>3, <3>4, <3>5, <4>1 DEF TypeOK, Initialized
      <4>2. CASE s # swap
        BY <2>1, <2>2, <3>2, <3>5, <4>2 DEF TypeOK, Initialized, ReservesListed
      <4>3. QED
        BY <4>1, <4>2
    <3>6. QED
      BY <1>2, <2>1, <3>5, ListedStays DEF ReservesListed
  <2>5. QED
    BY <1>2, <2>1, <2>3, <2>4, PoolInstructionKeeps, MakingKeeps, MintOwnerKeeps, AccountOwnerKeeps
       DEF Next, Keeps
<1>3. QED
  BY <1>1, <1>2

-----------------------------------------------------------------------------
(***************************************************************************)
(* A step that is no instruction of pool s takes nothing from an account   *)
(* that obeys s, and adds nothing to a mint that obeys s.                  *)
(***************************************************************************)
LEMMA MintedByOther ==
  ASSUME TypeOK, NEW s \in Swaps, NEW authority, authority # SwapAuthority(s), NEW m \in Mints,
         NEW to \in Accounts, Minted(authority, m, to)
  PROVE  /\ \A acc \in Accounts : AccountObeys(acc, s) => token'[acc].amount >= token[acc].amount
         /\ \A x \in Mints : MintObeys(x, s) => mint'[x] = mint[x]
<1>1. token[to] \in TokenAccount /\ mint[m].authority = authority
  BY DEF Minted, TypeOK
<1>2. \A acc \in Accounts : token'[acc] =
        IF acc = to THEN [token[to] EXCEPT !.amount = token[to].amount + 1] ELSE token[acc]
  BY DEF Minted, TypeOK
<1>3. [token[to] EXCEPT !.amount = token[to].amount + 1].amount = token[to].amount + 1
  BY <1>1 DEF TokenAccount
<1>4. \A acc \in Accounts : AccountObeys(acc, s) => token[acc].amount \in Nat
  BY DEF AccountObeys, TypeOK, TokenAccount
<1>5. ASSUME NEW acc \in Accounts, AccountObeys(acc, s) PROVE token'[acc].amount >= token[acc].amount
  <2>1. token[acc].amount \in Nat
    BY <1>4, <1>5
  <2>2. CASE acc = to
    <3>1. token'[acc].amount = token[acc].amount + 1
      BY <1>2, <1>3, <2>2
    <3>2. QED
      BY <2>1, <3>1
  <2>3. CASE acc # to
    BY <1>2, <2>1, <2>3
  <2>4. QED
    BY <2>2, <2>3
<1>6. \A x \in Mints : MintObeys(x, s) => x # m
  BY <1>1 DEF MintObeys
<1>7. \A x \in Mints : x # m => mint'[x] = mint[x]
  BY DEF Minted, TypeOK
<1>8. QED
  BY <1>5, <1>6, <1>7

LEMMA TransferredFromOther ==
  ASSUME TypeOK, NEW from \in Accounts, NEW to \in Accounts, Transferred(from, to),
         NEW acc \in Accounts, acc # from, token[acc] # Absent
  PROVE  token'[acc].amount >= token[acc].amount
<1>1. token[to] \in TokenAccount /\ token[acc].amount \in Nat
  BY DEF TypeOK, Transferred, TokenAccount
<1>2. token'[acc] = IF acc = to THEN [token[to] EXCEPT !.amount = token[to].amount + 1] ELSE token[acc]
  BY DEF Transferred, TypeOK
<1>3. QED
  BY <1>1, <1>2 DEF TokenAccount

LEMMA OthersTakeNothing ==
  ASSUME TypeOK, Next, NEW s \in Swaps, ~PoolInstruction(s),
         NEW acc \in Accounts, AccountObeys(acc, s), MintListed(token[acc].mint)
  PROVE  token'[acc].amount >= token[acc].amount
<1>1. token[acc].amount \in Nat /\ token[acc].mint \in Mints
  BY DEF AccountObeys, TypeOK, TokenAccount
<1>2. ASSUME NEW t \in Swaps, t # s PROVE SwapAuthority(t) # SwapAuthority(s)
  BY <1>2 DEF SwapAuthority
<1>3. CASE token'[acc] = token[acc]
  BY <1>1, <1>3
<1>4. CASE Initializing
  <2>1. PICK swap \in Swaps, m \in Mints, to \in Accounts : Minted(SwapAuthority(swap), m, to)
    BY <1>4 DEF Initializing, Initialize
  <2>2. token' = [token EXCEPT ![to].amount = token[to].amount + 1] /\ token[to] \in TokenAccount
    BY <2>1 DEF Minted, TypeOK
  <2>3. QED
    BY <1>1, <2>2 DEF TypeOK, TokenAccount
<1>5. ASSUME NEW t \in Swaps, PoolInstruction(t) PROVE token'[acc].amount >= token[acc].amount
  <2>1. t # s
    BY <1>5
  <2>2. ASSUME NEW to \in Accounts, NEW m \in Mints, PoolMints(t, m, to)
        PROVE  token'[acc].amount >= token[acc].amount
    BY <1>2, <2>1, <2>2, MintedByOther DEF PoolMints
  <2>3. ASSUME NEW reserve \in Accounts, NEW to \in Accounts, PoolPays(t, reserve, to)
        PROVE  token'[acc].amount >= token[acc].amount
    <3>1. reserve # acc
      BY <1>2, <2>1, <2>3 DEF PoolPays, Holds, AccountObeys
    <3>2. QED
      BY <2>3, <3>1, TransferredFromOther DEF PoolPays, AccountObeys
  <2>4. QED
    BY <1>5, <2>2, <2>3 DEF PoolInstruction
<1>6. CASE Making
  BY <1>3, <1>6 DEF Making, CreateMint, CreateAccount, AccountObeys, TypeOK
<1>7. ASSUME NEW k \in Keys, MintOwner(k) PROVE token'[acc].amount >= token[acc].amount
  <2>1. ASSUME NEW m \in Mints, NEW to \in Accounts, MintTo(k, m, to)
        PROVE  token'[acc].amount >= token[acc].amount
    BY <2>1, AuthorityIsNoKey, MintedByOther DEF MintTo
  <2>2. QED
    BY <1>3, <1>7, <2>1 DEF MintOwner, SetMintAuthority, SetFreezeAuthority, CloseMint
<1>8. ASSUME NEW k \in Keys, AccountOwner(k) PROVE token'[acc].amount >= token[acc].amount
  <2>1. ~MaySpend(k, acc) /\ token[acc].owner # k /\ ~MayClose(k, acc)
    BY AuthorityIsNoKey DEF MaySpend, MayClose, AccountObeys, MintListed, ValidTokenExtensions, ValidPoolMintExtensions
  <2>2. ASSUME NEW from \in Accounts, NEW to \in Accounts, Transfer(k, from, to)
        PROVE  token'[acc].amount >= token[acc].amount
    BY <2>1, <2>2, TransferredFromOther DEF Transfer, AccountObeys
  <2>3. ASSUME NEW x \in Accounts,
               \/ Burn(k, x) \/ CloseAccount(k, x)
               \/ \E delegate \in Delegates \cup {NoKey} : Approve(k, x, delegate)
               \/ \E new \in Owners : SetOwner(k, x, new)
               \/ \E new \in Closers \cup {NoKey} : SetCloseAuthority(k, x, new)
        PROVE  token'[acc] = token[acc]
    <3>1. x # acc
      BY <2>1, <2>3 DEF Approve, SetOwner, SetCloseAuthority, CloseAccount, Burn
    <3>2. QED
      BY <2>3, <3>1 DEF Approve, SetOwner, SetCloseAuthority, CloseAccount, Burn, TypeOK
  <2>4. QED
    BY <1>3, <1>8, <2>2, <2>3 DEF AccountOwner
<1>9. QED
  BY <1>4, <1>5, <1>6, <1>7, <1>8 DEF Next

LEMMA OthersMintNothing ==
  ASSUME TypeOK, Next, NEW s \in Swaps, s \in Initialized, ~PoolInstruction(s),
         NEW m \in Mints, MintObeys(m, s)
  PROVE  mint'[m].supply <= mint[m].supply
<1>1. mint[m] \in Mint /\ mint[m].supply \in Nat
  BY SetupAssumption DEF MintObeys, TypeOK, Mint
<1>2. ASSUME NEW t \in Swaps, t # s PROVE SwapAuthority(t) # SwapAuthority(s)
  BY <1>2 DEF SwapAuthority
<1>3. CASE mint'[m] = mint[m]
  BY <1>1, <1>3
<1>4. CASE Initializing
  <2>1. PICK swap \in Swaps, x \in Mints, to \in Accounts :
          Minted(SwapAuthority(swap), x, to) /\ pool[swap] = NoPool
    BY <1>4 DEF Initializing, Initialize, NotInUse
  <2>2. swap # s
    BY <2>1 DEF Initialized
  <2>3. QED
    BY <1>2, <1>3, <2>1, <2>2, MintedByOther
<1>5. ASSUME NEW t \in Swaps, PoolInstruction(t) PROVE mint'[m].supply <= mint[m].supply
  <2>1. t # s
    BY <1>5
  <2>2. QED
    BY <1>2, <1>3, <1>5, <2>1, MintedByOther DEF PoolInstruction, PoolMints, PoolPays
<1>6. CASE Making
  BY <1>3, <1>6 DEF Making, CreateMint, CreateAccount, MintObeys, TypeOK
<1>7. ASSUME NEW k \in Keys, MintOwner(k) PROVE mint'[m].supply <= mint[m].supply
  <2>1. ASSUME NEW x \in Mints, NEW to \in Accounts, MintTo(k, x, to) PROVE mint'[m] = mint[m]
    BY <2>1, AuthorityIsNoKey, MintedByOther DEF MintTo
  <2>2. \A x \in Mints : \A new : SetMintAuthority(k, x, new) \/ SetFreezeAuthority(k, x, new) => x # m
    BY AuthorityIsNoKey DEF SetMintAuthority, SetFreezeAuthority, MintObeys
  <2>3. \A x \in Mints : CloseMint(x) => x # m
    BY DEF CloseMint, MintObeys, ValidPoolMintExtensions
  <2>4. \A x \in Mints : \A new : x # m /\ mint' = [mint EXCEPT ![x] = new] => mint'[m] = mint[m]
    BY DEF TypeOK
  <2>5. QED
    BY <1>3, <1>7, <2>1, <2>2, <2>3, <2>4 DEF MintOwner, SetMintAuthority, SetFreezeAuthority, CloseMint
<1>8. ASSUME NEW k \in Keys, AccountOwner(k) PROVE mint'[m].supply <= mint[m].supply
  <2>1. ASSUME NEW x \in Accounts, Burn(k, x) PROVE mint'[m].supply <= mint[m].supply
    <3> DEFINE y == token[x].mint
    <3>1. y \in Mints /\ mint' = [mint EXCEPT ![y] = [mint[y] EXCEPT !.supply = mint[y].supply - 1]]
      BY <2>1 DEF Burn, TypeOK, TokenAccount
    <3> HIDE DEF y
    <3>2. mint'[m] = IF m = y THEN [mint[m] EXCEPT !.supply = mint[m].supply - 1] ELSE mint[m]
      BY <3>1 DEF TypeOK
    <3>3. [mint[m] EXCEPT !.supply = mint[m].supply - 1].supply = mint[m].supply - 1
      BY <1>1 DEF Mint
    <3>4. QED
      BY <1>1, <3>2, <3>3
  <2>2. QED
    BY <1>3, <1>8, <2>1 DEF AccountOwner, Transfer, Approve, SetOwner, SetCloseAuthority, CloseAccount
<1>9. QED
  BY <1>4, <1>5, <1>6, <1>7, <1>8 DEF Next

(***************************************************************************)
(* Whatever instructions other pools and other people send, a reserve      *)
(* falls and pool tokens come into being by the pool's own instructions.   *)
(***************************************************************************)
THEOREM OnlyThePoolSpends == Spec => OnlyThePoolActs
<1>1. Init => ReservesListed
  BY DEF Init, ReservesListed, Initialized
<1>2. SetupInv /\ ReservesListed /\ Next =>
        \A s \in Initialized :
          /\ \A acc \in ReservesOf(s) :
               token[acc].mint \notin remade /\ token[acc].amount > token'[acc].amount
                 => PoolInstruction(s)
          /\ mint'[pool[s].pool_mint].supply > mint[pool[s].pool_mint].supply => PoolInstruction(s)
  <2> SUFFICES ASSUME SetupInv, ReservesListed, Next, NEW s \in Initialized, ~PoolInstruction(s)
               PROVE  /\ \A acc \in ReservesOf(s) :
                           token[acc].mint \notin remade => ~(token[acc].amount > token'[acc].amount)
                      /\ ~(mint'[pool[s].pool_mint].supply > mint[pool[s].pool_mint].supply)
    OBVIOUS
  <2>1. /\ TypeOK /\ s \in Swaps /\ pool[s].token_a \in Accounts /\ pool[s].token_b \in Accounts
        /\ pool[s].pool_mint \in Mints
    BY DEF SetupInv, TypeOK, Initialized, SwapV1
  <2>2. /\ MintObeys(pool[s].pool_mint, s)
        /\ \A acc \in ReservesOf(s) : AccountObeys(acc, s)
    BY DEF SetupInv, PoolMintObeysThePool, MintObeys, ReservesObeyThePool, AccountObeys
  <2>3. ASSUME NEW acc \in ReservesOf(s), token[acc].mint \notin remade
        PROVE  ~(token[acc].amount > token'[acc].amount)
    <3>1. acc \in Accounts /\ AccountObeys(acc, s)
      BY <2>1, <2>2 DEF ReservesOf
    <3>2. MintListed(token[acc].mint)
      BY <2>3 DEF ReservesListed, SetupInv, MintsStayApart, ReservesOf
    <3>3. token'[acc].amount >= token[acc].amount
      BY <2>1, <3>1, <3>2, OthersTakeNothing
    <3>4. token[acc].amount \in Nat /\ token'[acc].amount \in Nat
      <4>1. TypeOK'
        BY NextKeepsSetupInv DEF SetupInv
      <4>2. acc \in ReservesOf(s)' /\ s \in Initialized'
        BY SwapStays DEF ReservesOf
      <4>3. token'[acc] # Absent
        BY <4>2, NextKeepsSetupInv DEF SetupInv, ReservesObeyThePool
      <4>4. QED
        BY <2>1, <3>1, <4>1, <4>3 DEF TypeOK, TokenAccount, AccountObeys
    <3>5. QED
      BY <3>3, <3>4
  <2>4. ~(mint'[pool[s].pool_mint].supply > mint[pool[s].pool_mint].supply)
    <3> DEFINE m == pool[s].pool_mint
    <3>1. mint'[m].supply <= mint[m].supply
      BY <2>1, <2>2, OthersMintNothing
    <3>2. TypeOK' /\ mint'[m] # Absent
      BY NextKeepsSetupInv, SwapStays DEF SetupInv, PoolMintObeysThePool
    <3>3. mint[m].supply \in Nat /\ mint'[m].supply \in Nat
      BY <2>1, <2>2, <3>2, SetupAssumption DEF TypeOK, Mint, MintObeys
    <3> HIDE DEF m
    <3>4. QED
      BY <3>1, <3>3 DEF m
  <2>5. QED
    BY <2>3, <2>4
<1>3. SetupInv /\ ReservesListed /\ [Next]_vars =>
        [\A s \in Initialized :
          /\ \A acc \in ReservesOf(s) :
               token[acc].mint \notin remade /\ token[acc].amount > token'[acc].amount
                 => PoolInstruction(s)
          /\ mint'[pool[s].pool_mint].supply > mint[pool[s].pool_mint].supply => PoolInstruction(s)]_vars
  BY <1>2
<1>4. QED
  BY <1>1, <1>3, InitSetupInv, NextKeepsSetupInv, ListedInductive, PTL DEF Spec, OnlyThePoolActs
=============================================================================
