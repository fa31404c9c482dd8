-------------------------- MODULE PermissionProofs --------------------------
(***************************************************************************)
(* For every set of pools and keys: the checks of the handlers implement   *)
(* AccessControl.                                                          *)
(***************************************************************************)
EXTENDS Permission, TLAPS

(***************************************************************************)
(* What is written in a permission account agrees with the address it is   *)
(* at, and its pool is initialized.  UpdatePermission checks neither for   *)
(* the account it writes; it is right because of this invariant.           *)
(***************************************************************************)
Bound ==
  \A address \in Addresses : account[address] # NoAccount =>
    /\ address = <<account[address].swap, account[address].authority>>
    /\ account[address].swap \in initialized

PermissionInv == TypeOK /\ Bound

-----------------------------------------------------------------------------
LEMMA CurveType ==
  ASSUME NEW S, NEW f, f \in UNION {[T -> Curves] : T \in SUBSET S}
  PROVE  DOMAIN f \subseteq S /\ f \in [DOMAIN f -> Curves]
OBVIOUS

\* A pool joins the initialized ones.
LEMMA CurveGrows ==
  ASSUME TypeOK, NEW swap \in Swaps, NEW kind \in Curves,
         curve' = [s \in initialized \cup {swap} |-> IF s = swap THEN kind ELSE curve[s]]
  PROVE  /\ curve' \in UNION {[S -> Curves] : S \in SUBSET Swaps}
         /\ initialized' = initialized \cup {swap}
<1>1. initialized \subseteq Swaps /\ curve \in [initialized -> Curves]
  BY CurveType DEF TypeOK, initialized
<1>2. curve' \in [initialized \cup {swap} -> Curves]
  BY <1>1
<1>3. initialized \cup {swap} \in SUBSET Swaps
  BY <1>1
<1>4. QED
  BY <1>2, <1>3 DEF initialized

\* Whatever lies at an address, it ends up rent exempt.
LEMMA BalanceType ==
  ASSUME TypeOK, NEW address \in Addresses
  PROVE  Balance(address) \in Rent .. MaxLamports
<1>1. lamports[address] \in 0 .. MaxLamports
  BY DEF TypeOK
<1>2. QED
  BY <1>1, PermissionAssumption, SMT DEF Balance, TopUp

\* create_permission_account leaves one more account, paid for, and bound to
\* the address it was derived from.
LEMMA CreateKeepsTypes ==
  ASSUME TypeOK, NEW address \in Addresses, NEW swap \in Swaps, NEW authority \in Keys,
         NEW super \in BOOLEAN, NEW update \in BOOLEAN,
         CreatePermission(address, swap, authority, super, update)
  PROVE  /\ account' \in [Addresses -> PermissionAccount \cup {NoAccount}]
         /\ lamports' \in [Addresses -> 0 .. MaxLamports]
         /\ \A other \in Addresses : account'[other] # NoAccount => lamports'[other] >= Rent
<1> DEFINE new == [swap |-> swap, authority |-> authority,
                   is_super_admin |-> super, can_update_parameters |-> update]
<1>1. new \in PermissionAccount
  BY DEF PermissionAccount
<1>2. /\ account' = [account EXCEPT ![address] = new]
      /\ lamports' = [lamports EXCEPT ![address] = Balance(address)]
  BY DEF CreatePermission
<1>3. account' \in [Addresses -> PermissionAccount \cup {NoAccount}]
  BY <1>1, <1>2 DEF TypeOK
<1>4. PICK balance \in Rent .. MaxLamports : lamports' = [lamports EXCEPT ![address] = balance]
  BY <1>2, BalanceType
<1>5. balance \in 0 .. MaxLamports /\ balance >= Rent
  BY PermissionAssumption, SMT
<1>6. QED
  BY <1>2, <1>3, <1>4, <1>5 DEF TypeOK

-----------------------------------------------------------------------------
(* The invariant. *)

LEMMA InitPermissionInv == Init => PermissionInv
<1>1. SUFFICES ASSUME Init PROVE PermissionInv
  OBVIOUS
<1>2. curve \in [{} -> Curves]
  BY <1>1 DEF Init
<1>3. curve \in UNION {[S -> Curves] : S \in SUBSET Swaps}
  BY <1>2
<1>4. 0 \in 0 .. MaxLamports
  BY PermissionAssumption, SMT
<1>5. QED
  BY <1>1, <1>3, <1>4 DEF Init, PermissionInv, TypeOK, Bound

LEMMA InitializeRedemptionRateKeepsInv ==
  ASSUME PermissionInv, NEW swap \in Swaps, NEW address \in Addresses,
         NEW super_admin \in Keys, NEW r \in Rates,
         InitializeRedemptionRate(swap, address, super_admin, r), signed' \in SUBSET Keys
  PROVE  PermissionInv'
<1>1. TypeOK /\ CreatePermission(address, swap, super_admin, TRUE, TRUE)
  BY DEF PermissionInv, InitializeRedemptionRate
<1>2. "RedemptionRate" \in Curves
  BY DEF Curves
<1>3. /\ curve' \in UNION {[S -> Curves] : S \in SUBSET Swaps}
      /\ initialized' = initialized \cup {swap}
  BY <1>1, <1>2, CurveGrows DEF InitializeRedemptionRate
<1>4. TypeOK'
  <2>1. rates' \in [Swaps -> Rates]
    BY <1>1 DEF TypeOK, InitializeRedemptionRate
  <2>2. QED
    BY <1>1, <1>3, <2>1, CreateKeepsTypes DEF TypeOK
<1>5. Bound'
  BY <1>1, <1>3 DEF PermissionInv, Bound, TypeOK, CreatePermission, CanCreatePermission
<1>6. QED
  BY <1>4, <1>5 DEF PermissionInv

LEMMA InitializeOtherKeepsInv ==
  ASSUME PermissionInv, NEW swap \in Swaps, InitializeOther(swap), signed' \in SUBSET Keys
  PROVE  PermissionInv'
<1>1. "Other" \in Curves
  BY DEF Curves
<1>2. /\ curve' \in UNION {[S -> Curves] : S \in SUBSET Swaps}
      /\ initialized' = initialized \cup {swap}
  BY <1>1, CurveGrows DEF PermissionInv, InitializeOther
<1>3. QED
  BY <1>2 DEF PermissionInv, TypeOK, Bound, InitializeOther

LEMMA AdministeringKeepsInv ==
  ASSUME PermissionInv, NEW keys \in SUBSET Keys, Administering(keys), signed' = keys
  PROVE  PermissionInv'
<1>1. PICK swap \in Swaps, permission \in Addresses, other \in Addresses, signer \in Keys,
           super \in BOOLEAN, update \in BOOLEAN :
        \/ UpdatePermission(keys, swap, permission, other, signer, super, update)
        \/ \E authority \in Keys :
             InitializePermission(keys, swap, permission, other, signer, authority, super, update)
  BY DEF Administering
<1>2. CASE UpdatePermission(keys, swap, permission, other, signer, super, update)
  <2> DEFINE old == account[other]
             new == [swap |-> old.swap, authority |-> old.authority,
                     is_super_admin |-> super, can_update_parameters |-> update]
  <2>1. /\ old # NoAccount /\ old \in PermissionAccount
        /\ account' = [account EXCEPT ![other] = new]
        /\ UNCHANGED <<curve, rates, lamports>>
    BY <1>2 DEF UpdatePermission, PermissionInv, TypeOK
  <2>2. new \in PermissionAccount
    BY <2>1 DEF PermissionAccount
  <2>3. TypeOK'
    BY <2>1, <2>2 DEF PermissionInv, TypeOK
  <2>4. Bound'
    BY <2>1 DEF PermissionInv, TypeOK, Bound, initialized
  <2>5. QED
    BY <2>3, <2>4 DEF PermissionInv
<1>3. ASSUME NEW authority \in Keys,
             InitializePermission(keys, swap, permission, other, signer, authority, super, update)
      PROVE  PermissionInv'
  <2>1. /\ CreatePermission(other, swap, authority, super, update)
        /\ UNCHANGED <<curve, rates>>
    BY <1>3 DEF InitializePermission
  <2>2. swap \in initialized
    BY <1>3 DEF InitializePermission, CanInitializePermission, Unpacks, PermissionInv, Bound
  <2>3. TypeOK'
    BY <2>1, CreateKeepsTypes DEF PermissionInv, TypeOK
  <2>4. Bound'
    BY <2>1, <2>2 DEF PermissionInv, TypeOK, Bound, CreatePermission, CanCreatePermission, initialized
  <2>5. QED
    BY <2>3, <2>4 DEF PermissionInv
<1>4. QED
  BY <1>1, <1>2, <1>3

LEMMA SetRatesKeepsInv ==
  ASSUME PermissionInv, NEW keys \in SUBSET Keys, signed' = keys,
         NEW swap \in Swaps, NEW permission \in Addresses, NEW signer \in Keys,
         NEW r \in Rates, SetRates(keys, swap, permission, signer, r)
  PROVE  PermissionInv'
BY DEF SetRates, PermissionInv, TypeOK, Bound, initialized

LEMMA InstructionKeepsInv ==
  ASSUME PermissionInv, NEW keys \in SUBSET Keys, Instruction(keys), signed' = keys
  PROVE  PermissionInv'
BY InitializeRedemptionRateKeepsInv, InitializeOtherKeepsInv, AdministeringKeepsInv,
   SetRatesKeepsInv DEF Instruction, Initializing

LEMMA OtherStepsKeepInv ==
  ASSUME PermissionInv,
         \/ \E address \in Addresses : Fund(address)
         \/ UNCHANGED vars
  PROVE  PermissionInv'
<1>1. ASSUME NEW address \in Addresses, Fund(address)
      PROVE  PermissionInv'
  <2>1. PICK amount \in 1 .. (MaxLamports - lamports[address]) :
          lamports' = [lamports EXCEPT ![address] = @ + amount]
    BY <1>1 DEF Fund
  <2>2. lamports[address] + amount \in 0 .. MaxLamports
        /\ lamports[address] + amount >= lamports[address]
    BY PermissionAssumption, SMT DEF PermissionInv, TypeOK
  <2>3. lamports' \in [Addresses -> 0 .. MaxLamports]
    BY <2>1, <2>2 DEF PermissionInv, TypeOK
  <2>4. \A other \in Addresses : account'[other] # NoAccount => lamports'[other] >= Rent
    <3>1. \A other \in Addresses : lamports'[other] \in Int /\ lamports[other] \in Int
                                   /\ lamports'[other] >= lamports[other]
      BY <2>1, <2>2, <2>3, SMT DEF PermissionInv, TypeOK
    <3>2. QED
      BY <1>1, <3>1, PermissionAssumption, SMT DEF Fund, PermissionInv, TypeOK
  <2>5. QED
    BY <1>1, <2>3, <2>4 DEF Fund, PermissionInv, TypeOK, Bound, initialized
<1>2. CASE UNCHANGED vars
  BY <1>2 DEF vars, PermissionInv, TypeOK, Bound, initialized
<1>3. QED
  BY <1>1, <1>2

(***************************************************************************)
(* Every permission account is rent exempt and stays bound to its address. *)
(***************************************************************************)
THEOREM PermissionIsTypeCorrect == Spec => []PermissionInv
<1>1. PermissionInv /\ [Next]_vars => PermissionInv'
  BY InstructionKeepsInv, OtherStepsKeepInv DEF Next
<1>2. QED
  BY InitPermissionInv, <1>1, PTL DEF Spec

(***************************************************************************)
(* Lamports sent to an address beforehand keep nobody from the permission  *)
(* a super admin gives there, nor from making the pool it belongs to: the  *)
(* missing ones are paid, and the admin's own account, being bound to its  *)
(* address, unpacks.                                                       *)
(***************************************************************************)
THEOREM NobodyIsBlocked == Spec => []FundingBlocksNobody
<1>1. PermissionInv => FundingBlocksNobody
  <2>1. SUFFICES ASSUME PermissionInv, NEW swap \in Swaps, NEW key \in Keys,
                        account[<<swap, key>>] = NoAccount
                 PROVE  /\ CanCreatePermission(<<swap, key>>, swap, key)
                        /\ \A admin \in Supers(swap) :
                             CanInitializePermission({admin}, swap, <<swap, admin>>, <<swap, key>>, admin, key)
    BY DEF FundingBlocksNobody
  <2>2. CanCreatePermission(<<swap, key>>, swap, key)
    <3>1. <<swap, key>> \in Addresses
      BY DEF Addresses
    <3>2. Balance(<<swap, key>>) \in Rent .. MaxLamports
      BY <2>1, <3>1, BalanceType DEF PermissionInv
    <3>3. Balance(<<swap, key>>) >= Rent
      BY <3>2, PermissionAssumption, SMT
    <3>4. QED
      BY <2>1, <3>3 DEF CanCreatePermission
  <2>3. ASSUME NEW admin \in Supers(swap)
        PROVE  Unpacks(<<swap, admin>>, swap, admin) /\ account[<<swap, admin>>].is_super_admin
    <3>1. /\ account[<<swap, admin>>] # NoAccount /\ account[<<swap, admin>>].is_super_admin
          /\ <<swap, admin>> \in Addresses
      BY <2>3 DEF Supers, Addresses
    <3>2. <<swap, admin>> = <<account[<<swap, admin>>].swap, account[<<swap, admin>>].authority>>
      BY <2>1, <3>1 DEF PermissionInv, Bound
    <3>3. QED
      BY <3>1, <3>2 DEF Unpacks
  <2>4. QED
    BY <2>2, <2>3 DEF IsSigner, CanInitializePermission
<1>2. QED
  BY <1>1, PermissionIsTypeCorrect, PTL

-----------------------------------------------------------------------------
(* The refinement. *)

\* The powers over a pool are unchanged when no account bound to it changes.
LEMMA PowersUnchanged ==
  ASSUME NEW s \in Swaps,
         \A k \in Keys : account'[<<s, k>>] = account[<<s, k>>]
  PROVE  Supers(s)' = Supers(s) /\ Updaters(s)' = Updaters(s)
BY DEF Supers, Updaters

\* One account of a pool is written.
LEMMA PowersWritten ==
  ASSUME PermissionInv, NEW s \in Swaps, NEW k \in Keys,
         NEW new \in PermissionAccount,
         account' = [account EXCEPT ![<<s, k>>] = new]
  PROVE  /\ Supers(s)' = IF new.is_super_admin THEN Supers(s) \cup {k} ELSE Supers(s) \ {k}
         /\ Updaters(s)' = IF new.can_update_parameters THEN Updaters(s) \cup {k} ELSE Updaters(s) \ {k}
         /\ \A t \in Swaps \ {s} : Supers(t)' = Supers(t) /\ Updaters(t)' = Updaters(t)
<1>1. \A t \in Swaps, j \in Keys : <<t, j>> \in Addresses
  BY DEF Addresses
<1>2. new # NoAccount
  BY PermissionAssumption
<1>3. account'[<<s, k>>] = new
  BY <1>1 DEF PermissionInv, TypeOK
<1>4. \A t \in Swaps, j \in Keys : t # s \/ j # k => account'[<<t, j>>] = account[<<t, j>>]
  BY <1>1 DEF PermissionInv, TypeOK
<1>5. Supers(s)' = IF new.is_super_admin THEN Supers(s) \cup {k} ELSE Supers(s) \ {k}
  BY <1>2, <1>3, <1>4 DEF Supers
<1>6. Updaters(s)' = IF new.can_update_parameters THEN Updaters(s) \cup {k} ELSE Updaters(s) \ {k}
  BY <1>2, <1>3, <1>4 DEF Updaters
<1>7. ASSUME NEW t \in Swaps \ {s} PROVE Supers(t)' = Supers(t) /\ Updaters(t)' = Updaters(t)
  BY <1>4, PowersUnchanged
<1>8. QED
  BY <1>5, <1>6, <1>7

\* The mapping takes initial states to initial states.
LEMMA InitRefines == Init => Access!Init
<1>1. SUFFICES ASSUME Init PROVE Access!Init
  OBVIOUS
<1>2. initialized = {}
  BY <1>1 DEF Init, initialized
<1>3. \A s \in Swaps : Supers(s) = {} /\ Updaters(s) = {}
  BY <1>1 DEF Init, Supers, Updaters, Addresses
<1>4. QED
  BY <1>1, <1>2, <1>3 DEF Init, Access!Init

\* A pool that is not initialized has no permission account.
LEMMA NoPowersBeforeInitialize ==
  ASSUME PermissionInv, NEW s \in Swaps, s \notin initialized
  PROVE  Supers(s) = {} /\ Updaters(s) = {}
<1>1. \A k \in Keys : account[<<s, k>>] = NoAccount
  BY DEF PermissionInv, Bound, Addresses
<1>2. QED
  BY <1>1 DEF Supers, Updaters

LEMMA InitializeRefines ==
  ASSUME PermissionInv, Initializing, signed' \in SUBSET Keys
  PROVE  Access!Next
<1>1. ASSUME NEW swap \in Swaps, InitializeOther(swap)
      PROVE  Access!Next
  <2>1. /\ swap \notin initialized /\ initialized' = initialized \cup {swap}
        /\ UNCHANGED <<rates, account>>
    BY <1>1, CurveGrows DEF InitializeOther, PermissionInv, Curves
  <2>2. \A s \in Swaps : Supers(s)' = Supers(s) /\ Updaters(s)' = Updaters(s)
    BY <2>1, PowersUnchanged
  <2>3. Supers(swap) = {} /\ Updaters(swap) = {}
    BY <2>1, NoPowersBeforeInitialize
  <2>4. rates[swap] \in Rates /\ rates' = [rates EXCEPT ![swap] = rates[swap]]
    BY <2>1 DEF PermissionInv, TypeOK
  <2>5. Access!Found(swap)
    BY <2>1, <2>2, <2>3, <2>4 DEF Access!Found
  <2>6. QED
    BY <2>5 DEF Access!Next
<1>2. ASSUME NEW swap \in Swaps, NEW address \in Addresses, NEW super_admin \in Keys,
             NEW r \in Rates, InitializeRedemptionRate(swap, address, super_admin, r)
      PROVE  Access!Next
  <2> DEFINE new == [swap |-> swap, authority |-> super_admin,
                     is_super_admin |-> TRUE, can_update_parameters |-> TRUE]
  <2>1. /\ swap \notin initialized /\ initialized' = initialized \cup {swap}
        /\ rates' = [rates EXCEPT ![swap] = r]
        /\ account' = [account EXCEPT ![<<swap, super_admin>>] = new]
    BY <1>2, CurveGrows
       DEF InitializeRedemptionRate, CreatePermission, CanCreatePermission, PermissionInv, Curves
  <2>2. Supers(swap) = {} /\ Updaters(swap) = {}
    BY <2>1, NoPowersBeforeInitialize
  <2>3. new \in PermissionAccount /\ new.is_super_admin = TRUE
        /\ new.can_update_parameters = TRUE
    BY DEF PermissionAccount
  <2> HIDE DEF new
  <2>4. /\ Supers(swap)' = {super_admin} /\ Updaters(swap)' = {super_admin}
        /\ \A t \in Swaps \ {swap} : Supers(t)' = Supers(t) /\ Updaters(t)' = Updaters(t)
    <3>1. /\ Supers(swap)' = IF new.is_super_admin THEN Supers(swap) \cup {super_admin}
                             ELSE Supers(swap) \ {super_admin}
          /\ Updaters(swap)' = IF new.can_update_parameters
                               THEN Updaters(swap) \cup {super_admin}
                               ELSE Updaters(swap) \ {super_admin}
          /\ \A t \in Swaps \ {swap} : Supers(t)' = Supers(t) /\ Updaters(t)' = Updaters(t)
      BY <2>1, <2>3, PowersWritten
    <3>2. QED
      BY <2>2, <2>3, <3>1
  <2>5. Access!Found(swap)
    BY <2>1, <2>4 DEF Access!Found
  <2>6. QED
    BY <2>5 DEF Access!Next
<1>3. QED
  BY <1>1, <1>2 DEF Initializing

LEMMA AdministeringRefines ==
  ASSUME PermissionInv, NEW keys \in SUBSET Keys, Administering(keys), signed' = keys
  PROVE  Access!Next
<1>1. PICK swap \in Swaps, permission \in Addresses, other \in Addresses, signer \in Keys,
           super \in BOOLEAN, update \in BOOLEAN :
        \/ UpdatePermission(keys, swap, permission, other, signer, super, update)
        \/ \E authority \in Keys :
             InitializePermission(keys, swap, permission, other, signer, authority, super, update)
  BY DEF Administering
<1>2. /\ swap \in initialized /\ signer \in Supers(swap) /\ signer \in signed'
      /\ UNCHANGED <<curve, rates>>
  BY <1>1 DEF UpdatePermission, InitializePermission, CanInitializePermission, Unpacks,
                  IsSigner, PermissionInv, Bound, Supers
<1>3. PICK k \in Keys, new \in PermissionAccount :
        /\ new.is_super_admin = super /\ new.can_update_parameters = update
        /\ account' = [account EXCEPT ![<<swap, k>>] = new]
  <2>1. CASE UpdatePermission(keys, swap, permission, other, signer, super, update)
    <3> DEFINE old == account[other]
               new == [swap |-> old.swap, authority |-> old.authority,
                       is_super_admin |-> super, can_update_parameters |-> update]
    <3>1. /\ old \in PermissionAccount /\ old.swap = swap
          /\ other = <<old.swap, old.authority>>
          /\ account' = [account EXCEPT ![other] = new]
      BY <2>1 DEF UpdatePermission, PermissionInv, TypeOK, Bound
    <3>2. old.authority \in Keys /\ new \in PermissionAccount
          /\ new.is_super_admin = super /\ new.can_update_parameters = update
      BY <3>1 DEF PermissionAccount
    <3>3. other = <<swap, old.authority>>
      BY <3>1
    <3> HIDE DEF old, new
    <3>4. QED
      BY <3>1, <3>2, <3>3
  <2>2. ASSUME NEW authority \in Keys,
               InitializePermission(keys, swap, permission, other, signer, authority, super, update)
        PROVE  \E k \in Keys, new \in PermissionAccount :
                 /\ new.is_super_admin = super /\ new.can_update_parameters = update
                 /\ account' = [account EXCEPT ![<<swap, k>>] = new]
    <3> DEFINE new == [swap |-> swap, authority |-> authority,
                       is_super_admin |-> super, can_update_parameters |-> update]
    <3>1. new \in PermissionAccount
          /\ new.is_super_admin = super /\ new.can_update_parameters = update
      BY DEF PermissionAccount
    <3>2. account' = [account EXCEPT ![<<swap, authority>>] = new]
      BY <2>2 DEF InitializePermission, CreatePermission, CanCreatePermission
    <3> HIDE DEF new
    <3>3. QED
      BY <3>1, <3>2
  <2>3. QED
    BY <1>1, <2>1, <2>2
<1>4. /\ Supers(swap)' = IF new.is_super_admin THEN Supers(swap) \cup {k}
                          ELSE Supers(swap) \ {k}
      /\ Updaters(swap)' = IF new.can_update_parameters THEN Updaters(swap) \cup {k}
                            ELSE Updaters(swap) \ {k}
      /\ \A t \in Swaps \ {swap} : Supers(t)' = Supers(t) /\ Updaters(t)' = Updaters(t)
  BY <1>3, PowersWritten
<1>5. initialized' = initialized
  BY <1>2 DEF initialized
<1>6. Access!Govern(swap)
  BY <1>2, <1>4, <1>5 DEF Access!Govern, Access!SignedBy, PermissionAccount
<1>7. QED
  BY <1>6 DEF Access!Next

LEMMA SetRatesRefines ==
  ASSUME PermissionInv, NEW keys \in SUBSET Keys, signed' = keys,
         NEW swap \in Swaps, NEW permission \in Addresses, NEW signer \in Keys,
         NEW r \in Rates, SetRates(keys, swap, permission, signer, r)
  PROVE  Access!Next
<1>1. /\ swap \in initialized /\ signer \in Updaters(swap) /\ signer \in signed'
      /\ rates' = [rates EXCEPT ![swap] = r]
      /\ UNCHANGED <<curve, account>>
  BY DEF SetRates, IsSigner, Unpacks, Updaters
<1>2. initialized' = initialized
      /\ \A s \in Swaps : Supers(s)' = Supers(s) /\ Updaters(s)' = Updaters(s)
  BY <1>1, PowersUnchanged DEF initialized
<1>3. Access!SetRates(swap)
  BY <1>1, <1>2 DEF Access!SetRates, Access!SignedBy
<1>4. QED
  BY <1>3 DEF Access!Next

LEMMA InstructionRefines ==
  ASSUME PermissionInv, NEW keys \in SUBSET Keys, Instruction(keys), signed' = keys
  PROVE  Access!Next
BY InitializeRefines, AdministeringRefines, SetRatesRefines DEF Instruction

LEMMA OtherStepsRefine ==
  ASSUME PermissionInv,
         \/ \E address \in Addresses : Fund(address)
         \/ UNCHANGED vars
  PROVE  UNCHANGED Access!vars
<1>1. UNCHANGED <<curve, account, rates, signed>>
  BY DEF Fund, vars
<1>2. /\ initialized' = initialized
      /\ \A s \in Swaps : Supers(s)' = Supers(s) /\ Updaters(s)' = Updaters(s)
  BY <1>1, PowersUnchanged DEF initialized
<1>3. QED
  BY <1>1, <1>2 DEF Access!vars

(***************************************************************************)
(* The checks of unpack_permission and of the three instructions that call *)
(* it, and the address a new permission account must have, implement the   *)
(* access control they are there for, for any number of pools and keys,    *)
(* whoever signs and whatever lamports lie at the addresses: powers over a *)
(* pool change by the signature of one of its super admins only, and its   *)
(* rates by that of one of its updaters.                                   *)
(***************************************************************************)
THEOREM PermissionImplementsAccessControl == Spec => ImplementsAccessControl
<1>1. PermissionInv /\ [Next]_vars => [Access!Next]_(Access!vars)
  BY InstructionRefines, OtherStepsRefine DEF Next
<1>2. QED
  BY InitRefines, <1>1, PermissionIsTypeCorrect, PTL
     DEF Spec, ImplementsAccessControl, Access!Spec

(***************************************************************************)
(* A pool that has lost its last super admin keeps its powers for good.    *)
(***************************************************************************)
THEOREM LockedPoolsStayLocked == Spec => NoSuperAdminIsFinal
<1> DEFINE Locked(swap) == Supers(swap) = {} =>
                             Supers(swap)' = {} /\ Updaters(swap)' = Updaters(swap)
<1>1. ASSUME PermissionInv, [Next]_vars, NEW swap \in initialized
      PROVE  Locked(swap)
  <2>1. /\ [Access!Next]_(Access!vars)
        /\ swap \in Swaps
    BY <1>1, InstructionRefines, OtherStepsRefine, CurveType
       DEF Next, PermissionInv, TypeOK, initialized
  <2>2. /\ [s \in Swaps |-> Supers(s)]'[swap] = Supers(swap)'
        /\ [s \in Swaps |-> Updaters(s)]'[swap] = Updaters(swap)'
    BY <2>1
  <2>3. ASSUME NEW s \in Swaps, Access!Found(s) PROVE Locked(swap)
    <3>1. s # swap
      BY <1>1, <2>3 DEF Access!Found
    <3>2. QED
      BY <2>1, <2>2, <2>3, <3>1 DEF Access!Found
  <2>4. ASSUME NEW s \in Swaps, Access!Govern(s) PROVE Locked(swap)
    <3>1. CASE s = swap
      BY <2>1, <2>4, <3>1 DEF Access!Govern, Access!SignedBy
    <3>2. CASE s # swap
      BY <2>1, <2>2, <2>4, <3>2 DEF Access!Govern
    <3>3. QED
      BY <3>1, <3>2
  <2>5. ASSUME NEW s \in Swaps, Access!SetRates(s) PROVE Locked(swap)
    BY <2>1, <2>2, <2>5 DEF Access!SetRates
  <2>6. CASE UNCHANGED Access!vars
    BY <2>1, <2>2, <2>6 DEF Access!vars
  <2>7. QED
    BY <2>1, <2>3, <2>4, <2>5, <2>6 DEF Access!Next
<1>2. PermissionInv /\ [Next]_vars => [\A swap \in initialized : Locked(swap)]_vars
  BY <1>1
<1>3. QED
  BY <1>2, PermissionIsTypeCorrect, PTL DEF Spec, NoSuperAdminIsFinal
=============================================================================
