----------------------------- MODULE Permission -----------------------------
(***************************************************************************)
(* Who may do what to a pool: permission accounts                          *)
(* (program/src/permission.rs), their creation by process_initialize, the  *)
(* two instructions that manage them, and the check SetRates makes         *)
(* (redemption_rate_processor.rs).                                         *)
(*                                                                         *)
(* The caller of an instruction names every account it works on, the       *)
(* signer's too; the handlers ask whether that one signed the transaction, *)
(* and compare the names with the address derived from the swap and the    *)
(* signer, and with what is written in the account.  The address of a      *)
(* permission account is the pair it is derived from.  Nobody can sign for *)
(* another's key: the keys that signed are the environment's choice, and   *)
(* the handlers only read them.                                            *)
(***************************************************************************)
EXTENDS Integers

CONSTANTS
  Swaps,        \* the accounts a pool can be made in
  Keys,         \* the keys that sign transactions
  Rates,        \* the rates a SetRates instruction can carry
  NoAccount,    \* no permission account has been made at an address
  Rent,         \* lamports that make a permission account rent exempt
  MaxLamports   \* bound: the lamports anybody sends to one address

Addresses == Swaps \X Keys      \* derive_permission_pubkey_and_bump

PermissionAccount ==
  [swap : Swaps, authority : Keys, is_super_admin : BOOLEAN, can_update_parameters : BOOLEAN]

Curves == {"RedemptionRate", "Other"}

ASSUME PermissionAssumption ==
  /\ NoAccount \notin PermissionAccount
  /\ Rent \in Nat \ {0} /\ MaxLamports \in Nat /\ MaxLamports >= Rent

VARIABLES
  curve,        \* the curve of every initialized swap
  rates,        \* the rates of every swap
  account,      \* the permission account at every address, if there is one
  lamports,     \* the balance of every address, also before there is one
  signed        \* the keys that signed the program's latest transaction

vars == <<curve, rates, account, lamports, signed>>

initialized == DOMAIN curve

TypeOK ==
  /\ curve \in UNION {[S -> Curves] : S \in SUBSET Swaps}
  /\ rates \in [Swaps -> Rates]
  /\ account \in [Addresses -> PermissionAccount \cup {NoAccount}]
  /\ lamports \in [Addresses -> 0 .. MaxLamports]
  /\ signed \in SUBSET Keys
  /\ \A address \in Addresses : account[address] # NoAccount => lamports[address] >= Rent

Init ==
  /\ curve = [s \in {} |-> "Other"]
  /\ rates \in [Swaps -> Rates]
  /\ account = [address \in Addresses |-> NoAccount]
  /\ lamports = [address \in Addresses |-> 0]
  /\ signed = {}

-----------------------------------------------------------------------------
\* Mutant: the account named as the signer's need not have signed.
IsSignerOrNot(key, keys) == key \in Keys

\* is_signer: the runtime says which of the accounts named have signed.
IsSigner(key, keys) == key \in keys

\* Mutant: neither the address nor the authority written in it is compared.
UnpacksAnySigner(address, swap, signer) ==
  /\ account[address] # NoAccount
  /\ account[address].swap = swap

\* Mutant: neither the address nor the swap written in the account is compared.
UnpacksAnySwap(address, swap, signer) ==
  /\ account[address] # NoAccount
  /\ account[address].authority = signer

\* unpack_permission: the account at address speaks for signer about swap.
Unpacks(address, swap, signer) ==
  /\ account[address] # NoAccount
  /\ address = <<swap, signer>>
  /\ account[address].authority = signer
  /\ account[address].swap = swap

\* Mutant: the missing lamports are not paid.
TopUpNothing(address) == 0

TopUp(address) == IF lamports[address] < Rent THEN Rent - lamports[address] ELSE 0

(***************************************************************************)
(* The balance create_permission_account leaves at an address: the system  *)
(* program's create_account works on an empty balance only, and where      *)
(* there is one the account is topped up, allocated and assigned instead.  *)
(***************************************************************************)
Balance(address) == IF lamports[address] = 0 THEN Rent ELSE lamports[address] + TopUp(address)

\* A transaction fails that leaves an account below the rent exempt balance.
CanCreatePermission(address, swap, authority) ==
  /\ address = <<swap, authority>>
  /\ account[address] = NoAccount
  /\ Balance(address) >= Rent

\* create_permission_account, and the Permission::pack that follows it.
CreatePermission(address, swap, authority, super, update) ==
  /\ CanCreatePermission(address, swap, authority)
  /\ lamports' = [lamports EXCEPT ![address] = Balance(address)]
  /\ account' = [account EXCEPT ![address] =
       [swap |-> swap, authority |-> authority,
        is_super_admin |-> super, can_update_parameters |-> update]]

-----------------------------------------------------------------------------
(***************************************************************************)
(* process_initialize: a pool with a redemption rate gets its first super  *)
(* admin, a key the caller names and that need not sign.                   *)
(***************************************************************************)
InitializeRedemptionRate(swap, address, super_admin, r) ==
  /\ swap \notin initialized
  /\ CreatePermission(address, swap, super_admin, TRUE, TRUE)
  /\ curve' = [s \in initialized \cup {swap} |-> IF s = swap THEN "RedemptionRate" ELSE curve[s]]
  /\ rates' = [rates EXCEPT ![swap] = r]

InitializeOther(swap) ==
  /\ swap \notin initialized
  /\ curve' = [s \in initialized \cup {swap} |-> IF s = swap THEN "Other" ELSE curve[s]]
  /\ UNCHANGED <<rates, account, lamports>>

(***************************************************************************)
(* process_initialize_permission.  Whether swap is initialized is not      *)
(* asked: it has no permission account before it is.                       *)
(***************************************************************************)
CanInitializePermission(keys, swap, permission, new_permission, signer, authority) ==
  /\ IsSigner(signer, keys)
  /\ Unpacks(permission, swap, signer)
  /\ account[permission].is_super_admin
  /\ CanCreatePermission(new_permission, swap, authority)

InitializePermission(keys, swap, permission, new_permission, signer, authority, super, update) ==
  /\ CanInitializePermission(keys, swap, permission, new_permission, signer, authority)
  /\ CreatePermission(new_permission, swap, authority, super, update)
  /\ UNCHANGED <<curve, rates>>

\* Mutant: the permission to update may be another pool's.
UpdateAnyPermission(keys, swap, permission, update_permission, signer, super, update) ==
  /\ IsSigner(signer, keys)
  /\ account[update_permission] # NoAccount
  /\ Unpacks(permission, swap, signer)
  /\ account[permission].is_super_admin
  /\ account' = [account EXCEPT ![update_permission] =
       [swap |-> @.swap, authority |-> @.authority,
        is_super_admin |-> super, can_update_parameters |-> update]]
  /\ UNCHANGED <<curve, rates, lamports>>

(***************************************************************************)
(* process_update_permission.  The permission to update may be the         *)
(* signer's own.                                                           *)
(***************************************************************************)
UpdatePermission(keys, swap, permission, update_permission, signer, super, update) ==
  /\ IsSigner(signer, keys)
  /\ account[update_permission] # NoAccount
  /\ Unpacks(permission, swap, signer)
  /\ account[permission].is_super_admin
  /\ account[update_permission].swap = swap
  /\ account' = [account EXCEPT ![update_permission] =
       [swap |-> @.swap, authority |-> @.authority,
        is_super_admin |-> super, can_update_parameters |-> update]]
  /\ UNCHANGED <<curve, rates, lamports>>

\* process_curve_update, the rates themselves being module RedemptionRate's.
SetRates(keys, swap, permission, signer, r) ==
  /\ IsSigner(signer, keys)
  /\ Unpacks(permission, swap, signer)
  /\ account[permission].can_update_parameters
  /\ swap \in initialized /\ curve[swap] = "RedemptionRate"
  /\ rates' = [rates EXCEPT ![swap] = r]
  /\ UNCHANGED <<curve, account, lamports>>

(***************************************************************************)
(* Anybody can send lamports to any address, before or after an account is *)
(* made.  The program takes no part in it.                                 *)
(***************************************************************************)
Fund(address) ==
  /\ lamports[address] < MaxLamports
  /\ \E amount \in 1 .. (MaxLamports - lamports[address]) :
       lamports' = [lamports EXCEPT ![address] = @ + amount]
  /\ UNCHANGED <<curve, rates, account, signed>>

Initializing ==
  \E swap \in Swaps :
    \/ InitializeOther(swap)
    \/ \E address \in Addresses, super_admin \in Keys, r \in Rates :
         InitializeRedemptionRate(swap, address, super_admin, r)

Administering(keys) ==
  \E swap \in Swaps, permission, other \in Addresses, signer \in Keys, super, update \in BOOLEAN :
    \/ UpdatePermission(keys, swap, permission, other, signer, super, update)
    \/ \E authority \in Keys :
         InitializePermission(keys, swap, permission, other, signer, authority, super, update)

\* One instruction of the program, in a transaction that keys have signed.
Instruction(keys) ==
  \/ Initializing
  \/ Administering(keys)
  \/ \E swap \in Swaps, permission \in Addresses, signer \in Keys, r \in Rates :
       SetRates(keys, swap, permission, signer, r)

Next ==
  \/ \E keys \in SUBSET Keys : Instruction(keys) /\ signed' = keys
  \/ \E address \in Addresses : Fund(address)

Spec == Init /\ [][Next]_vars

-----------------------------------------------------------------------------
(* Properties. *)

\* The keys that hold a power over a swap, by the address of their account.
Supers(swap) ==
  {k \in Keys : account[<<swap, k>>] # NoAccount /\ account[<<swap, k>>].is_super_admin}
Updaters(swap) ==
  {k \in Keys : account[<<swap, k>>] # NoAccount /\ account[<<swap, k>>].can_update_parameters}

(***************************************************************************)
(* Whatever accounts the callers of unpack_permission and of the handlers  *)
(* name, the powers over a pool change only in a transaction signed by one *)
(* who is a super admin of that very pool, and its rates only in one       *)
(* signed by one of its updaters: naming another's permission, an account  *)
(* that did not sign, or a permission for another pool does not help.      *)
(***************************************************************************)
Access == INSTANCE AccessControl WITH
  founded  <- initialized,
  supers   <- [s \in Swaps |-> Supers(s)],
  updaters <- [s \in Swaps |-> Updaters(s)]
ImplementsAccessControl == Access!Spec

(***************************************************************************)
(* A super admin can give a key that has no permission one, and a pool     *)
(* that does not exist can be made for any super admin, no matter which    *)
(* lamports somebody sent to the address beforehand.                       *)
(***************************************************************************)
FundingBlocksNobody ==
  \A swap \in Swaps, key \in Keys :
    account[<<swap, key>>] = NoAccount =>
      /\ \A admin \in Supers(swap) :
           CanInitializePermission({admin}, swap, <<swap, admin>>, <<swap, key>>, admin, key)
      /\ swap \notin initialized => CanCreatePermission(<<swap, key>>, swap, key)

(***************************************************************************)
(* A pool whose last super admin is gone is out of everybody's hands: its  *)
(* powers never change again, so the remaining updaters stay, even if they *)
(* are super admins of another pool.                                       *)
(***************************************************************************)
NoSuperAdminIsFinal ==
  [][\A swap \in initialized :
       Supers(swap) = {} =>
         Supers(swap)' = {} /\ Updaters(swap)' = Updaters(swap)]_vars
=============================================================================
