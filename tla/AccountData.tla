----------------------------- MODULE AccountData ----------------------------
(***************************************************************************)
(* The accounts the program owns, byte by byte: swaps (program/src/        *)
(* state.rs) and permissions (program/src/permission.rs), the instructions *)
(* that write them, and their readers, one of which is the JavaScript      *)
(* client with a layout of its own (js/src/index.ts).                      *)
(*                                                                         *)
(* Who may send which instruction is for module Permission.                *)
(***************************************************************************)
EXTENDS Bytes

CONSTANTS
  Addresses,     \* the addresses of accounts the program owns
  Sizes,         \* bound: the sizes swap accounts are created with
  Swaps,         \* bound: the swaps Initialize writes
  Permissions,   \* bound: the permissions that are written
  Rates,         \* bound: ssr, rho and chi of SetRates
  Absent         \* there is no account

VARIABLES
  data,   \* the bytes of every account
  meant   \* history: what the instructions meant to be in it

vars == <<data, meant>>

-----------------------------------------------------------------------------
(* SwapVersion and SwapV1. *)

SwapV1Packed ==
  Fields("bool", <<"is_initialized">>) \o Fields("u8", <<"bump_seed">>)
  \o Fields("pubkey", <<"token_program_id", "token_a", "token_b", "pool_mint",
                        "token_a_mint", "token_b_mint", "pool_fee_account">>)
  \o Fields("fees", <<"fees">>)

SwapV1Unpacked ==
  Fields("bool", <<"is_initialized">>) \o Fields("u8", <<"bump_seed">>)
  \o Fields("pubkey", <<"token_program_id", "token_a", "token_b", "pool_mint",
                        "token_a_mint", "token_b_mint", "pool_fee_account">>)
  \o Fields("fees", <<"fees">>)

CurveAt == WidthOf(SwapV1Packed)
LEN        == CurveAt + SwapCurveWidth
LATEST_LEN == LEN + 1
VersionV1  == 1

PackedSwap(swap, bytes) ==
  LET body == [swap EXCEPT !.fees = Packed(FeesPacked, @)]
  IN  <<VersionV1>> \o Packed(SwapV1Packed, body)
      \o PackedCurve(swap.swap_curve, SubSeq(bytes, CurveAt + 2, LATEST_LEN))

SwapPacksInto(bytes) == Len(bytes) = LATEST_LEN

SwapUnpacks(bytes) ==
  /\ Len(bytes) = LATEST_LEN /\ bytes[1] = VersionV1
  /\ StrictBools(SwapV1Unpacked, Tail(bytes)) /\ bytes[2] = 1
  /\ CurveUnpacks(SubSeq(bytes, CurveAt + 2, LATEST_LEN))

UnpackedSwap(bytes) ==
  LET body == Unpacked(SwapV1Unpacked, Tail(bytes))
  IN  [field \in DOMAIN body \cup {"swap_curve"} |->
         CASE field = "swap_curve" -> UnpackedCurve(SubSeq(bytes, CurveAt + 2, LATEST_LEN))
           [] field = "fees"       -> Unpacked(FeesUnpacked, body.fees)
           [] OTHER                -> body[field]]

\* Mutant: one byte too far.
IsInitializedOneByteOff(bytes) == Len(bytes) > 2 /\ bytes[3] # 0

\* What Initialize asks before it reads anything else.
IsInitialized(bytes) == Len(bytes) > 1 /\ bytes[2] # 0

\* Mutant: the version byte is forgotten.
CurveOffsetFromBody == LEN - SwapCurveWidth

CurveOffset == LATEST_LEN - SwapCurveWidth

\* extract_curve reads the curve where it is, past the swap it belongs to.
CurveExtracts(bytes) ==
  Len(bytes) >= LATEST_LEN /\ bytes[CurveOffset + 1] = CurveByte("RedemptionRateCurve")
ExtractedCurve(bytes) == UnpackedCurve(SubSeq(bytes, CurveOffset + 1, LATEST_LEN))

-----------------------------------------------------------------------------
(* Permission. *)

PermissionPacked ==
  Fields("bool", <<"is_initialized">>) \o Fields("pubkey", <<"swap", "authority">>)
  \o Fields("bool", <<"is_super_admin", "can_update_parameters">>)

\* Mutant: the two powers change places.
PermissionUnpackedTurned ==
  Fields("bool", <<"is_initialized">>) \o Fields("pubkey", <<"swap", "authority">>)
  \o Fields("bool", <<"can_update_parameters", "is_super_admin">>)

PermissionUnpacked ==
  Fields("bool", <<"is_initialized">>) \o Fields("pubkey", <<"swap", "authority">>)
  \o Fields("bool", <<"is_super_admin", "can_update_parameters">>)

PermissionLEN == WidthOf(PermissionPacked)

PermissionUnpacks(bytes) == Len(bytes) = PermissionLEN /\ bytes[1] # 0

-----------------------------------------------------------------------------
(* The JavaScript client. *)

\* Mutant: the fee account among the mints.
TokenSwapKeysMixed ==
  Fields("pubkey", <<"token_program_id", "token_a", "token_b", "pool_mint",
                     "token_a_mint", "pool_fee_account", "token_b_mint">>)

TokenSwapKeys ==
  Fields("pubkey", <<"token_program_id", "token_a", "token_b", "pool_mint",
                     "token_a_mint", "token_b_mint", "pool_fee_account">>)

TokenSwapLayout ==
  Fields("u8", <<"version">>) \o Fields("bool", <<"is_initialized">>) \o Fields("u8", <<"bump_seed">>)
  \o TokenSwapKeys
  \o Fields("u64", <<"trade_fee_numerator", "trade_fee_denominator",
                     "owner_trade_fee_numerator", "owner_trade_fee_denominator",
                     "owner_withdraw_fee_numerator", "owner_withdraw_fee_denominator",
                     "host_fee_numerator", "host_fee_denominator">>)
  \o Fields("u8", <<"curve_type">>) \o Fields("calculator", <<"curve_parameters">>)

\* decode wants bytes enough and ignores those behind; it does not ask for the version.
Loads(bytes) == Len(bytes) >= WidthOf(TokenSwapLayout) /\ Unpacked(TokenSwapLayout, bytes).is_initialized
Loaded(bytes) == Unpacked(TokenSwapLayout, bytes)

-----------------------------------------------------------------------------
(* What the instructions write. *)

IsSwap(swap) ==
  /\ swap = [field \in Names(SwapV1Packed) \cup {"swap_curve"} |-> swap[field]]
  /\ swap.is_initialized = TRUE /\ swap.bump_seed \in Holds("u8")
  /\ \A key \in Names(TokenSwapKeys) : swap[key] \in Holds("pubkey")
  /\ IsOf(FeesPacked, swap.fees)
  /\ IsCurve(swap.swap_curve)

IsPermission(permission) == IsOf(PermissionPacked, permission) /\ permission.is_initialized = TRUE

IsRates(rates) == IsOf(Fields("u128", <<"ssr", "rho", "chi">>), rates)

ASSUME AccountDataAssumption ==
  /\ Byte >= 3   \* the last CurveType
  /\ Sizes \subseteq Nat
  /\ \A swap \in Swaps : IsSwap(swap)
  /\ \A permission \in Permissions : IsPermission(permission)
  /\ \A rates \in Rates : IsRates(rates)
  /\ Absent \notin Seq(0 .. Byte)

-----------------------------------------------------------------------------
Init ==
  /\ data = [a \in Addresses |-> Absent]
  /\ meant = [a \in Addresses |-> Absent]

CreateAccount(address, size) ==
  /\ data[address] = Absent
  /\ data' = [data EXCEPT ![address] = Zeros(size)]
  /\ UNCHANGED meant

Initialize(address, swap) ==
  /\ data[address] # Absent
  /\ ~IsInitialized(data[address])
  /\ SwapPacksInto(data[address])
  /\ data' = [data EXCEPT ![address] = PackedSwap(swap, @)]
  /\ meant' = [meant EXCEPT ![address] = swap]

WithRates(parameters, rates) ==
  [parameters EXCEPT !.ssr = rates.ssr, !.rho = rates.rho, !.chi = rates.chi]

SetRates(address, rates) ==
  /\ data[address] # Absent
  /\ SwapUnpacks(data[address])
  /\ CurveExtracts(data[address])
  /\ LET parameters == WithRates(ExtractedCurve(data[address]).parameters, rates)
         swap == [UnpackedSwap(data[address]) EXCEPT
                    !.swap_curve = [curve_type |-> "RedemptionRateCurve", parameters |-> parameters]]
     IN  /\ data' = [data EXCEPT ![address] = PackedSwap(swap, @)]
         /\ meant' = [meant EXCEPT ![address].swap_curve.parameters = WithRates(@, rates)]

\* The account is made by the instruction itself, at its size.
InitializePermission(address, permission) ==
  /\ data[address] = Absent
  /\ data' = [data EXCEPT ![address] = Packed(PermissionPacked, permission)]
  /\ meant' = [meant EXCEPT ![address] = permission]

UpdatePermission(address, super, update) ==
  /\ data[address] # Absent
  /\ PermissionUnpacks(data[address])
  /\ LET old == Unpacked(PermissionUnpacked, data[address])
     IN  data' = [data EXCEPT ![address] = Packed(PermissionPacked,
           [old EXCEPT !.is_super_admin = super, !.can_update_parameters = update])]
  /\ meant' = [meant EXCEPT ![address].is_super_admin = super, ![address].can_update_parameters = update]

Next ==
  \E address \in Addresses :
    \/ \E size \in Sizes : CreateAccount(address, size)
    \/ \E swap \in Swaps : Initialize(address, swap)
    \/ \E rates \in Rates : SetRates(address, rates)
    \/ \E permission \in Permissions : InitializePermission(address, permission)
    \/ \E super, update \in BOOLEAN : UpdatePermission(address, super, update)

Spec == Init /\ [][Next]_vars

-----------------------------------------------------------------------------
(* Properties. *)

Present == {a \in Addresses : data[a] # Absent}

(***************************************************************************)
(* Accounts hold bytes; the program owns no others than swaps, those still *)
(* to become one, and permissions.                                         *)
(***************************************************************************)
TypeOK ==
  \A a \in Present :
    /\ \A i \in DOMAIN data[a] : data[a][i] \in 0 .. Byte
    /\ Len(data[a]) \in Sizes \cup {PermissionLEN}

(***************************************************************************)
(* What instructions wrote is what the next instruction unpacks, through   *)
(* any number of updates: the rates, and every field beside them that      *)
(* SetRates and UpdatePermission only copy.                                *)
(***************************************************************************)
InstructionsReadBack ==
  \A a \in Present : meant[a] # Absent =>
    \/ SwapUnpacks(data[a]) /\ UnpackedSwap(data[a]) = meant[a]
    \/ PermissionUnpacks(data[a]) /\ Unpacked(PermissionUnpacked, data[a]) = meant[a]

(***************************************************************************)
(* The JavaScript client loads exactly the swaps the program unpacks, and  *)
(* finds the same in them, although its layout counts the version byte and *)
(* the fees one by one and keeps the curve's parameters as bytes.          *)
(***************************************************************************)
JavaScriptReadsTheSame ==
  \A a \in Present :
    /\ Len(data[a]) = LATEST_LEN => (Loads(data[a]) <=> SwapUnpacks(data[a]))
    /\ SwapUnpacks(data[a]) =>
         LET js == Loaded(data[a])  swap == UnpackedSwap(data[a])
         IN  /\ \A field \in DOMAIN swap \ {"fees", "swap_curve"} : js[field] = swap[field]
             /\ \A fee \in DOMAIN swap.fees : js[fee] = swap.fees[fee]
             /\ UnpackedCurve(<<js.curve_type>> \o js.curve_parameters) = swap.swap_curve

(***************************************************************************)
(* The program owns both kinds of account and tells them apart by their    *)
(* bytes alone: none passes for a swap and for a permission, and none is   *)
(* uninitialized for Initialize and a swap for everybody else.             *)
(***************************************************************************)
NoMistakenIdentity ==
  \A a \in Present :
    /\ ~ (SwapUnpacks(data[a]) /\ PermissionUnpacks(data[a]))
    /\ SwapUnpacks(data[a]) => IsInitialized(data[a])
    /\ IsInitialized(data[a]) /\ SwapPacksInto(data[a]) => SwapUnpacks(data[a])

(***************************************************************************)
(* extract_curve looks for the curve at an offset of its own and finds the *)
(* one the swap unpacks with.                                              *)
(***************************************************************************)
ExtractsTheCurve ==
  \A a \in Present : SwapUnpacks(data[a]) =>
    LET curve == UnpackedSwap(data[a]).swap_curve
    IN  /\ CurveExtracts(data[a]) <=> curve.curve_type = "RedemptionRateCurve"
        /\ CurveExtracts(data[a]) => ExtractedCurve(data[a]) = curve

(***************************************************************************)
(* Every reader finds in the bytes what the instructions meant to be there:*)
(* the program, its shortcut to the curve, and the JavaScript client.      *)
(***************************************************************************)
ReadersAgree ==
  TypeOK /\ InstructionsReadBack /\ ExtractsTheCurve /\ JavaScriptReadsTheSame
=============================================================================
