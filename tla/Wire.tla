-------------------------------- MODULE Wire --------------------------------
(***************************************************************************)
(* From a client to a handler: the instructions as program/src/            *)
(* instruction.rs and js/src/index.ts put them into bytes and lists of     *)
(* accounts, what may become of a message on its way, and how the program  *)
(* takes it apart again (SwapInstruction::unpack, process_with_constraints *)
(* and the first lines of every handler).                                  *)
(*                                                                         *)
(* An account is known by the role its client had in mind.                 *)
(***************************************************************************)
EXTENDS Bytes, FiniteSets

CONSTANTS
  Values,      \* bound: the fields instructions are sent with, by kind
  MaxPadding,  \* bound: the bytes put behind a message
  None         \* no message, no answer

SwapInstruction ==
  <<"Initialize", "Swap", "DepositAllTokenTypes", "WithdrawAllTokenTypes",
    "DepositSingleTokenTypeExactAmountIn", "WithdrawSingleTokenTypeExactAmountOut",
    "SetRates", "InitializePermission", "UpdatePermission">>

Kinds == {SwapInstruction[i] : i \in DOMAIN SwapInstruction}
Tag(kind) == (CHOOSE i \in DOMAIN SwapInstruction : SwapInstruction[i] = kind) - 1

VARIABLES
  asked,     \* what the client wants
  message,   \* the bytes of its message
  accounts,  \* the accounts of its message
  sound,     \* history: no part is missing from the message
  answer     \* what the program made of it

wireVars == <<asked, message, accounts, sound, answer>>

-----------------------------------------------------------------------------
(* The bytes. *)

PackedFields(kind) ==
  CASE kind = "Swap"                  -> Fields("u64", <<"amount_in", "minimum_amount_out">>)
    [] kind = "DepositAllTokenTypes"  -> Fields("u64",
         <<"pool_token_amount", "maximum_token_a_amount", "maximum_token_b_amount">>)
    [] kind = "WithdrawAllTokenTypes" -> Fields("u64",
         <<"pool_token_amount", "minimum_token_a_amount", "minimum_token_b_amount">>)
    [] kind = "DepositSingleTokenTypeExactAmountIn" -> Fields("u64",
         <<"source_token_amount", "minimum_pool_token_amount">>)
    [] kind = "WithdrawSingleTokenTypeExactAmountOut" -> Fields("u64",
         <<"destination_token_amount", "maximum_pool_token_amount">>)
    [] kind = "SetRates"              -> Fields("u128", <<"ssr", "rho", "chi">>)
    [] kind = "InitializePermission"  -> Fields("pubkey", <<"permission_authority">>)
         \o Fields("bool", <<"is_super_admin", "can_update_parameters">>)
    [] kind = "UpdatePermission"      -> Fields("bool", <<"is_super_admin", "can_update_parameters">>)

UnpackedFields(kind) ==
  CASE kind = "Swap"                  -> Fields("u64", <<"amount_in", "minimum_amount_out">>)
    [] kind = "DepositAllTokenTypes"  -> Fields("u64",
         <<"pool_token_amount", "maximum_token_a_amount", "maximum_token_b_amount">>)
    [] kind = "WithdrawAllTokenTypes" -> Fields("u64",
         <<"pool_token_amount", "minimum_token_a_amount", "minimum_token_b_amount">>)
    [] kind = "DepositSingleTokenTypeExactAmountIn" -> Fields("u64",
         <<"source_token_amount", "minimum_pool_token_amount">>)
    [] kind = "WithdrawSingleTokenTypeExactAmountOut" -> Fields("u64",
         <<"destination_token_amount", "maximum_pool_token_amount">>)
    [] kind = "SetRates"              -> Fields("u128", <<"ssr", "rho", "chi">>)
    [] kind = "InitializePermission"  -> Fields("pubkey", <<"permission_authority">>)
         \o Fields("bool", <<"is_super_admin", "can_update_parameters">>)
    [] kind = "UpdatePermission"      -> Fields("bool", <<"is_super_admin", "can_update_parameters">>)

InitializeData(values) ==
  Packed(FeesPacked, values.fees) \o PackedCurve(values.swap_curve, Zeros(SwapCurveWidth))

PackedData(kind, values) ==
  <<Tag(kind)>> \o IF kind = "Initialize" THEN InitializeData(values)
                                          ELSE Packed(PackedFields(kind), values)

\* The JavaScript client has its caller's bytes for the parameters of a curve,
\* fills them up with zeros and ends all but two messages with a referral code.
ClientData(kind, values) ==
  PackedData(kind, values) \o IF kind \in {"Initialize", "Swap"} THEN << >> ELSE Zeros(Width("referral"))

\* Mutant: bytes behind the fields are not ignored.
UnpacksToTheEnd(bytes) ==
  /\ bytes # << >> /\ bytes[1] + 1 \in DOMAIN SwapInstruction
  /\ LET kind == SwapInstruction[bytes[1] + 1]  rest == Tail(bytes)
     IN  IF kind = "Initialize"
           THEN /\ Len(rest) = WidthOf(FeesUnpacked) + SwapCurveWidth
                /\ CurveUnpacks(SubSeq(rest, WidthOf(FeesUnpacked) + 1, Len(rest)))
           ELSE /\ Len(rest) = WidthOf(UnpackedFields(kind))
                /\ StrictBools(UnpackedFields(kind), rest)

\* Initialize wants the curve's bytes to the last one; the others ignore what
\* follows.  A short InitializePermission panics, which is a refusal as well.
Unpacks(bytes) ==
  /\ bytes # << >> /\ bytes[1] + 1 \in DOMAIN SwapInstruction
  /\ LET kind == SwapInstruction[bytes[1] + 1]  rest == Tail(bytes)
     IN  IF kind = "Initialize"
           THEN /\ Len(rest) = WidthOf(FeesUnpacked) + SwapCurveWidth
                /\ CurveUnpacks(SubSeq(rest, WidthOf(FeesUnpacked) + 1, Len(rest)))
           ELSE /\ Len(rest) >= WidthOf(UnpackedFields(kind))
                /\ StrictBools(UnpackedFields(kind), rest)

KindOf(bytes) == SwapInstruction[bytes[1] + 1]

ValuesOf(bytes) ==
  LET rest == Tail(bytes)  fees == WidthOf(FeesUnpacked)
  IN  IF KindOf(bytes) = "Initialize"
        THEN [fees |-> Unpacked(FeesUnpacked, rest),
              swap_curve |-> UnpackedCurve(SubSeq(rest, fees + 1, Len(rest)))]
        ELSE Unpacked(UnpackedFields(KindOf(bytes)), rest)

-----------------------------------------------------------------------------
(* The accounts: AccountMeta lists. *)

Metas(roles, writable, signers) ==
  [i \in DOMAIN roles |->
     [role |-> roles[i], writable |-> roles[i] \in writable, signer |-> roles[i] \in signers]]

InitializeRoles ==
  <<"swap", "authority", "token_a", "token_b", "pool_mint", "token_a_mint", "token_b_mint",
    "pool_fee", "destination", "pool_token_program">>
PermissionRoles == <<"permission", "super_admin", "payer", "system_program">>

NeedsPermission(values) == values.swap_curve.curve_type = "RedemptionRateCurve"

\* The builders of instruction.rs; only swap has an Option for the host.
initialize(values) ==
  Metas(InitializeRoles \o IF NeedsPermission(values) THEN PermissionRoles ELSE << >>,
        {"swap", "pool_mint", "destination", "permission", "payer"}, {"swap", "payer"})

swap(withHost) ==
  Metas(<<"swap", "authority", "user_transfer_authority", "source", "swap_source",
          "swap_destination", "destination", "pool_mint", "pool_fee", "source_mint",
          "destination_mint", "source_token_program", "destination_token_program",
          "pool_token_program">> \o IF withHost THEN <<"host_fee">> ELSE << >>,
        {"source", "swap_source", "swap_destination", "destination", "pool_mint",
         "pool_fee", "host_fee"}, {"user_transfer_authority"})

deposit_all_token_types ==
  Metas(<<"swap", "authority", "user_transfer_authority", "source_a", "source_b", "token_a",
          "token_b", "pool_mint", "destination", "token_a_mint", "token_b_mint",
          "token_a_program", "token_b_program", "pool_token_program">>,
        {"source_a", "source_b", "token_a", "token_b", "pool_mint", "destination"},
        {"user_transfer_authority"})

withdraw_all_token_types ==
  Metas(<<"swap", "authority", "user_transfer_authority", "pool_mint", "source", "token_a",
          "token_b", "destination_a", "destination_b", "pool_fee", "token_a_mint",
          "token_b_mint", "pool_token_program", "token_a_program", "token_b_program">>,
        {"pool_mint", "source", "token_a", "token_b", "destination_a", "destination_b",
         "pool_fee"}, {"user_transfer_authority"})

deposit_single_token_type_exact_amount_in ==
  Metas(<<"swap", "authority", "user_transfer_authority", "source", "token_a", "token_b",
          "pool_mint", "destination", "source_mint", "source_token_program",
          "pool_token_program">>,
        {"source", "token_a", "token_b", "pool_mint", "destination"}, {"user_transfer_authority"})

withdraw_single_token_type_exact_amount_out ==
  Metas(<<"swap", "authority", "user_transfer_authority", "pool_mint", "source", "token_a",
          "token_b", "destination", "pool_fee", "destination_mint", "pool_token_program",
          "destination_token_program">>,
        {"pool_mint", "source", "token_a", "token_b", "destination", "pool_fee"},
        {"user_transfer_authority"})

BuiltAccounts(kind, values, withHost) ==
  CASE kind = "Initialize"                            -> initialize(values)
    [] kind = "Swap"                                  -> swap(withHost)
    [] kind = "DepositAllTokenTypes"                  -> deposit_all_token_types
    [] kind = "WithdrawAllTokenTypes"                 -> withdraw_all_token_types
    [] kind = "DepositSingleTokenTypeExactAmountIn"   -> deposit_single_token_type_exact_amount_in
    [] kind = "WithdrawSingleTokenTypeExactAmountOut" -> withdraw_single_token_type_exact_amount_out

\* The JavaScript client has the same lists but for Initialize: the accounts of
\* a permission always follow, and the swap account does not sign.
ClientAccounts(kind, values, withHost) ==
  IF kind = "Initialize"
    THEN Metas(InitializeRoles \o PermissionRoles,
               {"swap", "pool_mint", "destination", "permission", "payer"}, {"payer"})
    ELSE BuiltAccounts(kind, values, withHost)

\* The kinds no builder is there for.
Administration == {"SetRates", "InitializePermission", "UpdatePermission"}

-----------------------------------------------------------------------------
(* The handlers: the order of next_account_info, and what follows of it. *)

process_swap ==
  <<"swap", "authority", "user_transfer_authority", "source", "swap_source", "swap_destination",
    "destination", "pool_mint", "pool_fee", "source_mint", "destination_mint",
    "source_token_program", "destination_token_program", "pool_token_program">>

process_deposit_all_token_types ==
  <<"swap", "authority", "user_transfer_authority", "source_a", "source_b", "token_a", "token_b",
    "pool_mint", "destination", "token_a_mint", "token_b_mint", "token_a_program",
    "token_b_program", "pool_token_program">>

process_withdraw_all_token_types ==
  <<"swap", "authority", "user_transfer_authority", "pool_mint", "source", "token_a", "token_b",
    "destination_a", "destination_b", "pool_fee", "token_a_mint", "token_b_mint",
    "pool_token_program", "token_a_program", "token_b_program">>

process_deposit_single_token_type ==
  <<"swap", "authority", "user_transfer_authority", "source", "token_a", "token_b", "pool_mint",
    "destination", "source_mint", "source_token_program", "pool_token_program">>

process_withdraw_single_token_type ==
  <<"swap", "authority", "user_transfer_authority", "pool_mint", "source", "token_a", "token_b",
    "destination", "pool_fee", "destination_mint", "pool_token_program", "destination_token_program">>

process_curve_update == <<"swap", "permission", "signer">>

process_initialize_permission ==
  <<"swap", "permission", "new_permission", "signer", "payer", "system_program">>

process_update_permission == <<"swap", "permission", "updated_permission", "signer">>

Required(kind, values) ==
  CASE kind = "Initialize" -> InitializeRoles \o IF NeedsPermission(values) THEN PermissionRoles ELSE << >>
    [] kind = "Swap"                                  -> process_swap
    [] kind = "DepositAllTokenTypes"                  -> process_deposit_all_token_types
    [] kind = "WithdrawAllTokenTypes"                 -> process_withdraw_all_token_types
    [] kind = "DepositSingleTokenTypeExactAmountIn"   -> process_deposit_single_token_type
    [] kind = "WithdrawSingleTokenTypeExactAmountOut" -> process_withdraw_single_token_type
    [] kind = "SetRates"                              -> process_curve_update
    [] kind = "InitializePermission"                  -> process_initialize_permission
    [] kind = "UpdatePermission"                      -> process_update_permission

Optional(kind) ==
  CASE kind \in {"Swap", "WithdrawSingleTokenTypeExactAmountOut"} -> <<"host_fee">>
    [] kind = "DepositSingleTokenTypeExactAmountIn"               -> <<"pool_fee", "host_fee">>
    [] OTHER                                                      -> << >>

\* The accounts the handlers change, through the token or the system program.
Changed(kind) ==
  CASE kind = "Initialize"            -> {"swap", "pool_mint", "destination", "permission", "payer"}
    [] kind = "Swap"                  -> {"source", "swap_source", "swap_destination", "destination",
                                          "pool_mint", "pool_fee", "host_fee"}
    [] kind = "DepositAllTokenTypes"  -> {"source_a", "source_b", "token_a", "token_b", "pool_mint",
                                          "destination"}
    [] kind = "WithdrawAllTokenTypes" -> {"pool_mint", "source", "token_a", "token_b", "destination_a",
                                          "destination_b", "pool_fee"}
    [] kind = "DepositSingleTokenTypeExactAmountIn" ->
         {"source", "token_a", "token_b", "pool_mint", "destination", "pool_fee", "host_fee"}
    [] kind = "WithdrawSingleTokenTypeExactAmountOut" ->
         {"pool_mint", "source", "token_a", "token_b", "destination", "pool_fee", "host_fee"}
    [] kind = "SetRates"              -> {"swap"}
    [] kind = "InitializePermission"  -> {"new_permission", "payer"}
    [] kind = "UpdatePermission"      -> {"updated_permission"}

Signing(kind) ==
  CASE kind = "Initialize"           -> {"payer"}
    [] kind = "InitializePermission" -> {"signer", "payer"}
    [] kind \in {"SetRates", "UpdatePermission"} -> {"signer"}
    [] OTHER                         -> {"user_transfer_authority"}

\* Mutant: the optional fee account is not compared with the swap's.
ComparedButFee == {"authority", "token_a", "token_b", "pool_mint", "pool_token_program"}

\* check_accounts and its like compare these with the swap's own.
Compared == {"authority", "token_a", "token_b", "pool_mint", "pool_token_program", "pool_fee"}

Read(kind, values, metas) ==
  LET roles == Required(kind, values) \o Optional(kind)
  IN  [role \in {roles[i] : i \in 1 .. (IF Len(metas) < Len(roles) THEN Len(metas) ELSE Len(roles))} |->
         metas[CHOOSE i \in DOMAIN roles : roles[i] = role]]

Accepts(bytes, metas) ==
  /\ Unpacks(bytes)
  /\ Len(metas) >= Len(Required(KindOf(bytes), ValuesOf(bytes)))
  /\ LET read == Read(KindOf(bytes), ValuesOf(bytes), metas)
     IN  \A role \in DOMAIN read \cap Compared : read[role].role = role

-----------------------------------------------------------------------------
(* What clients send. *)

IsMessage(kind, values) ==
  IF kind = "Initialize"
    THEN /\ values = [fees |-> values.fees, swap_curve |-> values.swap_curve]
         /\ IsOf(FeesPacked, values.fees) /\ IsCurve(values.swap_curve)
    ELSE IsOf(PackedFields(kind), values)

ASSUME WireAssumption ==
  /\ Byte >= 8   \* the last tag
  /\ \A kind \in Kinds : \A values \in Values[kind] : IsMessage(kind, values)
  /\ MaxPadding \in Nat

WireInit ==
  /\ asked = None /\ answer = None
  /\ message = << >> /\ accounts = << >> /\ sound = TRUE

Send(kind, values, bytes, metas) ==
  /\ asked = None \/ answer # None
  /\ asked' = [kind |-> kind, values |-> values]
  /\ message' = bytes /\ accounts' = metas
  /\ sound' = TRUE /\ answer' = None

RustClient(kind, values, withHost) ==
  Send(kind, values, PackedData(kind, values), BuiltAccounts(kind, values, withHost))

JavaScriptClient(kind, values, withHost) ==
  Send(kind, values, ClientData(kind, values), ClientAccounts(kind, values, withHost))

OtherClient(kind, values) ==
  Send(kind, values, PackedData(kind, values),
       Metas(Required(kind, values), Changed(kind), Signing(kind)))

\* A client that wants the owner's fee of a deposit paid out, or a share of a
\* fee for its host, puts the accounts behind those of the builder.  A deposit
\* with a host but no fee account is not what its handler reads.
AddFeeAccounts(kind, roles) ==
  /\ asked # None /\ answer = None /\ sound /\ asked.kind = kind
  /\ Len(accounts) = Len(Required(kind, asked.values))
  /\ accounts' = accounts \o Metas(roles, {"pool_fee", "host_fee"}, {})
  /\ sound' = (roles[1] = Optional(kind)[1])
  /\ UNCHANGED <<asked, message, answer>>

\* Bytes that mean nothing to this version of the program.
Pad(n) ==
  /\ asked # None /\ answer = None /\ sound /\ asked.kind # "Initialize"
  /\ Len(message) <= Len(ClientData(asked.kind, asked.values))
  /\ message' = message \o [i \in 1 .. n |-> Byte]
  /\ UNCHANGED <<asked, accounts, sound, answer>>

CutData(length) ==
  /\ asked # None /\ answer = None /\ sound
  /\ message' = SubSeq(message, 1, length)
  /\ sound' = FALSE
  /\ UNCHANGED <<asked, accounts, answer>>

DropAccounts(length) ==
  /\ asked # None /\ answer = None /\ sound
  /\ accounts' = SubSeq(accounts, 1, length)
  /\ sound' = FALSE
  /\ UNCHANGED <<asked, message, answer>>

Process ==
  /\ asked # None /\ answer = None
  /\ answer' = IF Accepts(message, accounts)
                 THEN [ok |-> TRUE, kind |-> KindOf(message), values |-> ValuesOf(message),
                       read |-> Read(KindOf(message), ValuesOf(message), accounts)]
                 ELSE [ok |-> FALSE]
  /\ UNCHANGED <<asked, message, accounts, sound>>

Clients ==
  \E kind \in Kinds : \E values \in Values[kind], withHost \in {FALSE, kind = "Swap"} :
    IF kind \in Administration THEN OtherClient(kind, values)
    ELSE RustClient(kind, values, withHost) \/ JavaScriptClient(kind, values, withHost)

WireNext ==
  \/ Clients
  \/ \E roles \in {<<"pool_fee">>, <<"pool_fee", "host_fee">>, <<"host_fee">>} :
       AddFeeAccounts("DepositSingleTokenTypeExactAmountIn", roles)
  \/ AddFeeAccounts("WithdrawSingleTokenTypeExactAmountOut", <<"host_fee">>)
  \/ \E n \in 1 .. MaxPadding : Pad(n)
  \/ \E length \in 0 .. Len(message) - 1 : CutData(length)
  \/ \E length \in 0 .. Len(accounts) - 1 : DropAccounts(length)
  \/ Process

WireSpec == WireInit /\ [][WireNext]_wireVars

-----------------------------------------------------------------------------
(* Properties. *)

Accepted == answer # None /\ answer.ok

\* Messages are bytes and accounts, and what a handler gets has all the fields
\* of its kind of instruction (enum SwapInstruction).
WireTypeOK ==
  /\ asked # None => asked.kind \in Kinds /\ asked.values \in Values[asked.kind]
  /\ message \in Seq(0 .. Byte) /\ sound \in BOOLEAN
  /\ \A i \in DOMAIN accounts : accounts[i].writable \in BOOLEAN /\ accounts[i].signer \in BOOLEAN
  /\ Accepted => /\ answer.kind \in Kinds
                 /\ \A values \in Values[answer.kind] : DOMAIN answer.values = DOMAIN values

\* Whatever was cut off on its way or put behind it, a message is refused or
\* the handler that its client asked for gets the very amounts, rates, fees and
\* permissions it was sent with: never another kind, never a number of which a
\* part is missing.
UnderstoodOrRefused ==
  Accepted => /\ answer.kind = asked.kind
              /\ answer.values = asked.values

\* The two clients and the program do not drift apart: a message with all its
\* parts is accepted, be there a referral code, bytes of a later version, the
\* accounts of a permission no one needs or the optional fee accounts behind it.
EveryClientIsUnderstood == answer # None /\ sound => answer.ok

\* A handler takes every account for what its client took it: builder and
\* handler count in the same order, also when accounts are missing from the
\* end, and a host's account is never taken for the one of the owner's fees.
RightAccounts ==
  Accepted => \A role \in DOMAIN answer.read : answer.read[role].role = role

\* A handler never gets as far as an account that it will have written or that
\* has to sign and finds that its client did not pass it so.
PrivilegesSuffice ==
  Accepted => \A role \in DOMAIN answer.read :
                /\ role \in Changed(answer.kind) => answer.read[role].writable
                /\ role \in Signing(answer.kind) => answer.read[role].signer

(***************************************************************************)
(* Every account reaches the handler in its place and with the privileges  *)
(* the handler will use it with.                                           *)
(***************************************************************************)
AccountsInPlace == RightAccounts /\ PrivilegesSuffice

(***************************************************************************)
(* What a handler is given has every field of its kind, as it was sent.    *)
(***************************************************************************)
NothingMisread == WireTypeOK /\ UnderstoodOrRefused
=============================================================================
