-------------------------------- MODULE Bytes -------------------------------
(***************************************************************************)
(* Records as bytes.  The program and its clients write numbers as little  *)
(* endian bytes, keys as they are, and structures as one field after the   *)
(* other: a layout is the sequence of the fields with their types.         *)
(*                                                                         *)
(* A u64 has Word bytes here and everything else is measured in them.      *)
(***************************************************************************)
EXTENDS Integers, Sequences, SequencesExt

CONSTANTS Byte,  \* the largest byte, 255
          Word   \* the bytes of a u64, 8

ASSUME BytesAssumption == Byte \in Nat \ {0} /\ Word \in Nat \ {0}

Base == Byte + 1

Width(type) ==
  CASE type \in {"u8", "bool"}      -> 1
    [] type \in {"u64", "referral"} -> Word
    [] type = "u128"                -> 2 * Word
    [] type = "pubkey"              -> 4 * Word
    [] type = "fees"                -> 8 * Word
    [] type = "calculator"          -> 8 * Word

Zeros(n) == [i \in 1 .. n |-> 0]

\* What the beginnings of a sequence of numbers add up to.
Sums(numbers) ==
  LET sum[i \in 0 .. Len(numbers)] == IF i = 0 THEN 0 ELSE sum[i - 1] + numbers[i]
  IN  sum

\* The worth of a byte behind i others.
Places[i \in Nat] == IF i = 0 THEN 1 ELSE Base * Places[i - 1]

ToLE(n, width)  == [i \in 1 .. width |-> (n \div Places[i - 1]) % Base]
FromLE(bytes)   == Sums([i \in 1 .. Len(bytes) |-> bytes[i] * Places[i - 1]])[Len(bytes)]

\* Keys and slices that another layout has packed are copied byte by byte.
Encoded(type, value) ==
  CASE type \in {"u8", "u64", "u128"} -> ToLE(value, Width(type))
    [] type = "bool"                  -> <<IF value THEN 1 ELSE 0>>
    [] OTHER                          -> value

Decoded(type, bytes) ==
  CASE type \in {"u8", "u64", "u128"} -> FromLE(bytes)
    [] type = "bool"                  -> bytes # <<0>>
    [] OTHER                          -> bytes

-----------------------------------------------------------------------------
Fields(type, names) == [i \in DOMAIN names |-> [type |-> type, name |-> names[i]]]

Names(layout) == {layout[i].name : i \in DOMAIN layout}

\* What a field of a type can hold, and a structure of a layout.
Holds(type) ==
  CASE type \in {"u8", "u64", "u128"} -> 0 .. Places[Width(type)] - 1
    [] type = "bool"                  -> BOOLEAN
    [] OTHER                          -> [1 .. Width(type) -> 0 .. Byte]

Suits(layout, value) == \A i \in DOMAIN layout : value[layout[i].name] \in Holds(layout[i].type)

IsOf(layout, value) == value = [name \in Names(layout) |-> value[name]] /\ Suits(layout, value)

Widths(layout) == [i \in 1 .. Len(layout) |-> Width(layout[i].type)]
WidthOf(layout) == Sums(Widths(layout))[Len(layout)]

\* The bytes before a layout's i-th field.
Offset(layout, i) == Sums(Widths(layout))[i - 1]

FieldBytes(layout, i, bytes) ==
  SubSeq(bytes, Offset(layout, i) + 1, Offset(layout, i) + Width(layout[i].type))

Packed(layout, value) ==
  FlattenSeq([i \in DOMAIN layout |-> Encoded(layout[i].type, value[layout[i].name])])

Unpacked(layout, bytes) ==
  LET at(name) == CHOOSE i \in DOMAIN layout : layout[i].name = name
  IN  [name \in Names(layout) |->
         Decoded(layout[at(name)].type, FieldBytes(layout, at(name), bytes))]

\* A reader that takes nothing but 0 and 1 for a bool.
StrictBools(layout, bytes) ==
  \A i \in DOMAIN layout :
    layout[i].type = "bool" => FieldBytes(layout, i, bytes) \in {<<0>>, <<1>>}

-----------------------------------------------------------------------------
(* The structures that instructions and accounts share. *)

FeesPacked ==
  Fields("u64", <<"trade_fee_numerator", "trade_fee_denominator",
                  "owner_trade_fee_numerator", "owner_trade_fee_denominator",
                  "owner_withdraw_fee_numerator", "owner_withdraw_fee_denominator",
                  "host_fee_numerator", "host_fee_denominator">>)

\* Mutant: a pair is read the wrong way round.
FeesUnpackedTurned ==
  Fields("u64", <<"trade_fee_numerator", "trade_fee_denominator",
                  "owner_trade_fee_numerator", "owner_trade_fee_denominator",
                  "owner_withdraw_fee_denominator", "owner_withdraw_fee_numerator",
                  "host_fee_numerator", "host_fee_denominator">>)

FeesUnpacked ==
  Fields("u64", <<"trade_fee_numerator", "trade_fee_denominator",
                  "owner_trade_fee_numerator", "owner_trade_fee_denominator",
                  "owner_withdraw_fee_numerator", "owner_withdraw_fee_denominator",
                  "host_fee_numerator", "host_fee_denominator">>)

CurveTypes == <<"ConstantProduct", "ConstantPrice", "Offset", "RedemptionRateCurve">>

CurveByte(type) == (CHOOSE i \in DOMAIN CurveTypes : CurveTypes[i] = type) - 1

\* DynPack and Pack of the four calculators.
ConstantProductPacked     == << >>
ConstantPricePacked       == Fields("u128", <<"token_b_price">>)
OffsetPacked              == Fields("u64", <<"token_b_offset">>)
RedemptionRateCurvePacked == Fields("u128", <<"max_ssr", "ssr", "rho", "chi">>)

CalculatorPacked(type) ==
  CASE type = "ConstantProduct"     -> ConstantProductPacked
    [] type = "ConstantPrice"       -> ConstantPricePacked
    [] type = "Offset"              -> OffsetPacked
    [] type = "RedemptionRateCurve" -> RedemptionRateCurvePacked

RedemptionRateCurveUnpacked == Fields("u128", <<"max_ssr", "ssr", "rho", "chi">>)

\* A single field has no order to be read in.
CalculatorUnpacked(type) ==
  IF type = "RedemptionRateCurve" THEN RedemptionRateCurveUnpacked ELSE CalculatorPacked(type)

IsCurve(curve) ==
  /\ curve = [curve_type |-> curve.curve_type, parameters |-> curve.parameters]
  /\ curve.curve_type \in {CurveTypes[i] : i \in DOMAIN CurveTypes}
  /\ IsOf(CalculatorPacked(curve.curve_type), curve.parameters)

SwapCurvePacked == Fields("u8", <<"curve_type">>) \o Fields("calculator", <<"calculator">>)
SwapCurveWidth  == WidthOf(SwapCurvePacked)

\* A calculator writes over the first bytes of its slice and leaves the others.
PackedCurve(curve, slice) ==
  LET own == Packed(CalculatorPacked(curve.curve_type), curve.parameters)
  IN  <<CurveByte(curve.curve_type)>> \o own \o SubSeq(slice, Len(own) + 2, SwapCurveWidth)

CurveUnpacks(bytes) == bytes[1] + 1 \in DOMAIN CurveTypes

UnpackedCurve(bytes) ==
  LET type == CurveTypes[bytes[1] + 1]
  IN  [curve_type |-> type,
       parameters |-> Unpacked(CalculatorUnpacked(type), SubSeq(bytes, 2, SwapCurveWidth))]
=============================================================================
