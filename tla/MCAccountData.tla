---------------------------- MODULE MCAccountData ---------------------------
(* Two accounts, every curve, and a different value in every field. *)
EXTENDS AccountData

CONSTANTS here, there

Interchangeable == Permutations({here, there})

Key(n) == [i \in 1 .. 4 * Word |-> (n + i - 1) % Base]

Fees(n) == [name \in {FeesPacked[i].name : i \in DOMAIN FeesPacked} |->
              n + Byte * (CHOOSE i \in DOMAIN FeesPacked : FeesPacked[i].name = name)]

Curve(type, n) ==
  [curve_type |-> type,
   parameters |-> [name \in {CalculatorPacked(type)[i].name : i \in DOMAIN CalculatorPacked(type)} |->
     n + Byte * (CHOOSE i \in DOMAIN CalculatorPacked(type) : CalculatorPacked(type)[i].name = name)]]

Swap(n, curve) ==
  [is_initialized |-> TRUE, bump_seed |-> n, token_program_id |-> Key(n),
   token_a |-> Key(n + 1), token_b |-> Key(n + 2), pool_mint |-> Key(n + 3),
   token_a_mint |-> Key(n + 4), token_b_mint |-> Key(n + 5), pool_fee_account |-> Key(n + 6),
   fees |-> Fees(n), swap_curve |-> curve]

Range4 == {CurveTypes[i] : i \in DOMAIN CurveTypes}
SomeSwaps == {Swap(n, Curve(type, n)) : n \in {0, 3}, type \in Range4}

SomePermissions ==
  {[is_initialized |-> TRUE, swap |-> Key(n), authority |-> Key(2),
    is_super_admin |-> super, can_update_parameters |-> ~super] : n \in {0, 1}, super \in BOOLEAN}

SomeRates == {[ssr |-> Base ^ 2, rho |-> n, chi |-> 7] : n \in {0, 1, Base ^ 4 - 1}}

SomeSizes == {PermissionLEN, LATEST_LEN, LATEST_LEN + 1}
=============================================================================
