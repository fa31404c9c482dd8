------------------------------- MODULE MCWire -------------------------------
(* Every kind of instruction, every curve, numbers of one and of all bytes.  *)
EXTENDS Wire

Largest(bytes) == Base ^ bytes - 1

\* A different value in every field.
Filled(layout, first) ==
  [name \in {layout[i].name : i \in DOMAIN layout} |->
     LET i == CHOOSE j \in DOMAIN layout : layout[j].name = name
     IN  CASE layout[i].type = "bool"   -> (first + i) % 2 = 0
           [] layout[i].type = "pubkey" -> [j \in 1 .. Width("pubkey") |-> (first + j) % Base]
           [] OTHER                     -> (first + i) % (Largest(Width(layout[i].type)) + 1)]

Firsts == {0, 7, Largest(Word) - 1}

Curve(type, first) == [curve_type |-> type, parameters |-> Filled(CalculatorPacked(type), first)]

SomeValues ==
  [kind \in Kinds |->
     IF kind = "Initialize"
       THEN {[fees |-> Filled(FeesPacked, first), swap_curve |-> Curve(CurveTypes[i], first)] :
               first \in Firsts, i \in DOMAIN CurveTypes}
       ELSE {Filled(PackedFields(kind), first) : first \in Firsts}]
=============================================================================
