----------------------------- MODULE PowerLoop ------------------------------
(***************************************************************************)
(* The loop of _rpow (program/src/curve/redemption_rate.rs), a pass at a   *)
(* time.  The exponent is the number of seconds since the rate was set, so *)
(* the longer a pool is left alone the more passes every trade needs.      *)
(*                                                                         *)
(* Each pass squares x and halves n.  A square or a product that does not  *)
(* fit ends the loop with None (NoRate).                                   *)
(***************************************************************************)
EXTENDS Compounding

CONSTANTS
  Bases, Exponents,   \* what _rpow is called with
  Pending,            \* there is no answer yet
  MaxExact            \* bound: the largest exponent of an exact power

ASSUME PowerLoopAssumption ==
  /\ RAY <= U256_MAX
  /\ Bases \subseteq 0 .. U256_MAX /\ Exponents \subseteq Nat
  /\ MaxExact \in Nat
  /\ Pending \notin Nat \cup {NoRate}

VARIABLES
  base, exponent,   \* the parameters x and n
  running,          \* the loop has been reached
  x, n, z,          \* the loop's own x, n and z
  answer            \* what the function returned

loopVars == <<base, exponent, running, x, n, z, answer>>

LoopTypeOK ==
  /\ base \in Bases /\ exponent \in Exponents
  /\ running \in BOOLEAN
  /\ x \in 0 .. U256_MAX /\ z \in 0 .. U256_MAX /\ n \in 0 .. exponent
  /\ answer \in 0 .. U256_MAX \cup {NoRate, Pending}

LoopInit ==
  /\ base \in Bases /\ exponent \in Exponents
  /\ running = FALSE
  /\ x = base /\ n = exponent /\ z = RAY
  /\ answer = Pending

\* Mutant: nothing to the power of nothing is nothing.
BeginNothing ==
  /\ ~running /\ answer = Pending
  /\ IF base = 0
       THEN answer' = 0 /\ UNCHANGED <<running, n, z>>
       ELSE /\ running' = TRUE
            /\ z' = IF exponent % 2 = 0 THEN RAY ELSE base
            /\ n' = exponent \div 2
            /\ UNCHANGED answer
  /\ UNCHANGED <<base, exponent, x>>

\* Before the loop: nothing to do for a base of 0, an odd exponent taken at once.
Begin ==
  /\ ~running /\ answer = Pending
  /\ IF base = 0
       THEN /\ answer' = IF exponent = 0 THEN RAY ELSE 0
            /\ UNCHANGED <<running, n, z>>
       ELSE /\ running' = TRUE
            /\ z' = IF exponent % 2 = 0 THEN RAY ELSE base
            /\ n' = exponent \div 2
            /\ UNCHANGED answer
  /\ UNCHANGED <<base, exponent, x>>

\* Mutant: half of an odd number is rounded up.
HalvedUp(k) == (k + 1) \div 2

\* The bits still to do after a pass.
Halved(k) == k \div 2

\* Mutant: the product is taken with x as it was before it was squared.
ProductBeforeSquare(square) == IF n % 2 = 1 THEN RayMul(z, x) ELSE z

Product(square) == IF n % 2 = 1 THEN RayMul(z, square) ELSE z

\* Mutant: the next square is computed ahead, also when no bit needs it.
PassSquaringAhead ==
  LET square == RayMul(x, x)
  IN  /\ running /\ answer = Pending /\ n > 0
      /\ IF square = NoRate \/ Product(square) = NoRate \/ RayMul(square, square) = NoRate
           THEN answer' = NoRate /\ UNCHANGED <<x, n, z>>
           ELSE /\ x' = square
                /\ z' = Product(square)
                /\ n' = Halved(n)
                /\ UNCHANGED answer
      /\ UNCHANGED <<base, exponent, running>>

Pass ==
  LET square == RayMul(x, x)
  IN  /\ running /\ answer = Pending /\ n > 0
      /\ IF square = NoRate \/ Product(square) = NoRate
           THEN answer' = NoRate /\ UNCHANGED <<x, n, z>>
           ELSE /\ x' = square
                /\ z' = Product(square)
                /\ n' = Halved(n)
                /\ UNCHANGED answer
      /\ UNCHANGED <<base, exponent, running>>

Return ==
  /\ running /\ answer = Pending /\ n = 0
  /\ answer' = z
  /\ UNCHANGED <<base, exponent, running, x, n, z>>

LoopNext == Begin \/ Pass \/ Return

\* One thread that goes on while there is something to do.
LoopSpec == LoopInit /\ [][LoopNext]_loopVars /\ WF_loopVars(LoopNext)

-----------------------------------------------------------------------------
(* Properties. *)

(***************************************************************************)
(* A rate is quoted, or refused, however long ago it was set.              *)
(***************************************************************************)
Terminates == <>(answer # Pending)

(***************************************************************************)
(* The loop answers once, and with the power that module RedemptionRate    *)
(* quotes rates with.                                                      *)
(***************************************************************************)
Quote == INSTANCE Power
ImplementsPower == Quote!Spec

(***************************************************************************)
(* A rate that does not shrink is off from the exact power by no more than *)
(* the roundings of the exponent - 1 multiplications, each half a unit in  *)
(* at least RAY: half up at every pass does not add up to more.  Exact     *)
(* powers are taken of exponents up to MaxExact only.                      *)
(***************************************************************************)
Exactly == Raised[exponent][base]
Scale   == Raised[exponent - 1][RAY * 2 * RAY]
AtMost  == Exactly * Raised[exponent - 1][2 * RAY + 1]
AtLeast == Exactly * Raised[exponent - 1][2 * RAY - 1]

Comparable == base >= RAY /\ exponent \in 1 .. MaxExact

Accurate ==
  Comparable /\ answer \in Nat => /\ answer * Scale <= AtMost
                                 /\ answer * Scale >= AtLeast

(***************************************************************************)
(* None is no accident of the order of the multiplications: the power      *)
(* itself, in the double precision of a product, has outgrown the bits.    *)
(***************************************************************************)
RefusedOnlyIfTooLarge ==
  Comparable /\ answer = NoRate => AtMost * RAY + (RAY \div 2) * Scale > U256_MAX * Scale

(***************************************************************************)
(* Whether it answers or refuses, the loop is right: in the bits it has,   *)
(* within its roundings, and only for want of room.                        *)
(***************************************************************************)
AnswerIsSound == LoopTypeOK /\ Accurate /\ RefusedOnlyIfTooLarge
=============================================================================
