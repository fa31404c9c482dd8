---------------------------- MODULE BytesProofs ----------------------------
(***************************************************************************)
(* For every width of the bytes, of the numbers and of the messages: what  *)
(* is packed is read back as what it was, by the program's readers and by  *)
(* the clients', and is never taken for anything else; and a message says  *)
(* to its handler what its client meant by it, or is refused.              *)
(*                                                                         *)
(* First what the operators of Bytes compute, from digits to layouts;      *)
(* then the accounts (AccountData), then the messages (Wire).              *)
(***************************************************************************)
EXTENDS AccountData, Wire, SequenceTheorems, WellFoundedInduction, TLAPS

-----------------------------------------------------------------------------
(* Induction and recursion over the natural numbers. *)

\* What holds of 0 and goes on holds of every number.
LEMMA GoesOn ==
  ASSUME NEW Good \in SUBSET Nat, 0 \in Good, \A k \in Good : k + 1 \in Good
  PROVE  Good = Nat
<1> DEFINE R == OpToRel(<, Nat)
           Failing == Nat \ Good
<1>1. SUFFICES ASSUME Failing # {} PROVE FALSE
  OBVIOUS
<1>2. IsWellFoundedOn(R, Nat)
  BY NatLessThanWellFounded
<1>3. \A k, m \in Nat : k < m => <<k, m>> \in R
  BY DEF OpToRel
<1> HIDE DEF R
<1>4. PICK m \in Failing : \A k \in Failing : ~ (<<k, m>> \in R)
  BY <1>1, <1>2, WFMin
<1>5. m \in Nat /\ m # 0 /\ m - 1 \in Nat /\ m - 1 < m /\ (m - 1) + 1 = m
  BY <1>4, SMT
<1>6. m - 1 \notin Failing
  BY <1>3, <1>4, <1>5
<1>7. QED
  BY <1>4, <1>5, <1>6

\* f obeys base and step as far as N.
Follows(f, N, V, base, step) ==
  /\ f \in [0 .. N -> V]
  /\ f[0] = base
  /\ \A k \in 0 .. N : k # N => f[k + 1] = step[<<k, f[k]>>]

\* There is one up to every number.
LEMMA SomeFollow ==
  ASSUME NEW V, NEW base \in V, NEW step \in [Nat \X V -> V]
  PROVE  \A N \in Nat : \E f : Follows(f, N, V, base, step)
<1> DEFINE Good == {N \in Nat : \E f : Follows(f, N, V, base, step)}
<1>1. 0 \in Good
  <2> DEFINE f == [k \in 0 .. 0 |-> base]
  <2>1. 0 \in 0 .. 0 /\ \A k \in 0 .. 0 : k = 0
    BY SMT
  <2>2. Follows(f, 0, V, base, step)
    BY <2>1 DEF Follows
  <2>3. QED
    BY <2>2
<1>2. ASSUME NEW N \in Good PROVE N + 1 \in Good
  <2>1. PICK g : Follows(g, N, V, base, step)
    OBVIOUS
  <2>2. N \in Nat
    OBVIOUS
  <2> DEFINE next == step[<<N, g[N]>>]
             f == [k \in 0 .. N + 1 |-> IF k = N + 1 THEN next ELSE g[k]]
  <2>3. N \in 0 .. N /\ 0 \in 0 .. N /\ 0 \in 0 .. (N + 1) /\ 0 # N + 1 /\ N + 1 \in Nat
    BY <2>2, SMT
  <2>4. \A k \in 0 .. N + 1 : /\ k \in Nat
                              /\ k # N + 1 => k \in 0 .. N /\ k + 1 \in 0 .. N + 1
                              /\ k # N + 1 /\ k # N => k + 1 # N + 1
    BY <2>2, SMT
  <2>5. g[N] \in V
    BY <2>1, <2>3 DEF Follows
  <2>6. next \in V
    BY <2>2, <2>5
  <2> HIDE DEF next
  <2>7. f \in [0 .. N + 1 -> V]
    BY <2>1, <2>4, <2>6 DEF Follows
  <2>8. f[0] = base
    BY <2>1, <2>3 DEF Follows
  <2>9. ASSUME NEW k \in 0 .. N + 1, k # N + 1
        PROVE  f[k + 1] = step[<<k, f[k]>>]
    <3>1. k \in 0 .. N /\ k + 1 \in 0 .. N + 1 /\ f[k] = g[k]
      BY <2>4, <2>9
    <3>2. CASE k = N
      BY <3>1, <3>2 DEF next
    <3>3. CASE k # N
      <4>1. f[k + 1] = g[k + 1]
        BY <2>4, <2>9, <3>1, <3>3
      <4>2. QED
        BY <2>1, <3>1, <3>3, <4>1 DEF Follows
    <3>4. QED
      BY <3>2, <3>3
  <2> HIDE DEF f
  <2>10. Follows(f, N + 1, V, base, step)
    BY <2>7, <2>8, <2>9 DEF Follows
  <2>11. QED
    BY <2>3, <2>10
<1> HIDE DEF Good
<1>3. Good = Nat
  <2>1. Good \in SUBSET Nat
    BY DEF Good
  <2>2. QED
    BY <1>1, <1>2, <2>1, GoesOn
<1>4. QED
  BY <1>3 DEF Good

\* Two of them agree as far as both go.
LEMMA FollowersAgree ==
  ASSUME NEW V, NEW base \in V, NEW step \in [Nat \X V -> V], NEW M \in Nat, NEW N \in Nat, M <= N,
         NEW f, NEW g, Follows(f, M, V, base, step), Follows(g, N, V, base, step)
  PROVE  f[M] = g[M]
<1> DEFINE Good == {k \in Nat : k <= M => f[k] = g[k]}
<1>1. 0 \in Good
  BY DEF Follows
<1>2. ASSUME NEW k \in Good PROVE k + 1 \in Good
  <2>1. k \in Nat /\ k + 1 \in Nat
    OBVIOUS
  <2>2. SUFFICES ASSUME k + 1 <= M PROVE f[k + 1] = g[k + 1]
    BY <2>1
  <2>3. k <= M /\ k \in 0 .. M /\ k \in 0 .. N /\ k # M /\ k # N
    BY <2>1, <2>2, SMT
  <2>4. f[k] = g[k]
    BY <2>3
  <2>5. QED
    BY <2>3, <2>4 DEF Follows
<1> HIDE DEF Good
<1>3. Good = Nat
  <2>1. Good \in SUBSET Nat
    BY DEF Good
  <2>2. QED
    BY <1>1, <1>2, <2>1, GoesOn
<1>4. QED
  BY <1>3 DEF Good

\* f is given by its first value and its steps.
Obeys(f, V, base, step) ==
  /\ f \in [Nat -> V]
  /\ f[0] = base
  /\ \A k \in Nat : f[k + 1] = step[<<k, f[k]>>]

\* A recursive function over the numbers is what its equations say.
LEMMA Recursion ==
  ASSUME NEW V, NEW base \in V, NEW step \in [Nat \X V -> V]
  PROVE  \E f : Obeys(f, V, base, step)
<1> DEFINE upTo(N) == CHOOSE f : Follows(f, N, V, base, step)
           f == [k \in Nat |-> upTo(k)[k]]
<1>1. \A N \in Nat : Follows(upTo(N), N, V, base, step)
  BY SomeFollow
<1> HIDE DEF upTo
<1>2. \A k \in Nat : k \in 0 .. k /\ k + 1 \in Nat /\ k <= k + 1 /\ k \in 0 .. k + 1 /\ k # k + 1
                     /\ 0 \in Nat
  BY SMT
<1>3. f \in [Nat -> V]
  <2>1. ASSUME NEW k \in Nat PROVE upTo(k)[k] \in V
    BY <1>1, <1>2 DEF Follows
  <2>2. QED
    BY <2>1
<1>4. f[0] = base
  BY <1>1, <1>2 DEF Follows
<1>5. ASSUME NEW k \in Nat PROVE f[k + 1] = step[<<k, f[k]>>]
  <2>1. f[k + 1] = upTo(k + 1)[k + 1] /\ f[k] = upTo(k)[k]
    BY <1>2
  <2>2. Follows(upTo(k), k, V, base, step) /\ Follows(upTo(k + 1), k + 1, V, base, step)
    BY <1>1, <1>2
  <2>3. upTo(k)[k] = upTo(k + 1)[k]
    <3> DEFINE g == upTo(k)
               h == upTo(k + 1)
    <3> HIDE DEF g, h
    <3>1. /\ Follows(g, k, V, base, step)
          /\ Follows(h, k + 1, V, base, step)
      BY <2>2 DEF g, h
    <3>2. k \in Nat /\ k + 1 \in Nat /\ k <= k + 1
      BY <1>2
    <3> DEFINE m == k + 1
    <3> HIDE DEF m, f
    <3>3. Follows(h, m, V, base, step) /\ m \in Nat /\ k <= m
      BY <3>1, <3>2 DEF m
    <3>4. g[k] = h[k]
      BY <3>1, <3>3, FollowersAgree
    <3>5. QED
      BY <3>4 DEF g, h
  <2>4. upTo(k + 1)[k + 1] = step[<<k, upTo(k + 1)[k]>>]
    BY <1>2, <2>2 DEF Follows
  <2>5. QED
    BY <2>1, <2>3, <2>4
<1> HIDE DEF f
<1>6. QED
  BY <1>3, <1>4, <1>5 DEF Obeys

-----------------------------------------------------------------------------
(* Sums and powers. *)

\* The sums are what their recursion says.
LEMMA SumsSteps ==
  ASSUME NEW numbers \in Seq(Nat)
  PROVE  /\ Sums(numbers)[0] = 0
         /\ \A i \in 1 .. Len(numbers) : Sums(numbers)[i] = Sums(numbers)[i - 1] + numbers[i]
<1> DEFINE L == Len(numbers)
           step == [p \in Nat \X Nat |-> p[2] + (IF p[1] < L THEN numbers[p[1] + 1] ELSE 0)]
<1>1. L \in Nat /\ \A i \in 1 .. L : numbers[i] \in Nat
  OBVIOUS
<1> HIDE DEF L
<1>2. step \in [Nat \X Nat -> Nat]
  <2>1. ASSUME NEW k \in Nat, NEW v \in Nat
        PROVE  v + (IF k < L THEN numbers[k + 1] ELSE 0) \in Nat
    <3>1. k < L => k + 1 \in 1 .. L
      BY <1>1, SMT
    <3>2. (IF k < L THEN numbers[k + 1] ELSE 0) \in Nat
      BY <1>1, <3>1
    <3> DEFINE w == IF k < L THEN numbers[k + 1] ELSE 0
    <3> HIDE DEF w
    <3>3. v + w \in Nat
      BY <3>2, SMT DEF w
    <3>4. QED
      BY <3>3 DEF w
  <2>2. QED
    BY <2>1
<1>3. \A k, v \in Nat : k < L => step[<<k, v>>] = v + numbers[k + 1]
  OBVIOUS
<1> HIDE DEF step
<1>4. PICK f \in [Nat -> Nat] : f[0] = 0 /\ \A k \in Nat : f[k + 1] = step[<<k, f[k]>>]
  <2>1. \E f : Obeys(f, Nat, 0, step)
    BY <1>2, Recursion
  <2>2. QED
    BY <2>1 DEF Obeys
<1> DEFINE g == [i \in 0 .. L |-> f[i]]
           Totals(sum) == sum = [i \in 0 .. L |-> IF i = 0 THEN 0 ELSE sum[i - 1] + numbers[i]]
<1>5. ASSUME NEW i \in 0 .. L PROVE g[i] = IF i = 0 THEN 0 ELSE g[i - 1] + numbers[i]
  <2>1. CASE i = 0
    BY <1>4, <2>1
  <2>2. CASE i # 0
    <3>1. i - 1 \in Nat /\ i - 1 < L /\ (i - 1) + 1 = i /\ i - 1 \in 0 .. L
      BY <1>1, <2>2, SMT
    <3>2. f[i] = step[<<i - 1, f[i - 1]>>] /\ f[i - 1] \in Nat
      BY <1>4, <3>1
    <3>3. f[i] = f[i - 1] + numbers[i]
      BY <1>3, <3>1, <3>2
    <3>4. QED
      BY <2>2, <3>1, <3>3
  <2>3. QED
    BY <2>1, <2>2
<1>6. Totals(g)
  <2>1. g = [i \in 0 .. L |-> g[i]]
    OBVIOUS
  <2> HIDE DEF g
  <2>2. [i \in 0 .. L |-> g[i]] = [i \in 0 .. L |-> IF i = 0 THEN 0 ELSE g[i - 1] + numbers[i]]
    BY <1>5
  <2>3. QED
    BY <2>1, <2>2, Zenon
<1> HIDE DEF g
<1>7. Sums(numbers) = CHOOSE sum : Totals(sum)
  BY Zenon DEF Sums, L
<1>8. Totals(Sums(numbers))
  BY <1>6, <1>7, Zenon
<1>9. 0 \in 0 .. L /\ \A i \in 1 .. L : i \in 0 .. L /\ i # 0
  BY <1>1, SMT
<1>10. \A i \in 0 .. L : Sums(numbers)[i] = IF i = 0 THEN 0 ELSE Sums(numbers)[i - 1] + numbers[i]
  BY <1>8
<1>11. QED
  BY <1>9, <1>10 DEF L

\* Sums of numbers are numbers.
LEMMA SumsType ==
  ASSUME NEW numbers \in Seq(Nat)
  PROVE  /\ \A i \in 0 .. Len(numbers) : Sums(numbers)[i] \in Nat
         /\ \A i \in 1 .. Len(numbers) : /\ i - 1 \in 0 .. Len(numbers)
                                         /\ Sums(numbers)[i] = Sums(numbers)[i - 1] + numbers[i]
<1> DEFINE L == Len(numbers)
           Good == {i \in Nat : i <= L => Sums(numbers)[i] \in Nat}
<1>1. L \in Nat /\ \A i \in 1 .. L : numbers[i] \in Nat /\ i - 1 \in 0 .. L
  OBVIOUS
<1>2. 0 \in Good
  BY SumsSteps
<1>3. ASSUME NEW i \in Good PROVE i + 1 \in Good
  <2>1. i \in Nat /\ i + 1 \in Nat /\ (i + 1) - 1 = i
    BY SMT
  <2>2. SUFFICES ASSUME i + 1 <= L PROVE Sums(numbers)[i + 1] \in Nat
    BY <2>1
  <2>3. i + 1 \in 1 .. L /\ i <= L
    BY <1>1, <2>1, <2>2, SMT
  <2>4. Sums(numbers)[i + 1] = Sums(numbers)[i] + numbers[i + 1]
    BY <2>1, <2>3, SumsSteps
  <2>5. Sums(numbers)[i] \in Nat /\ numbers[i + 1] \in Nat
    BY <1>1, <2>3
  <2>6. QED
    BY <2>4, <2>5, SMT
<1> HIDE DEF Good
<1>4. Good = Nat
  <2>1. Good \in SUBSET Nat
    BY DEF Good
  <2>2. QED
    BY <1>2, <1>3, <2>1, GoesOn
<1>5. \A i \in 0 .. L : i \in Good /\ i <= L
  BY <1>1, <1>4, SMT
<1>6. QED
  BY <1>1, <1>5, SumsSteps DEF Good

\* They never become less.
LEMMA SumsGrow ==
  ASSUME NEW numbers \in Seq(Nat), NEW i \in 0 .. Len(numbers)
  PROVE  \A j \in 0 .. Len(numbers) : i <= j => Sums(numbers)[i] <= Sums(numbers)[j]
<1> DEFINE L == Len(numbers)
           Good == {k \in Nat : i + k <= L => Sums(numbers)[i] <= Sums(numbers)[i + k]}
<1>1. L \in Nat /\ i \in Nat /\ \A k \in 1 .. L : numbers[k] \in Nat
  BY SMT
<1>2. 0 \in Good
  <2>1. i + 0 = i /\ Sums(numbers)[i] \in Nat
    BY <1>1, SumsType, SMT
  <2>2. QED
    BY <2>1, SMT
<1>3. ASSUME NEW k \in Good PROVE k + 1 \in Good
  <2>1. k \in Nat /\ k + 1 \in Nat /\ i + (k + 1) = (i + k) + 1
    BY <1>1, SMT
  <2>2. SUFFICES ASSUME (i + k) + 1 <= L PROVE Sums(numbers)[i] <= Sums(numbers)[(i + k) + 1]
    BY <2>1
  <2> DEFINE m == i + k
  <2>3. m + 1 \in 1 .. L /\ (m + 1) - 1 = m /\ m <= L /\ m \in 0 .. L
    BY <1>1, <2>1, <2>2, SMT
  <2>4. Sums(numbers)[i] <= Sums(numbers)[m]
    BY <2>3
  <2> HIDE DEF m
  <2>5. Sums(numbers)[m + 1] = Sums(numbers)[m] + numbers[m + 1]
    BY <2>3, SumsSteps
  <2>6. Sums(numbers)[m] \in Nat /\ numbers[m + 1] \in Nat /\ Sums(numbers)[i] \in Nat
    BY <1>1, <2>3, SumsType
  <2>7. Sums(numbers)[i] <= Sums(numbers)[m + 1]
    BY <2>4, <2>5, <2>6, SMT
  <2>8. QED
    BY <2>7 DEF m
<1> HIDE DEF Good
<1>4. Good = Nat
  <2>1. Good \in SUBSET Nat
    BY DEF Good
  <2>2. QED
    BY <1>2, <1>3, <2>1, GoesOn
<1>5. ASSUME NEW j \in 0 .. L, i <= j PROVE Sums(numbers)[i] <= Sums(numbers)[j]
  <2>1. j - i \in Nat /\ i + (j - i) = j /\ j <= L
    BY <1>1, <1>5, SMT
  <2>2. j - i \in Good
    BY <1>4, <2>1
  <2>3. QED
    BY <2>1, <2>2 DEF Good
<1>6. QED
  BY <1>5

\* The base is one more than the largest byte.
LEMMA BaseType == Base \in Nat /\ Base >= 2 /\ Byte \in Nat /\ Word \in Nat \ {0} /\ Base = Byte + 1
BY BytesAssumption, SMT DEF Base

\* The places are the powers of the base.
LEMMA PlacesSteps ==
  /\ Places[0] = 1
  /\ \A k \in Nat : Places[k + 1] = Base * Places[k] /\ Places[k] \in Nat
<1> DEFINE step == [p \in Nat \X Nat |-> Base * p[2]]
           Powers(f) == f = [i \in Nat |-> IF i = 0 THEN 1 ELSE Base * f[i - 1]]
<1>1. step \in [Nat \X Nat -> Nat]
  <2>1. \A v \in Nat : Base * v \in Nat
    BY BaseType, SMT
  <2>2. QED
    BY <2>1
<1>2. \A k, v \in Nat : step[<<k, v>>] = Base * v
  OBVIOUS
<1> HIDE DEF step
<1>3. PICK f \in [Nat -> Nat] : f[0] = 1 /\ \A k \in Nat : f[k + 1] = step[<<k, f[k]>>]
  <2>1. \E f : Obeys(f, Nat, 1, step)
    BY <1>1, Recursion
  <2>2. QED
    BY <2>1 DEF Obeys
<1>4. ASSUME NEW i \in Nat PROVE f[i] = IF i = 0 THEN 1 ELSE Base * f[i - 1]
  <2>1. CASE i = 0
    BY <1>3, <2>1
  <2>2. CASE i # 0
    <3>1. i - 1 \in Nat /\ (i - 1) + 1 = i
      BY <2>2, SMT
    <3>2. f[i] = step[<<i - 1, f[i - 1]>>] /\ f[i - 1] \in Nat
      BY <1>3, <3>1
    <3>3. QED
      BY <1>2, <2>2, <3>1, <3>2
  <2>3. QED
    BY <2>1, <2>2
<1>5. Powers(f)
  <2>1. f = [i \in Nat |-> f[i]]
    OBVIOUS
  <2>2. [i \in Nat |-> f[i]] = [i \in Nat |-> IF i = 0 THEN 1 ELSE Base * f[i - 1]]
    BY <1>4
  <2>3. QED
    BY <2>1, <2>2, Zenon
<1>6. Places = CHOOSE g : Powers(g)
  BY Zenon DEF Places
<1>7. Powers(Places)
  BY <1>5, <1>6, Zenon
<1>8. \A i \in Nat : Places[i] = IF i = 0 THEN 1 ELSE Base * Places[i - 1]
  BY <1>7
<1>9. \A k \in Nat : Places[k + 1] = Base * Places[k]
  <2>1. \A k \in Nat : k + 1 \in Nat /\ k + 1 # 0 /\ (k + 1) - 1 = k
    BY SMT
  <2>2. QED
    BY <1>8, <2>1
<1> DEFINE Good == {k \in Nat : Places[k] \in Nat}
<1>10. 0 \in Good
  BY <1>8
<1>11. ASSUME NEW k \in Good PROVE k + 1 \in Good
  <2> DEFINE p == Places[k]
  <2>1. p \in Nat /\ Places[k + 1] = Base * p
    BY <1>9
  <2> HIDE DEF p
  <2>2. Base * p \in Nat /\ k + 1 \in Nat
    BY <2>1, BaseType, SMT
  <2>3. QED
    BY <2>1, <2>2
<1> HIDE DEF Good
<1>12. Good = Nat
  <2>1. Good \in SUBSET Nat
    BY DEF Good
  <2>2. QED
    BY <1>10, <1>11, <2>1, GoesOn
<1>13. QED
  BY <1>8, <1>9, <1>12 DEF Good

-----------------------------------------------------------------------------
(* Sequences that are put one behind the other. *)

\* One sequence behind another, index by index.
LEMMA TwoParts ==
  ASSUME NEW S, NEW a \in Seq(S), NEW b \in Seq(S)
  PROVE  /\ a \o b \in Seq(S) /\ Len(a) \in Nat /\ Len(b) \in Nat
         /\ Len(a \o b) = Len(a) + Len(b)
         /\ \A i \in 1 .. Len(a) : (a \o b)[i] = a[i]
         /\ \A i \in 1 .. Len(b) : (a \o b)[Len(a) + i] = b[i]
         /\ a \o << >> = a /\ << >> \o a = a
OBVIOUS

\* f holds what is joined after every part.
Joins(f, S, parts) ==
  /\ f[0] = << >>
  /\ \A i \in 0 .. Len(parts) : f[i] \in Seq(S)
  /\ \A i \in 1 .. Len(parts) : f[i] = f[i - 1] \o parts[i]
  /\ FlattenSeq(parts) = f[Len(parts)]

\* There is a function that joins the parts one by one.
LEMMA SomeJoins ==
  ASSUME NEW S, NEW parts \in Seq(Seq(S))
  PROVE  \E f : Joins(f, S, parts)
<1> DEFINE L == Len(parts)
           V == Seq(S)
           step == [p \in Nat \X V |-> IF p[1] < L THEN p[2] \o parts[p[1] + 1] ELSE p[2]]
<1>1. L \in Nat /\ \A i \in 1 .. L : parts[i] \in V
  OBVIOUS
<1>2. \A s, t \in V : s \o t \in V
  OBVIOUS
<1>3. << >> \in V
  OBVIOUS
<1>4. \A k \in Nat : k < L => k + 1 \in 1 .. L
  BY <1>1, SMT
<1>5. \A s \in V : << >> \o s = s
  OBVIOUS
<1> HIDE DEF V, L
<1>6. step \in [Nat \X V -> V]
  <2>1. \A k \in Nat, v \in V : (IF k < L THEN v \o parts[k + 1] ELSE v) \in V
    BY <1>1, <1>2, <1>4
  <2>2. QED
    BY <2>1
<1>7. \A k \in Nat, v \in V : k < L => step[<<k, v>>] = v \o parts[k + 1]
  OBVIOUS
<1> HIDE DEF step
<1>8. PICK f : Obeys(f, V, << >>, step)
  BY <1>3, <1>6, Recursion
<1>9. f[0] = << >> /\ \A k \in Nat : f[k] \in V
  BY <1>8 DEF Obeys
<1>10. ASSUME NEW i \in 1 .. L PROVE f[i] = f[i - 1] \o parts[i]
  <2>1. i - 1 \in Nat /\ i - 1 < L /\ (i - 1) + 1 = i
    BY <1>1, SMT
  <2>2. f[i] = step[<<i - 1, f[i - 1]>>] /\ f[i - 1] \in V
    BY <1>8, <1>9, <2>1 DEF Obeys
  <2>3. QED
    BY <1>7, <2>1, <2>2
<1>11. FlattenSeq(parts) = f[L]
  <2>1. CASE L = 0
    <3>1. FlattenSeq(parts) = parts
      BY <2>1 DEF FlattenSeq, L
    <3>2. parts = << >>
      BY <2>1 DEF L
    <3>3. QED
      BY <1>9, <2>1, <3>1, <3>2
  <2>2. CASE L # 0
    <3> DEFINE Flat(g) == g = [i \in 1 .. L |-> IF i = 1 THEN parts[i] ELSE g[i - 1] \o parts[i]]
               h == [i \in 1 .. L |-> f[i]]
    <3>1. ASSUME NEW i \in 1 .. L PROVE h[i] = IF i = 1 THEN parts[i] ELSE h[i - 1] \o parts[i]
      <4>1. h[i] = f[i - 1] \o parts[i]
        BY <1>10
      <4>2. CASE i = 1
        <5>1. f[i - 1] = << >> /\ parts[i] \in V
          BY <1>1, <1>9, <4>2
        <5>2. QED
          BY <1>5, <4>1, <4>2, <5>1
      <4>3. CASE i # 1
        <5>1. i - 1 \in 1 .. L
          BY <1>1, <4>3, SMT
        <5>2. QED
          BY <4>1, <4>3, <5>1
      <4>4. QED
        BY <4>2, <4>3
    <3>2. Flat(h)
      <4>1. h = [i \in 1 .. L |-> h[i]]
        OBVIOUS
      <4> HIDE DEF h
      <4>2. [i \in 1 .. L |-> h[i]] = [i \in 1 .. L |-> IF i = 1 THEN parts[i] ELSE h[i - 1] \o parts[i]]
        BY <3>1
      <4>3. QED
        BY <4>1, <4>2, Zenon
    <3> HIDE DEF h
    <3> DEFINE flat == CHOOSE g : Flat(g)
    <3>3. FlattenSeq(parts) = flat[L]
      BY <2>2, Zenon DEF FlattenSeq, L
    <3>4. Flat(flat)
      BY <3>2, Zenon
    <3> HIDE DEF flat
    <3> DEFINE Good == {k \in Nat : k <= L /\ k # 0 => flat[k] = f[k]}
    <3>5. 0 \in Good
      OBVIOUS
    <3>6. ASSUME NEW k \in Good PROVE k + 1 \in Good
      <4>1. k \in Nat /\ k + 1 \in Nat /\ (k + 1) - 1 = k
        BY SMT
      <4>2. SUFFICES ASSUME k + 1 <= L PROVE flat[k + 1] = f[k + 1]
        BY <4>1
      <4>3. k + 1 \in 1 .. L /\ k <= L
        BY <1>1, <4>1, <4>2, SMT
      <4>4. flat[k + 1] = IF k + 1 = 1 THEN parts[k + 1] ELSE flat[k] \o parts[k + 1]
        BY <3>4, <4>1, <4>3
      <4>5. f[k + 1] = f[k] \o parts[k + 1] /\ parts[k + 1] \in V
        BY <1>1, <1>10, <4>1, <4>3
      <4>6. CASE k = 0
        <5>1. flat[k + 1] = parts[k + 1]
          BY <4>4, <4>6
        <5>2. f[k] = << >>
          BY <1>9, <4>6
        <5>3. QED
          BY <1>5, <4>5, <5>1, <5>2
      <4>7. CASE k # 0
        <5>1. k + 1 # 1
          BY <4>1, <4>7, SMT
        <5>2. flat[k] = f[k]
          BY <4>3, <4>7
        <5>3. QED
          BY <4>4, <4>5, <5>1, <5>2, Zenon
      <4>8. QED
        BY <4>6, <4>7
    <3> HIDE DEF Good
    <3>7. Good = Nat
      <4>1. Good \in SUBSET Nat
        BY DEF Good
      <4>2. QED
        BY <3>5, <3>6, <4>1, GoesOn
    <3>8. L \in Good
      BY <1>1, <3>7
    <3>9. flat[L] = f[L]
      BY <1>1, <2>2, <3>8 DEF Good
    <3>10. QED
      BY <3>3, <3>9
  <2>3. QED
    BY <2>1, <2>2
<1>12. \A i \in 0 .. L : f[i] \in V
  BY <1>1, <1>9
<1>13. Joins(f, S, parts)
  BY <1>9, <1>10, <1>11, <1>12 DEF Joins, L, V
<1>14. QED
  BY <1>13

Lengths(parts) == [i \in 1 .. Len(parts) |-> Len(parts[i])]

\* What is joined is as long as its parts together, and holds each where those
\* before it end.
LEMMA FlattenParts ==
  ASSUME NEW S, NEW parts \in Seq(Seq(S))
  PROVE  /\ FlattenSeq(parts) \in Seq(S)
         /\ Lengths(parts) \in Seq(Nat) /\ Len(Lengths(parts)) = Len(parts)
         /\ Len(FlattenSeq(parts)) = Sums(Lengths(parts))[Len(parts)]
         /\ \A i \in 1 .. Len(parts) : \A j \in 1 .. Len(parts[i]) :
              FlattenSeq(parts)[Sums(Lengths(parts))[i - 1] + j] = parts[i][j]
<1> DEFINE L == Len(parts)
           lens == Lengths(parts)
           sum == Sums(lens)
<1>1. L \in Nat /\ \A i \in 1 .. L : parts[i] \in Seq(S) /\ Len(parts[i]) \in Nat
  OBVIOUS
<1>2. lens \in Seq(Nat) /\ Len(lens) = L /\ \A i \in 1 .. L : lens[i] = Len(parts[i])
  BY <1>1 DEF Lengths
<1>3. /\ sum[0] = 0
      /\ \A i \in 1 .. L : sum[i] = sum[i - 1] + lens[i]
      /\ \A i \in 0 .. L : sum[i] \in Nat
  BY <1>2, SumsSteps, SumsType
<1>4. PICK f : Joins(f, S, parts)
  BY SomeJoins
<1>5. /\ f[0] = << >>
      /\ \A i \in 0 .. L : f[i] \in Seq(S)
      /\ \A i \in 1 .. L : f[i] = f[i - 1] \o parts[i]
      /\ FlattenSeq(parts) = f[L]
  BY <1>4 DEF Joins
<1> DEFINE Right(k) == /\ Len(f[k]) = sum[k]
                       /\ \A i \in 1 .. k : \A j \in 1 .. Len(parts[i]) : f[k][sum[i - 1] + j] = parts[i][j]
           Good == {k \in Nat : k <= L => Right(k)}
<1> HIDE DEF L, lens, sum
<1>6. 0 \in Good
  BY <1>3, <1>5
<1>7. ASSUME NEW k \in Good PROVE k + 1 \in Good
  <2>1. k \in Nat /\ k + 1 \in Nat /\ (k + 1) - 1 = k
    BY SMT
  <2>2. SUFFICES ASSUME k + 1 <= L PROVE Right(k + 1)
    BY <2>1
  <2>3. k + 1 \in 1 .. L /\ k <= L /\ k \in 0 .. L /\ k + 1 \in 0 .. L
    BY <1>1, <2>1, <2>2, SMT
  <2>4. Right(k)
    BY <2>3
  <2> HIDE DEF Good
  <2> DEFINE before == f[k]
             part == parts[k + 1]
             after == f[k + 1]
             s == sum[k]
  <2>5. /\ before \in Seq(S) /\ part \in Seq(S) /\ after = before \o part
        /\ Len(before) = s /\ s \in Nat /\ sum[k + 1] = s + Len(part)
    BY <1>1, <1>2, <1>3, <1>5, <2>1, <2>3, <2>4
  <2>6. Len(after) = s + Len(part)
    <3>1. before \in Seq(S) /\ part \in Seq(S) /\ after = before \o part /\ Len(before) = s
      BY <2>5
    <3> HIDE DEF before, part, after, s
    <3>2. Len(before \o part) = Len(before) + Len(part)
      BY <3>1, TwoParts
    <3>3. QED
      BY <3>1, <3>2
  <2>7. ASSUME NEW i \in 1 .. k + 1, NEW j \in 1 .. Len(parts[i])
        PROVE  after[sum[i - 1] + j] = parts[i][j]
    <3>1. CASE i = k + 1
      <4>1. i - 1 = k /\ j \in 1 .. Len(part)
        BY <2>1, <3>1
      <4>2. after[s + j] = part[j]
        <5>1. j \in 1 .. Len(part)
          BY <4>1
        <5> HIDE DEF before, part, after, s
        <5>2. QED
          BY <2>5, <5>1
      <4>3. QED
        BY <3>1, <4>1, <4>2
    <3>2. CASE i # k + 1
      <4>1. i \in 1 .. k /\ i \in 1 .. L /\ i - 1 \in 0 .. L /\ i \in 0 .. L
        BY <1>1, <2>1, <2>3, <3>2, SMT
      <4>2. before[sum[i - 1] + j] = parts[i][j]
        BY <2>4, <4>1
      <4> DEFINE m == sum[i - 1]
                 n == Len(parts[i])
      <4>3. m \in Nat /\ n \in Nat /\ sum[i] = m + n /\ j \in 1 .. n
        BY <1>1, <1>2, <1>3, <4>1
      <4>4. sum[i] <= s
        BY <1>2, <2>3, <4>1, SumsGrow DEF sum
      <4>5. m + j \in 1 .. s
        <5> HIDE DEF s, m, n
        <5>1. QED
          BY <2>5, <4>3, <4>4, SMT
      <4>6. after[m + j] = before[m + j]
        <5> HIDE DEF before, part, after, s, m
        <5>1. QED
          BY <2>5, <4>5
      <4>7. QED
        BY <4>2, <4>6
    <3>3. QED
      BY <3>1, <3>2
  <2>8. QED
    BY <2>5, <2>6, <2>7
<1> HIDE DEF Good
<1>8. Good = Nat
  <2>1. Good \in SUBSET Nat
    BY DEF Good
  <2>2. QED
    BY <1>6, <1>7, <2>1, GoesOn
<1>9. Right(L)
  <2>1. L \in Good
    BY <1>1, <1>8
  <2>2. QED
    BY <1>1, <2>1 DEF Good
<1>10. L \in 0 .. L
  BY <1>1, SMT
<1>11. QED
  BY <1>2, <1>5, <1>9, <1>10 DEF L, lens, sum

\* It does not matter which two of three are put together first.
LEMMA ThreeParts ==
  ASSUME NEW S, NEW a \in Seq(S), NEW b \in Seq(S), NEW c \in Seq(S)
  PROVE  (a \o b) \o c = a \o (b \o c)
OBVIOUS

\* Flattening goes over a concatenation.
LEMMA FlattenConcat ==
  ASSUME NEW S, NEW a \in Seq(Seq(S)), NEW b \in Seq(Seq(S))
  PROVE  FlattenSeq(a \o b) = FlattenSeq(a) \o FlattenSeq(b)
<1> DEFINE V == Seq(S)
           K == Len(a)
           L == Len(b)
<1>1. /\ a \o b \in Seq(V) /\ K \in Nat /\ L \in Nat /\ Len(a \o b) = K + L
      /\ \A i \in 1 .. K : (a \o b)[i] = a[i] /\ a[i] \in V
      /\ \A i \in 1 .. L : (a \o b)[K + i] = b[i] /\ b[i] \in V
  BY TwoParts
<1>2. PICK f : Joins(f, S, a \o b)
  BY <1>1, SomeJoins
<1>3. PICK g : Joins(g, S, a)
  BY SomeJoins
<1>4. PICK h : Joins(h, S, b)
  BY SomeJoins
<1>5. /\ f[0] = << >> /\ FlattenSeq(a \o b) = f[K + L]
      /\ \A i \in 1 .. K + L : f[i] = f[i - 1] \o (a \o b)[i]
  BY <1>1, <1>2 DEF Joins
<1>6. /\ g[0] = << >> /\ FlattenSeq(a) = g[K]
      /\ \A i \in 1 .. K : g[i] = g[i - 1] \o a[i]
      /\ \A i \in 0 .. K : g[i] \in V
  BY <1>3 DEF Joins
<1>7. /\ h[0] = << >> /\ FlattenSeq(b) = h[L]
      /\ \A i \in 1 .. L : h[i] = h[i - 1] \o b[i]
      /\ \A i \in 0 .. L : h[i] \in V
  BY <1>4 DEF Joins
<1>8. \A s \in V : s \o << >> = s
  BY TwoParts
<1>9. \A s, t, u \in V : (s \o t) \o u = s \o (t \o u)
  BY ThreeParts
<1> DEFINE c == a \o b
<1> HIDE DEF V, K, L, c
<1> DEFINE Good == {k \in Nat : k <= K => f[k] = g[k]}
<1>10. 0 \in Good
  BY <1>5, <1>6
<1>11. ASSUME NEW k \in Good PROVE k + 1 \in Good
  <2>1. k \in Nat /\ k + 1 \in Nat /\ (k + 1) - 1 = k
    BY SMT
  <2>2. SUFFICES ASSUME k + 1 <= K PROVE f[k + 1] = g[k + 1]
    BY <2>1
  <2>3. k + 1 \in 1 .. K /\ k <= K /\ k + 1 \in 1 .. K + L
    BY <1>1, <2>1, <2>2, SMT
  <2>4. f[k] = g[k]
    BY <2>3
  <2>5. f[k + 1] = f[k] \o a[k + 1] /\ g[k + 1] = g[k] \o a[k + 1]
    BY <1>1, <1>5, <1>6, <2>1, <2>3
  <2>6. QED
    BY <2>4, <2>5
<1> HIDE DEF Good
<1>12. Good = Nat
  <2>1. Good \in SUBSET Nat
    BY DEF Good
  <2>2. QED
    BY <1>10, <1>11, <2>1, GoesOn
<1>13. f[K] = g[K] /\ g[K] \in V
  <2>1. K \in 0 .. K /\ K <= K
    BY <1>1, SMT
  <2>2. K \in Good
    BY <1>1, <1>12
  <2>3. f[K] = g[K]
    BY <2>1, <2>2 DEF Good
  <2>4. QED
    BY <1>6, <2>1, <2>3
<1> DEFINE Fine == {k \in Nat : k <= L => f[K + k] = g[K] \o h[k]}
<1>14. 0 \in Fine
  <2>1. K + 0 = K
    BY <1>1, SMT
  <2>2. QED
    BY <1>7, <1>8, <1>13, <2>1
<1>15. ASSUME NEW k \in Fine PROVE k + 1 \in Fine
  <2>1. k \in Nat /\ k + 1 \in Nat /\ (k + 1) - 1 = k /\ (K + (k + 1)) - 1 = K + k
    BY <1>1, SMT
  <2>2. SUFFICES ASSUME k + 1 <= L PROVE f[K + (k + 1)] = g[K] \o h[k + 1]
    BY <2>1
  <2>3. k + 1 \in 1 .. L /\ k <= L /\ k \in 0 .. L /\ K + (k + 1) \in 1 .. K + L
    BY <1>1, <2>1, <2>2, SMT
  <2>4. f[K + k] = g[K] \o h[k]
    BY <2>3
  <2>5. f[K + (k + 1)] = f[K + k] \o c[K + (k + 1)]
    BY <1>5, <2>1, <2>3 DEF c
  <2>6. c[K + (k + 1)] = b[k + 1] /\ b[k + 1] \in V /\ h[k] \in V /\ h[k + 1] = h[k] \o b[k + 1]
    BY <1>1, <1>7, <2>1, <2>3 DEF c
  <2>7. (g[K] \o h[k]) \o b[k + 1] = g[K] \o (h[k] \o b[k + 1])
    BY <1>9, <1>13, <2>6
  <2>8. QED
    BY <2>4, <2>5, <2>6, <2>7
<1> HIDE DEF Fine
<1>16. Fine = Nat
  <2>1. Fine \in SUBSET Nat
    BY DEF Fine
  <2>2. QED
    BY <1>14, <1>15, <2>1, GoesOn
<1>17. L \in Fine
  BY <1>1, <1>16
<1>18. f[K + L] = g[K] \o h[L]
  <2>1. L <= L
    BY <1>1, SMT
  <2>2. QED
    BY <1>17, <2>1 DEF Fine
<1>19. QED
  BY <1>5, <1>6, <1>7, <1>18

\* Sums of one sequence after the other, and of the same number many times.
LEMMA SumsConcat ==
  ASSUME NEW a \in Seq(Nat), NEW b \in Seq(Nat)
  PROVE  /\ a \o b \in Seq(Nat) /\ Len(a \o b) = Len(a) + Len(b)
         /\ Sums(a \o b)[Len(a) + Len(b)] = Sums(a)[Len(a)] + Sums(b)[Len(b)]
<1> DEFINE K == Len(a)
           L == Len(b)
           c == a \o b
<1>1. /\ c \in Seq(Nat) /\ K \in Nat /\ L \in Nat /\ Len(c) = K + L
      /\ \A i \in 1 .. K : c[i] = a[i] /\ a[i] \in Nat
      /\ \A i \in 1 .. L : c[K + i] = b[i] /\ b[i] \in Nat
  BY TwoParts
<1> HIDE DEF K, L, c
<1> DEFINE f == Sums(c)
           g == Sums(a)
           h == Sums(b)
<1>5. f[0] = 0 /\ \A i \in 1 .. K + L : f[i] = f[i - 1] + c[i]
  BY <1>1, SumsSteps
<1>6. g[0] = 0 /\ (\A i \in 1 .. K : g[i] = g[i - 1] + a[i]) /\ \A i \in 0 .. K : g[i] \in Nat
  BY SumsSteps, SumsType DEF K
<1>7. h[0] = 0 /\ (\A i \in 1 .. L : h[i] = h[i - 1] + b[i]) /\ \A i \in 0 .. L : h[i] \in Nat
  BY SumsSteps, SumsType DEF L
<1> HIDE DEF f, g, h
<1> DEFINE Good == {k \in Nat : k <= K => f[k] = g[k]}
<1>10. 0 \in Good
  BY <1>5, <1>6
<1>11. ASSUME NEW k \in Good PROVE k + 1 \in Good
  <2>1. k \in Nat /\ k + 1 \in Nat /\ (k + 1) - 1 = k
    BY SMT
  <2>2. SUFFICES ASSUME k + 1 <= K PROVE f[k + 1] = g[k + 1]
    BY <2>1
  <2>3. k + 1 \in 1 .. K /\ k <= K /\ k + 1 \in 1 .. K + L
    BY <1>1, <2>1, <2>2, SMT
  <2>4. f[k] = g[k]
    BY <2>3
  <2>5. f[k + 1] = f[k] + a[k + 1] /\ g[k + 1] = g[k] + a[k + 1]
    BY <1>1, <1>5, <1>6, <2>1, <2>3
  <2>6. QED
    BY <2>4, <2>5
<1> HIDE DEF Good
<1>12. Good = Nat
  <2>1. Good \in SUBSET Nat
    BY DEF Good
  <2>2. QED
    BY <1>10, <1>11, <2>1, GoesOn
<1>13. f[K] = g[K] /\ g[K] \in Nat
  <2>1. K \in 0 .. K /\ K <= K
    BY <1>1, SMT
  <2>2. K \in Good
    BY <1>1, <1>12
  <2>3. f[K] = g[K]
    BY <2>1, <2>2 DEF Good
  <2>4. QED
    BY <1>6, <2>1, <2>3
<1> DEFINE Fine == {k \in Nat : k <= L => f[K + k] = g[K] + h[k]}
<1>14. 0 \in Fine
  <2>1. K + 0 = K /\ g[K] + 0 = g[K]
    BY <1>1, <1>13, SMT
  <2>2. QED
    BY <1>7, <1>13, <2>1
<1>15. ASSUME NEW k \in Fine PROVE k + 1 \in Fine
  <2>1. k \in Nat /\ k + 1 \in Nat /\ (k + 1) - 1 = k /\ (K + (k + 1)) - 1 = K + k
    BY <1>1, SMT
  <2>2. SUFFICES ASSUME k + 1 <= L PROVE f[K + (k + 1)] = g[K] + h[k + 1]
    BY <2>1
  <2>3. k + 1 \in 1 .. L /\ k <= L /\ k \in 0 .. L /\ K + (k + 1) \in 1 .. K + L
    BY <1>1, <2>1, <2>2, SMT
  <2>4. f[K + k] = g[K] + h[k]
    BY <2>3
  <2>5. f[K + (k + 1)] = f[K + k] + c[K + (k + 1)]
    BY <1>5, <2>1, <2>3
  <2>6. c[K + (k + 1)] = b[k + 1] /\ b[k + 1] \in Nat /\ h[k] \in Nat /\ h[k + 1] = h[k] + b[k + 1]
    BY <1>1, <1>7, <2>1, <2>3
  <2>7. (g[K] + h[k]) + b[k + 1] = g[K] + (h[k] + b[k + 1])
    BY <1>13, <2>6, SMT
  <2>8. QED
    BY <2>4, <2>5, <2>6, <2>7
<1> HIDE DEF Fine
<1>16. Fine = Nat
  <2>1. Fine \in SUBSET Nat
    BY DEF Fine
  <2>2. QED
    BY <1>14, <1>15, <2>1, GoesOn
<1>17. L \in Fine
  BY <1>1, <1>16
<1>18. f[K + L] = g[K] + h[L]
  BY <1>1, <1>17 DEF Fine
<1>19. QED
  BY <1>1, <1>18 DEF K, L, f, g, h, c

\* Sums of equal widths.
LEMMA SumsSame ==
  ASSUME NEW a \in Seq(Nat), NEW w \in Nat, \A i \in 1 .. Len(a) : a[i] = w
  PROVE  Sums(a)[Len(a)] = Len(a) * w
<1> DEFINE K == Len(a)
           g == Sums(a)
<1>1. g[0] = 0 /\ (\A i \in 1 .. K : g[i] = g[i - 1] + w) /\ K \in Nat
  BY SumsSteps
<1> HIDE DEF K, g
<1> DEFINE Good == {k \in Nat : k <= K => g[k] = k * w}
<1>2. 0 \in Good
  BY <1>1, SMT
<1>3. ASSUME NEW k \in Good PROVE k + 1 \in Good
  <2>1. k \in Nat /\ k + 1 \in Nat /\ (k + 1) - 1 = k /\ (k + 1) * w = k * w + w
    BY SMT
  <2>2. SUFFICES ASSUME k + 1 <= K PROVE g[k + 1] = (k + 1) * w
    BY <2>1
  <2>3. k + 1 \in 1 .. K /\ k <= K
    BY <1>1, <2>1, <2>2, SMT
  <2>4. QED
    BY <1>1, <2>1, <2>3
<1> HIDE DEF Good
<1>4. Good = Nat
  <2>1. Good \in SUBSET Nat
    BY DEF Good
  <2>2. QED
    BY <1>2, <1>3, <2>1, GoesOn
<1>5. K \in Good
  BY <1>1, <1>4
<1>6. QED
  BY <1>1, <1>5 DEF Good, K, g

-----------------------------------------------------------------------------
(* Numbers. *)

\* A number is its quotient and its remainder.
LEMMA Divided ==
  ASSUME NEW a \in Nat, NEW p \in Nat \ {0}
  PROVE  /\ a \div p \in Nat /\ a % p \in Nat /\ a % p < p
         /\ a = p * (a \div p) + (a % p)
<1>1. a \div p \in Int /\ a % p \in 0 .. p - 1 /\ a = p * (a \div p) + (a % p)
  BY SMT
<1> DEFINE q == a \div p
           r == a % p
<1> HIDE DEF q, r
<1>2. q \in Int /\ r \in 0 .. p - 1 /\ a = p * q + r
  BY <1>1 DEF q, r
<1>3. q \in Nat
  <2>1. SUFFICES ASSUME q <= -1 PROVE FALSE
    BY <1>2, SMT
  <2>2. p * q <= p * (-1)
    BY <1>2, <2>1, SMT
  <2>3. QED
    BY <1>2, <2>2, SMT
<1>4. QED
  BY <1>2, <1>3, SMT DEF q, r

\* There is one such remainder.
LEMMA RemainderIs ==
  ASSUME NEW a \in Nat, NEW p \in Nat \ {0}, NEW q \in Nat, NEW r \in Nat, r < p, a = p * q + r
  PROVE  a % p = r
<1> DEFINE k == a \div p
           s == a % p
<1>1. k \in Nat /\ s \in Nat /\ s < p /\ a = p * k + s
  BY Divided
<1> HIDE DEF k, s
<1>2. CASE k = q
  BY <1>1, <1>2, SMT DEF s
<1>3. CASE k < q
  <2>1. PICK d \in Nat : q = k + 1 + d
    <3>1. q - k - 1 \in Nat /\ q = k + 1 + (q - k - 1)
      BY <1>1, <1>3, SMT
    <3>2. QED
      BY <3>1
  <2>2. p * (k + 1 + d) = p * k + p + p * d
    BY <1>1, <2>1, SMT
  <2>3. p * d \in Nat /\ p * k \in Nat
    BY <1>1, <2>1, SMT
  <2>4. QED
    BY <1>1, <2>1, <2>2, <2>3, SMT
<1>4. CASE q < k
  <2>1. PICK d \in Nat : k = q + 1 + d
    <3>1. k - q - 1 \in Nat /\ k = q + 1 + (k - q - 1)
      BY <1>1, <1>4, SMT
    <3>2. QED
      BY <3>1
  <2>2. p * (q + 1 + d) = p * q + p + p * d
    BY <1>1, <2>1, SMT
  <2>3. p * d \in Nat /\ p * q \in Nat
    BY <1>1, <2>1, SMT
  <2>4. QED
    BY <1>1, <2>1, <2>2, <2>3, SMT
<1>5. QED
  BY <1>1, <1>2, <1>3, <1>4, SMT

\* One digit more.
LEMMA NextDigit ==
  ASSUME NEW a \in Nat, NEW p \in Nat \ {0}, NEW b \in Nat \ {0}
  PROVE  (a % p) + ((a \div p) % b) * p = a % (b * p)
<1> DEFINE q == a \div p
           r == a % p
           k == q \div b
           s == q % b
<1>1. q \in Nat /\ r \in Nat /\ r < p /\ a = p * q + r
  BY Divided
<1> HIDE DEF q, r
<1>2. k \in Nat /\ s \in Nat /\ s < b /\ q = b * k + s
  BY <1>1, Divided
<1> HIDE DEF k, s
<1> DEFINE t == p * s + r
<1>3. a = (b * p) * k + t
  <2>1. p * (b * k + s) = (b * p) * k + p * s
    BY <1>2, SMT
  <2>2. (b * p) * k \in Nat /\ p * s \in Nat /\ p * q = (b * p) * k + p * s
    BY <1>2, <2>1, SMT
  <2>3. QED
    BY <1>1, <2>2, SMT
<1>4. t \in Nat /\ t < b * p /\ b * p \in Nat \ {0}
  <2>1. PICK d \in Nat : b = s + 1 + d
    <3>1. b - s - 1 \in Nat /\ b = s + 1 + (b - s - 1)
      BY <1>2, SMT
    <3>2. QED
      BY <3>1
  <2>2. (s + 1 + d) * p = p * s + p + d * p
    BY <1>2, <2>1, SMT
  <2>3. d * p \in Nat /\ p * s \in Nat
    BY <1>2, <2>1, SMT
  <2>4. b * p = p * s + p + d * p
    BY <2>1, <2>2
  <2>5. QED
    BY <1>1, <2>3, <2>4, SMT
<1> HIDE DEF t
<1>5. a % (b * p) = t
  <2> DEFINE m == b * p
  <2> HIDE DEF m
  <2>1. m \in Nat \ {0} /\ t < m /\ a = m * k + t
    BY <1>3, <1>4 DEF m
  <2>2. a % m = t
    BY <1>2, <1>4, <2>1, RemainderIs
  <2>3. QED
    BY <2>2 DEF m
<1>6. r + s * p = t
  BY <1>1, <1>2, SMT DEF t
<1>7. QED
  BY <1>5, <1>6 DEF q, r, s

\* No place is zero.
LEMMA PlacesPositive == \A k \in Nat : Places[k] \in Nat \ {0}
<1> DEFINE Good == {k \in Nat : Places[k] \in Nat \ {0}}
<1>1. 0 \in Good
  BY PlacesSteps
<1>2. ASSUME NEW k \in Good PROVE k + 1 \in Good
  <2> DEFINE p == Places[k]
  <2>1. p \in Nat \ {0} /\ Places[k + 1] = Base * p
    BY PlacesSteps
  <2> HIDE DEF p
  <2>2. Base * p \in Nat \ {0} /\ k + 1 \in Nat
    BY <2>1, BaseType, SMT
  <2>3. QED
    BY <2>1, <2>2
<1> HIDE DEF Good
<1>3. Good = Nat
  <2>1. Good \in SUBSET Nat
    BY DEF Good
  <2>2. QED
    BY <1>1, <1>2, <2>1, GoesOn
<1>4. QED
  BY <1>3 DEF Good

\* The slices of so many bytes.
Slices(width) == {bytes \in Seq(0 .. Byte) : Len(bytes) = width}

\* Bytes one by one are a slice.
LEMMA SlicesAre ==
  ASSUME NEW width \in Nat, NEW f, \A i \in 1 .. width : f[i] \in 0 .. Byte
  PROVE  [i \in 1 .. width |-> f[i]] \in Slices(width)
BY DEF Slices

\* A number that fits its width is read from its bytes as what it was (to_le_bytes, from_le_bytes).
LEMMA NumberRoundTrip ==
  ASSUME NEW number \in Nat, NEW width \in Nat, number < Places[width]
  PROVE  /\ ToLE(number, width) \in Slices(width)
         /\ FromLE(ToLE(number, width)) = number
<1> DEFINE bytes == ToLE(number, width)
           worth == [i \in 1 .. width |-> bytes[i] * Places[i - 1]]
<1>1. ASSUME NEW i \in 1 .. width
      PROVE  bytes[i] \in 0 .. Byte /\ bytes[i] = (number \div Places[i - 1]) % Base
  <2>1. i - 1 \in Nat
    BY SMT
  <2>2. bytes[i] = (number \div Places[i - 1]) % Base
    BY DEF ToLE
  <2>3. number \div Places[i - 1] \in Nat
    BY <2>1, PlacesPositive, Divided
  <2> DEFINE q == number \div Places[i - 1]
  <2>4. q \in Nat /\ Base \in Nat \ {0}
    BY <2>3, BaseType, SMT
  <2> HIDE DEF q
  <2>5. q % Base \in Nat /\ q % Base < Base
    BY <2>4, Divided
  <2>6. q % Base \in 0 .. Byte
    BY <2>5, BaseType, SMT
  <2>7. QED
    BY <2>2, <2>6 DEF q
<1>2. bytes \in Slices(width)
  <2>1. bytes = [i \in 1 .. width |-> bytes[i]]
    BY DEF ToLE
  <2> HIDE DEF bytes
  <2>2. [i \in 1 .. width |-> bytes[i]] \in Slices(width)
    BY <1>1, SlicesAre
  <2>3. QED
    BY <2>1, <2>2
<1>3. Len(bytes) = width
  BY <1>2 DEF Slices
<1>4. worth \in Seq(Nat) /\ Len(worth) = width
      /\ \A i \in 1 .. width : worth[i] = bytes[i] * Places[i - 1]
  <2>1. ASSUME NEW i \in 1 .. width PROVE bytes[i] * Places[i - 1] \in Nat
    <3>1. i - 1 \in Nat
      BY SMT
    <3> DEFINE p == Places[i - 1]
               d == bytes[i]
    <3>2. p \in Nat /\ d \in 0 .. Byte /\ Byte \in Nat
      BY <1>1, <3>1, PlacesPositive, BaseType
    <3> HIDE DEF p, d
    <3>3. d * p \in Nat
      BY <3>2, SMT
    <3>4. QED
      BY <3>3 DEF p, d
  <2> HIDE DEF bytes
  <2>2. QED
    BY <2>1
<1>5. FromLE(bytes) = Sums(worth)[width]
  BY <1>3 DEF FromLE
<1> HIDE DEF bytes, worth
<1> DEFINE sum == Sums(worth)
           Good == {k \in Nat : k <= width => sum[k] = number % Places[k]}
<1>6. sum[0] = 0 /\ \A i \in 1 .. width : sum[i] = sum[i - 1] + worth[i]
  BY <1>4, SumsSteps
<1> HIDE DEF sum
<1>7. 0 \in Good
  <2>1. number % 1 = 0
    BY SMT
  <2>2. QED
    BY <1>6, <2>1, PlacesSteps
<1>8. ASSUME NEW k \in Good PROVE k + 1 \in Good
  <2>1. k \in Nat /\ k + 1 \in Nat /\ (k + 1) - 1 = k
    BY SMT
  <2>2. SUFFICES ASSUME k + 1 <= width PROVE sum[k + 1] = number % Places[k + 1]
    BY <2>1
  <2>3. k + 1 \in 1 .. width /\ k <= width
    BY <2>1, <2>2, SMT
  <2> DEFINE p == Places[k]
  <2>4. sum[k] = number % p
    BY <2>3
  <2>5. sum[k + 1] = sum[k] + bytes[k + 1] * p
    BY <1>4, <1>6, <2>1, <2>3
  <2>6. bytes[k + 1] = (number \div p) % Base
    BY <1>1, <2>1, <2>3
  <2>7. Places[k + 1] = Base * p /\ p \in Nat \ {0} /\ Base \in Nat \ {0}
    BY PlacesSteps, PlacesPositive, BaseType, SMT
  <2> HIDE DEF p
  <2>8. (number % p) + ((number \div p) % Base) * p = number % (Base * p)
    BY <2>7, NextDigit
  <2>9. QED
    BY <2>4, <2>5, <2>6, <2>7, <2>8
<1> HIDE DEF Good
<1>9. Good = Nat
  <2>1. Good \in SUBSET Nat
    BY DEF Good
  <2>2. QED
    BY <1>7, <1>8, <2>1, GoesOn
<1>10. sum[width] = number % Places[width]
  <2>1. width \in Good /\ width <= width
    BY <1>9, SMT
  <2>2. QED
    BY <2>1 DEF Good
<1>11. number % Places[width] = number
  <2> DEFINE p == Places[width]
  <2>1. p \in Nat \ {0} /\ number < p
    BY PlacesPositive
  <2> HIDE DEF p
  <2>2. number = p * 0 + number
    BY <2>1, SMT
  <2>3. number % p = number
    BY <2>1, <2>2, RemainderIs
  <2>4. QED
    BY <2>3 DEF p
<1>12. QED
  BY <1>2, <1>5, <1>10, <1>11 DEF bytes, sum

-----------------------------------------------------------------------------
(* Layouts. *)

Types == {"u8", "bool", "u64", "referral", "u128", "pubkey", "fees", "calculator"}

\* Every type of field has a width.
LEMMA WidthType == \A type \in Types : Width(type) \in Nat \ {0}
<1>1. SUFFICES ASSUME NEW type \in Types PROVE Width(type) \in Nat \ {0}
  OBVIOUS
<1>2. /\ Width("u8") = 1 /\ Width("bool") = 1 /\ Width("u64") = Word /\ Width("referral") = Word
      /\ Width("u128") = 2 * Word /\ Width("pubkey") = 4 * Word
      /\ Width("fees") = 8 * Word /\ Width("calculator") = 8 * Word
  BY DEF Width
<1>3. Word \in Nat \ {0}
  BY BaseType
<1>4. /\ 1 \in Nat \ {0} /\ 2 * Word \in Nat \ {0} /\ 4 * Word \in Nat \ {0} /\ 8 * Word \in Nat \ {0}
  BY <1>3, SMT
<1>5. QED
  BY <1>1, <1>2, <1>3, <1>4 DEF Types

\* Functions into the bytes are slices.
LEMMA SlicesFromFunctions ==
  ASSUME NEW width \in Nat, NEW f \in [1 .. width -> 0 .. Byte]
  PROVE  f \in Slices(width)
<1>1. f = [i \in 1 .. width |-> f[i]] /\ \A i \in 1 .. width : f[i] \in 0 .. Byte
  OBVIOUS
<1>2. [i \in 1 .. width |-> f[i]] \in Slices(width)
  BY <1>1, SlicesAre
<1>3. QED
  BY <1>1, <1>2

\* Slices are functions into the bytes.
LEMMA FunctionsFromSlices ==
  ASSUME NEW width \in Nat, NEW f \in Slices(width)
  PROVE  f \in [1 .. width -> 0 .. Byte]
BY LenProperties DEF Slices

\* A field is read as it was written.
LEMMA FieldRoundTrip ==
  ASSUME NEW type \in Types, NEW value \in Holds(type)
  PROVE  /\ Encoded(type, value) \in Slices(Width(type))
         /\ Decoded(type, Encoded(type, value)) = value
         /\ type = "bool" => Encoded(type, value) \in {<<0>>, <<1>>}
<1>1. Width(type) \in Nat \ {0}
  BY WidthType
<1>2. CASE type \in {"u8", "u64", "u128"}
  <2> DEFINE w == Width(type)
  <2>1. value \in 0 .. Places[w] - 1 /\ Encoded(type, value) = ToLE(value, w)
        /\ \A bytes : Decoded(type, bytes) = FromLE(bytes)
    BY <1>2 DEF Holds, Encoded, Decoded
  <2>2. w \in Nat /\ Places[w] \in Nat
    BY <1>1, PlacesPositive
  <2>3. value \in Nat /\ value < Places[w]
    <3> DEFINE p == Places[w]
    <3>1. p \in Nat /\ value \in 0 .. p - 1
      BY <2>1, <2>2
    <3> HIDE DEF p
    <3>2. value \in Nat /\ value < p
      BY <3>1, SMT
    <3>3. QED
      BY <3>2 DEF p
  <2> HIDE DEF w
  <2>4. ToLE(value, w) \in Slices(w) /\ FromLE(ToLE(value, w)) = value
    BY <2>2, <2>3, NumberRoundTrip
  <2>5. QED
    BY <1>2, <2>1, <2>4 DEF w
<1>3. CASE type = "bool"
  <2>1. value \in BOOLEAN /\ Encoded(type, value) = <<IF value THEN 1 ELSE 0>> /\ Width(type) = 1
        /\ \A bytes : Decoded(type, bytes) = (bytes # <<0>>)
    BY <1>3 DEF Holds, Encoded, Decoded, Width
  <2>2. 0 \in 0 .. Byte /\ 1 \in 0 .. Byte
    BY BaseType, SMT
  <2>3. <<0>> \in Slices(1) /\ <<1>> \in Slices(1) /\ <<0>> # <<1>>
    BY <2>2 DEF Slices
  <2>4. CASE value
    BY <2>1, <2>3, <2>4
  <2>5. CASE ~value
    BY <2>1, <2>3, <2>5
  <2>6. QED
    BY <2>1, <2>4, <2>5
<1>4. CASE type \notin {"u8", "u64", "u128", "bool"}
  <2>1. value \in [1 .. Width(type) -> 0 .. Byte] /\ Encoded(type, value) = value
        /\ \A bytes : Decoded(type, bytes) = bytes
    BY <1>4 DEF Holds, Encoded, Decoded
  <2>2. value \in Slices(Width(type))
    BY <1>1, <2>1, SlicesFromFunctions
  <2>3. QED
    BY <1>4, <2>1, <2>2
<1>5. QED
  BY <1>2, <1>3, <1>4

\* The names of fields.
Labels ==
  {"version", "is_initialized", "bump_seed", "token_program_id", "token_a", "token_b", "pool_mint",
   "token_a_mint", "token_b_mint", "pool_fee_account", "fees", "curve_type", "calculator",
   "curve_parameters", "swap", "authority", "is_super_admin", "can_update_parameters",
   "permission_authority"}
  \cup {"trade_fee_numerator", "trade_fee_denominator", "owner_trade_fee_numerator",
        "owner_trade_fee_denominator", "owner_withdraw_fee_numerator",
        "owner_withdraw_fee_denominator", "host_fee_numerator", "host_fee_denominator"}
  \cup {"token_b_price", "token_b_offset", "max_ssr", "ssr", "rho", "chi"}
  \cup {"amount_in", "minimum_amount_out", "pool_token_amount", "maximum_token_a_amount",
        "maximum_token_b_amount", "minimum_token_a_amount", "minimum_token_b_amount",
        "source_token_amount", "minimum_pool_token_amount", "destination_token_amount",
        "maximum_pool_token_amount"}

IsLayout(layout) ==
  /\ layout \in Seq([type : Types, name : Labels])
  /\ \A i, j \in DOMAIN layout : layout[i].name = layout[j].name => i = j

\* The widths of a layout's fields.
LEMMA WidthsAre ==
  ASSUME NEW layout, IsLayout(layout)
  PROVE  /\ Len(layout) \in Nat /\ DOMAIN layout = 1 .. Len(layout)
         /\ Widths(layout) \in Seq(Nat) /\ Len(Widths(layout)) = Len(layout)
         /\ \A i \in 1 .. Len(layout) : /\ Widths(layout)[i] = Width(layout[i].type)
                                        /\ layout[i].type \in Types
         /\ WidthOf(layout) \in Nat
         /\ \A i \in 1 .. Len(layout) : /\ Offset(layout, i) \in Nat
                                        /\ Offset(layout, i) + Width(layout[i].type) <= WidthOf(layout)
<1> DEFINE L == Len(layout)
           w == Widths(layout)
<1>1. L \in Nat /\ DOMAIN layout = 1 .. L /\ \A i \in 1 .. L : layout[i].type \in Types
  <2> DEFINE R == [type : Types, name : Labels]
  <2>1. layout \in Seq(R) /\ \A field \in R : field.type \in Types
    BY DEF IsLayout
  <2> HIDE DEF R
  <2>2. QED
    BY <2>1, LenProperties
<1>2. \A i \in 1 .. L : Width(layout[i].type) \in Nat
  BY <1>1, WidthType
<1>3. w \in Seq(Nat) /\ Len(w) = L /\ \A i \in 1 .. L : w[i] = Width(layout[i].type)
  BY <1>1, <1>2 DEF Widths
<1> HIDE DEF w, L
<1>4. WidthOf(layout) = Sums(w)[L] /\ \A i : Offset(layout, i) = Sums(w)[i - 1]
  BY DEF WidthOf, Offset, w, L
<1>5. L \in 0 .. L /\ \A i \in 1 .. L : i - 1 \in 0 .. L /\ i \in 0 .. L /\ i <= L
  BY <1>1, SMT
<1>6. WidthOf(layout) \in Nat /\ \A i \in 1 .. L : Offset(layout, i) \in Nat
  BY <1>3, <1>4, <1>5, SumsType
<1>7. ASSUME NEW i \in 1 .. L PROVE Offset(layout, i) + Width(layout[i].type) <= WidthOf(layout)
  <2>1. Sums(w)[i] = Offset(layout, i) + Width(layout[i].type)
    BY <1>3, <1>4, SumsSteps
  <2>2. Sums(w)[i] <= Sums(w)[L]
    BY <1>3, <1>5, SumsGrow
  <2>3. QED
    BY <1>4, <2>1, <2>2
<1>8. QED
  BY <1>1, <1>3, <1>6, <1>7 DEF L, w

\* A slice whose bytes are those of a sequence is that sequence.
LEMMA SliceIs ==
  ASSUME NEW S, NEW s \in Seq(S), NEW t \in Seq(S), NEW m \in Nat, m + Len(t) <= Len(s),
         \A j \in 1 .. Len(t) : s[m + j] = t[j]
  PROVE  SubSeq(s, m + 1, m + Len(t)) = t
<1> DEFINE n == Len(t)
           u == SubSeq(s, m + 1, m + n)
<1>1. n \in Nat /\ Len(s) \in Nat
  OBVIOUS
<1> HIDE DEF n
<1>2. m + 1 \in Int /\ m + n \in Int /\ (m + n) - (m + 1) + 1 = n
      /\ (m + 1 <= m + n <=> n # 0)
      /\ \A j \in 1 .. n : m + j \in 1 .. Len(s) /\ (m + 1) + j - 1 = m + j
      /\ \A i \in (m + 1) .. (m + n) : i \in 1 .. Len(s)
  BY <1>1, SMT DEF n
<1>3. \A i \in (m + 1) .. (m + n) : s[i] \in S
  BY <1>2, ElementOfSeq
<1>4. /\ u \in Seq(S)
      /\ Len(u) = IF m + 1 <= m + n THEN (m + n) - (m + 1) + 1 ELSE 0
      /\ \A i \in 1 .. (m + n) - (m + 1) + 1 : u[i] = s[(m + 1) + i - 1]
  <2> DEFINE first == m + 1
             last == m + n
  <2>1. first \in Int /\ last \in Int /\ \A i \in first .. last : s[i] \in S
    BY <1>2, <1>3
  <2> HIDE DEF first, last
  <2>2. /\ SubSeq(s, first, last) \in Seq(S)
        /\ Len(SubSeq(s, first, last)) = IF first <= last THEN last - first + 1 ELSE 0
        /\ \A i \in 1 .. last - first + 1 : SubSeq(s, first, last)[i] = s[first + i - 1]
    BY <2>1, SubSeqProperties
  <2>3. QED
    BY <2>2 DEF first, last
<1> HIDE DEF u
<1>5. Len(u) = n /\ \A j \in 1 .. n : u[j] = t[j]
  BY <1>1, <1>2, <1>4 DEF n
<1>6. QED
  BY <1>4, <1>5, SeqEqual DEF n, u

(***************************************************************************)
(* A structure is packed into the bytes of its layout, and every field is  *)
(* found in its place, whatever follows.                                   *)
(***************************************************************************)
LEMMA FieldsInPlace ==
  ASSUME NEW layout, IsLayout(layout), NEW value, Suits(layout, value),
         NEW rest \in Seq(0 .. Byte)
  PROVE  /\ Packed(layout, value) \in Slices(WidthOf(layout))
         /\ \A i \in DOMAIN layout : FieldBytes(layout, i, Packed(layout, value) \o rest)
                                       = Encoded(layout[i].type, value[layout[i].name])
<1> DEFINE B == 0 .. Byte
           L == Len(layout)
           part(i) == Encoded(layout[i].type, value[layout[i].name])
           parts == [i \in 1 .. L |-> part(i)]
           packed == Packed(layout, value)
<1>1. L \in Nat /\ DOMAIN layout = 1 .. L
  BY WidthsAre
<1>2. ASSUME NEW i \in 1 .. L PROVE part(i) \in Slices(Width(layout[i].type))
  <2>1. layout[i].type \in Types /\ value[layout[i].name] \in Holds(layout[i].type)
    BY <1>1, WidthsAre DEF Suits
  <2>2. QED
    BY <2>1, FieldRoundTrip
<1>3. \A i \in 1 .. L : part(i) \in Seq(B) /\ Len(part(i)) = Width(layout[i].type)
  BY <1>2 DEF Slices
<1>4. parts \in Seq(Seq(B)) /\ Len(parts) = L /\ \A i \in 1 .. L : parts[i] = part(i)
  <2> HIDE DEF B, part
  <2>1. QED
    BY <1>1, <1>3
<1>5. packed = FlattenSeq(parts)
  BY <1>1 DEF Packed
<1> HIDE DEF parts
<1>6. Lengths(parts) = Widths(layout)
  BY <1>3, <1>4 DEF Lengths, Widths
<1>7. /\ packed \in Seq(B) /\ Len(packed) = WidthOf(layout)
      /\ \A i \in 1 .. L : \A j \in 1 .. Len(part(i)) : packed[Offset(layout, i) + j] = part(i)[j]
  <2>1. /\ FlattenSeq(parts) \in Seq(B)
        /\ Len(FlattenSeq(parts)) = Sums(Lengths(parts))[L]
        /\ \A i \in 1 .. L : \A j \in 1 .. Len(parts[i]) :
             FlattenSeq(parts)[Sums(Lengths(parts))[i - 1] + j] = parts[i][j]
    BY <1>4, FlattenParts
  <2> HIDE DEF part, packed, B
  <2>2. QED
    BY <1>4, <1>5, <1>6, <2>1 DEF Offset, WidthOf
<1>8. ASSUME NEW i \in 1 .. L PROVE FieldBytes(layout, i, packed \o rest) = part(i)
  <2> DEFINE m == Offset(layout, i)
             t == part(i)
             s == packed \o rest
  <2>1. m \in Nat /\ m + Len(t) <= Len(packed) /\ t \in Seq(B) /\ Len(t) = Width(layout[i].type)
        /\ Len(t) \in Nat
    BY <1>3, <1>7, WidthsAre
  <2>2. /\ s \in Seq(B) /\ Len(s) = Len(packed) + Len(rest) /\ Len(packed) \in Nat /\ Len(rest) \in Nat
        /\ \A j \in 1 .. Len(packed) : s[j] = packed[j]
    <3>1. packed \in Seq(B) /\ rest \in Seq(B)
      BY <1>7
    <3> HIDE DEF packed, B
    <3>2. QED
      BY <3>1, TwoParts
  <2>3. ASSUME NEW j \in 1 .. Len(t) PROVE s[m + j] = t[j]
    <3>1. m + j \in 1 .. Len(packed)
      <4> HIDE DEF m, t, packed
      <4>1. QED
        BY <2>1, <2>2, SMT
    <3>2. QED
      BY <1>7, <2>2, <3>1
  <2> HIDE DEF m, t, s
  <2>4. m + Len(t) <= Len(s)
    <3> DEFINE a == Len(t)
               b == Len(packed)
               c == Len(rest)
               d == Len(s)
    <3>1. /\ m \in Nat /\ a \in Nat /\ b \in Nat /\ c \in Nat /\ m + a <= b /\ d = b + c
      BY <2>1, <2>2
    <3> HIDE DEF a, b, c, d
    <3>2. m + a <= d
      BY <3>1, SMT
    <3>3. QED
      BY <3>2 DEF a, d
  <2>5. SubSeq(s, m + 1, m + Len(t)) = t
    BY <2>1, <2>2, <2>3, <2>4, SliceIs
  <2>6. QED
    BY <2>1, <2>5 DEF FieldBytes, m, t, s
<1>9. QED
  BY <1>1, <1>7, <1>8 DEF Slices

(***************************************************************************)
(* What was packed with a layout is unpacked with it.                      *)
(***************************************************************************)
LEMMA LayoutReads ==
  ASSUME NEW layout, IsLayout(layout), NEW value, Suits(layout, value),
         NEW rest \in Seq(0 .. Byte)
  PROVE  /\ Unpacked(layout, Packed(layout, value) \o rest) = [name \in Names(layout) |-> value[name]]
         /\ StrictBools(layout, Packed(layout, value) \o rest)
<1> DEFINE bytes == Packed(layout, value) \o rest
           at(name) == CHOOSE i \in DOMAIN layout : layout[i].name = name
<1>1. \A i \in DOMAIN layout : FieldBytes(layout, i, bytes) = Encoded(layout[i].type, value[layout[i].name])
  BY FieldsInPlace
<1> HIDE DEF bytes
<1>2. \A i \in DOMAIN layout : layout[i].type \in Types /\ value[layout[i].name] \in Holds(layout[i].type)
  BY WidthsAre DEF Suits
<1>3. \A i \in DOMAIN layout : at(layout[i].name) = i
  BY DEF IsLayout
<1>4. ASSUME NEW name \in Names(layout)
      PROVE  Decoded(layout[at(name)].type, FieldBytes(layout, at(name), bytes)) = value[name]
  <2>1. PICK i \in DOMAIN layout : name = layout[i].name
    BY DEF Names
  <2>2. at(name) = i
    BY <1>3, <2>1
  <2>3. Decoded(layout[i].type, Encoded(layout[i].type, value[layout[i].name])) = value[layout[i].name]
    BY <1>2, FieldRoundTrip
  <2> HIDE DEF at
  <2>4. QED
    BY <1>1, <2>1, <2>2, <2>3
<1>5. Unpacked(layout, bytes) = [name \in Names(layout) |-> value[name]]
  <2>1. Unpacked(layout, bytes) = [name \in Names(layout) |->
          Decoded(layout[at(name)].type, FieldBytes(layout, at(name), bytes))]
    BY DEF Unpacked
  <2> HIDE DEF at
  <2>2. QED
    BY <1>4, <2>1
<1>6. StrictBools(layout, bytes)
  BY <1>1, <1>2, FieldRoundTrip DEF StrictBools
<1>7. QED
  BY <1>5, <1>6 DEF bytes

\* Only the fields of a layout are packed.
LEMMA PackedAgree ==
  ASSUME NEW layout, NEW value, NEW other, \A name \in Names(layout) : value[name] = other[name]
  PROVE  Packed(layout, value) = Packed(layout, other)
<1>1. \A i \in DOMAIN layout : Encoded(layout[i].type, value[layout[i].name])
                                 = Encoded(layout[i].type, other[layout[i].name])
  BY DEF Names
<1>2. [i \in DOMAIN layout |-> Encoded(layout[i].type, value[layout[i].name])]
        = [i \in DOMAIN layout |-> Encoded(layout[i].type, other[layout[i].name])]
  BY <1>1
<1>3. QED
  BY <1>2 DEF Packed

\* A layout names no field twice.
LEMMA LayoutIndices ==
  ASSUME NEW layout, IsLayout(layout)
  PROVE  /\ layout \in Seq([type : Types, name : Labels])
         /\ DOMAIN layout = 1 .. Len(layout) /\ Len(layout) \in Nat
         /\ \A i, j \in 1 .. Len(layout) : layout[i].name = layout[j].name => i = j
         /\ \A i \in 1 .. Len(layout) : layout[i].name \in Names(layout)
         /\ \A name \in Names(layout) : \E i \in 1 .. Len(layout) : layout[i].name = name
<1>1. DOMAIN layout = 1 .. Len(layout) /\ Len(layout) \in Nat
  BY WidthsAre
<1>2. QED
  BY <1>1 DEF IsLayout, Names

(***************************************************************************)
(* One layout behind another.                                              *)
(***************************************************************************)
LEMMA LayoutsConcat ==
  ASSUME NEW a, NEW b, IsLayout(a), IsLayout(b), Names(a) \cap Names(b) = {}
  PROVE  /\ IsLayout(a \o b)
         /\ Names(a \o b) = Names(a) \cup Names(b)
         /\ WidthOf(a \o b) = WidthOf(a) + WidthOf(b)
<1> DEFINE R == [type : Types, name : Labels]
           K == Len(a)
           L == Len(b)
           c == a \o b
<1>1. a \in Seq(R) /\ b \in Seq(R) /\ K \in Nat /\ L \in Nat
  BY LayoutIndices
<1>2. /\ c \in Seq(R) /\ Len(c) = K + L /\ DOMAIN c = 1 .. K + L
      /\ \A i \in 1 .. K : c[i] = a[i]
      /\ \A i \in 1 .. L : c[K + i] = b[i]
  <2> HIDE DEF R
  <2>1. /\ c \in Seq(R) /\ Len(c) = K + L
        /\ \A i \in 1 .. K : c[i] = a[i]
        /\ \A i \in 1 .. L : c[K + i] = b[i]
    BY <1>1, TwoParts
  <2> HIDE DEF c
  <2>2. DOMAIN c = 1 .. Len(c)
    BY <2>1, LenProperties
  <2>3. QED
    BY <2>1, <2>2
<1> HIDE DEF c
<1>3. \A i \in 1 .. K + L : \/ i \in 1 .. K
                            \/ \E j \in 1 .. L : i = K + j
  <2>1. SUFFICES ASSUME NEW i \in 1 .. K + L, i \notin 1 .. K PROVE \E j \in 1 .. L : i = K + j
    OBVIOUS
  <2>2. i - K \in 1 .. L /\ i = K + (i - K)
    BY <1>1, <2>1, SMT
  <2>3. QED
    BY <2>2
<1>4. (\A i \in 1 .. K : i \in 1 .. K + L) /\ (\A i \in 1 .. L : K + i \in 1 .. K + L)
  BY <1>1, SMT
<1>5. /\ \A i \in 1 .. K : a[i].name \in Names(a)
      /\ \A i \in 1 .. L : b[i].name \in Names(b)
      /\ \A i, j \in 1 .. K : a[i].name = a[j].name => i = j
      /\ \A i, j \in 1 .. L : b[i].name = b[j].name => i = j
      /\ \A name \in Names(a) : \E i \in 1 .. K : a[i].name = name
      /\ \A name \in Names(b) : \E i \in 1 .. L : b[i].name = name
  BY LayoutIndices
<1> HIDE DEF K, L, R
<1>6. IsLayout(c)
  <2>1. ASSUME NEW i \in 1 .. K + L, NEW j \in 1 .. K + L, c[i].name = c[j].name PROVE i = j
    <3>1. CASE i \in 1 .. K /\ j \in 1 .. K
      BY <1>2, <1>5, <2>1, <3>1
    <3>2. CASE i \in 1 .. K /\ j \notin 1 .. K
      BY <1>2, <1>3, <1>5, <2>1, <3>2
    <3>3. CASE i \notin 1 .. K /\ j \in 1 .. K
      BY <1>2, <1>3, <1>5, <2>1, <3>3
    <3>4. CASE i \notin 1 .. K /\ j \notin 1 .. K
      <4>1. PICK k, m \in 1 .. L : i = K + k /\ j = K + m
        BY <1>3, <3>4
      <4>2. QED
        BY <1>2, <1>5, <2>1, <4>1
    <3>5. QED
      BY <3>1, <3>2, <3>3, <3>4
  <2>2. QED
    BY <1>2, <2>1 DEF IsLayout, R
<1>7. Names(c) = Names(a) \cup Names(b)
  <2>1. Names(c) = {c[i].name : i \in 1 .. K + L}
    BY <1>2 DEF Names
  <2>2. ASSUME NEW name \in Names(c) PROVE name \in Names(a) \cup Names(b)
    BY <1>2, <1>3, <1>5, <2>1
  <2>3. ASSUME NEW name \in Names(a) PROVE name \in Names(c)
    BY <1>2, <1>4, <1>5, <2>1
  <2>4. ASSUME NEW name \in Names(b) PROVE name \in Names(c)
    BY <1>2, <1>4, <1>5, <2>1
  <2>5. QED
    BY <2>2, <2>3, <2>4
<1>8. WidthOf(c) = WidthOf(a) + WidthOf(b)
  <2> DEFINE u == Widths(a)
             v == Widths(b)
  <2>1. /\ u \in Seq(Nat) /\ Len(u) = K /\ \A i \in 1 .. K : u[i] = Width(a[i].type)
        /\ v \in Seq(Nat) /\ Len(v) = L /\ \A i \in 1 .. L : v[i] = Width(b[i].type)
    BY WidthsAre DEF K, L
  <2>2. /\ Widths(c) \in Seq(Nat) /\ Len(Widths(c)) = K + L
        /\ \A i \in 1 .. K + L : Widths(c)[i] = Width(c[i].type)
    BY <1>2, <1>6, WidthsAre
  <2>3. WidthOf(c) = Sums(Widths(c))[K + L] /\ WidthOf(a) = Sums(u)[K] /\ WidthOf(b) = Sums(v)[L]
    BY <1>2 DEF WidthOf, K, L
  <2> HIDE DEF u, v
  <2>4. /\ u \o v \in Seq(Nat) /\ Len(u \o v) = K + L
        /\ \A i \in 1 .. K : (u \o v)[i] = u[i]
        /\ \A i \in 1 .. L : (u \o v)[K + i] = v[i]
        /\ Sums(u \o v)[K + L] = Sums(u)[K] + Sums(v)[L]
    <3>1. /\ u \o v \in Seq(Nat) /\ Len(u \o v) = Len(u) + Len(v)
          /\ \A i \in 1 .. Len(u) : (u \o v)[i] = u[i]
          /\ \A i \in 1 .. Len(v) : (u \o v)[Len(u) + i] = v[i]
      <4>1. u \in Seq(Nat) /\ v \in Seq(Nat)
        BY <2>1
      <4>2. QED
        BY <4>1, TwoParts
    <3>2. Sums(u \o v)[Len(u) + Len(v)] = Sums(u)[Len(u)] + Sums(v)[Len(v)]
      BY <2>1, SumsConcat
    <3>3. QED
      BY <2>1, <3>1, <3>2
  <2>5. Widths(c) = u \o v
    <3>1. \A i \in 1 .. K + L : Widths(c)[i] = (u \o v)[i]
      <4>1. SUFFICES ASSUME NEW i \in 1 .. K + L PROVE Widths(c)[i] = (u \o v)[i]
        OBVIOUS
      <4>2. CASE i \in 1 .. K
        <5>1. Widths(c)[i] = Width(c[i].type) /\ c[i] = a[i]
          BY <1>2, <2>2, <4>2
        <5>2. (u \o v)[i] = Width(a[i].type)
          BY <2>1, <2>4, <4>2
        <5>3. QED
          BY <5>1, <5>2
      <4>3. CASE i \notin 1 .. K
        <5>1. PICK j \in 1 .. L : i = K + j
          BY <1>3, <4>3
        <5>2. Widths(c)[i] = Width(c[i].type) /\ c[i] = b[j]
          BY <1>2, <2>2, <5>1
        <5>3. (u \o v)[i] = Width(b[j].type)
          BY <2>1, <2>4, <5>1
        <5>4. QED
          BY <5>2, <5>3
      <4>4. QED
        BY <4>2, <4>3
    <3>2. QED
      BY <2>2, <2>4, <3>1, SeqEqual
  <2>6. QED
    BY <2>3, <2>4, <2>5
<1>9. QED
  BY <1>6, <1>7, <1>8 DEF c

\* Layouts one behind the other are packed one behind the other.
LEMMA PackedConcat ==
  ASSUME NEW a, NEW b, IsLayout(a), IsLayout(b), NEW value, Suits(a, value), Suits(b, value)
  PROVE  Packed(a \o b, value) = Packed(a, value) \o Packed(b, value)
<1> DEFINE R == [type : Types, name : Labels]
           B == 0 .. Byte
           code(field) == Encoded(field.type, value[field.name])
           s == [i \in 1 .. Len(a) |-> code(a[i])]
           t == [i \in 1 .. Len(b) |-> code(b[i])]
           c == a \o b
           u == [i \in 1 .. Len(c) |-> code(c[i])]
<1>1. /\ a \in Seq(R) /\ b \in Seq(R) /\ DOMAIN a = 1 .. Len(a) /\ DOMAIN b = 1 .. Len(b)
      /\ Len(a) \in Nat /\ Len(b) \in Nat
  BY LayoutIndices
<1>2. /\ \A i \in 1 .. Len(a) : code(a[i]) \in Seq(B)
      /\ \A i \in 1 .. Len(b) : code(b[i]) \in Seq(B)
  BY <1>1, WidthsAre, FieldRoundTrip DEF Suits, Slices
<1> HIDE DEF R
<1>3. /\ c \in Seq(R) /\ Len(c) = Len(a) + Len(b) /\ DOMAIN c = 1 .. Len(c)
      /\ \A i \in 1 .. Len(a) : c[i] = a[i]
      /\ \A i \in 1 .. Len(b) : c[Len(a) + i] = b[i]
  <2>1. /\ c \in Seq(R) /\ Len(c) = Len(a) + Len(b)
        /\ \A i \in 1 .. Len(a) : c[i] = a[i]
        /\ \A i \in 1 .. Len(b) : c[Len(a) + i] = b[i]
    BY <1>1, TwoParts
  <2> HIDE DEF c
  <2>2. QED
    BY <2>1, LenProperties
<1>4. /\ Packed(a, value) = FlattenSeq(s) /\ Packed(b, value) = FlattenSeq(t)
      /\ Packed(c, value) = FlattenSeq(u)
  <2> HIDE DEF c
  <2>1. QED
    BY <1>1, <1>3 DEF Packed
<1> DEFINE V == Seq(B)
<1> HIDE DEF code, c, V
<1>5. /\ s \in Seq(V) /\ Len(s) = Len(a) /\ \A i \in 1 .. Len(a) : s[i] = code(a[i])
      /\ t \in Seq(V) /\ Len(t) = Len(b) /\ \A i \in 1 .. Len(b) : t[i] = code(b[i])
  BY <1>1, <1>2 DEF V
<1> HIDE DEF s, t
<1>6. /\ s \o t \in Seq(V) /\ Len(s \o t) = Len(a) + Len(b)
      /\ \A i \in 1 .. Len(a) : (s \o t)[i] = s[i]
      /\ \A i \in 1 .. Len(b) : (s \o t)[Len(a) + i] = t[i]
  <2>1. /\ s \o t \in Seq(V) /\ Len(s \o t) = Len(s) + Len(t)
        /\ \A i \in 1 .. Len(s) : (s \o t)[i] = s[i]
        /\ \A i \in 1 .. Len(t) : (s \o t)[Len(s) + i] = t[i]
    <3>1. s \in Seq(V) /\ t \in Seq(V)
      BY <1>5
    <3>2. QED
      BY <3>1, TwoParts
  <2>2. QED
    BY <1>5, <2>1
<1> DEFINE K == Len(a)
           L == Len(b)
<1>7. K \in Nat /\ L \in Nat
  BY <1>1
<1> HIDE DEF K, L
<1>8. ASSUME NEW i \in 1 .. K + L PROVE code(c[i]) = (s \o t)[i]
  <2>1. CASE i \in 1 .. K
    BY <1>3, <1>5, <1>6, <2>1 DEF K
  <2>2. CASE i \notin 1 .. K
    <3>1. i - K \in 1 .. L /\ i = K + (i - K)
      BY <1>7, <2>2, SMT
    <3>2. PICK j \in 1 .. L : i = K + j
      BY <3>1
    <3>3. QED
      BY <1>3, <1>5, <1>6, <3>2 DEF K, L
  <2>3. QED
    BY <2>1, <2>2
<1>9. u = s \o t
  <2>1. u = [i \in 1 .. K + L |-> (s \o t)[i]]
    BY <1>3, <1>8 DEF K, L
  <2>2. s \o t \in [1 .. K + L -> V]
    BY <1>6, LenProperties DEF K, L
  <2>3. QED
    BY <2>1, <2>2
<1>10. FlattenSeq(s \o t) = FlattenSeq(s) \o FlattenSeq(t)
  BY <1>5, FlattenConcat DEF V
<1>11. QED
  BY <1>4, <1>9, <1>10 DEF c

\* A value that suits two layouts suits both together.
LEMMA SuitsConcat ==
  ASSUME NEW a, NEW b, IsLayout(a), IsLayout(b), NEW value, Suits(a, value), Suits(b, value)
  PROVE  Suits(a \o b, value)
<1> DEFINE R == [type : Types, name : Labels]
           K == Len(a)
           L == Len(b)
           c == a \o b
<1>1. /\ a \in Seq(R) /\ b \in Seq(R) /\ DOMAIN a = 1 .. K /\ DOMAIN b = 1 .. L
      /\ K \in Nat /\ L \in Nat
  BY LayoutIndices
<1> HIDE DEF R
<1>2. /\ DOMAIN c = 1 .. K + L
      /\ \A i \in 1 .. K : c[i] = a[i]
      /\ \A i \in 1 .. L : c[K + i] = b[i]
  <2>1. /\ c \in Seq(R) /\ Len(c) = K + L
        /\ \A i \in 1 .. K : c[i] = a[i]
        /\ \A i \in 1 .. L : c[K + i] = b[i]
    BY <1>1, TwoParts
  <2> HIDE DEF c
  <2>2. QED
    BY <2>1, LenProperties
<1> HIDE DEF c, K, L
<1>3. ASSUME NEW i \in 1 .. K + L PROVE value[c[i].name] \in Holds(c[i].type)
  <2>1. CASE i \in 1 .. K
    BY <1>1, <1>2, <2>1 DEF Suits
  <2>2. CASE i \notin 1 .. K
    <3>1. i - K \in 1 .. L /\ i = K + (i - K)
      BY <1>1, <2>2, SMT
    <3>2. PICK j \in 1 .. L : i = K + j
      BY <3>1
    <3>3. QED
      BY <1>1, <1>2, <3>2 DEF Suits
  <2>3. QED
    BY <2>1, <2>2
<1>4. QED
  BY <1>2, <1>3 DEF Suits, c

\* A value that suits two layouts together suits each.
LEMMA SuitsParts ==
  ASSUME NEW a, NEW b, IsLayout(a), IsLayout(b), NEW value, Suits(a \o b, value)
  PROVE  Suits(a, value) /\ Suits(b, value)
<1> DEFINE R == [type : Types, name : Labels]
           K == Len(a)
           L == Len(b)
           c == a \o b
<1>1. /\ a \in Seq(R) /\ b \in Seq(R) /\ DOMAIN a = 1 .. K /\ DOMAIN b = 1 .. L
      /\ K \in Nat /\ L \in Nat
  BY LayoutIndices
<1> HIDE DEF R
<1>2. /\ DOMAIN c = 1 .. K + L
      /\ \A i \in 1 .. K : c[i] = a[i]
      /\ \A i \in 1 .. L : c[K + i] = b[i]
  <2>1. /\ c \in Seq(R) /\ Len(c) = K + L
        /\ \A i \in 1 .. K : c[i] = a[i]
        /\ \A i \in 1 .. L : c[K + i] = b[i]
    BY <1>1, TwoParts
  <2> HIDE DEF c
  <2>2. QED
    BY <2>1, LenProperties
<1> HIDE DEF c, K, L
<1>3. (\A i \in 1 .. K : i \in 1 .. K + L) /\ (\A i \in 1 .. L : K + i \in 1 .. K + L)
  BY <1>1, SMT
<1>4. \A i \in 1 .. K + L : value[c[i].name] \in Holds(c[i].type)
  BY <1>2 DEF Suits, c
<1>5. Suits(a, value)
  BY <1>1, <1>2, <1>3, <1>4 DEF Suits
<1>6. Suits(b, value)
  BY <1>1, <1>2, <1>3, <1>4 DEF Suits
<1>7. QED
  BY <1>5, <1>6

\* Some fields of one type.
LEMMA FieldsAre ==
  ASSUME NEW type \in Types, NEW names \in Seq(Labels),
         \A i, j \in 1 .. Len(names) : names[i] = names[j] => i = j
  PROVE  /\ IsLayout(Fields(type, names))
         /\ Names(Fields(type, names)) = {names[i] : i \in 1 .. Len(names)}
         /\ WidthOf(Fields(type, names)) = Len(names) * Width(type)
         /\ \A value : Suits(Fields(type, names), value)
                        <=> \A name \in Names(Fields(type, names)) : value[name] \in Holds(type)
<1> DEFINE R == [type : Types, name : Labels]
           L == Len(names)
           f == Fields(type, names)
<1>1. L \in Nat /\ DOMAIN names = 1 .. L /\ \A i \in 1 .. L : names[i] \in Labels
  BY LenProperties
<1> HIDE DEF L
<1>2. f = [i \in 1 .. L |-> [type |-> type, name |-> names[i]]]
  BY <1>1 DEF Fields
<1>3. /\ f \in Seq(R) /\ Len(f) = L /\ DOMAIN f = 1 .. L
      /\ \A i \in 1 .. L : f[i].type = type /\ f[i].name = names[i]
  <2>1. \A i \in 1 .. L : [type |-> type, name |-> names[i]] \in R
    BY <1>1
  <2> HIDE DEF R
  <2>2. f \in Seq(R) /\ Len(f) = L /\ DOMAIN f = 1 .. L
    BY <1>1, <1>2, <2>1
  <2>3. \A i \in 1 .. L : f[i].type = type /\ f[i].name = names[i]
    BY <1>2
  <2>4. QED
    BY <2>2, <2>3
<1> HIDE DEF f
<1>4. IsLayout(f)
  BY <1>3 DEF IsLayout, L, R
<1>5. Names(f) = {names[i] : i \in 1 .. L}
  BY <1>3 DEF Names
<1>6. WidthOf(f) = L * Width(type)
  <2>1. Widths(f) \in Seq(Nat) /\ Len(Widths(f)) = L /\ \A i \in 1 .. L : Widths(f)[i] = Width(type)
    BY <1>3, <1>4, WidthsAre
  <2>2. Width(type) \in Nat
    BY WidthType
  <2>3. Sums(Widths(f))[Len(Widths(f))] = Len(Widths(f)) * Width(type)
    BY <2>1, <2>2, SumsSame
  <2>4. QED
    BY <1>3, <2>1, <2>3 DEF WidthOf
<1>7. \A value : Suits(f, value) <=> \A name \in Names(f) : value[name] \in Holds(type)
  BY <1>3, <1>5 DEF Suits
<1>8. QED
  BY <1>4, <1>5, <1>6, <1>7 DEF f, L

\* A layout of one field.
LEMMA OneLayout ==
  ASSUME NEW type \in Types, NEW name \in Labels
  PROVE  /\ IsLayout(Fields(type, <<name>>)) /\ Names(Fields(type, <<name>>)) = {name}
         /\ WidthOf(Fields(type, <<name>>)) = Width(type)
         /\ \A value : Suits(Fields(type, <<name>>), value) <=> value[name] \in Holds(type)
<1> DEFINE names == <<name>>
           f == Fields(type, names)
<1>1. names \in Seq(Labels) /\ Len(names) = 1 /\ names[1] = name
  OBVIOUS
<1>2. 1 .. 1 = {1}
  BY SMT
<1>3. \A i, j \in 1 .. Len(names) : names[i] = names[j] => i = j
  BY <1>1, <1>2
<1> HIDE DEF names
<1>4. /\ IsLayout(f)
      /\ Names(f) = {names[i] : i \in 1 .. Len(names)}
      /\ WidthOf(f) = Len(names) * Width(type)
      /\ \A value : Suits(f, value) <=> \A label \in Names(f) : value[label] \in Holds(type)
  BY <1>1, <1>3, FieldsAre
<1>5. Names(f) = {name}
  BY <1>1, <1>2, <1>4
<1>6. WidthOf(f) = Width(type)
  <2> DEFINE w == Width(type)
  <2>1. w \in Nat /\ WidthOf(f) = 1 * w
    BY <1>1, <1>4, WidthType
  <2> HIDE DEF w
  <2>2. 1 * w = w
    BY <2>1, SMT
  <2>3. QED
    BY <2>1, <2>2 DEF w
<1>7. QED
  BY <1>4, <1>5, <1>6 DEF names, f

\* One field is packed as its code.
LEMMA OneField ==
  ASSUME NEW type \in Types, NEW name \in Labels, NEW value, value[name] \in Holds(type)
  PROVE  Packed(Fields(type, <<name>>), value) = Encoded(type, value[name])
<1> DEFINE f == Fields(type, <<name>>)
           code == Encoded(type, value[name])
           parts == [i \in DOMAIN f |-> Encoded(f[i].type, value[f[i].name])]
<1>1. 1 .. 1 = {1} /\ 1 - 1 = 0
  BY SMT
<1>2. DOMAIN f = 1 .. 1 /\ f[1].type = type /\ f[1].name = name
  BY <1>1 DEF Fields
<1>3. parts = [i \in 1 .. 1 |-> code]
  BY <1>1, <1>2
<1>4. Packed(f, value) = FlattenSeq(parts)
  BY DEF Packed
<1>5. code \in Seq(0 .. Byte)
  BY FieldRoundTrip DEF Slices
<1> DEFINE V == Seq(0 .. Byte)
<1> HIDE DEF parts, code, V
<1>6. parts \in Seq(V) /\ Len(parts) = 1 /\ parts[1] = code
  <2>1. code \in V
    BY <1>5 DEF V
  <2>2. QED
    BY <1>1, <1>3, <2>1
<1>7. PICK g : Joins(g, 0 .. Byte, parts)
  BY <1>6, SomeJoins DEF V
<1>8. FlattenSeq(parts) = g[1] /\ g[0] = << >>
  BY <1>6, <1>7 DEF Joins
<1>9. g[1] = g[1 - 1] \o parts[1]
  BY <1>1, <1>6, <1>7 DEF Joins
<1>10. << >> \o code = code
  BY <1>5, TwoParts
<1>11. QED
  BY <1>1, <1>4, <1>6, <1>8, <1>9, <1>10 DEF f, code

-----------------------------------------------------------------------------
(* The structures that instructions and accounts share. *)

\* Short sequences.
LEMMA Two ==
  ASSUME NEW S, NEW a \in S, NEW b \in S
  PROVE  /\ <<a>> \in Seq(S) /\ Len(<<a>>) = 1
         /\ <<a, b>> \in Seq(S) /\ Len(<<a, b>>) = 2
OBVIOUS

\* Sequences of three and four.
LEMMA FourAndMore ==
  ASSUME NEW S, NEW a \in S, NEW b \in S, NEW c \in S, NEW d \in S
  PROVE  /\ <<a, b, c>> \in Seq(S) /\ Len(<<a, b, c>>) = 3
         /\ <<a, b, c, d>> \in Seq(S) /\ Len(<<a, b, c, d>>) = 4
OBVIOUS

\* Sequences of seven.
LEMMA Seven ==
  ASSUME NEW S, NEW a \in S, NEW b \in S, NEW c \in S, NEW d \in S, NEW e \in S, NEW f \in S, NEW g \in S
  PROVE  <<a, b, c, d, e, f, g>> \in Seq(S) /\ Len(<<a, b, c, d, e, f, g>>) = 7
OBVIOUS

\* Sequences of eight.
LEMMA Eight ==
  ASSUME NEW S, NEW a \in S, NEW b \in S, NEW c \in S, NEW d \in S, NEW e \in S, NEW f \in S, NEW g \in S,
         NEW h \in S
  PROVE  <<a, b, c, d, e, f, g, h>> \in Seq(S) /\ Len(<<a, b, c, d, e, f, g, h>>) = 8
OBVIOUS

FeeNames ==
  {"trade_fee_numerator", "trade_fee_denominator", "owner_trade_fee_numerator",
   "owner_trade_fee_denominator", "owner_withdraw_fee_numerator",
   "owner_withdraw_fee_denominator", "host_fee_numerator", "host_fee_denominator"}

\* Fees are eight numbers.
LEMMA FeesLayout ==
  /\ IsLayout(FeesPacked) /\ Names(FeesPacked) = FeeNames
  /\ WidthOf(FeesPacked) = 8 * Word
  /\ \A value : Suits(FeesPacked, value) <=> \A name \in FeeNames : value[name] \in Holds("u64")
  /\ FeesUnpacked = FeesPacked
<1> DEFINE names == <<"trade_fee_numerator", "trade_fee_denominator",
                      "owner_trade_fee_numerator", "owner_trade_fee_denominator",
                      "owner_withdraw_fee_numerator", "owner_withdraw_fee_denominator",
                      "host_fee_numerator", "host_fee_denominator">>
<1>1. names \in Seq(Labels) /\ Len(names) = 8
  <2>1. \A name \in FeeNames : name \in Labels
    BY DEF FeeNames, Labels
  <2>2. QED
    BY <2>1, Eight DEF FeeNames
<1>2. \A i, j \in 1 .. 8 : names[i] = names[j] => i = j
  OBVIOUS
<1>3. {names[i] : i \in 1 .. 8} = FeeNames
  BY DEF FeeNames
<1>4. FeesPacked = Fields("u64", names) /\ FeesUnpacked = Fields("u64", names)
  BY DEF FeesPacked, FeesUnpacked
<1> HIDE DEF names
<1>5. "u64" \in Types /\ Width("u64") = Word
  BY DEF Types, Width
<1>6. QED
  BY <1>1, <1>2, <1>3, <1>4, <1>5, FieldsAre

RateNames == {"max_ssr", "ssr", "rho", "chi"}

\* A curve with a redemption rate is four wide numbers.
LEMMA RedemptionLayout ==
  /\ IsLayout(RedemptionRateCurvePacked) /\ Names(RedemptionRateCurvePacked) = RateNames
  /\ WidthOf(RedemptionRateCurvePacked) = 8 * Word
  /\ \A value : Suits(RedemptionRateCurvePacked, value) <=> \A name \in RateNames : value[name] \in Holds("u128")
  /\ RedemptionRateCurveUnpacked = RedemptionRateCurvePacked
<1> DEFINE names == <<"max_ssr", "ssr", "rho", "chi">>
<1>1. names \in Seq(Labels) /\ Len(names) = 4
  <2>1. \A name \in RateNames : name \in Labels
    BY DEF RateNames, Labels
  <2>2. QED
    BY <2>1, FourAndMore DEF RateNames
<1>2. \A i, j \in 1 .. 4 : names[i] = names[j] => i = j
  OBVIOUS
<1>3. {names[i] : i \in 1 .. 4} = RateNames
  BY DEF RateNames
<1>4. RedemptionRateCurvePacked = Fields("u128", names) /\ RedemptionRateCurveUnpacked = Fields("u128", names)
  BY DEF RedemptionRateCurvePacked, RedemptionRateCurveUnpacked
<1> HIDE DEF names
<1>5. "u128" \in Types /\ Width("u128") = 2 * Word /\ Word \in Nat
  BY BaseType DEF Types, Width
<1>6. 4 * (2 * Word) = 8 * Word
  BY <1>5, SMT
<1>7. QED
  BY <1>1, <1>2, <1>3, <1>4, <1>5, <1>6, FieldsAre

Calculators == {"ConstantProduct", "ConstantPrice", "Offset", "RedemptionRateCurve"}

\* The byte of a curve's type stands for it.
LEMMA CurveBytes ==
  /\ {CurveTypes[i] : i \in DOMAIN CurveTypes} = Calculators
  /\ \A type \in Calculators : /\ CurveByte(type) \in 0 .. 3
                               /\ CurveByte(type) + 1 \in DOMAIN CurveTypes
                               /\ CurveTypes[CurveByte(type) + 1] = type
  /\ DOMAIN CurveTypes = 1 .. 4
  /\ \A type \in Calculators : type = "RedemptionRateCurve" <=> CurveByte(type) = CurveByte("RedemptionRateCurve")
<1>1. /\ DOMAIN CurveTypes = 1 .. 4
      /\ CurveTypes[1] = "ConstantProduct" /\ CurveTypes[2] = "ConstantPrice"
      /\ CurveTypes[3] = "Offset" /\ CurveTypes[4] = "RedemptionRateCurve"
  BY DEF CurveTypes
<1>2. {CurveTypes[i] : i \in DOMAIN CurveTypes} = Calculators
  BY <1>1 DEF Calculators
<1>3. \A type \in Calculators : \E i \in 1 .. 4 : CurveTypes[i] = type
  BY <1>1 DEF Calculators
<1>4. ASSUME NEW type \in Calculators
      PROVE  /\ CurveByte(type) \in 0 .. 3 /\ CurveByte(type) + 1 \in 1 .. 4
             /\ CurveTypes[CurveByte(type) + 1] = type
  <2> DEFINE k == CHOOSE i \in DOMAIN CurveTypes : CurveTypes[i] = type
  <2>1. k \in 1 .. 4 /\ CurveTypes[k] = type
    BY <1>1, <1>3
  <2> HIDE DEF k
  <2>2. CurveByte(type) = k - 1
    BY DEF CurveByte, k
  <2>3. k - 1 \in 0 .. 3 /\ (k - 1) + 1 = k
    BY <2>1, SMT
  <2>4. QED
    BY <2>1, <2>2, <2>3
<1>5. "RedemptionRateCurve" \in Calculators
  BY DEF Calculators
<1>6. QED
  BY <1>1, <1>2, <1>4, <1>5

\* Every calculator fits the room of a curve and is unpacked as it is packed.
LEMMA CalculatorLayouts ==
  ASSUME NEW type \in Calculators
  PROVE  /\ IsLayout(CalculatorPacked(type)) /\ WidthOf(CalculatorPacked(type)) <= 8 * Word
         /\ CalculatorUnpacked(type) = CalculatorPacked(type)
<1>0. Word \in Nat /\ 2 * Word <= 8 * Word /\ Word <= 8 * Word /\ 0 <= 8 * Word
  BY BaseType, SMT
<1>1. CASE type = "ConstantProduct"
  <2> DEFINE R == [type : Types, name : Labels]
  <2>1. CalculatorPacked(type) = << >> /\ CalculatorUnpacked(type) = CalculatorPacked(type)
    BY <1>1 DEF CalculatorPacked, CalculatorUnpacked, ConstantProductPacked
  <2> HIDE DEF R
  <2>2. << >> \in Seq(R) /\ DOMAIN << >> = {} /\ Len(<< >>) = 0
    OBVIOUS
  <2>3. IsLayout(<< >>)
    BY <2>2 DEF IsLayout, R
  <2>4. Widths(<< >>) \in Seq(Nat) /\ Len(Widths(<< >>)) = 0
    BY <2>2, <2>3, WidthsAre
  <2>5. WidthOf(<< >>) = 0
    BY <2>2, <2>4, SumsSteps DEF WidthOf
  <2>6. QED
    BY <1>0, <2>1, <2>3, <2>5
<1>2. CASE type = "ConstantPrice"
  <2>1. CalculatorPacked(type) = Fields("u128", <<"token_b_price">>)
        /\ CalculatorUnpacked(type) = CalculatorPacked(type)
    BY <1>2 DEF CalculatorPacked, CalculatorUnpacked, ConstantPricePacked
  <2>2. "u128" \in Types /\ "token_b_price" \in Labels /\ Width("u128") = 2 * Word
    BY DEF Types, Labels, Width
  <2>3. QED
    BY <1>0, <2>1, <2>2, OneLayout
<1>3. CASE type = "Offset"
  <2>1. CalculatorPacked(type) = Fields("u64", <<"token_b_offset">>)
        /\ CalculatorUnpacked(type) = CalculatorPacked(type)
    BY <1>3 DEF CalculatorPacked, CalculatorUnpacked, OffsetPacked
  <2>2. "u64" \in Types /\ "token_b_offset" \in Labels /\ Width("u64") = Word
    BY DEF Types, Labels, Width
  <2>3. QED
    BY <1>0, <2>1, <2>2, OneLayout
<1>4. CASE type = "RedemptionRateCurve"
  <2>1. CalculatorPacked(type) = RedemptionRateCurvePacked
        /\ CalculatorUnpacked(type) = RedemptionRateCurveUnpacked
    BY <1>4 DEF CalculatorPacked, CalculatorUnpacked
  <2>2. WidthOf(RedemptionRateCurvePacked) <= 8 * Word
    BY <1>0, RedemptionLayout, SMT
  <2>3. QED
    BY <2>1, <2>2, RedemptionLayout
<1>5. QED
  BY <1>1, <1>2, <1>3, <1>4 DEF Calculators

\* A curve is its type's byte and the calculator's room.
LEMMA SwapCurveLayout == SwapCurveWidth = 1 + 8 * Word /\ SwapCurveWidth \in Nat
<1> DEFINE a == Fields("u8", <<"curve_type">>)
           b == Fields("calculator", <<"calculator">>)
<1>1. /\ "u8" \in Types /\ "calculator" \in Types /\ Width("u8") = 1 /\ Width("calculator") = 8 * Word
      /\ "curve_type" \in Labels /\ "calculator" \in Labels
  BY DEF Types, Width, Labels
<1>2. /\ IsLayout(a) /\ Names(a) = {"curve_type"} /\ WidthOf(a) = 1
      /\ IsLayout(b) /\ Names(b) = {"calculator"} /\ WidthOf(b) = 8 * Word
  BY <1>1, OneLayout
<1>3. SwapCurveWidth = WidthOf(a) + WidthOf(b)
  BY <1>2, LayoutsConcat DEF SwapCurveWidth, SwapCurvePacked
<1>4. 1 + 8 * Word \in Nat
  BY BaseType, SMT
<1>5. QED
  BY <1>2, <1>3, <1>4

\* Both halves of a concatenation can be cut out again.
LEMMA Halves ==
  ASSUME NEW S, NEW a \in Seq(S), NEW b \in Seq(S)
  PROVE  /\ SubSeq(a \o b, Len(a) + 1, Len(a) + Len(b)) = b
         /\ SubSeq(a \o b, 1, Len(a)) = a
<1>1. /\ a \o b \in Seq(S) /\ Len(a) \in Nat /\ Len(b) \in Nat
      /\ Len(a \o b) = Len(a) + Len(b)
      /\ \A i \in 1 .. Len(a) : (a \o b)[i] = a[i]
      /\ \A i \in 1 .. Len(b) : (a \o b)[Len(a) + i] = b[i]
  BY TwoParts
<1> DEFINE K == Len(a)
           L == Len(b)
           c == a \o b
<1>2. /\ c \in Seq(S) /\ K \in Nat /\ L \in Nat /\ Len(c) = K + L
      /\ \A i \in 1 .. K : c[i] = a[i]
      /\ \A i \in 1 .. L : c[K + i] = b[i]
  BY <1>1
<1> HIDE DEF c
<1>3. SubSeq(c, K + 1, K + L) = b
  <2>1. K + Len(b) <= Len(c)
    BY <1>2, SMT
  <2>2. SubSeq(c, K + 1, K + Len(b)) = b
    BY <1>2, <2>1, SliceIs
  <2>3. QED
    BY <2>2
<1>4. SubSeq(c, 1, K) = a
  <2>1. 0 + Len(a) <= Len(c) /\ 0 \in Nat /\ 0 + 1 = 1 /\ 0 + K = K /\ \A i \in 1 .. K : 0 + i = i
    BY <1>2, SMT
  <2>2. \A i \in 1 .. Len(a) : c[0 + i] = a[i]
    BY <1>2, <2>1
  <2>3. SubSeq(c, 0 + 1, 0 + Len(a)) = a
    BY <1>2, <2>1, <2>2, SliceIs
  <2>4. QED
    BY <2>1, <2>3
<1>5. QED
  BY <1>3, <1>4 DEF c

\* A byte in front of others.
LEMMA OneInFront ==
  ASSUME NEW S, NEW k \in S, NEW b \in Seq(S)
  PROVE  /\ <<k>> \o b \in Seq(S) /\ Len(<<k>> \o b) = 1 + Len(b) /\ Len(b) \in Nat
         /\ (<<k>> \o b)[1] = k
         /\ \A i \in 1 .. Len(b) : (<<k>> \o b)[1 + i] = b[i]
         /\ SubSeq(<<k>> \o b, 2, 1 + Len(b)) = b
         /\ Tail(<<k>> \o b) = b
         /\ <<k>> \o b # << >>
<1> DEFINE a == <<k>>
           c == a \o b
<1>1. a \in Seq(S) /\ Len(a) = 1 /\ a[1] = k
  OBVIOUS
<1> HIDE DEF a
<1>2. /\ c \in Seq(S) /\ Len(c) = 1 + Len(b) /\ Len(b) \in Nat
      /\ \A i \in 1 .. 1 : c[i] = a[i]
      /\ \A i \in 1 .. Len(b) : c[1 + i] = b[i]
      /\ SubSeq(c, 1 + 1, 1 + Len(b)) = b
  <2>1. /\ c \in Seq(S) /\ Len(c) = Len(a) + Len(b) /\ Len(b) \in Nat
        /\ \A i \in 1 .. Len(a) : c[i] = a[i]
        /\ \A i \in 1 .. Len(b) : c[Len(a) + i] = b[i]
    BY <1>1, TwoParts
  <2>2. SubSeq(c, Len(a) + 1, Len(a) + Len(b)) = b
    BY <1>1, Halves
  <2>3. QED
    BY <1>1, <2>1, <2>2
<1>3. 1 + 1 = 2 /\ 1 \in 1 .. 1
  BY SMT
<1>4. c[1] = k
  BY <1>1, <1>2, <1>3
<1> HIDE DEF c
<1>5. c # << >>
  BY <1>2, EmptySeq, SMT
<1>6. Tail(c) = b
  <2>1. Tail(c) = SubSeq(c, 2, Len(c))
    BY <1>2, <1>5, TailIsSubSeq
  <2>2. QED
    BY <1>2, <1>3, <2>1
<1>7. QED
  BY <1>2, <1>3, <1>4, <1>5, <1>6 DEF a, c

(***************************************************************************)
(* A curve is read as it was written, whatever the bytes held before that  *)
(* it leaves alone.                                                        *)
(***************************************************************************)
LEMMA CurveReads ==
  ASSUME Byte >= 3, NEW curve, IsCurve(curve), NEW slice \in Slices(SwapCurveWidth)
  PROVE  /\ PackedCurve(curve, slice) \in Slices(SwapCurveWidth)
         /\ PackedCurve(curve, slice)[1] = CurveByte(curve.curve_type)
         /\ CurveUnpacks(PackedCurve(curve, slice))
         /\ UnpackedCurve(PackedCurve(curve, slice)) = curve
<1> DEFINE B == 0 .. Byte
           type == curve.curve_type
           layout == CalculatorPacked(type)
           k == CurveByte(type)
           own == Packed(layout, curve.parameters)
           tail == SubSeq(slice, Len(own) + 2, SwapCurveWidth)
           packed == PackedCurve(curve, slice)
<1>1. /\ type \in Calculators /\ Suits(layout, curve.parameters)
      /\ curve.parameters = [name \in Names(layout) |-> curve.parameters[name]]
      /\ curve = [curve_type |-> type, parameters |-> curve.parameters]
  BY CurveBytes DEF IsCurve, IsOf
<1>2. /\ IsLayout(layout) /\ WidthOf(layout) \in Nat /\ WidthOf(layout) <= 8 * Word
      /\ CalculatorUnpacked(type) = layout
  BY <1>1, CalculatorLayouts, WidthsAre
<1>3. k \in B /\ k + 1 \in DOMAIN CurveTypes /\ CurveTypes[k + 1] = type
  <2>1. k \in 0 .. 3 /\ Byte \in Nat
    BY <1>1, CurveBytes, BaseType
  <2> HIDE DEF k
  <2>2. k \in B
    BY <2>1, SMT
  <2>3. QED
    BY <1>1, <2>2, CurveBytes DEF k
<1>4. own \in Seq(B) /\ Len(own) = WidthOf(layout)
  <2>1. << >> \in Seq(B)
    OBVIOUS
  <2>2. QED
    BY <1>1, <1>2, <2>1, FieldsInPlace DEF Slices
<1>5. /\ SwapCurveWidth = 1 + 8 * Word /\ 8 * Word \in Nat
      /\ slice \in Seq(B) /\ Len(slice) = SwapCurveWidth
  BY SwapCurveLayout, BaseType, SMT DEF Slices
<1>6. tail \in Seq(B) /\ Len(own) + Len(tail) = 8 * Word
  <2> DEFINE m == Len(own) + 2
             n == SwapCurveWidth
             W == 8 * Word
             w == Len(own)
  <2>1. w \in Nat /\ W \in Nat /\ w <= W /\ n = 1 + W /\ m = w + 2
    BY <1>2, <1>4, <1>5
  <2> HIDE DEF m, n, W, w
  <2>2. m \in Int /\ n \in Int /\ (m <= n <=> w < W) /\ n - m + 1 = W - w /\ \A i \in m .. n : i \in 1 .. n
    BY <2>1, SMT
  <2>3. \A i \in m .. n : slice[i] \in B
    BY <1>5, <2>2, ElementOfSeq DEF n
  <2>4. SubSeq(slice, m, n) \in Seq(B) /\ Len(SubSeq(slice, m, n)) = IF m <= n THEN n - m + 1 ELSE 0
    BY <2>2, <2>3, SubSeqProperties
  <2>5. w + Len(SubSeq(slice, m, n)) = W
    BY <2>1, <2>2, <2>4, SMT
  <2>6. QED
    BY <2>4, <2>5 DEF m, n, w, W
<1>7. packed = (<<k>> \o own) \o tail
  BY DEF PackedCurve
<1> DEFINE body == own \o tail
<1>8. body \in Seq(B) /\ Len(body) = 8 * Word
  <2> HIDE DEF own, tail
  <2>1. QED
    BY <1>4, <1>6, TwoParts
<1>9. packed = <<k>> \o body
  <2>1. <<k>> \in Seq(B)
    BY <1>3, Two
  <2> HIDE DEF own, tail, B, packed
  <2>2. QED
    BY <1>4, <1>6, <1>7, <2>1, ThreeParts
<1> HIDE DEF body, B, k, packed
<1>10. /\ packed \in Seq(B) /\ Len(packed) = 1 + 8 * Word /\ packed[1] = k
       /\ SubSeq(packed, 2, 1 + 8 * Word) = body
  BY <1>3, <1>8, <1>9, OneInFront
<1>11. packed \in Slices(SwapCurveWidth)
  BY <1>5, <1>10 DEF Slices, B
<1>12. Unpacked(layout, body) = curve.parameters
  <2> DEFINE value == curve.parameters
  <2> HIDE DEF value, layout, tail
  <2>1. Suits(layout, value) /\ IsLayout(layout) /\ value = [name \in Names(layout) |-> value[name]]
    BY <1>1, <1>2 DEF value
  <2>2. Unpacked(layout, Packed(layout, value) \o tail) = [name \in Names(layout) |-> value[name]]
    BY <1>6, <2>1, LayoutReads DEF B
  <2>3. QED
    BY <2>1, <2>2 DEF body, value
<1>13. UnpackedCurve(packed) = curve
  <2>1. UnpackedCurve(packed)
          = [curve_type |-> CurveTypes[k + 1],
             parameters |-> Unpacked(CalculatorUnpacked(CurveTypes[k + 1]), SubSeq(packed, 2, SwapCurveWidth))]
    BY <1>10 DEF UnpackedCurve
  <2>2. UnpackedCurve(packed) = [curve_type |-> type, parameters |-> Unpacked(layout, body)]
    BY <1>2, <1>3, <1>5, <1>10, <2>1
  <2>3. QED
    BY <1>1, <1>12, <2>2
<1>14. CurveUnpacks(packed)
  BY <1>3, <1>10 DEF CurveUnpacks
<1>15. QED
  BY <1>10, <1>11, <1>13, <1>14 DEF packed, k

-----------------------------------------------------------------------------
(* Swaps and permissions. *)

KeyNames == {"token_program_id", "token_a", "token_b", "pool_mint", "token_a_mint", "token_b_mint",
             "pool_fee_account"}

\* The keys of a swap.
LEMMA KeysLayout ==
  /\ IsLayout(TokenSwapKeys) /\ Names(TokenSwapKeys) = KeyNames
  /\ WidthOf(TokenSwapKeys) = 28 * Word
  /\ \A value : Suits(TokenSwapKeys, value) <=> \A name \in KeyNames : value[name] \in Holds("pubkey")
<1> DEFINE names == <<"token_program_id", "token_a", "token_b", "pool_mint", "token_a_mint",
                      "token_b_mint", "pool_fee_account">>
<1>1. names \in Seq(Labels) /\ Len(names) = 7
  <2>1. \A name \in KeyNames : name \in Labels
    BY DEF KeyNames, Labels
  <2>2. QED
    BY <2>1, Seven DEF KeyNames
<1>2. \A i, j \in 1 .. 7 : names[i] = names[j] => i = j
  OBVIOUS
<1>3. {names[i] : i \in 1 .. 7} = KeyNames
  BY DEF KeyNames
<1>4. TokenSwapKeys = Fields("pubkey", names)
  BY DEF TokenSwapKeys
<1> HIDE DEF names
<1>5. "pubkey" \in Types /\ Width("pubkey") = 4 * Word /\ Word \in Nat
  BY BaseType DEF Types, Width
<1>6. 7 * (4 * Word) = 28 * Word
  BY <1>5, SMT
<1>7. QED
  BY <1>1, <1>2, <1>3, <1>4, <1>5, <1>6, FieldsAre

\* The fields of a swap that come before its fees.
BodyPacked ==
  Fields("bool", <<"is_initialized">>) \o Fields("u8", <<"bump_seed">>) \o TokenSwapKeys

\* A swap as far as its keys.
LEMMA BodyLayout ==
  /\ IsLayout(BodyPacked) /\ Names(BodyPacked) = {"is_initialized", "bump_seed"} \cup KeyNames
  /\ WidthOf(BodyPacked) = 2 + 28 * Word
  /\ \A value : value["is_initialized"] \in BOOLEAN /\ value["bump_seed"] \in Holds("u8")
                /\ (\A name \in KeyNames : value[name] \in Holds("pubkey")) => Suits(BodyPacked, value)
<1> DEFINE a == Fields("bool", <<"is_initialized">>)
           b == Fields("u8", <<"bump_seed">>)
<1>1. /\ "bool" \in Types /\ "u8" \in Types /\ Width("bool") = 1 /\ Width("u8") = 1
      /\ "is_initialized" \in Labels /\ "bump_seed" \in Labels
  BY DEF Types, Width, Labels
<1>2. /\ IsLayout(a) /\ Names(a) = {"is_initialized"} /\ WidthOf(a) = 1
      /\ \A value : Suits(a, value) <=> value["is_initialized"] \in Holds("bool")
      /\ IsLayout(b) /\ Names(b) = {"bump_seed"} /\ WidthOf(b) = 1
      /\ \A value : Suits(b, value) <=> value["bump_seed"] \in Holds("u8")
  BY <1>1, OneLayout
<1> HIDE DEF a, b
<1>3. IsLayout(a \o b) /\ Names(a \o b) = {"is_initialized", "bump_seed"} /\ WidthOf(a \o b) = 2
  BY <1>2, LayoutsConcat
<1>4. Names(a \o b) \cap KeyNames = {}
  BY <1>3 DEF KeyNames
<1>5. BodyPacked = (a \o b) \o TokenSwapKeys
  BY DEF BodyPacked, a, b
<1>6. /\ IsLayout(BodyPacked) /\ Names(BodyPacked) = {"is_initialized", "bump_seed"} \cup KeyNames
      /\ WidthOf(BodyPacked) = 2 + 28 * Word
  BY <1>3, <1>4, <1>5, KeysLayout, LayoutsConcat
<1>7. ASSUME NEW value, value["is_initialized"] \in BOOLEAN, value["bump_seed"] \in Holds("u8"),
             \A name \in KeyNames : value[name] \in Holds("pubkey")
      PROVE  Suits(BodyPacked, value)
  <2>1. Holds("bool") = BOOLEAN
    BY DEF Holds
  <2>2. Suits(a, value) /\ Suits(b, value) /\ Suits(TokenSwapKeys, value)
    BY <1>2, <1>7, <2>1, KeysLayout
  <2>3. Suits(a \o b, value)
    BY <1>2, <2>2, SuitsConcat
  <2>4. QED
    BY <1>3, <1>5, <2>2, <2>3, KeysLayout, SuitsConcat
<1>8. QED
  BY <1>6, <1>7

\* A swap as far as its curve, and where the curve is.
LEMMA SwapLayout ==
  /\ SwapV1Packed = BodyPacked \o Fields("fees", <<"fees">>) /\ SwapV1Unpacked = SwapV1Packed
  /\ IsLayout(SwapV1Packed) /\ Names(SwapV1Packed) = Names(BodyPacked) \cup {"fees"}
  /\ WidthOf(SwapV1Packed) = 2 + 36 * Word
  /\ CurveAt = 2 + 36 * Word /\ LATEST_LEN = 4 + 44 * Word /\ Word \in Nat \ {0}
  /\ CurveOffset = CurveAt + 1
<1> DEFINE f == Fields("fees", <<"fees">>)
<1>1. SwapV1Packed = BodyPacked \o f /\ SwapV1Unpacked = SwapV1Packed
  BY DEF SwapV1Packed, SwapV1Unpacked, BodyPacked, TokenSwapKeys
<1>2. "fees" \in Types /\ Width("fees") = 8 * Word /\ "fees" \in Labels
  BY DEF Types, Width, Labels
<1>3. IsLayout(f) /\ Names(f) = {"fees"} /\ WidthOf(f) = 8 * Word
  BY <1>2, OneLayout
<1>4. Names(BodyPacked) \cap {"fees"} = {}
  BY BodyLayout DEF KeyNames
<1>5. /\ IsLayout(SwapV1Packed) /\ Names(SwapV1Packed) = Names(BodyPacked) \cup {"fees"}
      /\ WidthOf(SwapV1Packed) = (2 + 28 * Word) + 8 * Word
  <2> HIDE DEF f
  <2>1. QED
    BY <1>1, <1>3, <1>4, BodyLayout, LayoutsConcat
<1>6. Word \in Nat \ {0}
  BY BaseType
<1>7. WidthOf(SwapV1Packed) = 2 + 36 * Word
  BY <1>5, <1>6, SMT
<1>8. LATEST_LEN = 4 + 44 * Word /\ CurveOffset = CurveAt + 1 /\ CurveAt = 2 + 36 * Word
  <2>1. LATEST_LEN = (2 + 36 * Word) + (1 + 8 * Word) + 1
    BY <1>7, SwapCurveLayout DEF LATEST_LEN, LEN, CurveAt
  <2>2. CurveOffset = LATEST_LEN - (1 + 8 * Word) /\ CurveAt = 2 + 36 * Word
    BY <1>7, SwapCurveLayout DEF CurveOffset, CurveAt
  <2>3. QED
    BY <1>6, <2>1, <2>2, SMT
<1>9. QED
  BY <1>1, <1>5, <1>6, <1>7, <1>8

PermissionNames == {"is_initialized", "swap", "authority", "is_super_admin", "can_update_parameters"}

\* A permission's fields.
LEMMA PermissionLayout ==
  /\ IsLayout(PermissionPacked) /\ Names(PermissionPacked) = PermissionNames
  /\ WidthOf(PermissionPacked) = 3 + 8 * Word /\ PermissionLEN = 3 + 8 * Word
  /\ PermissionUnpacked = PermissionPacked
  /\ Len(PermissionPacked) \in Nat \ {0}
  /\ PermissionPacked[1] = [type |-> "bool", name |-> "is_initialized"]
  /\ \A value : Suits(PermissionPacked, value) =>
       /\ value["is_super_admin"] \in BOOLEAN /\ value["can_update_parameters"] \in BOOLEAN
       /\ value["is_initialized"] \in BOOLEAN
       /\ value["swap"] \in Holds("pubkey") /\ value["authority"] \in Holds("pubkey")
  /\ \A value : /\ value["is_super_admin"] \in BOOLEAN /\ value["can_update_parameters"] \in BOOLEAN
                /\ value["is_initialized"] \in BOOLEAN
                /\ value["swap"] \in Holds("pubkey") /\ value["authority"] \in Holds("pubkey")
                => Suits(PermissionPacked, value)
<1> DEFINE a == Fields("bool", <<"is_initialized">>)
           b == Fields("pubkey", <<"swap", "authority">>)
           c == Fields("bool", <<"is_super_admin", "can_update_parameters">>)
           R == [type : Types, name : Labels]
<1>1. /\ "bool" \in Types /\ "pubkey" \in Types /\ Width("bool") = 1 /\ Width("pubkey") = 4 * Word
      /\ "is_initialized" \in Labels /\ "swap" \in Labels /\ "authority" \in Labels
      /\ "is_super_admin" \in Labels /\ "can_update_parameters" \in Labels
  BY DEF Types, Width, Labels
<1>2. /\ IsLayout(a) /\ Names(a) = {"is_initialized"} /\ WidthOf(a) = 1
      /\ \A value : Suits(a, value) <=> value["is_initialized"] \in Holds("bool")
  BY <1>1, OneLayout
<1>3. /\ IsLayout(b) /\ Names(b) = {"swap", "authority"} /\ WidthOf(b) = 2 * (4 * Word)
      /\ \A value : Suits(b, value) <=> \A name \in {"swap", "authority"} : value[name] \in Holds("pubkey")
  <2> DEFINE names == <<"swap", "authority">>
  <2>1. names \in Seq(Labels) /\ Len(names) = 2
    BY <1>1, Two
  <2>2. \A i, j \in 1 .. 2 : names[i] = names[j] => i = j
    OBVIOUS
  <2>3. {names[i] : i \in 1 .. 2} = {"swap", "authority"}
    OBVIOUS
  <2> HIDE DEF names
  <2>4. QED
    BY <1>1, <2>1, <2>2, <2>3, FieldsAre DEF names
<1>4. /\ IsLayout(c) /\ Names(c) = {"is_super_admin", "can_update_parameters"} /\ WidthOf(c) = 2 * 1
      /\ \A value : Suits(c, value) <=> \A name \in {"is_super_admin", "can_update_parameters"} :
                                          value[name] \in Holds("bool")
  <2> DEFINE names == <<"is_super_admin", "can_update_parameters">>
  <2>1. names \in Seq(Labels) /\ Len(names) = 2
    BY <1>1, Two
  <2>2. \A i, j \in 1 .. 2 : names[i] = names[j] => i = j
    OBVIOUS
  <2>3. {names[i] : i \in 1 .. 2} = {"is_super_admin", "can_update_parameters"}
    OBVIOUS
  <2> HIDE DEF names
  <2>4. QED
    BY <1>1, <2>1, <2>2, <2>3, FieldsAre DEF names
<1>5. PermissionPacked = (a \o b) \o c /\ PermissionUnpacked = PermissionPacked
  BY DEF PermissionPacked, PermissionUnpacked
<1>6. a[1] = [type |-> "bool", name |-> "is_initialized"] /\ Len(a) = 1
  BY DEF Fields
<1> HIDE DEF a, b, c
<1>7. /\ IsLayout(a \o b) /\ Names(a \o b) = {"is_initialized", "swap", "authority"}
      /\ WidthOf(a \o b) = 1 + 2 * (4 * Word)
  BY <1>2, <1>3, LayoutsConcat
<1>8. /\ IsLayout(PermissionPacked) /\ Names(PermissionPacked) = PermissionNames
      /\ WidthOf(PermissionPacked) = 1 + 2 * (4 * Word) + 2 * 1
  <2>1. Names(a \o b) \cap Names(c) = {}
    BY <1>4, <1>7
  <2>2. Names(a \o b) \cup Names(c) = PermissionNames
    BY <1>4, <1>7 DEF PermissionNames
  <2>3. QED
    BY <1>4, <1>5, <1>7, <2>1, <2>2, LayoutsConcat
<1>9. WidthOf(PermissionPacked) = 3 + 8 * Word
  BY <1>8, BaseType, SMT
<1>10. a \in Seq(R) /\ b \in Seq(R) /\ c \in Seq(R) /\ a \o b \in Seq(R)
  BY <1>2, <1>3, <1>4, <1>7, LayoutIndices
<1> HIDE DEF R
<1>11. /\ (a \o b)[1] = a[1] /\ Len(a \o b) = 1 + Len(b) /\ Len(b) \in Nat
  <2>1. 1 \in 1 .. 1
    BY SMT
  <2>2. /\ Len(a \o b) = Len(a) + Len(b) /\ Len(b) \in Nat
        /\ \A i \in 1 .. Len(a) : (a \o b)[i] = a[i]
    BY <1>10, TwoParts
  <2>3. Len(a) = 1
    BY <1>6
  <2>4. QED
    BY <2>1, <2>2, <2>3
<1>12. /\ PermissionPacked[1] = a[1] /\ Len(PermissionPacked) \in Nat \ {0}
  <2>1. 1 \in 1 .. Len(a \o b) /\ Len(a \o b) \in Nat \ {0}
    BY <1>11, SMT
  <2>2. /\ ((a \o b) \o c)[1] = (a \o b)[1] /\ Len((a \o b) \o c) = Len(a \o b) + Len(c) /\ Len(c) \in Nat
    BY <1>10, <2>1, TwoParts
  <2>3. Len(a \o b) + Len(c) \in Nat \ {0}
    BY <2>1, <2>2, SMT
  <2>4. QED
    BY <1>5, <1>11, <2>2, <2>3
<1>13. Holds("bool") = BOOLEAN
  BY DEF Holds
<1>14. ASSUME NEW value, Suits(PermissionPacked, value)
       PROVE  /\ value["is_super_admin"] \in BOOLEAN /\ value["can_update_parameters"] \in BOOLEAN
              /\ value["is_initialized"] \in BOOLEAN
              /\ value["swap"] \in Holds("pubkey") /\ value["authority"] \in Holds("pubkey")
  <2>1. Suits(a \o b, value) /\ Suits(c, value)
    BY <1>4, <1>5, <1>7, <1>14, SuitsParts
  <2>2. Suits(a, value) /\ Suits(b, value)
    BY <1>2, <1>3, <2>1, SuitsParts
  <2>3. QED
    BY <1>2, <1>3, <1>4, <1>13, <2>1, <2>2
<1>15. ASSUME NEW value, value["is_super_admin"] \in BOOLEAN, value["can_update_parameters"] \in BOOLEAN,
              value["is_initialized"] \in BOOLEAN,
              value["swap"] \in Holds("pubkey"), value["authority"] \in Holds("pubkey")
       PROVE  Suits(PermissionPacked, value)
  <2>1. Suits(a, value) /\ Suits(b, value) /\ Suits(c, value)
    BY <1>2, <1>3, <1>4, <1>13, <1>15
  <2>2. Suits(a \o b, value)
    BY <1>2, <1>3, <2>1, SuitsConcat
  <2>3. QED
    BY <1>4, <1>5, <1>7, <2>1, <2>2, SuitsConcat
<1>16. QED
  BY <1>5, <1>6, <1>8, <1>9, <1>12, <1>14, <1>15 DEF PermissionLEN

\* What is appended does not change the first byte.
LEMMA FirstStays ==
  ASSUME NEW S, NEW a \in Seq(S), NEW b \in Seq(S), 1 <= Len(a)
  PROVE  (a \o b)[1] = a[1] /\ a \o b \in Seq(S) /\ 1 <= Len(a \o b)
<1>1. /\ a \o b \in Seq(S) /\ Len(a) \in Nat /\ Len(b) \in Nat
      /\ Len(a \o b) = Len(a) + Len(b)
      /\ \A i \in 1 .. Len(a) : (a \o b)[i] = a[i]
  BY TwoParts
<1>2. 1 \in 1 .. Len(a) /\ 1 <= Len(a) + Len(b)
  BY <1>1, SMT
<1>3. QED
  BY <1>1, <1>2

SwapNames == {"is_initialized", "bump_seed", "fees", "swap_curve"} \cup KeyNames

\* What a swap is packed as.
SwapBody(pool) == [pool EXCEPT !.fees = Packed(FeesPacked, @)]

\* The fields of a swap, and what suits them.
LEMMA SwapFields ==
  ASSUME NEW pool, IsSwap(pool)
  PROVE  /\ pool = [field \in SwapNames |-> pool[field]]
         /\ pool["is_initialized"] = TRUE /\ pool["bump_seed"] \in Holds("u8")
         /\ \A key \in KeyNames : pool[key] \in Holds("pubkey")
         /\ IsOf(FeesPacked, pool["fees"]) /\ IsCurve(pool["swap_curve"])
         /\ SwapBody(pool) = [field \in SwapNames |->
                                IF field = "fees" THEN Packed(FeesPacked, pool["fees"]) ELSE pool[field]]
         /\ Packed(FeesPacked, pool["fees"]) \in Slices(8 * Word)
         /\ Unpacked(FeesUnpacked, Packed(FeesPacked, pool["fees"])) = pool["fees"]
         /\ Suits(SwapV1Packed, SwapBody(pool)) /\ Suits(BodyPacked, SwapBody(pool))
<1>1. /\ pool = [field \in SwapNames |-> pool[field]]
      /\ pool["is_initialized"] = TRUE /\ pool["bump_seed"] \in Holds("u8")
      /\ \A key \in KeyNames : pool[key] \in Holds("pubkey")
      /\ IsOf(FeesPacked, pool["fees"]) /\ IsCurve(pool["swap_curve"])
  <2>1. Names(SwapV1Packed) \cup {"swap_curve"} = SwapNames
    BY SwapLayout, BodyLayout DEF SwapNames
  <2>2. pool = [field \in SwapNames |-> pool[field]]
    BY <2>1 DEF IsSwap
  <2>3. QED
    BY <2>2, KeysLayout DEF IsSwap
<1> DEFINE fees == Packed(FeesPacked, pool["fees"])
<1>2. SwapBody(pool) = [field \in SwapNames |-> IF field = "fees" THEN fees ELSE pool[field]]
  <2>1. DOMAIN pool = SwapNames /\ "fees" \in SwapNames
    BY <1>1 DEF SwapNames
  <2>2. QED
    BY <2>1 DEF SwapBody
<1>3. /\ fees \in Slices(8 * Word)
      /\ Unpacked(FeesUnpacked, fees) = pool["fees"]
  <2> DEFINE f == pool["fees"]
  <2>1. Suits(FeesPacked, f) /\ f = [name \in Names(FeesPacked) |-> f[name]]
    BY <1>1 DEF IsOf
  <2> HIDE DEF f
  <2>2. << >> \in Seq(0 .. Byte)
    OBVIOUS
  <2>3. /\ Packed(FeesPacked, f) \in Slices(8 * Word)
        /\ Unpacked(FeesPacked, Packed(FeesPacked, f) \o << >>) = [name \in Names(FeesPacked) |-> f[name]]
    <3>1. IsLayout(FeesPacked) /\ WidthOf(FeesPacked) = 8 * Word
      BY FeesLayout
    <3>2. Packed(FeesPacked, f) \in Slices(WidthOf(FeesPacked))
      BY <2>1, <2>2, <3>1, FieldsInPlace
    <3>3. Unpacked(FeesPacked, Packed(FeesPacked, f) \o << >>) = [name \in Names(FeesPacked) |-> f[name]]
      <4> DEFINE rest == << >>
      <4>1. rest \in Seq(0 .. Byte)
        BY <2>2
      <4> HIDE DEF rest
      <4>2. Unpacked(FeesPacked, Packed(FeesPacked, f) \o rest) = [name \in Names(FeesPacked) |-> f[name]]
        BY <2>1, <3>1, <4>1, LayoutReads
      <4>3. QED
        BY <4>2 DEF rest
    <3>4. QED
      BY <3>1, <3>2, <3>3
  <2>4. Packed(FeesPacked, f) \o << >> = Packed(FeesPacked, f)
    BY <2>3, TwoParts DEF Slices
  <2>5. QED
    BY <2>1, <2>3, <2>4, FeesLayout DEF f
<1> DEFINE body == SwapBody(pool)
<1> HIDE DEF fees
<1>4. /\ body["is_initialized"] \in BOOLEAN /\ body["bump_seed"] \in Holds("u8")
      /\ \A key \in KeyNames : body[key] \in Holds("pubkey")
      /\ body["fees"] = fees
  <2>1. /\ "is_initialized" \in SwapNames /\ "bump_seed" \in SwapNames /\ "fees" \in SwapNames
        /\ \A key \in KeyNames : key \in SwapNames /\ key # "fees"
    BY DEF SwapNames, KeyNames
  <2>2. QED
    BY <1>1, <1>2, <2>1
<1> HIDE DEF body
<1>5. Suits(BodyPacked, body)
  BY <1>4, BodyLayout
<1>6. Suits(Fields("fees", <<"fees">>), body)
  <2>1. "fees" \in Types /\ "fees" \in Labels /\ Width("fees") = 8 * Word /\ 8 * Word \in Nat
    BY BaseType, SMT DEF Types, Labels, Width
  <2>2. Holds("fees") = [1 .. Width("fees") -> 0 .. Byte]
    BY DEF Holds
  <2>3. body["fees"] \in Holds("fees")
    BY <1>3, <1>4, <2>1, <2>2, FunctionsFromSlices
  <2>4. QED
    BY <2>1, <2>3, OneLayout
<1>7. Suits(SwapV1Packed, body)
  <2>1. "fees" \in Types /\ "fees" \in Labels
    BY DEF Types, Labels
  <2>2. QED
    BY <1>5, <1>6, <2>1, SwapLayout, BodyLayout, OneLayout, SuitsConcat
<1>8. QED
  BY <1>1, <1>2, <1>3, <1>5, <1>7 DEF fees, body

\* The curve's bytes in a swap.
CurveSlice(bytes) == SubSeq(bytes, CurveAt + 2, LATEST_LEN)

\* The slice of an account that a curve is packed into.
LEMMA SliceOfCurve ==
  ASSUME NEW bytes \in Slices(LATEST_LEN)
  PROVE  CurveSlice(bytes) \in Slices(SwapCurveWidth)
<1> DEFINE m == CurveAt + 2
           n == LATEST_LEN
<1>1. CurveAt = 2 + 36 * Word /\ LATEST_LEN = 4 + 44 * Word /\ Word \in Nat \ {0} /\ SwapCurveWidth = 1 + 8 * Word
  BY SwapLayout, SwapCurveLayout
<1>2. m \in Int /\ n \in Int /\ m <= n /\ n - m + 1 = SwapCurveWidth /\ \A i \in m .. n : i \in 1 .. n
  BY <1>1, SMT
<1>3. bytes \in Seq(0 .. Byte) /\ Len(bytes) = n
  BY DEF Slices
<1> HIDE DEF m, n
<1>4. \A i \in m .. n : bytes[i] \in 0 .. Byte
  BY <1>2, <1>3, ElementOfSeq
<1>5. SubSeq(bytes, m, n) \in Seq(0 .. Byte) /\ Len(SubSeq(bytes, m, n)) = IF m <= n THEN n - m + 1 ELSE 0
  BY <1>2, <1>4, SubSeqProperties
<1>6. QED
  BY <1>2, <1>5 DEF CurveSlice, Slices, m, n

(***************************************************************************)
(* A swap takes all the bytes of its account, the version first, and is    *)
(* read as it was written.                                                 *)
(***************************************************************************)
LEMMA SwapPacks ==
  ASSUME Byte >= 3, NEW pool, IsSwap(pool), NEW bytes \in Slices(LATEST_LEN)
  PROVE  LET body   == Packed(SwapV1Packed, SwapBody(pool))
             curve  == PackedCurve(pool.swap_curve, CurveSlice(bytes))
             packed == PackedSwap(pool, bytes)
         IN  /\ packed = <<1>> \o (body \o curve) /\ packed \in Slices(LATEST_LEN)
             /\ body \in Slices(CurveAt) /\ curve \in Slices(SwapCurveWidth)
             /\ packed[1] = 1 /\ Tail(packed) = body \o curve
             /\ CurveSlice(packed) = curve /\ packed[CurveAt + 2] = curve[1]
<1> DEFINE B == 0 .. Byte
           body == Packed(SwapV1Packed, SwapBody(pool))
           curve == PackedCurve(pool.swap_curve, CurveSlice(bytes))
           packed == PackedSwap(pool, bytes)
<1>1. CurveAt = 2 + 36 * Word /\ LATEST_LEN = 4 + 44 * Word /\ Word \in Nat \ {0} /\ SwapCurveWidth = 1 + 8 * Word
  BY SwapLayout, SwapCurveLayout
<1>2. body \in Slices(CurveAt)
  <2>1. << >> \in Seq(B)
    OBVIOUS
  <2>2. IsLayout(SwapV1Packed) /\ Suits(SwapV1Packed, SwapBody(pool))
    BY SwapLayout, SwapFields
  <2>3. body \in Slices(WidthOf(SwapV1Packed))
    BY <2>1, <2>2, FieldsInPlace
  <2>4. QED
    BY <2>3 DEF CurveAt
<1>3. curve \in Slices(SwapCurveWidth)
  BY SwapFields, SliceOfCurve, CurveReads
<1>4. packed = (<<1>> \o body) \o curve
  BY DEF PackedSwap, SwapBody, CurveSlice, VersionV1
<1>5. 1 \in B
  BY BaseType, SMT
<1> DEFINE rest == body \o curve
<1> HIDE DEF body, curve, packed, B
<1>6. body \in Seq(B) /\ Len(body) = CurveAt /\ curve \in Seq(B) /\ Len(curve) = SwapCurveWidth
  BY <1>2, <1>3 DEF Slices, B
<1>7. <<1>> \in Seq(B)
  BY <1>5, Two
<1>8. packed = <<1>> \o rest
  BY <1>4, <1>6, <1>7, ThreeParts
<1>9. /\ rest \in Seq(B) /\ Len(rest) = CurveAt + SwapCurveWidth
      /\ \A i \in 1 .. SwapCurveWidth : rest[CurveAt + i] = curve[i]
  <2>1. /\ body \o curve \in Seq(B) /\ Len(body \o curve) = Len(body) + Len(curve)
        /\ \A i \in 1 .. Len(curve) : (body \o curve)[Len(body) + i] = curve[i]
    <3>1. body \in Seq(B) /\ curve \in Seq(B)
      BY <1>6
    <3>2. QED
      BY <3>1, TwoParts
  <2>2. QED
    BY <1>6, <2>1
<1> HIDE DEF rest
<1>10. /\ packed \in Seq(B) /\ Len(packed) = 1 + Len(rest) /\ packed[1] = 1 /\ Tail(packed) = rest
       /\ \A i \in 1 .. Len(rest) : packed[1 + i] = rest[i]
  BY <1>5, <1>8, <1>9, OneInFront
<1>11. Len(packed) = LATEST_LEN
  BY <1>1, <1>9, <1>10, SMT
<1>12. CurveSlice(packed) = curve
  <2> DEFINE front == <<1>> \o body
  <2>1. front \in Seq(B) /\ Len(front) = 1 + CurveAt
    BY <1>5, <1>6, OneInFront
  <2>2. packed = front \o curve
    BY <1>4
  <2> HIDE DEF front
  <2>3. SubSeq(packed, Len(front) + 1, Len(front) + Len(curve)) = curve
    BY <1>6, <2>1, <2>2, Halves
  <2>4. Len(front) + 1 = CurveAt + 2 /\ Len(front) + Len(curve) = LATEST_LEN
    BY <1>1, <1>6, <2>1, SMT
  <2>5. QED
    BY <2>3, <2>4 DEF CurveSlice
<1>13. packed[CurveAt + 2] = curve[1]
  <2>1. 1 \in 1 .. SwapCurveWidth /\ CurveAt + 1 \in 1 .. CurveAt + SwapCurveWidth
        /\ 1 + (CurveAt + 1) = CurveAt + 2
    BY <1>1, SMT
  <2>2. packed[1 + (CurveAt + 1)] = rest[CurveAt + 1]
    BY <1>9, <1>10, <2>1
  <2>3. rest[CurveAt + 1] = curve[1]
    BY <1>9, <2>1
  <2>4. QED
    BY <2>1, <2>2, <2>3
<1>14. packed \in Slices(LATEST_LEN)
  BY <1>10, <1>11 DEF Slices, B
<1>15. QED
  BY <1>2, <1>3, <1>8, <1>10, <1>12, <1>13, <1>14 DEF body, curve, packed, rest

\* A swap's first byte says that it is initialized.
LEMMA FirstOfBody ==
  ASSUME NEW pool, IsSwap(pool), NEW rest \in Seq(0 .. Byte)
  PROVE  (Packed(SwapV1Packed, SwapBody(pool)) \o rest)[1] = 1
<1> DEFINE bytes == Packed(SwapV1Packed, SwapBody(pool)) \o rest
           B == 0 .. Byte
           R == [type : Types, name : Labels]
           a == Fields("bool", <<"is_initialized">>)
           b == Fields("u8", <<"bump_seed">>)
           c == TokenSwapKeys
           d == Fields("fees", <<"fees">>)
<1>1. a[1] = [type |-> "bool", name |-> "is_initialized"] /\ Len(a) = 1
  BY DEF Fields
<1>2. "bool" \in Types /\ "u8" \in Types /\ "fees" \in Types
      /\ "is_initialized" \in Labels /\ "bump_seed" \in Labels /\ "fees" \in Labels
  BY DEF Types, Labels
<1>3. a \in Seq(R) /\ b \in Seq(R) /\ c \in Seq(R) /\ d \in Seq(R)
  BY <1>2, OneLayout, KeysLayout, LayoutIndices
<1>4. SwapV1Packed = ((a \o b) \o c) \o d
  BY SwapLayout DEF BodyPacked
<1> HIDE DEF a, b, c, d, R
<1>5. SwapV1Packed[1] = a[1] /\ 1 \in DOMAIN SwapV1Packed
  <2>1. (a \o b)[1] = a[1] /\ a \o b \in Seq(R) /\ 1 <= Len(a \o b)
    <3>1. 1 <= Len(a)
      BY <1>1, SMT
    <3>2. QED
      BY <1>3, <3>1, FirstStays
  <2>2. ((a \o b) \o c)[1] = a[1] /\ (a \o b) \o c \in Seq(R) /\ 1 <= Len((a \o b) \o c)
    BY <1>3, <2>1, FirstStays
  <2>3. SwapV1Packed[1] = a[1] /\ SwapV1Packed \in Seq(R) /\ 1 <= Len(SwapV1Packed)
    BY <1>3, <1>4, <2>2, FirstStays
  <2>4. DOMAIN SwapV1Packed = 1 .. Len(SwapV1Packed) /\ Len(SwapV1Packed) \in Nat
    BY <2>3, LenProperties
  <2>5. QED
    BY <2>3, <2>4, SMT
<1>6. IsLayout(SwapV1Packed) /\ Suits(SwapV1Packed, SwapBody(pool)) /\ SwapBody(pool)["is_initialized"] = TRUE
  <2>1. "is_initialized" \in SwapNames /\ "is_initialized" # "fees"
    BY DEF SwapNames
  <2>2. /\ SwapBody(pool) = [field \in SwapNames |->
                             IF field = "fees" THEN Packed(FeesPacked, pool["fees"]) ELSE pool[field]]
        /\ pool["is_initialized"] = TRUE
    BY SwapFields
  <2>3. SwapBody(pool)["is_initialized"] = TRUE
    BY <2>1, <2>2
  <2>4. QED
    BY <2>3, SwapLayout, SwapFields
<1>7. FieldBytes(SwapV1Packed, 1, bytes) = Encoded("bool", TRUE)
  <2> DEFINE value == SwapBody(pool)
             layout == SwapV1Packed
  <2>1. /\ IsLayout(layout) /\ Suits(layout, value) /\ value["is_initialized"] = TRUE
        /\ layout[1] = [type |-> "bool", name |-> "is_initialized"] /\ 1 \in DOMAIN layout
    BY <1>1, <1>5, <1>6
  <2> HIDE DEF value, layout
  <2>2. FieldBytes(layout, 1, Packed(layout, value) \o rest)
          = Encoded(layout[1].type, value[layout[1].name])
    BY <2>1, FieldsInPlace
  <2>3. layout[1].type = "bool" /\ layout[1].name = "is_initialized"
    BY <2>1
  <2>4. QED
    BY <2>1, <2>2, <2>3 DEF value, layout
<1>8. FieldBytes(SwapV1Packed, 1, bytes) = SubSeq(bytes, 1, 1)
  <2>1. Offset(SwapV1Packed, 1) = 0
    <3>1. 1 - 1 = 0
      BY SMT
    <3>2. Widths(SwapV1Packed) \in Seq(Nat)
      BY <1>6, WidthsAre
    <3>3. QED
      BY <3>1, <3>2, SumsSteps DEF Offset
  <2>2. Width(SwapV1Packed[1].type) = 1
    BY <1>1, <1>5 DEF Width
  <2>3. 0 + 1 = 1
    BY SMT
  <2> HIDE DEF bytes
  <2>4. QED
    BY <2>1, <2>2, <2>3 DEF FieldBytes
<1>9. Encoded("bool", TRUE) = <<1>>
  BY DEF Encoded
<1>10. QED
  <2> HIDE DEF bytes
  <2>1. SubSeq(bytes, 1, 1) = <<1>>
    BY <1>7, <1>8, <1>9
  <2>2. SubSeq(bytes, 1, 1)[1] = bytes[1]
    <3>1. SubSeq(bytes, 1, 1) = [i \in 1 .. 1 |-> bytes[i]]
      OBVIOUS
    <3>2. 1 \in 1 .. 1
      BY SMT
    <3>3. QED
      BY <3>1, <3>2
  <2>3. <<1>>[1] = 1
    OBVIOUS
  <2>4. bytes[1] = 1
    BY <2>1, <2>2, <2>3
  <2>5. QED
    BY <2>4 DEF bytes

(***************************************************************************)
(* Every part of the program finds in it what was written.                 *)
(***************************************************************************)
LEMMA SwapReads ==
  ASSUME Byte >= 3, NEW pool, IsSwap(pool), NEW bytes \in Slices(LATEST_LEN)
  PROVE  /\ SwapUnpacks(PackedSwap(pool, bytes)) /\ IsInitialized(PackedSwap(pool, bytes))
         /\ UnpackedSwap(PackedSwap(pool, bytes)) = pool
<1> DEFINE B == 0 .. Byte
           body == Packed(SwapV1Packed, SwapBody(pool))
           curve == PackedCurve(pool.swap_curve, CurveSlice(bytes))
           packed == PackedSwap(pool, bytes)
<1>1. /\ packed = <<1>> \o (body \o curve) /\ packed \in Slices(LATEST_LEN)
      /\ body \in Slices(CurveAt) /\ curve \in Slices(SwapCurveWidth)
      /\ packed[1] = 1 /\ Tail(packed) = body \o curve
      /\ CurveSlice(packed) = curve /\ packed[CurveAt + 2] = curve[1]
  BY SwapPacks
<1>2. body \in Seq(B) /\ curve \in Seq(B) /\ packed \in Seq(B) /\ Len(packed) = LATEST_LEN
  BY <1>1 DEF Slices
<1>3. CurveUnpacks(curve) /\ UnpackedCurve(curve) = pool.swap_curve
  BY SwapFields, SliceOfCurve, CurveReads
<1>4. /\ IsLayout(SwapV1Packed) /\ SwapV1Unpacked = SwapV1Packed /\ Suits(SwapV1Packed, SwapBody(pool))
      /\ Names(SwapV1Packed) \cup {"swap_curve"} = SwapNames
      /\ "swap_curve" \notin Names(SwapV1Packed) /\ "fees" \in Names(SwapV1Packed)
  <2>1. Names(SwapV1Packed) = {"is_initialized", "bump_seed"} \cup KeyNames \cup {"fees"}
    BY SwapLayout, BodyLayout
  <2>2. QED
    BY <2>1, SwapLayout, SwapFields DEF SwapNames, KeyNames
<1> DEFINE read == Unpacked(SwapV1Unpacked, Tail(packed))
<1>5. /\ read = [name \in Names(SwapV1Packed) |-> SwapBody(pool)[name]]
      /\ StrictBools(SwapV1Unpacked, Tail(packed))
  <2> DEFINE value == SwapBody(pool)
  <2> HIDE DEF value, curve
  <2>1. /\ Unpacked(SwapV1Packed, Packed(SwapV1Packed, value) \o curve)
             = [name \in Names(SwapV1Packed) |-> value[name]]
        /\ StrictBools(SwapV1Packed, Packed(SwapV1Packed, value) \o curve)
    BY <1>2, <1>4, LayoutReads DEF value
  <2>2. QED
    BY <1>1, <1>4, <2>1 DEF value
<1>6. packed[2] = 1
  <2>1. (body \o curve)[1] = 1
    BY <1>2, FirstOfBody
  <2>2. /\ body \o curve \in Seq(B) /\ Len(body \o curve) = CurveAt + SwapCurveWidth
    <3>1. Len(body) = CurveAt /\ Len(curve) = SwapCurveWidth
      BY <1>1 DEF Slices
    <3> HIDE DEF body, curve, B
    <3>2. QED
      BY <1>2, <3>1, TwoParts
  <2>3. 1 \in B /\ 1 \in 1 .. Len(body \o curve) /\ 1 + 1 = 2
    <3>1. 1 \in 1 .. CurveAt + SwapCurveWidth
      BY SwapLayout, SwapCurveLayout, SMT
    <3>2. 1 \in B
      BY BaseType, SMT
    <3>3. QED
      BY <2>2, <3>1, <3>2
  <2> DEFINE rest == body \o curve
  <2>4. packed = <<1>> \o rest /\ rest \in Seq(B) /\ rest[1] = 1 /\ 1 \in 1 .. Len(rest)
    BY <1>1, <2>1, <2>2, <2>3
  <2> HIDE DEF rest, packed, B
  <2>5. packed[1 + 1] = rest[1]
    BY <2>3, <2>4, OneInFront
  <2>6. QED
    BY <2>3, <2>4, <2>5
<1>7. SwapUnpacks(packed)
  BY <1>1, <1>2, <1>3, <1>5, <1>6 DEF SwapUnpacks, CurveSlice, VersionV1
<1>8. IsInitialized(packed)
  <2>1. LATEST_LEN > 1
    BY SwapLayout, SMT
  <2>2. QED
    BY <1>2, <1>6, <2>1 DEF IsInitialized
<1>9. UnpackedSwap(packed) = pool
  <2>1. UnpackedSwap(packed) = [field \in DOMAIN read \cup {"swap_curve"} |->
          CASE field = "swap_curve" -> UnpackedCurve(SubSeq(packed, CurveAt + 2, LATEST_LEN))
            [] field = "fees"       -> Unpacked(FeesUnpacked, read.fees)
            [] OTHER                -> read[field]]
    BY DEF UnpackedSwap
  <2>2. DOMAIN read = Names(SwapV1Packed)
    BY <1>5
  <2>3. \A field \in Names(SwapV1Packed) : read[field] = SwapBody(pool)[field]
    BY <1>5
  <2>4. read.fees = Packed(FeesPacked, pool["fees"])
    <3>1. "fees" \in SwapNames
      BY DEF SwapNames
    <3>2. SwapBody(pool)["fees"] = Packed(FeesPacked, pool["fees"])
      BY <3>1, SwapFields
    <3>3. read["fees"] = SwapBody(pool)["fees"]
      BY <1>4, <2>3
    <3> HIDE DEF read
    <3>4. QED
      BY <3>2, <3>3
  <2> HIDE DEF read, packed
  <2>5. Unpacked(FeesUnpacked, read.fees) = pool["fees"]
    BY <2>4, SwapFields
  <2>6. UnpackedCurve(SubSeq(packed, CurveAt + 2, LATEST_LEN)) = pool["swap_curve"]
    BY <1>1, <1>3 DEF CurveSlice
  <2>7. ASSUME NEW field \in SwapNames
        PROVE  (CASE field = "swap_curve" -> UnpackedCurve(SubSeq(packed, CurveAt + 2, LATEST_LEN))
                  [] field = "fees"       -> Unpacked(FeesUnpacked, read.fees)
                  [] OTHER                -> read[field]) = pool[field]
    <3>1. CASE field = "swap_curve"
      BY <2>6, <3>1
    <3>2. CASE field = "fees"
      BY <2>5, <3>2
    <3>3. CASE field # "swap_curve" /\ field # "fees"
      <4>1. field \in Names(SwapV1Packed)
        BY <1>4, <3>3
      <4>2. read[field] = pool[field]
        BY <2>3, <3>3, <4>1, SwapFields
      <4>3. QED
        BY <3>3, <4>2
    <3>4. QED
      BY <3>1, <3>2, <3>3
  <2>8. UnpackedSwap(packed) = [field \in SwapNames |-> pool[field]]
    BY <1>4, <2>1, <2>2, <2>7
  <2>9. QED
    BY <2>8, SwapFields
<1>10. QED
  BY <1>7, <1>8, <1>9

-----------------------------------------------------------------------------
(* The JavaScript client. *)

\* A small number is its own byte.
LEMMA OneByte ==
  ASSUME NEW k \in 0 .. Byte
  PROVE  Encoded("u8", k) = <<k>> /\ k \in Holds("u8")
<1>1. Width("u8") = 1 /\ Encoded("u8", k) = ToLE(k, Width("u8")) /\ Holds("u8") = 0 .. Places[Width("u8")] - 1
  BY DEF Width, Encoded, Holds
<1>2. Places[0] = 1 /\ Places[1] = Base
  <2>1. Places[0] = 1 /\ Places[0 + 1] = Base * Places[0]
    BY PlacesSteps
  <2>2. 0 + 1 = 1 /\ Base * 1 = Base
    BY BaseType, SMT
  <2>3. QED
    BY <2>1, <2>2
<1>3. k \div 1 = k /\ k % Base = k /\ k \in Nat
  <2>1. k \in Nat /\ k < Base /\ Base \in Nat \ {0} /\ k = Base * 0 + k /\ k \div 1 = k
    BY BaseType, SMT
  <2>2. k % Base = k
    BY <2>1, RemainderIs
  <2>3. QED
    BY <2>1, <2>2
<1>4. ToLE(k, 1) = [i \in 1 .. 1 |-> (k \div Places[i - 1]) % Base]
  BY DEF ToLE
<1>5. \A i \in 1 .. 1 : i - 1 = 0
  BY SMT
<1>6. \A i \in 1 .. 1 : (k \div Places[i - 1]) % Base = k
  BY <1>2, <1>3, <1>5
<1>7. ToLE(k, 1) = [i \in 1 .. 1 |-> k]
  BY <1>4, <1>6
<1>8. [i \in 1 .. 1 |-> k] = <<k>>
  OBVIOUS
<1>9. k \in 0 .. Places[1] - 1
  BY <1>2, BaseType, SMT
<1>10. QED
  BY <1>1, <1>7, <1>8, <1>9

\* What is appended changes no byte before it.
LEMMA IndexStays ==
  ASSUME NEW S, NEW a \in Seq(S), NEW b \in Seq(S), NEW i \in 1 .. Len(a)
  PROVE  (a \o b)[i] = a[i] /\ a \o b \in Seq(S) /\ i \in 1 .. Len(a \o b)
<1>1. /\ a \o b \in Seq(S) /\ Len(a) \in Nat /\ Len(b) \in Nat
      /\ Len(a \o b) = Len(a) + Len(b)
      /\ \A j \in 1 .. Len(a) : (a \o b)[j] = a[j]
  BY TwoParts
<1>2. i \in 1 .. Len(a) + Len(b)
  BY <1>1, SMT
<1>3. QED
  BY <1>1, <1>2

VersionField == Fields("u8", <<"version">>)
TypeField    == Fields("u8", <<"curve_type">>)
RestField    == Fields("calculator", <<"curve_parameters">>)

\* Layouts of single fields that the client's layout is put together from.
LEMMA LoneFields ==
  /\ "u8" \in Types /\ "calculator" \in Types /\ "bool" \in Types /\ "fees" \in Types
  /\ "version" \in Labels /\ "curve_type" \in Labels /\ "curve_parameters" \in Labels /\ "fees" \in Labels
  /\ Width("u8") = 1 /\ Width("calculator") = 8 * Word
  /\ IsLayout(VersionField) /\ Names(VersionField) = {"version"} /\ WidthOf(VersionField) = 1
  /\ \A value : Suits(VersionField, value) <=> value["version"] \in Holds("u8")
  /\ IsLayout(TypeField) /\ Names(TypeField) = {"curve_type"} /\ WidthOf(TypeField) = 1
  /\ \A value : Suits(TypeField, value) <=> value["curve_type"] \in Holds("u8")
  /\ IsLayout(RestField) /\ Names(RestField) = {"curve_parameters"} /\ WidthOf(RestField) = 8 * Word
  /\ \A value : Suits(RestField, value) <=> value["curve_parameters"] \in Holds("calculator")
<1>1. /\ "u8" \in Types /\ "calculator" \in Types /\ "bool" \in Types /\ "fees" \in Types
      /\ "version" \in Labels /\ "curve_type" \in Labels /\ "curve_parameters" \in Labels /\ "fees" \in Labels
      /\ Width("u8") = 1 /\ Width("calculator") = 8 * Word
  BY DEF Types, Width, Labels
<1>2. /\ IsLayout(VersionField) /\ Names(VersionField) = {"version"} /\ WidthOf(VersionField) = 1
      /\ \A value : Suits(VersionField, value) <=> value["version"] \in Holds("u8")
  BY <1>1, OneLayout DEF VersionField
<1>3. /\ IsLayout(TypeField) /\ Names(TypeField) = {"curve_type"} /\ WidthOf(TypeField) = 1
      /\ \A value : Suits(TypeField, value) <=> value["curve_type"] \in Holds("u8")
  BY <1>1, OneLayout DEF TypeField
<1>4. /\ IsLayout(RestField) /\ Names(RestField) = {"curve_parameters"} /\ WidthOf(RestField) = 8 * Word
      /\ \A value : Suits(RestField, value) <=> value["curve_parameters"] \in Holds("calculator")
  BY <1>1, OneLayout DEF RestField
<1>5. QED
  BY <1>1, <1>2, <1>3, <1>4

\* The layout as the parts that the program packs.
ClientFees == (VersionField \o BodyPacked) \o FeesPacked

\* The layout of the JavaScript client (TokenSwapLayout).
LEMMA ClientLayout ==
  /\ TokenSwapLayout = (ClientFees \o TypeField) \o RestField
  /\ IsLayout(VersionField \o BodyPacked)
  /\ IsLayout(ClientFees) /\ IsLayout(ClientFees \o TypeField) /\ IsLayout(TokenSwapLayout)
  /\ Names(TokenSwapLayout) = {"version", "is_initialized", "bump_seed", "curve_type", "curve_parameters"}
                                \cup KeyNames \cup FeeNames
  /\ WidthOf(TokenSwapLayout) = LATEST_LEN
  /\ TokenSwapLayout[2] = [type |-> "bool", name |-> "is_initialized"] /\ 2 \in DOMAIN TokenSwapLayout
<1> DEFINE R == [type : Types, name : Labels]
           v == VersionField
           a == Fields("bool", <<"is_initialized">>)
           b == Fields("u8", <<"bump_seed">>)
           c == TokenSwapKeys
           d == FeesPacked
           e == TypeField
           f == RestField
<1>1. a[1] = [type |-> "bool", name |-> "is_initialized"] /\ Len(a) = 1 /\ Len(v) = 1
  BY DEF Fields, VersionField
<1>2. "is_initialized" \in Labels /\ "bump_seed" \in Labels
  BY DEF Labels
<1>3. v \in Seq(R) /\ a \in Seq(R) /\ b \in Seq(R) /\ c \in Seq(R) /\ d \in Seq(R) /\ e \in Seq(R) /\ f \in Seq(R)
  <2>1. IsLayout(a) /\ IsLayout(b)
    BY <1>2, LoneFields, OneLayout
  <2> HIDE DEF a, b
  <2>2. QED
    BY <2>1, LoneFields, KeysLayout, FeesLayout, LayoutIndices
<1>4. TokenSwapLayout = (((((v \o a) \o b) \o c) \o d) \o e) \o f
  BY DEF TokenSwapLayout, FeesPacked, VersionField, TypeField, RestField
<1>5. BodyPacked = (a \o b) \o c
  BY DEF BodyPacked
<1> HIDE DEF R, a, b, c, d, e, f, v
<1>6. ((v \o a) \o b) \o c = v \o BodyPacked
  <2> DEFINE ab == a \o b
  <2>1. v \in Seq(R) /\ a \in Seq(R) /\ b \in Seq(R) /\ c \in Seq(R)
    BY <1>3
  <2>2. ab \in Seq(R)
    BY <2>1, TwoParts
  <2>3. (v \o a) \o b = v \o ab
    BY <2>1, ThreeParts
  <2>4. ab \o c = BodyPacked
    BY <1>5
  <2> HIDE DEF ab
  <2>5. (v \o ab) \o c = v \o (ab \o c)
    BY <2>1, <2>2, ThreeParts
  <2>6. QED
    BY <2>3, <2>4, <2>5
<1>7. TokenSwapLayout = (ClientFees \o TypeField) \o RestField
  BY <1>4, <1>6 DEF ClientFees, v, d, e, f
<1>8. /\ IsLayout(VersionField \o BodyPacked)
      /\ Names(VersionField \o BodyPacked) = {"version", "is_initialized", "bump_seed"} \cup KeyNames
      /\ WidthOf(VersionField \o BodyPacked) = 1 + (2 + 28 * Word)
  <2>1. Names(VersionField) \cap Names(BodyPacked) = {}
    BY LoneFields, BodyLayout DEF KeyNames
  <2>2. QED
    BY <2>1, LoneFields, BodyLayout, LayoutsConcat
<1>9. /\ IsLayout(ClientFees)
      /\ Names(ClientFees) = {"version", "is_initialized", "bump_seed"} \cup KeyNames \cup FeeNames
      /\ WidthOf(ClientFees) = (1 + (2 + 28 * Word)) + 8 * Word
  <2>1. Names(VersionField \o BodyPacked) \cap Names(FeesPacked) = {}
    BY <1>8, FeesLayout DEF KeyNames, FeeNames
  <2>2. QED
    BY <1>8, <2>1, FeesLayout, LayoutsConcat DEF ClientFees
<1>10. /\ IsLayout(ClientFees \o TypeField)
       /\ Names(ClientFees \o TypeField)
            = {"version", "is_initialized", "bump_seed"} \cup KeyNames \cup FeeNames \cup {"curve_type"}
       /\ WidthOf(ClientFees \o TypeField) = ((1 + (2 + 28 * Word)) + 8 * Word) + 1
  <2>1. Names(ClientFees) \cap Names(TypeField) = {}
    BY <1>9, LoneFields DEF KeyNames, FeeNames
  <2>2. QED
    BY <1>9, <2>1, LoneFields, LayoutsConcat
<1>11. /\ IsLayout(TokenSwapLayout)
       /\ Names(TokenSwapLayout)
            = {"version", "is_initialized", "bump_seed"} \cup KeyNames \cup FeeNames \cup {"curve_type"}
                \cup {"curve_parameters"}
       /\ WidthOf(TokenSwapLayout) = (((1 + (2 + 28 * Word)) + 8 * Word) + 1) + 8 * Word
  <2>1. Names(ClientFees \o TypeField) \cap Names(RestField) = {}
    BY <1>10, LoneFields DEF KeyNames, FeeNames
  <2>2. QED
    BY <1>7, <1>10, <2>1, LoneFields, LayoutsConcat
<1>12. WidthOf(TokenSwapLayout) = LATEST_LEN
  BY <1>11, SwapLayout, SMT
<1>13. TokenSwapLayout[2] = a[1] /\ 2 \in DOMAIN TokenSwapLayout
  <2>1. (v \o a)[2] = a[1] /\ v \o a \in Seq(R) /\ 2 \in 1 .. Len(v \o a)
    <3>1. /\ v \o a \in Seq(R) /\ Len(v \o a) = Len(v) + Len(a)
          /\ \A i \in 1 .. Len(a) : (v \o a)[Len(v) + i] = a[i]
      BY <1>3, TwoParts
    <3>2. 1 + 1 = 2 /\ 1 \in 1 .. 1 /\ 2 \in 1 .. 2
      BY SMT
    <3>3. QED
      BY <1>1, <3>1, <3>2
  <2>2. ((v \o a) \o b)[2] = a[1] /\ (v \o a) \o b \in Seq(R) /\ 2 \in 1 .. Len((v \o a) \o b)
    BY <1>3, <2>1, IndexStays
  <2> DEFINE s == ((v \o a) \o b) \o c
  <2>3. s[2] = a[1] /\ s \in Seq(R) /\ 2 \in 1 .. Len(s)
    BY <1>3, <2>2, IndexStays
  <2> HIDE DEF s
  <2> DEFINE t == s \o d
  <2>4. t[2] = a[1] /\ t \in Seq(R) /\ 2 \in 1 .. Len(t)
    BY <1>3, <2>3, IndexStays
  <2> HIDE DEF t
  <2> DEFINE u == t \o e
  <2>5. u[2] = a[1] /\ u \in Seq(R) /\ 2 \in 1 .. Len(u)
    BY <1>3, <2>4, IndexStays
  <2> HIDE DEF u
  <2>6. (u \o f)[2] = a[1] /\ u \o f \in Seq(R) /\ 2 \in 1 .. Len(u \o f)
    BY <1>3, <2>5, IndexStays
  <2>7. TokenSwapLayout = u \o f
    BY <1>4 DEF s, t, u
  <2>8. QED
    BY <2>6, <2>7, LenProperties
<1>14. Names(TokenSwapLayout) = {"version", "is_initialized", "bump_seed", "curve_type", "curve_parameters"}
                                \cup KeyNames \cup FeeNames
  BY <1>11
<1>15. QED
  BY <1>1, <1>7, <1>8, <1>9, <1>10, <1>11, <1>12, <1>13, <1>14 DEF a

\* A byte sequence is its first byte and the rest.
LEMMA HeadAndRest ==
  ASSUME NEW S, NEW s \in Seq(S), NEW n \in Nat \ {0}, Len(s) = n
  PROVE  /\ s[1] \in S /\ SubSeq(s, 2, n) \in Seq(S) /\ Len(SubSeq(s, 2, n)) = n - 1
         /\ s = <<s[1]>> \o SubSeq(s, 2, n)
<1> DEFINE t == SubSeq(s, 2, n)
           u == <<s[1]>> \o t
<1>1. /\ 1 \in 1 .. n /\ n \in Nat /\ 2 \in Nat /\ n - 1 \in Nat
      /\ \A i \in 2 .. n : i \in 1 .. n
      /\ \A i \in 1 .. n : i # 1 => i - 1 \in 1 .. (n - 1) /\ 2 + (i - 1) - 1 = i /\ 1 + (i - 1) = i
      /\ (2 <= n => n - 2 + 1 = n - 1) /\ (~ (2 <= n) => n - 1 = 0)
      /\ 1 + (n - 1) = n
  BY SMT
<1>2. \A i \in 1 .. n : s[i] \in S
  BY ElementOfSeq
<1>3. t \in Seq(S) /\ Len(t) = n - 1 /\ \A i \in 1 .. (n - 1) : t[i] = s[2 + i - 1]
  <2>1. \A i \in 2 .. n : s[i] \in S
    BY <1>1, <1>2
  <2>2. /\ t \in Seq(S)
        /\ Len(t) = IF 2 <= n THEN n - 2 + 1 ELSE 0
        /\ \A i \in 1 .. (n - 2 + 1) : t[i] = s[2 + i - 1]
    BY <2>1, SubSeqProperties, SMT
  <2>3. n - 2 + 1 = n - 1
    BY <1>1, SMT
  <2>4. QED
    BY <1>1, <2>2, <2>3
<1> HIDE DEF t
<1>4. /\ u \in Seq(S) /\ Len(u) = 1 + Len(t)
      /\ u[1] = s[1] /\ \A i \in 1 .. Len(t) : u[1 + i] = t[i]
  <2>1. s[1] \in S
    BY <1>1, <1>2
  <2>2. QED
    BY <2>1, <1>3, OneInFront
<1> HIDE DEF u
<1>5. Len(u) = Len(s)
  BY <1>1, <1>3, <1>4
<1>6. \A i \in 1 .. n : u[i] = s[i]
  <2>1. SUFFICES ASSUME NEW i \in 1 .. n, i # 1 PROVE u[i] = s[i]
    BY <1>4
  <2> DEFINE j == i - 1
  <2>2. j \in 1 .. (n - 1) /\ 2 + j - 1 = i /\ 1 + j = i
    BY <2>1, <1>1
  <2> HIDE DEF j
  <2>3. u[1 + j] = t[j] /\ t[j] = s[2 + j - 1]
    BY <2>2, <1>3, <1>4
  <2>4. QED
    BY <2>2, <2>3
<1>7. u = s
  BY <1>4, <1>5, <1>6, SeqEqual
<1>8. QED
  BY <1>1, <1>2, <1>3, <1>7 DEF t, u

\* The client's structure of a swap.
ClientSwap(pool, curve) ==
  [name \in Names(TokenSwapLayout) |->
     CASE name = "version"          -> 1
       [] name = "curve_type"       -> curve[1]
       [] name = "curve_parameters" -> SubSeq(curve, 2, SwapCurveWidth)
       [] name \in FeeNames         -> pool["fees"][name]
       [] OTHER                     -> pool[name]]

\* What the client makes of a swap, field by field.
LEMMA ClientSwapFields ==
  ASSUME NEW pool, NEW curve
  PROVE  LET js == ClientSwap(pool, curve)
         IN  /\ js["version"] = 1 /\ js["curve_type"] = curve[1]
             /\ js["curve_parameters"] = SubSeq(curve, 2, SwapCurveWidth)
             /\ \A name \in FeeNames : js[name] = pool["fees"][name]
             /\ \A name \in Names(BodyPacked) : js[name] = pool[name]
             /\ js["is_initialized"] = pool["is_initialized"]
             /\ js["bump_seed"] = pool["bump_seed"]
             /\ \A name \in KeyNames : js[name] = pool[name]
<1> DEFINE js == ClientSwap(pool, curve)
           N == Names(TokenSwapLayout)
<1>1. N = {"version", "is_initialized", "bump_seed", "curve_type", "curve_parameters"}
            \cup KeyNames \cup FeeNames
  BY ClientLayout
<1>2. "version" \notin FeeNames /\ "curve_type" \notin FeeNames /\ "curve_parameters" \notin FeeNames
  BY DEF FeeNames
<1>3. Names(BodyPacked) = {"is_initialized", "bump_seed"} \cup KeyNames
  BY BodyLayout
<1>4. /\ \A name \in Names(BodyPacked) : name \notin FeeNames /\ name # "version" /\ name # "curve_type"
                                         /\ name # "curve_parameters"
      /\ \A name \in FeeNames : name # "version" /\ name # "curve_type" /\ name # "curve_parameters"
  BY <1>3 DEF FeeNames, KeyNames
<1>5. \A name \in N : js[name] =
        CASE name = "version"          -> 1
          [] name = "curve_type"       -> curve[1]
          [] name = "curve_parameters" -> SubSeq(curve, 2, SwapCurveWidth)
          [] name \in FeeNames         -> pool["fees"][name]
          [] OTHER                     -> pool[name]
  BY DEF ClientSwap
<1> HIDE DEF js
<1>6. js["version"] = 1
  BY <1>1, <1>2, <1>5
<1>7. js["curve_type"] = curve[1]
  BY <1>1, <1>2, <1>5
<1>8. js["curve_parameters"] = SubSeq(curve, 2, SwapCurveWidth)
  BY <1>1, <1>2, <1>5
<1>9. ASSUME NEW name \in FeeNames PROVE js[name] = pool["fees"][name]
  BY <1>1, <1>4, <1>5
<1>10. ASSUME NEW name \in Names(BodyPacked) PROVE js[name] = pool[name]
  BY <1>1, <1>3, <1>4, <1>5
<1>11. QED
  BY <1>3, <1>6, <1>7, <1>8, <1>9, <1>10 DEF js

\* It suits the client's layout.
LEMMA ClientSuits ==
  ASSUME Byte >= 3, NEW pool, IsSwap(pool), NEW curve \in Slices(SwapCurveWidth)
  PROVE  LET js == ClientSwap(pool, curve)
         IN  /\ Suits(VersionField, js) /\ Suits(BodyPacked, js) /\ Suits(FeesPacked, js)
             /\ Suits(TypeField, js) /\ Suits(RestField, js)
             /\ 1 \in 0 .. Byte /\ curve[1] \in 0 .. Byte
             /\ SubSeq(curve, 2, SwapCurveWidth) \in Slices(8 * Word)
             /\ curve = <<curve[1]>> \o SubSeq(curve, 2, SwapCurveWidth)
             /\ \A name \in FeeNames : js[name] = pool["fees"][name]
             /\ \A name \in Names(BodyPacked) : js[name] = pool[name]
             /\ js["version"] = 1 /\ js["curve_type"] = curve[1]
             /\ js["curve_parameters"] = SubSeq(curve, 2, SwapCurveWidth)
<1> DEFINE js == ClientSwap(pool, curve)
           B == 0 .. Byte
           n == SwapCurveWidth
           rest == SubSeq(curve, 2, SwapCurveWidth)
<1>1. /\ js["version"] = 1 /\ js["curve_type"] = curve[1] /\ js["curve_parameters"] = rest
      /\ \A name \in FeeNames : js[name] = pool["fees"][name]
      /\ \A name \in Names(BodyPacked) : js[name] = pool[name]
      /\ js["is_initialized"] = pool["is_initialized"] /\ js["bump_seed"] = pool["bump_seed"]
      /\ \A name \in KeyNames : js[name] = pool[name]
  BY ClientSwapFields
<1> HIDE DEF js
<1>2. curve \in Seq(B) /\ Len(curve) = n
  BY DEF Slices
<1>3. n \in Nat \ {0} /\ n - 1 = 8 * Word /\ 8 * Word \in Nat
  <2>1. n = 1 + 8 * Word /\ Word \in Nat
    BY SwapCurveLayout, BaseType
  <2> HIDE DEF n
  <2>2. QED
    BY <2>1, SMT
<1> HIDE DEF B, n
<1>4. /\ curve[1] \in B /\ SubSeq(curve, 2, n) \in Seq(B) /\ Len(SubSeq(curve, 2, n)) = n - 1
      /\ curve = <<curve[1]>> \o SubSeq(curve, 2, n)
  BY <1>2, <1>3, HeadAndRest
<1>5. /\ curve[1] \in 0 .. Byte /\ rest \in Slices(8 * Word) /\ curve = <<curve[1]>> \o rest
  BY <1>3, <1>4 DEF B, n, Slices
<1> HIDE DEF rest
<1>6. 1 \in 0 .. Byte
  BY BaseType, SMT
<1>7. 1 \in Holds("u8") /\ curve[1] \in Holds("u8")
  BY <1>5, <1>6, OneByte
<1>8. rest \in Holds("calculator")
  <2>1. rest \in [1 .. 8 * Word -> 0 .. Byte]
    BY <1>3, <1>5, FunctionsFromSlices
  <2>2. Holds("calculator") = [1 .. Width("calculator") -> 0 .. Byte]
    BY DEF Holds
  <2>3. QED
    BY <2>1, <2>2, LoneFields
<1>9. Suits(VersionField, js)
  BY <1>1, <1>7, LoneFields
<1>10. Suits(TypeField, js)
  BY <1>1, <1>7, LoneFields
<1>11. Suits(RestField, js)
  BY <1>1, <1>8, LoneFields
<1>12. Suits(BodyPacked, js)
  <2>1. js["is_initialized"] \in BOOLEAN /\ js["bump_seed"] \in Holds("u8")
    BY <1>1, SwapFields
  <2>2. \A name \in KeyNames : js[name] \in Holds("pubkey")
    BY <1>1, SwapFields
  <2>3. QED
    BY <2>1, <2>2, BodyLayout
<1>13. Suits(FeesPacked, js)
  <2>1. Suits(FeesPacked, pool["fees"])
    BY SwapFields DEF IsOf
  <2>2. \A name \in FeeNames : pool["fees"][name] \in Holds("u64")
    BY <2>1, FeesLayout
  <2>3. \A name \in FeeNames : js[name] \in Holds("u64")
    BY <1>1, <2>2
  <2>4. QED
    BY <2>3, FeesLayout
<1>14. QED
  BY <1>1, <1>5, <1>6, <1>9, <1>10, <1>11, <1>12, <1>13 DEF js, rest

\* What is packed are bytes, as many as the layout has.
LEMMA PackedAreBytes ==
  ASSUME NEW layout, IsLayout(layout), NEW value, Suits(layout, value)
  PROVE  Packed(layout, value) \in Seq(0 .. Byte) /\ Packed(layout, value) \in Slices(WidthOf(layout))
<1>1. << >> \in Seq(0 .. Byte)
  OBVIOUS
<1>2. Packed(layout, value) \in Slices(WidthOf(layout))
  BY <1>1, FieldsInPlace
<1>3. QED
  BY <1>2 DEF Slices

\* The program's bytes and the client's are the same.
LEMMA ClientPacks ==
  ASSUME Byte >= 3, NEW pool, IsSwap(pool), NEW curve \in Slices(SwapCurveWidth)
  PROVE  LET js == ClientSwap(pool, curve)
         IN  /\ Suits(TokenSwapLayout, js)
             /\ Packed(TokenSwapLayout, js) = <<1>> \o (Packed(SwapV1Packed, SwapBody(pool)) \o curve)
<1> DEFINE js == ClientSwap(pool, curve)
           rest == SubSeq(curve, 2, SwapCurveWidth)
<1>1. /\ Suits(VersionField, js) /\ Suits(BodyPacked, js) /\ Suits(FeesPacked, js)
      /\ Suits(TypeField, js) /\ Suits(RestField, js)
      /\ 1 \in 0 .. Byte /\ curve[1] \in 0 .. Byte
      /\ rest \in Slices(8 * Word) /\ curve = <<curve[1]>> \o rest
      /\ \A name \in FeeNames : js[name] = pool["fees"][name]
      /\ \A name \in Names(BodyPacked) : js[name] = pool[name]
      /\ js["version"] = 1 /\ js["curve_type"] = curve[1] /\ js["curve_parameters"] = rest
  BY ClientSuits
<1> HIDE DEF js, rest
<1> DEFINE PB == Packed(BodyPacked, js)
           PF == Packed(FeesPacked, js)
           B == 0 .. Byte
<1>2. Packed(VersionField, js) = <<1>>
  <2>1. "u8" \in Types /\ "version" \in Labels /\ js["version"] \in Holds("u8")
    BY <1>1, OneByte, LoneFields
  <2>2. Packed(Fields("u8", <<"version">>), js) = Encoded("u8", js["version"])
    BY <2>1, OneField
  <2>3. Encoded("u8", 1) = <<1>>
    BY <1>1, OneByte
  <2>4. QED
    BY <1>1, <2>2, <2>3 DEF VersionField
<1>3. Packed(TypeField, js) = <<curve[1]>>
  <2>1. "u8" \in Types /\ "curve_type" \in Labels /\ js["curve_type"] \in Holds("u8")
    BY <1>1, OneByte, LoneFields
  <2>2. Packed(Fields("u8", <<"curve_type">>), js) = Encoded("u8", js["curve_type"])
    BY <2>1, OneField
  <2> DEFINE k == curve[1]
  <2>3. k \in 0 .. Byte
    BY <1>1
  <2> HIDE DEF k
  <2>4. Encoded("u8", k) = <<k>>
    BY <2>3, OneByte
  <2>5. QED
    BY <1>1, <2>2, <2>4 DEF TypeField, k
<1>4. Packed(RestField, js) = rest
  <2>1. "calculator" \in Types /\ "curve_parameters" \in Labels /\ js["curve_parameters"] \in Holds("calculator")
    BY <1>1, LoneFields
  <2>2. Packed(Fields("calculator", <<"curve_parameters">>), js) = Encoded("calculator", js["curve_parameters"])
    BY <2>1, OneField
  <2>3. Encoded("calculator", js["curve_parameters"]) = js["curve_parameters"]
    BY DEF Encoded
  <2>4. QED
    BY <1>1, <2>2, <2>3 DEF RestField
<1>5. /\ Suits(VersionField \o BodyPacked, js)
      /\ Packed(VersionField \o BodyPacked, js) = <<1>> \o PB
  <2>1. IsLayout(VersionField) /\ IsLayout(BodyPacked) /\ Suits(VersionField, js) /\ Suits(BodyPacked, js)
    BY <1>1, LoneFields, BodyLayout
  <2>2. Suits(VersionField \o BodyPacked, js)
    BY <2>1, SuitsConcat
  <2>3. Packed(VersionField \o BodyPacked, js) = Packed(VersionField, js) \o Packed(BodyPacked, js)
    BY <2>1, PackedConcat
  <2>4. QED
    BY <1>2, <2>2, <2>3
<1>6. /\ Suits(ClientFees, js)
      /\ Packed(ClientFees, js) = (<<1>> \o PB) \o PF
  <2>1. IsLayout(VersionField \o BodyPacked) /\ IsLayout(FeesPacked)
    BY ClientLayout, FeesLayout
  <2> DEFINE l == VersionField \o BodyPacked
  <2> HIDE DEF l
  <2>2. Suits(l, js) /\ Suits(FeesPacked, js) /\ IsLayout(l) /\ IsLayout(FeesPacked)
    BY <1>1, <1>5, <2>1 DEF l
  <2>3. Suits(l \o FeesPacked, js) /\ Packed(l \o FeesPacked, js) = Packed(l, js) \o Packed(FeesPacked, js)
    BY <2>2, SuitsConcat, PackedConcat
  <2>4. QED
    BY <1>5, <2>3 DEF ClientFees, l
<1>7. /\ Suits(ClientFees \o TypeField, js)
      /\ Packed(ClientFees \o TypeField, js) = ((<<1>> \o PB) \o PF) \o <<curve[1]>>
  <2>1. Suits(ClientFees, js) /\ Suits(TypeField, js) /\ IsLayout(ClientFees) /\ IsLayout(TypeField)
    BY <1>1, <1>6, ClientLayout, LoneFields
  <2>2. /\ Suits(ClientFees \o TypeField, js)
        /\ Packed(ClientFees \o TypeField, js) = Packed(ClientFees, js) \o Packed(TypeField, js)
    BY <2>1, SuitsConcat, PackedConcat
  <2>3. QED
    BY <1>3, <1>6, <2>2
<1>8. /\ Suits(TokenSwapLayout, js)
      /\ Packed(TokenSwapLayout, js) = (((<<1>> \o PB) \o PF) \o <<curve[1]>>) \o rest
  <2> DEFINE l == ClientFees \o TypeField
  <2>1. Suits(l, js) /\ Suits(RestField, js) /\ IsLayout(l) /\ IsLayout(RestField)
    BY <1>1, <1>7, ClientLayout, LoneFields
  <2>2. TokenSwapLayout = l \o RestField
    BY ClientLayout
  <2>3. Packed(l, js) = ((<<1>> \o PB) \o PF) \o <<curve[1]>>
    BY <1>7
  <2> HIDE DEF l
  <2>4. Suits(l \o RestField, js) /\ Packed(l \o RestField, js) = Packed(l, js) \o Packed(RestField, js)
    BY <2>1, SuitsConcat, PackedConcat
  <2>5. QED
    BY <1>4, <2>2, <2>3, <2>4
<1>9. Packed(SwapV1Packed, SwapBody(pool)) = PB \o PF
  <2> DEFINE d == Fields("fees", <<"fees">>)
             v == SwapBody(pool)
  <2>1. IsLayout(d) /\ IsLayout(BodyPacked) /\ SwapV1Packed = BodyPacked \o d
    BY LoneFields, OneLayout, BodyLayout, SwapLayout
  <2>2. Suits(BodyPacked \o d, v)
    BY <2>1, SwapFields
  <2>3. v["fees"] = Packed(FeesPacked, pool["fees"])
    <3>1. "fees" \in SwapNames
      BY DEF SwapNames
    <3>2. QED
      BY <3>1, SwapFields
  <2>4. \A name \in Names(BodyPacked) : v[name] = js[name]
    <3>1. v = [field \in SwapNames |->
                 IF field = "fees" THEN Packed(FeesPacked, pool["fees"]) ELSE pool[field]]
      BY SwapFields
    <3>2. \A name \in Names(BodyPacked) : name \in SwapNames /\ name # "fees"
      BY BodyLayout DEF SwapNames, KeyNames
    <3> HIDE DEF v
    <3>3. QED
      BY <1>1, <3>1, <3>2
  <2> HIDE DEF d, v
  <2>5. Suits(BodyPacked, v) /\ Suits(d, v)
    BY <2>1, <2>2, SuitsParts
  <2>6. Packed(BodyPacked \o d, v) = Packed(BodyPacked, v) \o Packed(d, v)
    BY <2>1, <2>5, PackedConcat
  <2>7. Packed(BodyPacked, v) = PB
    BY <2>4, PackedAgree
  <2>8. Packed(d, v) = PF
    <3>1. "fees" \in Types /\ "fees" \in Labels /\ v["fees"] \in Holds("fees")
      BY <2>5, LoneFields, OneLayout DEF d
    <3>2. Packed(Fields("fees", <<"fees">>), v) = Encoded("fees", v["fees"])
      BY <3>1, OneField
    <3>3. Encoded("fees", v["fees"]) = v["fees"]
      BY DEF Encoded
    <3>4. \A name \in Names(FeesPacked) : pool["fees"][name] = js[name]
      BY <1>1, FeesLayout
    <3> DEFINE f == pool["fees"]
    <3>5. \A name \in Names(FeesPacked) : f[name] = js[name]
      BY <3>4
    <3> HIDE DEF f
    <3>6. Packed(FeesPacked, f) = PF
      BY <3>5, PackedAgree
    <3>7. QED
      BY <2>3, <3>2, <3>3, <3>6 DEF d, f
  <2>9. QED
    BY <2>1, <2>6, <2>7, <2>8 DEF v
<1>10. PB \in Seq(B) /\ PF \in Seq(B) /\ <<1>> \in Seq(B) /\ <<curve[1]>> \in Seq(B) /\ rest \in Seq(B)
  <2>1. PB \in Seq(B) /\ PF \in Seq(B)
    BY <1>1, BodyLayout, FeesLayout, PackedAreBytes
  <2>2. rest \in Seq(B)
    BY <1>1 DEF Slices
  <2> DEFINE k == curve[1]
  <2>3. k \in B /\ 1 \in B
    BY <1>1
  <2> HIDE DEF k, B
  <2>4. <<1>> \in Seq(B) /\ <<k>> \in Seq(B)
    BY <2>3, Two
  <2>5. QED
    BY <2>1, <2>2, <2>4 DEF k
<1> DEFINE one == <<1>>
           kay == <<curve[1]>>
<1>11. curve = kay \o rest
  BY <1>1
<1>12. Packed(TokenSwapLayout, js) = (((one \o PB) \o PF) \o kay) \o rest
  BY <1>8
<1>13. one \in Seq(B) /\ kay \in Seq(B) /\ PB \in Seq(B) /\ PF \in Seq(B) /\ rest \in Seq(B)
  BY <1>10
<1> HIDE DEF one, kay, PB, PF, B
<1>14. (((one \o PB) \o PF) \o kay) \o rest = one \o ((PB \o PF) \o (kay \o rest))
  <2> DEFINE all == PB \o PF
             tail == kay \o rest
  <2>1. all \in Seq(B) /\ tail \in Seq(B)
    BY <1>13, TwoParts
  <2>2. (one \o PB) \o PF = one \o all
    BY <1>13, ThreeParts
  <2> HIDE DEF all, tail
  <2> DEFINE head == one \o all
  <2>3. head \in Seq(B)
    BY <1>13, <2>1, TwoParts
  <2>4. one \in Seq(B) /\ all \in Seq(B) /\ tail \in Seq(B) /\ kay \in Seq(B) /\ rest \in Seq(B)
    BY <1>13, <2>1
  <2>5. (one \o all) \o tail = one \o (all \o tail)
    BY <2>4, ThreeParts
  <2> HIDE DEF head
  <2>6. (head \o kay) \o rest = head \o (kay \o rest)
    <3>1. head \in Seq(B) /\ kay \in Seq(B) /\ rest \in Seq(B)
      BY <2>3, <2>4
    <3>2. QED
      BY <3>1, ThreeParts
  <2>7. QED
    BY <2>2, <2>5, <2>6 DEF all, tail, head
<1>15. Packed(TokenSwapLayout, js) = <<1>> \o (Packed(SwapV1Packed, SwapBody(pool)) \o curve)
  BY <1>9, <1>11, <1>12, <1>14 DEF one
<1>16. QED
  BY <1>8, <1>15 DEF js

(* A swap as every reader sees it. *)

SwapReadByAll(bytes, pool) ==
  /\ Len(bytes) = LATEST_LEN /\ bytes \in Seq(0 .. Byte)
  /\ SwapUnpacks(bytes) /\ IsInitialized(bytes) /\ UnpackedSwap(bytes) = pool
  /\ CurveExtracts(bytes) <=> pool.swap_curve.curve_type = "RedemptionRateCurve"
  /\ ExtractedCurve(bytes) = pool.swap_curve
  /\ Loads(bytes)
  /\ LET js == Loaded(bytes)
     IN  /\ \A field \in DOMAIN pool \ {"fees", "swap_curve"} : js[field] = pool[field]
         /\ \A fee \in DOMAIN pool.fees : js[fee] = pool.fees[fee]
         /\ UnpackedCurve(<<js.curve_type>> \o js.curve_parameters) = pool.swap_curve

\* A packed swap is read by the program and the clients as the swap, and by no one as a permission.
LEMMA SwapIsReadByAll ==
  ASSUME Byte >= 3, NEW pool, IsSwap(pool), NEW bytes \in Slices(LATEST_LEN)
  PROVE  SwapReadByAll(PackedSwap(pool, bytes), pool)
<1> DEFINE packed == PackedSwap(pool, bytes)
           body == Packed(SwapV1Packed, SwapBody(pool))
           curve == PackedCurve(pool.swap_curve, CurveSlice(bytes))
           js == ClientSwap(pool, curve)
<1>1. /\ packed = <<1>> \o (body \o curve) /\ packed \in Slices(LATEST_LEN)
      /\ curve \in Slices(SwapCurveWidth)
      /\ CurveSlice(packed) = curve /\ packed[CurveAt + 2] = curve[1]
  BY SwapPacks
<1>2. SwapUnpacks(packed) /\ IsInitialized(packed) /\ UnpackedSwap(packed) = pool
  BY SwapReads
<1>3. IsCurve(pool.swap_curve) /\ CurveSlice(bytes) \in Slices(SwapCurveWidth)
  BY SwapFields, SliceOfCurve
<1>4. /\ curve[1] = CurveByte(pool.swap_curve.curve_type)
      /\ UnpackedCurve(curve) = pool.swap_curve
  BY <1>3, CurveReads
<1>5. Suits(TokenSwapLayout, js) /\ Packed(TokenSwapLayout, js) = packed
  BY <1>1, ClientPacks
<1>6. /\ curve = <<curve[1]>> \o SubSeq(curve, 2, SwapCurveWidth)
      /\ \A name \in FeeNames : js[name] = pool["fees"][name]
      /\ \A name \in Names(BodyPacked) : js[name] = pool[name]
      /\ js["curve_type"] = curve[1]
      /\ js["curve_parameters"] = SubSeq(curve, 2, SwapCurveWidth)
  BY <1>1, ClientSuits
<1> HIDE DEF packed, curve, body
<1>7. js = [name \in Names(TokenSwapLayout) |-> js[name]]
  BY DEF ClientSwap
<1> HIDE DEF js
<1>8. Len(packed) = LATEST_LEN /\ packed \in Seq(0 .. Byte)
  BY <1>1 DEF Slices
<1>9. Loaded(packed) = js
  <2> DEFINE none == << >>
  <2>1. none \in Seq(0 .. Byte) /\ packed \o none = packed
    BY <1>8, TwoParts
  <2> HIDE DEF none
  <2>2. IsLayout(TokenSwapLayout) /\ Suits(TokenSwapLayout, js) /\ none \in Seq(0 .. Byte)
    BY <1>5, <2>1, ClientLayout
  <2>3. Unpacked(TokenSwapLayout, Packed(TokenSwapLayout, js) \o none)
          = [name \in Names(TokenSwapLayout) |-> js[name]]
    BY <2>2, LayoutReads
  <2>4. QED
    BY <1>5, <1>7, <2>1, <2>3 DEF Loaded
<1>10. Loads(packed)
  <2>1. js["is_initialized"] = TRUE
    <3>1. "is_initialized" \in Names(BodyPacked)
      BY BodyLayout
    <3>2. QED
      BY <1>6, <3>1, SwapFields
  <2>2. WidthOf(TokenSwapLayout) = LATEST_LEN /\ LATEST_LEN \in Nat
    <3>1. LATEST_LEN = 4 + 44 * Word /\ Word \in Nat
      BY SwapLayout
    <3>2. QED
      BY <3>1, ClientLayout, SMT
  <2>3. Len(packed) >= WidthOf(TokenSwapLayout)
    BY <1>8, <2>2, SMT
  <2>4. QED
    BY <1>9, <2>1, <2>3 DEF Loads, Loaded
<1>11. /\ CurveExtracts(packed) <=> pool.swap_curve.curve_type = "RedemptionRateCurve"
       /\ ExtractedCurve(packed) = pool.swap_curve
  <2>1. CurveOffset + 1 = CurveAt + 2 /\ LATEST_LEN >= LATEST_LEN
    BY SwapLayout, SMT
  <2>2. ExtractedCurve(packed) = pool.swap_curve
    BY <1>1, <1>4, <2>1 DEF ExtractedCurve, CurveSlice
  <2>3. pool.swap_curve.curve_type \in Calculators
    BY <1>3, CurveBytes DEF IsCurve
  <2>4. packed[CurveOffset + 1] = CurveByte(pool.swap_curve.curve_type)
    BY <1>1, <1>4, <2>1
  <2>5. CurveExtracts(packed) <=> packed[CurveOffset + 1] = CurveByte("RedemptionRateCurve")
    BY <1>8, <2>1 DEF CurveExtracts
  <2>6. QED
    BY <2>2, <2>3, <2>4, <2>5, CurveBytes
<1>12. DOMAIN pool = SwapNames /\ DOMAIN pool["fees"] = FeeNames
  <2>1. DOMAIN pool = SwapNames /\ IsOf(FeesPacked, pool["fees"])
    BY SwapFields
  <2>2. DOMAIN pool["fees"] = Names(FeesPacked)
    BY <2>1 DEF IsOf
  <2>3. QED
    BY <2>1, <2>2, FeesLayout
<1>13. \A field \in DOMAIN pool \ {"fees", "swap_curve"} : js[field] = pool[field]
  <2>1. \A field \in SwapNames \ {"fees", "swap_curve"} : field \in Names(BodyPacked)
    BY BodyLayout DEF SwapNames
  <2>2. QED
    BY <1>6, <1>12, <2>1
<1>14. \A fee \in DOMAIN pool.fees : js[fee] = pool.fees[fee]
  BY <1>6, <1>12
<1>15. UnpackedCurve(<<js.curve_type>> \o js.curve_parameters) = pool.swap_curve
  BY <1>4, <1>6
<1>16. SwapReadByAll(packed, pool)
  BY <1>2, <1>8, <1>9, <1>10, <1>11, <1>13, <1>14, <1>15 DEF SwapReadByAll
<1>17. QED
  BY <1>16 DEF packed

(* Accounts that nothing was written to yet, and permissions. *)

\* No account has the size of both a swap and a permission.
LEMMA SwapSizes ==
  /\ LATEST_LEN \in Nat /\ LATEST_LEN > 1 /\ PermissionLEN \in Nat /\ PermissionLEN >= 1
  /\ LATEST_LEN # PermissionLEN /\ WidthOf(TokenSwapLayout) = LATEST_LEN
<1>1. LATEST_LEN = 4 + 44 * Word /\ Word \in Nat
  BY SwapLayout
<1>2. PermissionLEN = 3 + 8 * Word
  BY PermissionLayout
<1>3. WidthOf(TokenSwapLayout) = LATEST_LEN
  BY ClientLayout
<1>4. 4 + 44 * Word # 3 + 8 * Word /\ 4 + 44 * Word \in Nat /\ 3 + 8 * Word \in Nat
      /\ 4 + 44 * Word > 1 /\ 3 + 8 * Word >= 1
  BY <1>1, SMT
<1>5. QED
  BY <1>1, <1>2, <1>3, <1>4

BlankForAll(bytes, n) ==
  /\ bytes \in Slices(n)
  /\ ~ IsInitialized(bytes) /\ ~ SwapUnpacks(bytes) /\ ~ PermissionUnpacks(bytes)
  /\ Len(bytes) = LATEST_LEN => ~ Loads(bytes)

\* Zeros are nothing yet to every reader.
LEMMA ZerosAreBlank ==
  ASSUME NEW n \in Nat
  PROVE  BlankForAll(Zeros(n), n)
<1> DEFINE bytes == Zeros(n)
           B == 0 .. Byte
<1>1. bytes \in Seq(B) /\ Len(bytes) = n /\ \A i \in 1 .. n : bytes[i] = 0
  <2>1. 0 \in B
    BY BaseType, SMT
  <2> HIDE DEF B
  <2>2. [i \in 1 .. n |-> 0] \in [1 .. n -> B]
    BY <2>1
  <2>3. QED
    BY <2>2 DEF Zeros
<1> HIDE DEF bytes
<1>2. bytes \in Slices(n)
  BY <1>1 DEF Slices
<1>3. ~ IsInitialized(bytes)
  <2>1. n > 1 => 2 \in 1 .. n
    BY SMT
  <2>2. QED
    BY <1>1, <2>1 DEF IsInitialized
<1>4. ~ SwapUnpacks(bytes)
  <2>1. n = LATEST_LEN => 1 \in 1 .. n
    BY SwapSizes, SMT
  <2>2. VersionV1 # 0
    BY DEF VersionV1
  <2>3. QED
    BY <1>1, <2>1, <2>2 DEF SwapUnpacks
<1>5. ~ PermissionUnpacks(bytes)
  <2>1. n = PermissionLEN => 1 \in 1 .. n
    BY SwapSizes, SMT
  <2>2. QED
    BY <1>1, <2>1 DEF PermissionUnpacks
<1>6. ASSUME n = LATEST_LEN PROVE ~ Loads(bytes)
  <2> DEFINE layout == TokenSwapLayout
             at == CHOOSE i \in DOMAIN layout : layout[i].name = "is_initialized"
  <2>1. IsLayout(layout) /\ 2 \in DOMAIN layout /\ layout[2].name = "is_initialized" /\ layout[2].type = "bool"
        /\ "is_initialized" \in Names(layout) /\ WidthOf(layout) = n
    BY <1>6, ClientLayout
  <2>2. Unpacked(layout, bytes).is_initialized = Decoded(layout[at].type, FieldBytes(layout, at, bytes))
    BY <2>1 DEF Unpacked
  <2> HIDE DEF layout
  <2>3. at \in DOMAIN layout /\ layout[at].name = "is_initialized"
    BY <2>1
  <2>4. DOMAIN layout = 1 .. Len(layout)
        /\ \A i, j \in 1 .. Len(layout) : layout[i].name = layout[j].name => i = j
    BY <2>1, LayoutIndices
  <2>5. at = 2
    BY <2>1, <2>3, <2>4
  <2> HIDE DEF at
  <2>6. Offset(layout, 2) \in Nat /\ Offset(layout, 2) + Width("bool") <= n /\ Width("bool") = 1
    <3>1. \A i \in 1 .. Len(layout) : /\ Offset(layout, i) \in Nat
                                      /\ Offset(layout, i) + Width(layout[i].type) <= WidthOf(layout)
      BY <2>1, WidthsAre
    <3>2. Width("bool") = 1
      BY DEF Width
    <3>3. QED
      BY <2>1, <2>4, <3>1, <3>2
  <2>7. FieldBytes(layout, 2, bytes) = <<0>>
    <3> DEFINE m == Offset(layout, 2)
               zero == <<0>>
    <3>1. FieldBytes(layout, 2, bytes) = SubSeq(bytes, m + 1, m + 1)
      BY <2>1, <2>6 DEF FieldBytes
    <3>2. m \in Nat /\ m + 1 <= n
      BY <2>6
    <3>3. zero \in Seq(B) /\ Len(zero) = 1 /\ zero[1] = 0
      <4>1. 0 \in B
        BY BaseType, SMT
      <4> HIDE DEF B
      <4>2. QED
        BY <4>1
    <3> HIDE DEF m, zero, B
    <3>4. m + 1 \in 1 .. n /\ \A j \in 1 .. 1 : j = 1
      BY <3>2, SMT
    <3>5. \A j \in 1 .. Len(zero) : bytes[m + j] = zero[j]
      BY <1>1, <3>3, <3>4
    <3>6. SubSeq(bytes, m + 1, m + Len(zero)) = zero
      BY <1>1, <3>2, <3>3, <3>5, SliceIs
    <3>7. QED
      BY <3>1, <3>3, <3>6 DEF zero
  <2>8. Decoded(layout[at].type, FieldBytes(layout, at, bytes)) = FALSE
    BY <2>1, <2>5, <2>7 DEF Decoded
  <2>9. QED
    BY <2>2, <2>8 DEF Loads, layout
<1>7. QED
  BY <1>1, <1>2, <1>3, <1>4, <1>5, <1>6 DEF BlankForAll, bytes

PermissionReadByAll(bytes, permission) ==
  /\ bytes \in Slices(PermissionLEN)
  /\ PermissionUnpacks(bytes) /\ Unpacked(PermissionUnpacked, bytes) = permission
  /\ ~ SwapUnpacks(bytes) /\ ~ SwapPacksInto(bytes) /\ Len(bytes) # LATEST_LEN

\* A packed permission is read as the permission, and by no one as a swap.
LEMMA PermissionIsReadByAll ==
  ASSUME NEW permission, IsPermission(permission)
  PROVE  PermissionReadByAll(Packed(PermissionPacked, permission), permission)
<1> DEFINE layout == PermissionPacked
           packed == Packed(PermissionPacked, permission)
           none == << >>
<1>1. /\ IsLayout(layout) /\ WidthOf(layout) = PermissionLEN /\ PermissionUnpacked = layout
      /\ Len(layout) \in Nat \ {0} /\ layout[1] = [type |-> "bool", name |-> "is_initialized"]
  BY PermissionLayout DEF PermissionLEN
<1>2. permission["is_initialized"] = TRUE
  BY DEF IsPermission
<1>3. Suits(layout, permission) /\ permission = [name \in Names(layout) |-> permission[name]]
  BY DEF IsPermission, IsOf
<1>4. Packed(layout, permission) = packed
  OBVIOUS
<1> HIDE DEF layout, packed
<1>5. packed \in Slices(PermissionLEN) /\ packed \in Seq(0 .. Byte) /\ Len(packed) = PermissionLEN
  BY <1>1, <1>3, <1>4, PackedAreBytes DEF Slices
<1>6. none \in Seq(0 .. Byte) /\ packed \o none = packed
  BY <1>5, TwoParts
<1> HIDE DEF none
<1>7. IsLayout(layout) /\ Suits(layout, permission) /\ none \in Seq(0 .. Byte)
  BY <1>1, <1>3, <1>6
<1>8. Unpacked(layout, packed) = permission
  <2>1. Unpacked(layout, Packed(layout, permission) \o none) = [name \in Names(layout) |-> permission[name]]
    BY <1>7, LayoutReads
  <2>2. QED
    BY <1>3, <1>4, <1>6, <2>1
<1>9. packed[1] = 1
  <2>1. \A i \in DOMAIN layout : FieldBytes(layout, i, Packed(layout, permission) \o none)
                                   = Encoded(layout[i].type, permission[layout[i].name])
    BY <1>7, FieldsInPlace
  <2>2. 1 \in DOMAIN layout /\ 1 \in 1 .. Len(layout)
    BY <1>1, LayoutIndices
  <2>3. FieldBytes(layout, 1, packed) = Encoded("bool", TRUE)
    <3>1. FieldBytes(layout, 1, packed) = Encoded(layout[1].type, permission[layout[1].name])
      BY <1>4, <1>6, <2>1, <2>2
    <3>2. layout[1].type = "bool" /\ permission[layout[1].name] = TRUE
      BY <1>1, <1>2
    <3>3. QED
      BY <3>1, <3>2
  <2>4. Encoded("bool", TRUE) = <<1>> /\ Width("bool") = 1
    BY DEF Encoded, Width
  <2>5. Offset(layout, 1) = 0
    <3> DEFINE w == Widths(layout)
    <3>1. w \in Seq(Nat)
      BY <1>1, WidthsAre
    <3> HIDE DEF w
    <3>2. Sums(w)[0] = 0
      BY <3>1, SumsSteps
    <3>3. 1 - 1 = 0
      BY SMT
    <3>4. QED
      BY <3>2, <3>3 DEF Offset, w
  <2>6. FieldBytes(layout, 1, packed) = SubSeq(packed, 0 + 1, 0 + 1)
    BY <1>1, <2>4, <2>5 DEF FieldBytes
  <2>7. SubSeq(packed, 1, 1) = <<1>>
    <3>1. 0 + 1 = 1
      BY SMT
    <3>2. QED
      BY <2>3, <2>4, <2>6, <3>1
  <2>8. SubSeq(packed, 1, 1)[1] = packed[1]
    <3> DEFINE B == 0 .. Byte
               n == PermissionLEN
    <3>1. n \in Nat /\ n >= 1
      BY SwapSizes
    <3>2. packed \in Seq(B) /\ Len(packed) = n
      BY <1>5
    <3> HIDE DEF B, n
    <3>3. \A i \in 1 .. 1 : i \in 1 .. n
      BY <3>1, SMT
    <3>4. \A i \in 1 .. 1 : packed[i] \in B
      BY <3>2, <3>3, ElementOfSeq
    <3>5. \A i \in 1 .. (1 - 1 + 1) : SubSeq(packed, 1, 1)[i] = packed[1 + i - 1]
      BY <3>4, SubSeqProperties
    <3>6. 1 \in 1 .. (1 - 1 + 1) /\ 1 + 1 - 1 = 1
      BY SMT
    <3>7. SubSeq(packed, 1, 1)[1] = packed[1 + 1 - 1]
      BY <3>5, <3>6
    <3>8. QED
      BY <3>6, <3>7
  <2>9. <<1>>[1] = 1
    OBVIOUS
  <2>10. QED
    BY <2>7, <2>8, <2>9
<1>10. PermissionUnpacks(packed)
  BY <1>5, <1>9, SMT DEF PermissionUnpacks
<1>11. Len(packed) # LATEST_LEN
  BY <1>5, SwapSizes
<1>12. ~ SwapUnpacks(packed) /\ ~ SwapPacksInto(packed)
  BY <1>11 DEF SwapUnpacks, SwapPacksInto
<1>13. PermissionReadByAll(packed, permission)
  BY <1>1, <1>5, <1>8, <1>10, <1>11, <1>12 DEF PermissionReadByAll
<1>14. QED
  BY <1>13 DEF packed

(* SetRates and UpdatePermission change what they should and nothing else. *)

\* Rates are three wide numbers.
LEMMA RatesLayout ==
  ASSUME NEW rates, IsRates(rates)
  PROVE  /\ rates["ssr"] \in Holds("u128") /\ rates["rho"] \in Holds("u128")
         /\ rates["chi"] \in Holds("u128")
<1> DEFINE f == Fields("u128", <<"ssr", "rho", "chi">>)
<1>1. Suits(f, rates)
  BY DEF IsRates, IsOf
<1>2. /\ 1 \in DOMAIN f /\ f[1].name = "ssr" /\ f[1].type = "u128"
      /\ 2 \in DOMAIN f /\ f[2].name = "rho" /\ f[2].type = "u128"
      /\ 3 \in DOMAIN f /\ f[3].name = "chi" /\ f[3].type = "u128"
  BY DEF Fields
<1> HIDE DEF f
<1>3. \A i \in DOMAIN f : rates[f[i].name] \in Holds(f[i].type)
  BY <1>1 DEF Suits
<1>4. QED
  BY <1>2, <1>3

\* A curve with new rates is a curve, of the same kind.
LEMMA NewRates ==
  ASSUME NEW pool, IsSwap(pool), pool["swap_curve"].curve_type = "RedemptionRateCurve",
         NEW rates, IsRates(rates)
  PROVE  LET curve == [curve_type |-> "RedemptionRateCurve",
                       parameters |-> WithRates(pool["swap_curve"].parameters, rates)]
         IN  /\ IsSwap([pool EXCEPT !.swap_curve = curve])
             /\ [pool["swap_curve"] EXCEPT !.parameters = WithRates(@, rates)] = curve
<1> DEFINE old == pool["swap_curve"]
           p == old.parameters
           q == WithRates(p, rates)
           curve == [curve_type |-> "RedemptionRateCurve", parameters |-> q]
           new == [pool EXCEPT !.swap_curve = curve]
<1>1. /\ pool = [field \in SwapNames |-> pool[field]]
      /\ pool["is_initialized"] = TRUE /\ pool["bump_seed"] \in Holds("u8")
      /\ \A key \in KeyNames : pool[key] \in Holds("pubkey")
      /\ IsOf(FeesPacked, pool["fees"]) /\ IsCurve(old)
  BY SwapFields
<1>2. /\ old = [curve_type |-> "RedemptionRateCurve", parameters |-> p]
      /\ IsOf(RedemptionRateCurvePacked, p)
  BY <1>1 DEF IsCurve, CalculatorPacked
<1> HIDE DEF old
<1>3. /\ p = [name \in RateNames |-> p[name]] /\ \A name \in RateNames : p[name] \in Holds("u128")
  BY <1>2, RedemptionLayout DEF IsOf
<1> HIDE DEF p
<1>4. /\ q = [name \in RateNames |-> q[name]] /\ \A name \in RateNames : q[name] \in Holds("u128")
  <2>1. /\ rates["ssr"] \in Holds("u128") /\ rates["rho"] \in Holds("u128")
        /\ rates["chi"] \in Holds("u128")
    BY RatesLayout
  <2> DEFINE H == Holds("u128")
             x == rates["ssr"]
             y == rates["rho"]
             z == rates["chi"]
  <2>2. q = [p EXCEPT !["ssr"] = x, !["rho"] = y, !["chi"] = z]
    BY DEF WithRates
  <2>3. x \in H /\ y \in H /\ z \in H
    BY <2>1
  <2>4. p \in [RateNames -> H]
    BY <1>3
  <2> HIDE DEF H, x, y, z, q
  <2>5. q \in [RateNames -> H]
    BY <2>2, <2>3, <2>4
  <2>6. QED
    BY <2>5 DEF H
<1>5. IsOf(RedemptionRateCurvePacked, q)
  BY <1>4, RedemptionLayout DEF IsOf
<1> HIDE DEF q
<1>6. IsCurve(curve)
  <2>1. curve.curve_type = "RedemptionRateCurve" /\ curve.parameters = q
    OBVIOUS
  <2>2. "RedemptionRateCurve" \in {CurveTypes[i] : i \in DOMAIN CurveTypes}
    BY CurveBytes DEF Calculators
  <2>3. CalculatorPacked("RedemptionRateCurve") = RedemptionRateCurvePacked
    BY DEF CalculatorPacked
  <2>4. QED
    BY <1>5, <2>1, <2>2, <2>3 DEF IsCurve
<1>7. [old EXCEPT !.parameters = WithRates(@, rates)] = curve
  BY <1>2 DEF q
<1> HIDE DEF curve
<1>8. /\ new = [field \in SwapNames |-> new[field]]
      /\ new["swap_curve"] = curve
      /\ \A field \in SwapNames : field # "swap_curve" => new[field] = pool[field]
  <2>1. "swap_curve" \in SwapNames /\ DOMAIN pool = SwapNames
    BY <1>1 DEF SwapNames
  <2>2. new = [pool EXCEPT !["swap_curve"] = curve]
    OBVIOUS
  <2> HIDE DEF new
  <2>3. QED
    BY <2>1, <2>2
<1> HIDE DEF new
<1>9. IsSwap(new)
  <2>1. Names(SwapV1Packed) \cup {"swap_curve"} = SwapNames
    BY SwapLayout, BodyLayout DEF SwapNames
  <2>2. new = [field \in Names(SwapV1Packed) \cup {"swap_curve"} |-> new[field]]
    BY <1>8, <2>1
  <2>3. new["is_initialized"] = TRUE /\ new["bump_seed"] \in Holds("u8") /\ IsOf(FeesPacked, new["fees"])
    <3>1. /\ "is_initialized" \in SwapNames /\ "bump_seed" \in SwapNames /\ "fees" \in SwapNames
      BY DEF SwapNames
    <3>2. new["is_initialized"] = pool["is_initialized"] /\ new["bump_seed"] = pool["bump_seed"]
          /\ new["fees"] = pool["fees"]
      BY <1>8, <3>1
    <3>3. QED
      BY <1>1, <3>2
  <2>4. \A key \in Names(TokenSwapKeys) : new[key] \in Holds("pubkey")
    <3>1. \A key \in KeyNames : key \in SwapNames /\ key # "swap_curve"
      BY DEF SwapNames, KeyNames
    <3>2. QED
      BY <1>1, <1>8, <3>1, KeysLayout
  <2>5. QED
    BY <1>6, <1>8, <2>2, <2>3, <2>4 DEF IsSwap
<1>10. QED
  BY <1>7, <1>9 DEF new, curve, q, p, old

\* A permission with new powers is a permission.
LEMMA NewPowers ==
  ASSUME NEW permission, IsPermission(permission), NEW super \in BOOLEAN, NEW update \in BOOLEAN
  PROVE  IsPermission([permission EXCEPT !.is_super_admin = super, !.can_update_parameters = update])
<1> DEFINE new == [permission EXCEPT !["is_super_admin"] = super, !["can_update_parameters"] = update]
<1>1. /\ permission = [name \in PermissionNames |-> permission[name]]
      /\ Suits(PermissionPacked, permission) /\ permission["is_initialized"] = TRUE
  BY PermissionLayout DEF IsPermission, IsOf
<1>2. permission["swap"] \in Holds("pubkey") /\ permission["authority"] \in Holds("pubkey")
  BY <1>1, PermissionLayout
<1>3. /\ "is_super_admin" \in PermissionNames /\ "can_update_parameters" \in PermissionNames
      /\ "is_initialized" \in PermissionNames /\ "swap" \in PermissionNames /\ "authority" \in PermissionNames
      /\ DOMAIN permission = PermissionNames
  BY <1>1 DEF PermissionNames
<1>4. /\ new = [name \in PermissionNames |-> new[name]]
      /\ new["is_super_admin"] = super /\ new["can_update_parameters"] = update
      /\ new["is_initialized"] = permission["is_initialized"]
      /\ new["swap"] = permission["swap"] /\ new["authority"] = permission["authority"]
  BY <1>3
<1>5. [permission EXCEPT !.is_super_admin = super, !.can_update_parameters = update] = new
  OBVIOUS
<1> HIDE DEF new
<1>6. Suits(PermissionPacked, new)
  <2>1. /\ new["is_super_admin"] \in BOOLEAN /\ new["can_update_parameters"] \in BOOLEAN
        /\ new["is_initialized"] \in BOOLEAN
        /\ new["swap"] \in Holds("pubkey") /\ new["authority"] \in Holds("pubkey")
    BY <1>1, <1>2, <1>4
  <2>2. QED
    BY <2>1, PermissionLayout
<1>7. IsPermission(new)
  <2>1. new = [name \in Names(PermissionPacked) |-> new[name]]
    BY <1>4, PermissionLayout
  <2>2. QED
    BY <1>1, <1>4, <1>6, <2>1 DEF IsPermission, IsOf
<1>8. QED
  BY <1>5, <1>7

NothingAt(a) == data[a] = Absent /\ meant[a] = Absent
BlankAt(a)   == meant[a] = Absent /\ \E n \in Sizes : data[a] = Zeros(n)
SwapAt(a)    == /\ IsSwap(meant[a]) /\ LATEST_LEN \in Sizes
                /\ \E before \in Slices(LATEST_LEN) : data[a] = PackedSwap(meant[a], before)
PermissionAt(a) == IsPermission(meant[a]) /\ data[a] = Packed(PermissionPacked, meant[a])

KnownAt(a) == NothingAt(a) \/ BlankAt(a) \/ SwapAt(a) \/ PermissionAt(a)

WrittenAsMeant ==
  /\ data = [a \in Addresses |-> data[a]]
  /\ meant = [a \in Addresses |-> meant[a]]
  /\ \A a \in Addresses : KnownAt(a)

\* A slice is made of bytes.
LEMMA SlicesHold ==
  ASSUME NEW n, NEW bytes \in Slices(n)
  PROVE  (\A i \in DOMAIN bytes : bytes[i] \in 0 .. Byte) /\ Len(bytes) = n
<1> DEFINE B == 0 .. Byte
<1>1. bytes \in Seq(B) /\ Len(bytes) = n
  BY DEF Slices
<1> HIDE DEF B
<1>2. DOMAIN bytes = 1 .. Len(bytes) /\ \A i \in 1 .. Len(bytes) : bytes[i] \in B
  BY <1>1, LenProperties, ElementOfSeq
<1>3. QED
  BY <1>1, <1>2 DEF B

\* What a blank account reads as.
LEMMA BlankReads ==
  ASSUME NEW a \in Addresses, BlankAt(a)
  PROVE  \E n \in Sizes : data[a] = Zeros(n) /\ BlankForAll(data[a], n) /\ n \in Nat
<1>1. PICK n \in Sizes : data[a] = Zeros(n)
  BY DEF BlankAt
<1>2. n \in Nat
  BY AccountDataAssumption
<1>3. BlankForAll(Zeros(n), n)
  BY <1>2, ZerosAreBlank
<1>4. QED
  BY <1>1, <1>2, <1>3

\* What an account with a swap reads as.
LEMMA SwapAtReads ==
  ASSUME NEW a \in Addresses, SwapAt(a)
  PROVE  SwapReadByAll(data[a], meant[a]) /\ LATEST_LEN \in Sizes /\ data[a] \in Slices(LATEST_LEN)
<1>1. PICK before \in Slices(LATEST_LEN) : data[a] = PackedSwap(meant[a], before)
  BY DEF SwapAt
<1> DEFINE pool == meant[a]
<1>2. IsSwap(pool) /\ LATEST_LEN \in Sizes
  BY DEF SwapAt
<1>3. Byte >= 3
  BY AccountDataAssumption
<1> HIDE DEF pool
<1>4. SwapReadByAll(PackedSwap(pool, before), pool)
  BY <1>2, <1>3, SwapIsReadByAll
<1>5. SwapReadByAll(data[a], pool)
  BY <1>1, <1>4 DEF pool
<1>6. data[a] \in Slices(LATEST_LEN)
  BY <1>5 DEF SwapReadByAll, Slices
<1>7. QED
  BY <1>2, <1>5, <1>6 DEF pool

\* What an account with a permission reads as.
LEMMA PermissionAtReads ==
  ASSUME NEW a \in Addresses, PermissionAt(a)
  PROVE  PermissionReadByAll(data[a], meant[a])
<1> DEFINE permission == meant[a]
<1>1. IsPermission(permission) /\ data[a] = Packed(PermissionPacked, permission)
  BY DEF PermissionAt
<1> HIDE DEF permission
<1>2. PermissionReadByAll(Packed(PermissionPacked, permission), permission)
  BY <1>1, PermissionIsReadByAll
<1>3. QED
  BY <1>1, <1>2 DEF permission

\* Nothing is meant where nothing is.
LEMMA NothingIsThere ==
  ASSUME NEW a \in Addresses, KnownAt(a), data[a] = Absent
  PROVE  meant[a] = Absent
<1>1. Absent \notin Seq(0 .. Byte)
  BY AccountDataAssumption
<1>2. CASE NothingAt(a)
  BY <1>2 DEF NothingAt
<1>3. CASE BlankAt(a)
  BY <1>3 DEF BlankAt
<1>4. CASE SwapAt(a)
  BY <1>1, <1>4, SwapAtReads DEF Slices
<1>5. CASE PermissionAt(a)
  BY <1>1, <1>5, PermissionAtReads DEF PermissionReadByAll, Slices
<1>6. QED
  BY <1>2, <1>3, <1>4, <1>5 DEF KnownAt

\* The invariant is enough for both properties.
LEMMA KnownHolds ==
  ASSUME WrittenAsMeant
  PROVE  ReadersAgree /\ NoMistakenIdentity
<1>1. ASSUME NEW a \in Present
      PROVE  /\ \A i \in DOMAIN data[a] : data[a][i] \in 0 .. Byte
             /\ Len(data[a]) \in Sizes \cup {PermissionLEN}
             /\ meant[a] # Absent =>
                  \/ SwapUnpacks(data[a]) /\ UnpackedSwap(data[a]) = meant[a]
                  \/ PermissionUnpacks(data[a]) /\ Unpacked(PermissionUnpacked, data[a]) = meant[a]
             /\ SwapUnpacks(data[a]) => SwapAt(a)
             /\ Len(data[a]) = LATEST_LEN => (Loads(data[a]) <=> SwapUnpacks(data[a]))
             /\ ~ (SwapUnpacks(data[a]) /\ PermissionUnpacks(data[a]))
             /\ SwapUnpacks(data[a]) => IsInitialized(data[a])
             /\ IsInitialized(data[a]) /\ SwapPacksInto(data[a]) => SwapUnpacks(data[a])
  <2>1. a \in Addresses /\ data[a] # Absent /\ KnownAt(a)
    BY <1>1 DEF Present, WrittenAsMeant
  <2>2. \A n : data[a] \in Slices(n) =>
          /\ \A i \in DOMAIN data[a] : data[a][i] \in 0 .. Byte
          /\ Len(data[a]) = n
    BY SlicesHold
  <2>3. CASE BlankAt(a)
    <3>1. PICK n \in Sizes : data[a] = Zeros(n) /\ BlankForAll(data[a], n) /\ n \in Nat
      BY <2>1, <2>3, BlankReads
    <3>2. meant[a] = Absent
      BY <2>3 DEF BlankAt
    <3>3. QED
      BY <2>2, <3>1, <3>2 DEF BlankForAll
  <2>4. CASE SwapAt(a)
    <3>1. SwapReadByAll(data[a], meant[a]) /\ LATEST_LEN \in Sizes /\ data[a] \in Slices(LATEST_LEN)
      BY <2>1, <2>4, SwapAtReads
    <3>2. SwapUnpacks(data[a]) /\ IsInitialized(data[a]) /\ UnpackedSwap(data[a]) = meant[a] /\ Loads(data[a])
      BY <3>1 DEF SwapReadByAll
    <3>3. ~ PermissionUnpacks(data[a])
      BY <2>2, <3>1, SwapSizes DEF PermissionUnpacks
    <3>4. QED
      BY <2>2, <2>4, <3>1, <3>2, <3>3
  <2>5. CASE PermissionAt(a)
    <3>1. PermissionReadByAll(data[a], meant[a])
      BY <2>1, <2>5, PermissionAtReads
    <3>2. data[a] \in Slices(PermissionLEN)
      BY <3>1 DEF PermissionReadByAll
    <3>3. Len(data[a]) = PermissionLEN /\ \A i \in DOMAIN data[a] : data[a][i] \in 0 .. Byte
      BY <2>2, <3>2
    <3>4. QED
      BY <3>1, <3>3 DEF PermissionReadByAll
  <2>6. QED
    BY <2>1, <2>3, <2>4, <2>5 DEF KnownAt, NothingAt
<1>2. ASSUME NEW a \in Present, SwapUnpacks(data[a])
      PROVE  SwapReadByAll(data[a], meant[a]) /\ UnpackedSwap(data[a]) = meant[a]
  <2>1. SwapAt(a) /\ a \in Addresses
    BY <1>1, <1>2 DEF Present
  <2>2. SwapReadByAll(data[a], meant[a])
    BY <2>1, SwapAtReads
  <2>3. QED
    BY <2>2 DEF SwapReadByAll
<1>3. TypeOK
  BY <1>1 DEF TypeOK
<1>4. InstructionsReadBack
  BY <1>1 DEF InstructionsReadBack
<1>5. ExtractsTheCurve
  <2>1. SUFFICES ASSUME NEW a \in Present, SwapUnpacks(data[a])
                 PROVE  LET curve == UnpackedSwap(data[a]).swap_curve
                        IN  /\ CurveExtracts(data[a]) <=> curve.curve_type = "RedemptionRateCurve"
                            /\ CurveExtracts(data[a]) => ExtractedCurve(data[a]) = curve
    BY DEF ExtractsTheCurve
  <2>2. SwapReadByAll(data[a], meant[a]) /\ UnpackedSwap(data[a]) = meant[a]
    BY <1>2, <2>1
  <2>3. QED
    BY <2>2 DEF SwapReadByAll
<1>6. JavaScriptReadsTheSame
  <2>1. SUFFICES ASSUME NEW a \in Present, SwapUnpacks(data[a])
                 PROVE  LET js == Loaded(data[a])  pool == UnpackedSwap(data[a])
                        IN  /\ \A field \in DOMAIN pool \ {"fees", "swap_curve"} : js[field] = pool[field]
                            /\ \A fee \in DOMAIN pool.fees : js[fee] = pool.fees[fee]
                            /\ UnpackedCurve(<<js.curve_type>> \o js.curve_parameters) = pool.swap_curve
    BY <1>1 DEF JavaScriptReadsTheSame
  <2>2. SwapReadByAll(data[a], meant[a]) /\ UnpackedSwap(data[a]) = meant[a]
    BY <1>2, <2>1
  <2>3. QED
    BY <2>2 DEF SwapReadByAll
<1>7. NoMistakenIdentity
  BY <1>1 DEF NoMistakenIdentity
<1>8. QED
  BY <1>3, <1>4, <1>5, <1>6, <1>7 DEF ReadersAgree

-----------------------------------------------------------------------------
(* Every instruction leaves what it means. *)

\* What one account becomes, and the others that stay.
LEMMA OneWritten ==
  ASSUME WrittenAsMeant, NEW address \in Addresses, NEW bytes, NEW what,
         data' = [data EXCEPT ![address] = bytes],
         meant' = [meant EXCEPT ![address] = what],
         KnownAt(address)'
  PROVE  WrittenAsMeant'
<1>1. /\ data' = [a \in Addresses |-> data'[a]] /\ meant' = [a \in Addresses |-> meant'[a]]
      /\ \A a \in Addresses : a # address => data'[a] = data[a] /\ meant'[a] = meant[a]
  BY DEF WrittenAsMeant
<1>2. ASSUME NEW a \in Addresses, a # address
      PROVE  KnownAt(a)'
  <2>1. KnownAt(a) /\ data'[a] = data[a] /\ meant'[a] = meant[a]
    BY <1>1, <1>2 DEF WrittenAsMeant
  <2>2. QED
    BY <2>1 DEF KnownAt, NothingAt, BlankAt, SwapAt, PermissionAt
<1>3. QED
  BY <1>1, <1>2 DEF WrittenAsMeant

\* At first there is nothing.
LEMMA InitIsKnown == Init => WrittenAsMeant
BY DEF Init, WrittenAsMeant, KnownAt, NothingAt

\* A new account is blank.
LEMMA CreateAccountKeeps ==
  ASSUME WrittenAsMeant, NEW address \in Addresses, NEW size \in Sizes, CreateAccount(address, size)
  PROVE  WrittenAsMeant'
<1>1. /\ data = [a \in Addresses |-> data[a]] /\ meant = [a \in Addresses |-> meant[a]]
      /\ KnownAt(address)
  BY DEF WrittenAsMeant
<1>2. data' = [data EXCEPT ![address] = Zeros(size)] /\ meant' = meant /\ data[address] = Absent
  BY DEF CreateAccount
<1>3. meant[address] = Absent
  BY <1>1, <1>2, NothingIsThere
<1>4. meant' = [meant EXCEPT ![address] = Absent]
  BY <1>1, <1>2, <1>3
<1>5. data'[address] = Zeros(size) /\ meant'[address] = Absent
  BY <1>1, <1>2, <1>3
<1>6. BlankAt(address)'
  BY <1>5 DEF BlankAt
<1>7. KnownAt(address)'
  BY <1>6 DEF KnownAt
<1>8. QED
  BY <1>2, <1>4, <1>7, OneWritten

\* Initialize writes a swap over zeros.
LEMMA InitializeKeeps ==
  ASSUME WrittenAsMeant, NEW address \in Addresses, NEW pool \in Swaps, Initialize(address, pool)
  PROVE  WrittenAsMeant'
<1> DEFINE old == data[address]
<1>1. /\ data = [a \in Addresses |-> data[a]] /\ meant = [a \in Addresses |-> meant[a]]
      /\ KnownAt(address)
  BY DEF WrittenAsMeant
<1>2. /\ old # Absent /\ ~ IsInitialized(old) /\ SwapPacksInto(old)
      /\ data' = [data EXCEPT ![address] = PackedSwap(pool, old)]
      /\ meant' = [meant EXCEPT ![address] = pool]
  BY DEF Initialize
<1>3. old \in Slices(LATEST_LEN) /\ LATEST_LEN \in Sizes
  <2>1. BlankAt(address)
    <3>1. ~ SwapAt(address)
      BY <1>2, SwapAtReads DEF SwapReadByAll
    <3>2. ~ PermissionAt(address)
      BY <1>2, PermissionAtReads DEF PermissionReadByAll
    <3>3. QED
      BY <1>1, <1>2, <3>1, <3>2 DEF KnownAt, NothingAt
  <2>2. PICK n \in Sizes : old = Zeros(n) /\ BlankForAll(old, n) /\ n \in Nat
    BY <2>1, BlankReads
  <2>3. old \in Slices(n)
    BY <2>2 DEF BlankForAll
  <2>4. Len(old) = n /\ Len(old) = LATEST_LEN
    BY <1>2, <2>3 DEF Slices, SwapPacksInto
  <2>5. QED
    BY <2>3, <2>4
<1>4. IsSwap(pool)
  BY AccountDataAssumption
<1>5. data'[address] = PackedSwap(pool, old) /\ meant'[address] = pool
  BY <1>1, <1>2
<1> HIDE DEF old
<1>6. SwapAt(address)'
  BY <1>3, <1>4, <1>5 DEF SwapAt
<1>7. KnownAt(address)'
  BY <1>6 DEF KnownAt
<1>8. QED
  BY <1>2, <1>7, OneWritten DEF old

\* SetRates unpacks a swap, changes its rates and packs it over itself.
LEMMA SetRatesKeeps ==
  ASSUME WrittenAsMeant, NEW address \in Addresses, NEW rates \in Rates, SetRates(address, rates)
  PROVE  WrittenAsMeant'
<1> DEFINE old == data[address]
           pool == meant[address]
           curve == [curve_type |-> "RedemptionRateCurve",
                     parameters |-> WithRates(pool["swap_curve"].parameters, rates)]
           new == [pool EXCEPT !.swap_curve = curve]
<1>1. /\ data = [a \in Addresses |-> data[a]] /\ meant = [a \in Addresses |-> meant[a]]
      /\ KnownAt(address)
  BY DEF WrittenAsMeant
<1>2. SwapUnpacks(old) /\ CurveExtracts(old) /\ old # Absent
  BY DEF SetRates
<1>3. SwapAt(address)
  <2>1. ~ BlankAt(address)
    BY <1>2, BlankReads DEF BlankForAll
  <2>2. ~ PermissionAt(address)
    BY <1>2, PermissionAtReads DEF PermissionReadByAll
  <2>3. QED
    BY <1>1, <1>2, <2>1, <2>2 DEF KnownAt, NothingAt
<1>4. SwapReadByAll(old, pool) /\ LATEST_LEN \in Sizes /\ old \in Slices(LATEST_LEN)
  BY <1>3, SwapAtReads
<1>5. UnpackedSwap(old) = pool /\ ExtractedCurve(old) = pool["swap_curve"]
      /\ pool["swap_curve"].curve_type = "RedemptionRateCurve"
  BY <1>2, <1>4 DEF SwapReadByAll
<1>6. IsSwap(pool) /\ IsRates(rates)
  BY <1>3, AccountDataAssumption DEF SwapAt
<1>7. IsSwap(new) /\ [pool["swap_curve"] EXCEPT !.parameters = WithRates(@, rates)] = curve
  BY <1>5, <1>6, NewRates
<1>8. data' = [data EXCEPT ![address] = PackedSwap(new, old)]
  BY <1>5 DEF SetRates
<1>9. meant' = [meant EXCEPT ![address] = new]
  <2>1. meant' = [meant EXCEPT ![address].swap_curve.parameters = WithRates(@, rates)]
    BY DEF SetRates
  <2>2. meant' = [meant EXCEPT ![address] =
                    [pool EXCEPT !.swap_curve = [pool["swap_curve"] EXCEPT !.parameters = WithRates(@, rates)]]]
    BY <2>1
  <2>3. QED
    BY <1>7, <2>2
<1>10. data'[address] = PackedSwap(new, old) /\ meant'[address] = new
  BY <1>1, <1>8, <1>9
<1> HIDE DEF new, old
<1>11. SwapAt(address)'
  BY <1>4, <1>7, <1>10 DEF SwapAt
<1>12. KnownAt(address)'
  BY <1>11 DEF KnownAt
<1>13. QED
  BY <1>8, <1>9, <1>12, OneWritten

\* A new permission is written over zeros.
LEMMA InitializePermissionKeeps ==
  ASSUME WrittenAsMeant, NEW address \in Addresses, NEW permission \in Permissions,
         InitializePermission(address, permission)
  PROVE  WrittenAsMeant'
<1>1. /\ data = [a \in Addresses |-> data[a]] /\ meant = [a \in Addresses |-> meant[a]]
  BY DEF WrittenAsMeant
<1>2. /\ data' = [data EXCEPT ![address] = Packed(PermissionPacked, permission)]
      /\ meant' = [meant EXCEPT ![address] = permission]
  BY DEF InitializePermission
<1>3. data'[address] = Packed(PermissionPacked, permission) /\ meant'[address] = permission
  BY <1>1, <1>2
<1>4. IsPermission(permission)
  BY AccountDataAssumption
<1>5. PermissionAt(address)'
  BY <1>3, <1>4 DEF PermissionAt
<1>6. KnownAt(address)'
  BY <1>5 DEF KnownAt
<1>7. QED
  BY <1>2, <1>6, OneWritten

\* UpdatePermission unpacks a permission, changes its powers and packs it.
LEMMA UpdatePermissionKeeps ==
  ASSUME WrittenAsMeant, NEW address \in Addresses, NEW super \in BOOLEAN, NEW update \in BOOLEAN,
         UpdatePermission(address, super, update)
  PROVE  WrittenAsMeant'
<1> DEFINE old == data[address]
           permission == meant[address]
           new == [permission EXCEPT !.is_super_admin = super, !.can_update_parameters = update]
<1>1. /\ data = [a \in Addresses |-> data[a]] /\ meant = [a \in Addresses |-> meant[a]]
      /\ KnownAt(address)
  BY DEF WrittenAsMeant
<1>2. PermissionUnpacks(old) /\ old # Absent
  BY DEF UpdatePermission
<1>3. PermissionAt(address)
  <2>1. ~ BlankAt(address)
    BY <1>2, BlankReads DEF BlankForAll
  <2>2. ~ SwapAt(address)
    <3>1. SwapAt(address) => Len(old) = LATEST_LEN
      BY SwapAtReads DEF SwapReadByAll
    <3>2. QED
      BY <1>2, <3>1, SwapSizes DEF PermissionUnpacks
  <2>3. QED
    BY <1>1, <1>2, <2>1, <2>2 DEF KnownAt, NothingAt
<1>4. Unpacked(PermissionUnpacked, old) = permission /\ IsPermission(permission)
  BY <1>3, PermissionAtReads DEF PermissionReadByAll, PermissionAt
<1>5. IsPermission(new)
  BY <1>4, NewPowers
<1>6. data' = [data EXCEPT ![address] = Packed(PermissionPacked, new)]
  BY <1>4 DEF UpdatePermission
<1>7. meant' = [meant EXCEPT ![address] = new]
  BY DEF UpdatePermission
<1>8. data'[address] = Packed(PermissionPacked, new) /\ meant'[address] = new
  BY <1>1, <1>6, <1>7
<1> HIDE DEF new
<1>9. PermissionAt(address)'
  BY <1>5, <1>8 DEF PermissionAt
<1>10. KnownAt(address)'
  BY <1>9 DEF KnownAt
<1>11. QED
  BY <1>6, <1>7, <1>10, OneWritten

\* Every account holds what was meant by the last that wrote it.
LEMMA WrittenAsMeantHolds == Spec => []WrittenAsMeant
<1>1. WrittenAsMeant /\ [Next]_vars => WrittenAsMeant'
  <2>1. SUFFICES ASSUME WrittenAsMeant, [Next]_vars PROVE WrittenAsMeant'
    OBVIOUS
  <2>2. CASE Next
    <3>1. PICK address \in Addresses :
            \/ \E size \in Sizes : CreateAccount(address, size)
            \/ \E pool \in Swaps : Initialize(address, pool)
            \/ \E rates \in Rates : SetRates(address, rates)
            \/ \E permission \in Permissions : InitializePermission(address, permission)
            \/ \E super, update \in BOOLEAN : UpdatePermission(address, super, update)
      BY <2>2 DEF Next
    <3>2. CASE \E size \in Sizes : CreateAccount(address, size)
      BY <2>1, <3>2, CreateAccountKeeps
    <3>3. CASE \E pool \in Swaps : Initialize(address, pool)
      BY <2>1, <3>3, InitializeKeeps
    <3>4. CASE \E rates \in Rates : SetRates(address, rates)
      BY <2>1, <3>4, SetRatesKeeps
    <3>5. CASE \E permission \in Permissions : InitializePermission(address, permission)
      BY <2>1, <3>5, InitializePermissionKeeps
    <3>6. CASE \E super, update \in BOOLEAN : UpdatePermission(address, super, update)
      BY <2>1, <3>6, UpdatePermissionKeeps
    <3>7. QED
      BY <3>1, <3>2, <3>3, <3>4, <3>5, <3>6
  <2>3. CASE UNCHANGED vars
    BY <2>1, <2>3 DEF vars, WrittenAsMeant, KnownAt, NothingAt, BlankAt, SwapAt, PermissionAt
  <2>4. QED
    BY <2>1, <2>2, <2>3
<1>2. QED
  BY <1>1, InitIsKnown, PTL DEF Spec

\* Every account reads the same to the program and to its clients, as what was written there (SwapV1, the Permission account, TokenSwapLayout).
THEOREM EveryReaderAgrees == Spec => []ReadersAgree
<1>1. WrittenAsMeant => ReadersAgree
  BY KnownHolds
<1>2. QED
  BY <1>1, WrittenAsMeantHolds, PTL

\* No account is read as a swap that is none, nor as a permission that is none.
THEOREM NobodyIsMistaken == Spec => []NoMistakenIdentity
<1>1. WrittenAsMeant => NoMistakenIdentity
  BY KnownHolds
<1>2. QED
  BY <1>1, WrittenAsMeantHolds, PTL

-----------------------------------------------------------------------------
(* Messages. *)

\* A tag is one byte and stands for its kind.
LEMMA Tags ==
  /\ DOMAIN SwapInstruction = 1 .. 9
  /\ \A kind \in Kinds : Tag(kind) \in 0 .. 8 /\ Tag(kind) + 1 \in 1 .. 9 /\ SwapInstruction[Tag(kind) + 1] = kind
<1>1. DOMAIN SwapInstruction = 1 .. 9
  BY DEF SwapInstruction
<1>2. SUFFICES ASSUME NEW kind \in Kinds
               PROVE  /\ Tag(kind) \in 0 .. 8 /\ Tag(kind) + 1 \in 1 .. 9
                      /\ SwapInstruction[Tag(kind) + 1] = kind
  BY <1>1
<1> DEFINE k == CHOOSE i \in DOMAIN SwapInstruction : SwapInstruction[i] = kind
<1>3. k \in 1 .. 9 /\ SwapInstruction[k] = kind
  BY <1>1 DEF Kinds
<1> HIDE DEF k
<1>4. Tag(kind) = k - 1
  BY DEF Tag, k
<1>5. k - 1 \in 0 .. 8 /\ (k - 1) + 1 = k
  BY <1>3, SMT
<1>6. QED
  BY <1>3, <1>4, <1>5

\* The kinds one by one.
LEMMA TheKinds ==
  ASSUME NEW kind \in Kinds
  PROVE  \/ kind = "Initialize" \/ kind = "Swap" \/ kind = "DepositAllTokenTypes"
         \/ kind = "WithdrawAllTokenTypes" \/ kind = "DepositSingleTokenTypeExactAmountIn"
         \/ kind = "WithdrawSingleTokenTypeExactAmountOut" \/ kind = "SetRates"
         \/ kind = "InitializePermission" \/ kind = "UpdatePermission"
<1>1. PICK i \in 1 .. 9 : kind = SwapInstruction[i]
  BY Tags DEF Kinds
<1>2. QED
  BY <1>1 DEF SwapInstruction

\* What follows a tag is a layout, which is unpacked as it is packed.
LEMMA MessageLayouts ==
  ASSUME NEW kind \in Kinds, kind # "Initialize"
  PROVE  IsLayout(PackedFields(kind)) /\ UnpackedFields(kind) = PackedFields(kind)
<1>1. UnpackedFields(kind) = PackedFields(kind)
  BY DEF PackedFields, UnpackedFields
<1>2. /\ "u64" \in Types /\ "u128" \in Types /\ "pubkey" \in Types /\ "bool" \in Types
  BY DEF Types
<1>3. ASSUME NEW type \in Types, NEW a \in Labels, NEW b \in Labels, a # b
      PROVE  IsLayout(Fields(type, <<a, b>>)) /\ Names(Fields(type, <<a, b>>)) = {a, b}
  <2> DEFINE names == <<a, b>>
  <2>1. names \in Seq(Labels) /\ Len(names) = 2 /\ names[1] = a /\ names[2] = b
    BY Two
  <2> HIDE DEF names
  <2>2. \A i, j \in 1 .. Len(names) : names[i] = names[j] => i = j
    BY <1>3, <2>1
  <2>3. {names[i] : i \in 1 .. Len(names)} = {a, b}
    BY <2>1
  <2>4. IsLayout(Fields(type, names)) /\ Names(Fields(type, names)) = {names[i] : i \in 1 .. Len(names)}
    BY <2>1, <2>2, FieldsAre
  <2>5. QED
    BY <2>3, <2>4 DEF names
<1>4. ASSUME NEW type \in Types, NEW a \in Labels, NEW b \in Labels, NEW c \in Labels,
             a # b, a # c, b # c
      PROVE  IsLayout(Fields(type, <<a, b, c>>))
  <2> DEFINE names == <<a, b, c>>
  <2>1. names \in Seq(Labels) /\ Len(names) = 3 /\ names[1] = a /\ names[2] = b /\ names[3] = c
    BY FourAndMore
  <2> HIDE DEF names
  <2>2. \A i, j \in 1 .. Len(names) : names[i] = names[j] => i = j
    BY <1>4, <2>1
  <2>3. IsLayout(Fields(type, names))
    BY <2>1, <2>2, FieldsAre
  <2>4. QED
    BY <2>3 DEF names
<1>5. /\ "amount_in" \in Labels /\ "minimum_amount_out" \in Labels
      /\ "pool_token_amount" \in Labels /\ "maximum_token_a_amount" \in Labels
      /\ "maximum_token_b_amount" \in Labels /\ "minimum_token_a_amount" \in Labels
      /\ "minimum_token_b_amount" \in Labels /\ "source_token_amount" \in Labels
      /\ "minimum_pool_token_amount" \in Labels /\ "destination_token_amount" \in Labels
      /\ "maximum_pool_token_amount" \in Labels
      /\ "ssr" \in Labels /\ "rho" \in Labels /\ "chi" \in Labels
      /\ "permission_authority" \in Labels /\ "is_super_admin" \in Labels /\ "can_update_parameters" \in Labels
  BY DEF Labels
<1>6. CASE kind = "Swap"
  <2>1. IsLayout(Fields("u64", <<"amount_in", "minimum_amount_out">>))
    BY <1>2, <1>3, <1>5
  <2>2. QED
    BY <1>1, <1>6, <2>1 DEF PackedFields
<1>7. CASE kind = "DepositAllTokenTypes"
  <2>1. IsLayout(Fields("u64", <<"pool_token_amount", "maximum_token_a_amount", "maximum_token_b_amount">>))
    BY <1>2, <1>4, <1>5
  <2>2. QED
    BY <1>1, <1>7, <2>1 DEF PackedFields
<1>8. CASE kind = "WithdrawAllTokenTypes"
  <2>1. IsLayout(Fields("u64", <<"pool_token_amount", "minimum_token_a_amount", "minimum_token_b_amount">>))
    BY <1>2, <1>4, <1>5
  <2>2. QED
    BY <1>1, <1>8, <2>1 DEF PackedFields
<1>9. CASE kind = "DepositSingleTokenTypeExactAmountIn"
  <2>1. IsLayout(Fields("u64", <<"source_token_amount", "minimum_pool_token_amount">>))
    BY <1>2, <1>3, <1>5
  <2>2. QED
    BY <1>1, <1>9, <2>1 DEF PackedFields
<1>10. CASE kind = "WithdrawSingleTokenTypeExactAmountOut"
  <2>1. IsLayout(Fields("u64", <<"destination_token_amount", "maximum_pool_token_amount">>))
    BY <1>2, <1>3, <1>5
  <2>2. QED
    BY <1>1, <1>10, <2>1 DEF PackedFields
<1>11. CASE kind = "SetRates"
  <2>1. IsLayout(Fields("u128", <<"ssr", "rho", "chi">>))
    BY <1>2, <1>4, <1>5
  <2>2. QED
    BY <1>1, <1>11, <2>1 DEF PackedFields
<1> DEFINE powers == Fields("bool", <<"is_super_admin", "can_update_parameters">>)
           to == Fields("pubkey", <<"permission_authority">>)
<1>12. IsLayout(powers) /\ Names(powers) = {"is_super_admin", "can_update_parameters"}
  BY <1>2, <1>3, <1>5
<1>13. IsLayout(to) /\ Names(to) = {"permission_authority"}
  BY <1>2, <1>5, OneLayout
<1>14. CASE kind = "UpdatePermission"
  BY <1>1, <1>12, <1>14 DEF PackedFields
<1>15. CASE kind = "InitializePermission"
  <2>1. PackedFields(kind) = to \o powers
    BY <1>15 DEF PackedFields
  <2> HIDE DEF to, powers
  <2>2. Names(to) \cap Names(powers) = {}
    BY <1>12, <1>13
  <2>3. IsLayout(to \o powers)
    BY <1>12, <1>13, <2>2, LayoutsConcat
  <2>4. QED
    BY <1>1, <2>1, <2>3
<1>16. QED
  BY <1>6, <1>7, <1>8, <1>9, <1>10, <1>11, <1>14, <1>15, TheKinds

\* A message without its tag.
PackedBody(kind, values) ==
  IF kind = "Initialize" THEN InitializeData(values) ELSE Packed(PackedFields(kind), values)

BodyWidth(kind) ==
  IF kind = "Initialize" THEN WidthOf(FeesUnpacked) + SwapCurveWidth ELSE WidthOf(UnpackedFields(kind))

\* Initialize is the fees and the curve, in bytes.
LEMMA InitializeBytes ==
  ASSUME Byte >= 3, NEW values, IsMessage("Initialize", values)
  PROVE  LET fees  == Packed(FeesPacked, values.fees)
             curve == PackedCurve(values.swap_curve, Zeros(SwapCurveWidth))
         IN  /\ InitializeData(values) = fees \o curve
             /\ fees \in Slices(8 * Word) /\ curve \in Slices(SwapCurveWidth)
             /\ WidthOf(FeesUnpacked) = 8 * Word /\ 8 * Word \in Nat /\ SwapCurveWidth \in Nat
             /\ Unpacked(FeesUnpacked, fees \o curve) = values.fees
             /\ CurveUnpacks(curve) /\ UnpackedCurve(curve) = values.swap_curve
<1> DEFINE f == values.fees
           c == values.swap_curve
           slice == Zeros(SwapCurveWidth)
           fees == Packed(FeesPacked, f)
           curve == PackedCurve(c, slice)
<1>1. IsOf(FeesPacked, f) /\ IsCurve(c)
  BY DEF IsMessage
<1>2. InitializeData(values) = fees \o curve
  BY DEF InitializeData
<1> HIDE DEF f, c
<1>3. SwapCurveWidth \in Nat /\ slice \in Slices(SwapCurveWidth)
  BY SwapCurveLayout, ZerosAreBlank DEF BlankForAll
<1> HIDE DEF slice
<1>4. curve \in Slices(SwapCurveWidth) /\ CurveUnpacks(curve) /\ UnpackedCurve(curve) = c
  BY <1>1, <1>3, CurveReads
<1> HIDE DEF curve
<1>5. Suits(FeesPacked, f) /\ f = [name \in Names(FeesPacked) |-> f[name]]
  BY <1>1 DEF IsOf
<1>6. IsLayout(FeesPacked) /\ WidthOf(FeesPacked) = 8 * Word /\ FeesUnpacked = FeesPacked
  BY FeesLayout
<1>7. curve \in Seq(0 .. Byte)
  BY <1>4 DEF Slices
<1>8. fees \in Slices(8 * Word)
  BY <1>5, <1>6, PackedAreBytes
<1>9. Unpacked(FeesPacked, Packed(FeesPacked, f) \o curve) = [name \in Names(FeesPacked) |-> f[name]]
  BY <1>5, <1>6, <1>7, LayoutReads
<1>10. 8 * Word \in Nat
  BY BaseType, SMT
<1>11. QED
  BY <1>2, <1>3, <1>4, <1>5, <1>6, <1>8, <1>9, <1>10 DEF f, c, curve, slice

\* A message without its tag is bytes, as many as its kind has.
LEMMA BodyIs ==
  ASSUME Byte >= 3, NEW kind \in Kinds, NEW values, IsMessage(kind, values)
  PROVE  /\ PackedBody(kind, values) \in Seq(0 .. Byte)
         /\ Len(PackedBody(kind, values)) = BodyWidth(kind) /\ BodyWidth(kind) \in Nat
<1>1. CASE kind = "Initialize"
  <2> DEFINE fees  == Packed(FeesPacked, values.fees)
             curve == PackedCurve(values.swap_curve, Zeros(SwapCurveWidth))
             B == 0 .. Byte
  <2>1. /\ InitializeData(values) = fees \o curve
        /\ fees \in Slices(8 * Word) /\ curve \in Slices(SwapCurveWidth)
        /\ WidthOf(FeesUnpacked) = 8 * Word /\ 8 * Word \in Nat /\ SwapCurveWidth \in Nat
    BY <1>1, InitializeBytes
  <2> HIDE DEF fees, curve
  <2>2. fees \in Seq(B) /\ curve \in Seq(B) /\ Len(fees) = 8 * Word /\ Len(curve) = SwapCurveWidth
    BY <2>1 DEF Slices
  <2>3. fees \o curve \in Seq(B) /\ Len(fees \o curve) = Len(fees) + Len(curve)
    BY <2>2, TwoParts
  <2> DEFINE w == 8 * Word
             v == SwapCurveWidth
  <2>4. w \in Nat /\ v \in Nat /\ BodyWidth(kind) = w + v
    BY <1>1, <2>1 DEF BodyWidth
  <2>5. Len(fees \o curve) = w + v
    BY <2>2, <2>3
  <2>6. PackedBody(kind, values) = fees \o curve
    BY <1>1, <2>1 DEF PackedBody
  <2> HIDE DEF w, v
  <2>7. w + v \in Nat
    BY <2>4, SMT
  <2>8. QED
    BY <2>3, <2>4, <2>5, <2>6, <2>7
<1>2. CASE kind # "Initialize"
  <2> DEFINE layout == PackedFields(kind)
  <2>1. IsLayout(layout) /\ UnpackedFields(kind) = layout
    BY <1>2, MessageLayouts
  <2>2. Suits(layout, values)
    BY <1>2 DEF IsMessage, IsOf
  <2>3. PackedBody(kind, values) = Packed(layout, values) /\ BodyWidth(kind) = WidthOf(layout)
    BY <1>2, <2>1 DEF PackedBody, BodyWidth
  <2> HIDE DEF layout
  <2>4. Packed(layout, values) \in Seq(0 .. Byte) /\ Packed(layout, values) \in Slices(WidthOf(layout))
    BY <2>1, <2>2, PackedAreBytes
  <2>5. WidthOf(layout) \in Nat
    BY <2>1, WidthsAre
  <2>6. QED
    BY <2>3, <2>4, <2>5 DEF Slices
<1>3. QED
  BY <1>1, <1>2

\* A message is its tag and its body.
LEMMA DataIs ==
  ASSUME Byte >= 8, NEW kind \in Kinds, NEW values, IsMessage(kind, values)
  PROVE  /\ PackedData(kind, values) = <<Tag(kind)>> \o PackedBody(kind, values)
         /\ Tag(kind) \in 0 .. Byte /\ PackedBody(kind, values) \in Seq(0 .. Byte)
         /\ Len(PackedBody(kind, values)) = BodyWidth(kind) /\ BodyWidth(kind) \in Nat
         /\ PackedData(kind, values) \in Seq(0 .. Byte)
         /\ Len(PackedData(kind, values)) = 1 + BodyWidth(kind)
<1>1. PackedData(kind, values) = <<Tag(kind)>> \o PackedBody(kind, values)
  BY DEF PackedData, PackedBody
<1>2. Tag(kind) \in 0 .. Byte /\ Byte >= 3
  <2>1. Tag(kind) \in 0 .. 8
    BY Tags
  <2>2. QED
    BY <2>1, BaseType, SMT
<1>3. /\ PackedBody(kind, values) \in Seq(0 .. Byte)
      /\ Len(PackedBody(kind, values)) = BodyWidth(kind) /\ BodyWidth(kind) \in Nat
  BY <1>2, BodyIs
<1> DEFINE b == PackedBody(kind, values)
           t == Tag(kind)
           B == 0 .. Byte
<1>4. t \in B /\ b \in Seq(B)
  BY <1>2, <1>3
<1> HIDE DEF b, t, B
<1>5. <<t>> \o b \in Seq(B) /\ Len(<<t>> \o b) = 1 + Len(b)
  BY <1>4, OneInFront
<1>6. QED
  BY <1>1, <1>2, <1>3, <1>5 DEF b, t, B

(***************************************************************************)
(* A message with all its parts is unpacked into what it was packed from,  *)
(* whatever follows it; nothing may follow Initialize.                     *)
(***************************************************************************)
LEMMA WholeIsRead ==
  ASSUME Byte >= 8, NEW kind \in Kinds, NEW values, IsMessage(kind, values),
         NEW rest \in Seq(0 .. Byte), kind = "Initialize" => rest = << >>
  PROVE  LET bytes == PackedData(kind, values) \o rest
         IN  Unpacks(bytes) /\ KindOf(bytes) = kind /\ ValuesOf(bytes) = values
<1> DEFINE body == PackedBody(kind, values)
           t == Tag(kind)
           B == 0 .. Byte
           bytes == PackedData(kind, values) \o rest
           tail == body \o rest
<1>1. /\ PackedData(kind, values) = <<t>> \o body
      /\ t \in B /\ body \in Seq(B)
      /\ Len(body) = BodyWidth(kind) /\ BodyWidth(kind) \in Nat
  BY DataIs
<1>2. bytes = (<<t>> \o body) \o rest
  BY <1>1
<1>3. t + 1 \in 1 .. 9 /\ SwapInstruction[t + 1] = kind
  BY Tags
<1>4. Byte >= 3
  BY BaseType, SMT
<1> HIDE DEF body, t, B
<1>5. tail \in Seq(B) /\ Len(tail) = Len(body) + Len(rest) /\ Len(rest) \in Nat
  BY <1>1, TwoParts DEF B
<1> DEFINE one == <<t>>
<1>6. one \in Seq(B) /\ body \in Seq(B) /\ rest \in Seq(B)
  BY <1>1, Two DEF B
<1>7. bytes = <<t>> \o tail
  <2> HIDE DEF one
  <2>1. (one \o body) \o rest = one \o (body \o rest)
    BY <1>6, ThreeParts
  <2>2. QED
    BY <1>2, <2>1 DEF one
<1> HIDE DEF bytes, tail
<1>8. bytes[1] = t /\ Tail(bytes) = tail /\ bytes # << >>
  BY <1>1, <1>5, <1>7, OneInFront
<1>9. KindOf(bytes) = kind
  BY <1>3, <1>8 DEF KindOf
<1>10. bytes[1] + 1 \in DOMAIN SwapInstruction /\ SwapInstruction[bytes[1] + 1] = kind
  BY <1>3, <1>8, Tags
<1>11. CASE kind = "Initialize"
  <2> DEFINE fees  == Packed(FeesPacked, values.fees)
             curve == PackedCurve(values.swap_curve, Zeros(SwapCurveWidth))
             w == 8 * Word
             v == SwapCurveWidth
  <2>1. /\ body = fees \o curve
        /\ fees \in Slices(w) /\ curve \in Slices(v)
        /\ WidthOf(FeesUnpacked) = w /\ w \in Nat /\ v \in Nat
        /\ Unpacked(FeesUnpacked, fees \o curve) = values.fees
        /\ CurveUnpacks(curve) /\ UnpackedCurve(curve) = values.swap_curve
    BY <1>4, <1>11, InitializeBytes DEF body, PackedBody
  <2>2. values = [fees |-> values.fees, swap_curve |-> values.swap_curve]
    BY <1>11 DEF IsMessage
  <2> HIDE DEF fees, curve, w
  <2>3. fees \in Seq(B) /\ curve \in Seq(B) /\ Len(fees) = w /\ Len(curve) = v
    BY <2>1 DEF Slices, B
  <2>4. tail = fees \o curve
    <3>1. rest = << >>
      BY <1>11
    <3>2. body \o << >> = body
      BY <1>1, TwoParts
    <3>3. QED
      BY <2>1, <3>1, <3>2 DEF tail
  <2>5. SubSeq(fees \o curve, Len(fees) + 1, Len(fees) + Len(curve)) = curve
    BY <2>3, Halves
  <2>6. Len(fees \o curve) = Len(fees) + Len(curve)
    BY <2>3, TwoParts
  <2>7. SubSeq(tail, w + 1, Len(tail)) = curve /\ Len(tail) = w + v
    BY <2>3, <2>4, <2>5, <2>6
  <2>8. Unpacks(bytes)
    BY <1>8, <1>10, <1>11, <2>1, <2>7 DEF Unpacks
  <2>9. ValuesOf(bytes) = [fees |-> Unpacked(FeesUnpacked, tail), swap_curve |-> UnpackedCurve(curve)]
    BY <1>8, <1>9, <1>11, <2>1, <2>7 DEF ValuesOf
  <2>10. QED
    BY <1>9, <2>1, <2>2, <2>4, <2>8, <2>9 DEF bytes
<1>12. CASE kind # "Initialize"
  <2> DEFINE layout == PackedFields(kind)
  <2>1. IsLayout(layout) /\ UnpackedFields(kind) = layout
    BY <1>12, MessageLayouts
  <2>2. Suits(layout, values) /\ values = [name \in Names(layout) |-> values[name]]
    BY <1>12 DEF IsMessage, IsOf
  <2>3. body = Packed(layout, values) /\ BodyWidth(kind) = WidthOf(layout)
    BY <1>12, <2>1 DEF body, PackedBody, BodyWidth
  <2> HIDE DEF layout
  <2>4. rest \in Seq(0 .. Byte) /\ IsLayout(layout) /\ Suits(layout, values)
    BY <2>1, <2>2
  <2>5. /\ Unpacked(layout, Packed(layout, values) \o rest) = [name \in Names(layout) |-> values[name]]
        /\ StrictBools(layout, Packed(layout, values) \o rest)
    BY <2>4, LayoutReads
  <2>6. Unpacked(layout, tail) = values /\ StrictBools(layout, tail)
    BY <2>2, <2>3, <2>5 DEF tail
  <2>7. Len(tail) >= WidthOf(layout)
    <3> DEFINE w == WidthOf(layout)
    <3>1. Len(tail) = w + Len(rest) /\ w \in Nat /\ Len(rest) \in Nat
      BY <1>1, <1>5, <2>3
    <3> HIDE DEF w
    <3>2. Len(tail) >= w
      BY <3>1, SMT
    <3>3. QED
      BY <3>2 DEF w
  <2>8. Unpacks(bytes)
    BY <1>8, <1>10, <1>12, <2>1, <2>6, <2>7 DEF Unpacks
  <2>9. ValuesOf(bytes) = values
    BY <1>8, <1>9, <1>12, <2>1, <2>6 DEF ValuesOf
  <2>10. QED
    BY <1>9, <2>8, <2>9 DEF bytes
<1>13. QED
  BY <1>11, <1>12

\* The beginning of a sequence.
LEMMA Beginning ==
  ASSUME NEW S, NEW s \in Seq(S), NEW m \in Nat, m <= Len(s)
  PROVE  /\ SubSeq(s, 1, m) \in Seq(S) /\ Len(SubSeq(s, 1, m)) = m
         /\ \A i \in 1 .. m : SubSeq(s, 1, m)[i] = s[i] /\ i \in 1 .. Len(s)
<1> DEFINE L == Len(s)
<1>1. L \in Nat
  BY LenProperties
<1>2. m <= L
  OBVIOUS
<1> HIDE DEF L
<1>3. /\ \A i \in 1 .. m : i \in 1 .. L /\ 1 + i - 1 = i
      /\ m - 1 + 1 = m /\ (~ (1 <= m) => m = 0)
  BY <1>1, <1>2, SMT
<1>4. \A i \in 1 .. m : s[i] \in S
  BY <1>3, ElementOfSeq DEF L
<1>5. /\ SubSeq(s, 1, m) \in Seq(S)
      /\ Len(SubSeq(s, 1, m)) = IF 1 <= m THEN m - 1 + 1 ELSE 0
      /\ \A i \in 1 .. (m - 1 + 1) : SubSeq(s, 1, m)[i] = s[1 + i - 1]
  BY <1>4, SubSeqProperties
<1>6. QED
  BY <1>3, <1>5 DEF L

\* The beginning of a concatenation that takes in all of the first part.
LEMMA BeginningOfTwo ==
  ASSUME NEW S, NEW a \in Seq(S), NEW b \in Seq(S), NEW m \in Nat,
         Len(a) <= m, m <= Len(a) + Len(b)
  PROVE  /\ m - Len(a) \in Nat /\ SubSeq(b, 1, m - Len(a)) \in Seq(S)
         /\ SubSeq(a \o b, 1, m) = a \o SubSeq(b, 1, m - Len(a))
<1> DEFINE K == Len(a)
           L == Len(b)
           n == m - K
           c == a \o b
           d == SubSeq(b, 1, n)
           u == SubSeq(c, 1, m)
           v == a \o d
<1>1. /\ c \in Seq(S) /\ K \in Nat /\ L \in Nat /\ Len(c) = K + L
      /\ \A i \in 1 .. K : c[i] = a[i]
      /\ \A i \in 1 .. L : c[K + i] = b[i]
  BY TwoParts
<1>2. K <= m /\ m <= K + L /\ L = Len(b) /\ K = Len(a)
  OBVIOUS
<1> HIDE DEF K, L
<1>3. n \in Nat /\ n <= L /\ K + n = m
      /\ \A i \in 1 .. m : i \notin 1 .. K => i - K \in 1 .. n /\ K + (i - K) = i
  BY <1>1, <1>2, SMT
<1> HIDE DEF n
<1>4. d \in Seq(S) /\ Len(d) = n /\ \A i \in 1 .. n : d[i] = b[i] /\ i \in 1 .. L
  BY <1>2, <1>3, Beginning
<1> HIDE DEF d
<1>5. /\ v \in Seq(S) /\ Len(v) = K + Len(d)
      /\ \A i \in 1 .. K : v[i] = a[i]
      /\ \A i \in 1 .. Len(d) : v[K + i] = d[i]
  <2>1. d \in Seq(S) /\ K = Len(a)
    BY <1>2, <1>4
  <2>2. QED
    BY <2>1, TwoParts
<1> HIDE DEF v, c
<1>6. u \in Seq(S) /\ Len(u) = m /\ \A i \in 1 .. m : u[i] = c[i]
  BY <1>1, <1>2, Beginning
<1> HIDE DEF u
<1>7. \A i \in 1 .. m : u[i] = v[i]
  <2>1. SUFFICES ASSUME NEW i \in 1 .. m PROVE c[i] = v[i]
    BY <1>6
  <2>2. CASE i \in 1 .. K
    BY <1>1, <1>5, <2>2
  <2>3. CASE i \notin 1 .. K
    <3> DEFINE j == i - K
    <3>1. j \in 1 .. n /\ K + j = i
      BY <1>3, <2>3
    <3> HIDE DEF j
    <3>2. c[K + j] = b[j] /\ v[K + j] = d[j] /\ d[j] = b[j]
      BY <1>1, <1>4, <1>5, <3>1
    <3>3. QED
      BY <3>1, <3>2
  <2>4. QED
    BY <2>2, <2>3
<1>8. Len(v) = m
  BY <1>3, <1>4, <1>5
<1>9. u = v
  BY <1>5, <1>6, <1>7, <1>8, SeqEqual
<1>10. QED
  BY <1>3, <1>4, <1>9 DEF u, v, c, d, n, K

(***************************************************************************)
(* A message that lost its end is not unpacked or lost nothing it needs.   *)
(***************************************************************************)
LEMMA CutIsRefused ==
  ASSUME Byte >= 8, NEW kind \in Kinds, NEW values, IsMessage(kind, values),
         NEW rest \in Seq(0 .. Byte), kind = "Initialize" => rest = << >>,
         NEW length \in Nat, length < Len(PackedData(kind, values) \o rest)
  PROVE  LET bytes == SubSeq(PackedData(kind, values) \o rest, 1, length)
         IN  /\ bytes \in Seq(0 .. Byte)
             /\ Unpacks(bytes) => KindOf(bytes) = kind /\ ValuesOf(bytes) = values
<1> DEFINE packed == PackedData(kind, values)
           B == 0 .. Byte
           whole == packed \o rest
           bytes == SubSeq(whole, 1, length)
           t == Tag(kind)
           body == PackedBody(kind, values)
           w == BodyWidth(kind)
<1>1. /\ packed = <<t>> \o body /\ t \in B /\ body \in Seq(B)
      /\ w \in Nat /\ packed \in Seq(B) /\ Len(packed) = 1 + w
  BY DataIs
<1>2. length < Len(whole) /\ rest \in Seq(B)
  OBVIOUS
<1> HIDE DEF packed, t, body, w
<1>3. whole \in Seq(B) /\ Len(whole) = Len(packed) + Len(rest) /\ Len(rest) \in Nat
      /\ \A i \in 1 .. Len(packed) : whole[i] = packed[i]
  BY <1>1, <1>2, TwoParts
<1> HIDE DEF whole
<1>4. length <= Len(whole) /\ length <= Len(packed) + Len(rest)
  BY <1>1, <1>2, <1>3, SMT
<1>5. bytes \in Seq(B) /\ Len(bytes) = length /\ \A i \in 1 .. length : bytes[i] = whole[i]
  <2>1. whole \in Seq(B) /\ length <= Len(whole)
    BY <1>3, <1>4
  <2> HIDE DEF B
  <2>2. QED
    BY <2>1, Beginning
<1> HIDE DEF bytes
<1>6. CASE length >= 1 + w
  <2>1. kind # "Initialize"
    <3>1. ASSUME kind = "Initialize" PROVE FALSE
      <4>1. Len(rest) = 0
        BY <3>1
      <4>2. QED
        BY <1>1, <1>2, <1>3, <1>6, <4>1, SMT
    <3>2. QED
      BY <3>1
  <2> DEFINE more == SubSeq(rest, 1, length - Len(packed))
  <2>2. Len(packed) <= length
    BY <1>1, <1>6, SMT
  <2>3. packed \in Seq(B) /\ rest \in Seq(B) /\ length <= Len(packed) + Len(rest)
    BY <1>1, <1>2, <1>4
  <2>4. more \in Seq(B) /\ SubSeq(packed \o rest, 1, length) = packed \o more
    BY <2>2, <2>3, BeginningOfTwo
  <2>5. bytes = packed \o more
    BY <2>4 DEF bytes, whole
  <2> HIDE DEF more
  <2>6. more \in Seq(0 .. Byte) /\ (kind = "Initialize" => more = << >>)
    BY <2>1, <2>4
  <2>7. KindOf(PackedData(kind, values) \o more) = kind /\ ValuesOf(PackedData(kind, values) \o more) = values
    BY <2>6, WholeIsRead
  <2>8. QED
    BY <1>5, <2>5, <2>7 DEF bytes, whole, packed
<1>7. CASE length < 1 + w
  <2>1. ASSUME Unpacks(bytes) PROVE FALSE
    <3>1. bytes # << >>
      BY <2>1 DEF Unpacks
    <3>2. length # 0
      BY <1>5, <3>1
    <3>3. 1 \in 1 .. length /\ 1 \in 1 .. Len(packed)
      BY <1>1, <3>2, SMT
    <3>4. packed[1] = t
      BY <1>1, OneInFront
    <3>5. bytes[1] = t
      BY <1>3, <1>5, <3>3, <3>4
    <3>6. SwapInstruction[bytes[1] + 1] = kind
      BY <3>5, Tags DEF t
    <3>7. Len(Tail(bytes)) = length - 1
      BY <1>5, <3>1, HeadTailProperties
    <3>8. ~ (Len(Tail(bytes)) >= w) /\ Len(Tail(bytes)) # w
      BY <1>1, <1>7, <3>7, SMT
    <3>9. CASE kind = "Initialize"
      <4>1. w = WidthOf(FeesUnpacked) + SwapCurveWidth
        BY <3>9 DEF w, BodyWidth
      <4>2. Len(Tail(bytes)) = WidthOf(FeesUnpacked) + SwapCurveWidth
        BY <2>1, <3>6, <3>9 DEF Unpacks
      <4>3. QED
        BY <3>8, <4>1, <4>2
    <3>10. CASE kind # "Initialize"
      <4>1. w = WidthOf(UnpackedFields(kind))
        BY <3>10 DEF w, BodyWidth
      <4>2. Len(Tail(bytes)) >= WidthOf(UnpackedFields(kind))
        BY <2>1, <3>6, <3>10 DEF Unpacks
      <4>3. QED
        BY <3>8, <4>1, <4>2
    <3>11. QED
      BY <3>9, <3>10
  <2>2. QED
    BY <1>5, <2>1 DEF bytes, whole, packed
<1>8. QED
  BY <1>1, <1>6, <1>7, SMT

-----------------------------------------------------------------------------
(* Lists of accounts. *)

Roles ==
  {"swap", "authority", "user_transfer_authority", "source", "source_a", "source_b", "swap_source",
   "swap_destination", "token_a", "token_b", "destination", "destination_a", "destination_b",
   "pool_mint", "pool_fee", "host_fee", "source_mint", "destination_mint", "token_a_mint",
   "token_b_mint", "source_token_program", "destination_token_program", "token_a_program",
   "token_b_program", "pool_token_program", "permission", "super_admin", "new_permission",
   "updated_permission", "signer", "payer", "system_program"}

\* No role twice.
IsList(roles) ==
  /\ roles \in Seq(Roles)
  /\ \A i, j \in 1 .. Len(roles) : roles[i] = roles[j] => i = j

Without(roles, role) == \A i \in 1 .. Len(roles) : roles[i] # role

\* A tuple of different roles is a list.
LEMMA TupleIsList ==
  ASSUME NEW n \in Nat, NEW roles, roles \in [1 .. n -> Roles],
         \A i, j \in 1 .. n : roles[i] = roles[j] => i = j
  PROVE  IsList(roles) /\ Len(roles) = n
<1>1. roles = [i \in 1 .. n |-> roles[i]]
  OBVIOUS
<1>2. [i \in 1 .. n |-> roles[i]] \in Seq(Roles) /\ Len([i \in 1 .. n |-> roles[i]]) = n
  OBVIOUS
<1>3. roles \in Seq(Roles) /\ Len(roles) = n
  BY <1>1, <1>2
<1>4. QED
  BY <1>3 DEF IsList

\* Lists with no role in common are a list together.
LEMMA TwoLists ==
  ASSUME NEW a, NEW b, IsList(a), IsList(b),
         \A i \in 1 .. Len(a), j \in 1 .. Len(b) : a[i] # b[j]
  PROVE  IsList(a \o b)
<1> DEFINE K == Len(a)
           L == Len(b)
           c == a \o b
<1>1. a \in Seq(Roles) /\ b \in Seq(Roles)
  BY DEF IsList
<1>2. /\ c \in Seq(Roles) /\ K \in Nat /\ L \in Nat /\ Len(c) = K + L
      /\ \A i \in 1 .. K : c[i] = a[i]
      /\ \A i \in 1 .. L : c[K + i] = b[i]
  BY <1>1, TwoParts
<1>3. /\ \A i, j \in 1 .. K : a[i] = a[j] => i = j
      /\ \A i, j \in 1 .. L : b[i] = b[j] => i = j
      /\ \A i \in 1 .. K, j \in 1 .. L : a[i] # b[j]
  BY DEF IsList
<1> HIDE DEF K, L, c
<1>4. \A i \in 1 .. (K + L) : i \in 1 .. K \/ (i - K \in 1 .. L /\ K + (i - K) = i)
  BY <1>2, SMT
<1>5. ASSUME NEW i \in 1 .. (K + L)
      PROVE  (i \in 1 .. K /\ c[i] = a[i]) \/ (i - K \in 1 .. L /\ K + (i - K) = i /\ c[i] = b[i - K])
  <2>1. CASE i \in 1 .. K
    BY <1>2, <2>1
  <2>2. CASE i - K \in 1 .. L /\ K + (i - K) = i
    <3> DEFINE j == i - K
    <3>1. j \in 1 .. L /\ K + j = i
      BY <2>2
    <3> HIDE DEF j
    <3>2. c[K + j] = b[j]
      BY <1>2, <3>1
    <3>3. QED
      BY <2>2, <3>1, <3>2 DEF j
  <2>3. QED
    BY <1>4, <2>1, <2>2
<1>6. ASSUME NEW i \in 1 .. (K + L), NEW j \in 1 .. (K + L), c[i] = c[j]
      PROVE  i = j
  <2>1. CASE i \in 1 .. K /\ c[i] = a[i] /\ j \in 1 .. K /\ c[j] = a[j]
    BY <1>3, <1>6, <2>1
  <2>2. CASE /\ i - K \in 1 .. L /\ K + (i - K) = i /\ c[i] = b[i - K]
             /\ j - K \in 1 .. L /\ K + (j - K) = j /\ c[j] = b[j - K]
    <3>1. i - K = j - K
      BY <1>3, <1>6, <2>2
    <3>2. QED
      BY <2>2, <3>1
  <2>3. CASE i \in 1 .. K /\ c[i] = a[i] /\ j - K \in 1 .. L /\ c[j] = b[j - K]
    BY <1>3, <1>6, <2>3
  <2>4. CASE j \in 1 .. K /\ c[j] = a[j] /\ i - K \in 1 .. L /\ c[i] = b[i - K]
    BY <1>3, <1>6, <2>4
  <2>5. QED
    BY <1>5, <2>1, <2>2, <2>3, <2>4
<1>7. QED
  BY <1>2, <1>6 DEF IsList, c

\* The handlers' lists.
LEMMA HandlerLists ==
  /\ IsList(InitializeRoles) /\ IsList(PermissionRoles)
  /\ \A i \in 1 .. Len(InitializeRoles), j \in 1 .. Len(PermissionRoles) : InitializeRoles[i] # PermissionRoles[j]
  /\ IsList(process_swap) /\ Without(process_swap, "host_fee")
  /\ IsList(process_deposit_all_token_types) /\ IsList(process_withdraw_all_token_types)
  /\ IsList(process_deposit_single_token_type) /\ Without(process_deposit_single_token_type, "pool_fee")
  /\ Without(process_deposit_single_token_type, "host_fee")
  /\ IsList(process_withdraw_single_token_type) /\ Without(process_withdraw_single_token_type, "host_fee")
  /\ IsList(process_curve_update) /\ IsList(process_initialize_permission) /\ IsList(process_update_permission)
  /\ IsList(<< >>) /\ IsList(<<"host_fee">>) /\ IsList(<<"pool_fee", "host_fee">>)
<1>1. IsList(InitializeRoles) /\ Len(InitializeRoles) = 10
  <2>1. InitializeRoles \in [1 .. 10 -> Roles]
    BY DEF InitializeRoles, Roles
  <2>2. \A i, j \in 1 .. 10 : InitializeRoles[i] = InitializeRoles[j] => i = j
    BY DEF InitializeRoles
  <2>3. QED
    BY <2>1, <2>2, TupleIsList
<1>2. IsList(PermissionRoles) /\ Len(PermissionRoles) = 4
  <2>1. PermissionRoles \in [1 .. 4 -> Roles]
    BY DEF PermissionRoles, Roles
  <2>2. \A i, j \in 1 .. 4 : PermissionRoles[i] = PermissionRoles[j] => i = j
    BY DEF PermissionRoles
  <2>3. QED
    BY <2>1, <2>2, TupleIsList
<1>3. \A i \in 1 .. Len(InitializeRoles), j \in 1 .. Len(PermissionRoles) : InitializeRoles[i] # PermissionRoles[j]
  <2>1. \A i \in 1 .. 10, j \in 1 .. 4 : InitializeRoles[i] # PermissionRoles[j]
    BY DEF InitializeRoles, PermissionRoles
  <2>2. QED
    BY <1>1, <1>2, <2>1
<1>4. IsList(process_swap) /\ Without(process_swap, "host_fee")
  <2>1. process_swap \in [1 .. 14 -> Roles]
    BY DEF process_swap, Roles
  <2>2. \A i, j \in 1 .. 14 : process_swap[i] = process_swap[j] => i = j
    BY DEF process_swap
  <2>3. IsList(process_swap) /\ Len(process_swap) = 14
    BY <2>1, <2>2, TupleIsList
  <2>4. \A i \in 1 .. 14 : process_swap[i] # "host_fee"
    BY DEF process_swap
  <2>5. QED
    BY <2>3, <2>4 DEF Without
<1>5. IsList(process_deposit_all_token_types)
  <2>1. process_deposit_all_token_types \in [1 .. 14 -> Roles]
    BY DEF process_deposit_all_token_types, Roles
  <2>2. \A i, j \in 1 .. 14 : process_deposit_all_token_types[i] = process_deposit_all_token_types[j] => i = j
    BY DEF process_deposit_all_token_types
  <2>3. QED
    BY <2>1, <2>2, TupleIsList
<1>6. IsList(process_withdraw_all_token_types)
  <2>1. process_withdraw_all_token_types \in [1 .. 15 -> Roles]
    BY DEF process_withdraw_all_token_types, Roles
  <2>2. \A i, j \in 1 .. 15 : process_withdraw_all_token_types[i] = process_withdraw_all_token_types[j] => i = j
    BY DEF process_withdraw_all_token_types
  <2>3. QED
    BY <2>1, <2>2, TupleIsList
<1>7. /\ IsList(process_deposit_single_token_type) /\ Without(process_deposit_single_token_type, "pool_fee")
      /\ Without(process_deposit_single_token_type, "host_fee")
  <2>1. process_deposit_single_token_type \in [1 .. 11 -> Roles]
    BY DEF process_deposit_single_token_type, Roles
  <2>2. \A i, j \in 1 .. 11 : process_deposit_single_token_type[i] = process_deposit_single_token_type[j] => i = j
    BY DEF process_deposit_single_token_type
  <2>3. IsList(process_deposit_single_token_type) /\ Len(process_deposit_single_token_type) = 11
    BY <2>1, <2>2, TupleIsList
  <2>4. \A i \in 1 .. 11 : process_deposit_single_token_type[i] \notin {"pool_fee", "host_fee"}
    BY DEF process_deposit_single_token_type
  <2>5. QED
    BY <2>3, <2>4 DEF Without
<1>8. IsList(process_withdraw_single_token_type) /\ Without(process_withdraw_single_token_type, "host_fee")
  <2>1. process_withdraw_single_token_type \in [1 .. 12 -> Roles]
    BY DEF process_withdraw_single_token_type, Roles
  <2>2. \A i, j \in 1 .. 12 : process_withdraw_single_token_type[i] = process_withdraw_single_token_type[j] => i = j
    BY DEF process_withdraw_single_token_type
  <2>3. IsList(process_withdraw_single_token_type) /\ Len(process_withdraw_single_token_type) = 12
    BY <2>1, <2>2, TupleIsList
  <2>4. \A i \in 1 .. 12 : process_withdraw_single_token_type[i] # "host_fee"
    BY DEF process_withdraw_single_token_type
  <2>5. QED
    BY <2>3, <2>4 DEF Without
<1>9. IsList(process_curve_update)
  <2>1. process_curve_update \in [1 .. 3 -> Roles]
    BY DEF process_curve_update, Roles
  <2>2. \A i, j \in 1 .. 3 : process_curve_update[i] = process_curve_update[j] => i = j
    BY DEF process_curve_update
  <2>3. QED
    BY <2>1, <2>2, TupleIsList
<1>10. IsList(process_initialize_permission)
  <2>1. process_initialize_permission \in [1 .. 6 -> Roles]
    BY DEF process_initialize_permission, Roles
  <2>2. \A i, j \in 1 .. 6 : process_initialize_permission[i] = process_initialize_permission[j] => i = j
    BY DEF process_initialize_permission
  <2>3. QED
    BY <2>1, <2>2, TupleIsList
<1>11. IsList(process_update_permission)
  <2>1. process_update_permission \in [1 .. 4 -> Roles]
    BY DEF process_update_permission, Roles
  <2>2. \A i, j \in 1 .. 4 : process_update_permission[i] = process_update_permission[j] => i = j
    BY DEF process_update_permission
  <2>3. QED
    BY <2>1, <2>2, TupleIsList
<1>12. IsList(<< >>)
  BY DEF IsList
<1>13. IsList(<<"host_fee">>)
  <2> DEFINE list == <<"host_fee">>
  <2>1. list \in [1 .. 1 -> Roles] /\ \A i, j \in 1 .. 1 : list[i] = list[j] => i = j
    BY DEF Roles
  <2> HIDE DEF list
  <2>2. IsList(list)
    BY <2>1, TupleIsList
  <2>3. QED
    BY <2>2 DEF list
<1>14. IsList(<<"pool_fee", "host_fee">>)
  <2> DEFINE list == <<"pool_fee", "host_fee">>
  <2>1. list \in [1 .. 2 -> Roles] /\ \A i, j \in 1 .. 2 : list[i] = list[j] => i = j
    BY DEF Roles
  <2> HIDE DEF list
  <2>2. IsList(list)
    BY <2>1, TupleIsList
  <2>3. QED
    BY <2>2 DEF list
<1>15. QED
  BY <1>1, <1>2, <1>3, <1>4, <1>5, <1>6, <1>7, <1>8, <1>9, <1>10, <1>11, <1>12, <1>13, <1>14

\* The accounts a handler reads, if they are there.
Full(kind, values) == Required(kind, values) \o Optional(kind)

\* No handler has a role twice.
LEMMA FullRoles ==
  ASSUME NEW kind \in Kinds, NEW values
  PROVE  /\ IsList(Full(kind, values))
         /\ Required(kind, values) \in Seq(Roles) /\ Optional(kind) \in Seq(Roles)
<1> DEFINE a == Required(kind, values)
           b == Optional(kind)
<1>1. SUFFICES IsList(a) /\ IsList(b) /\ \A i \in 1 .. Len(a), j \in 1 .. Len(b) : a[i] # b[j]
  <2>1. Full(kind, values) = a \o b
    BY DEF Full
  <2> HIDE DEF a, b
  <2>2. IsList(a \o b)
    BY <1>1, TwoLists
  <2>3. QED
    BY <1>1, <2>1, <2>2 DEF IsList, a, b
<1>2. ASSUME NEW list, IsList(list), a = list, b = << >>
      PROVE  IsList(a) /\ IsList(b) /\ \A i \in 1 .. Len(a), j \in 1 .. Len(b) : a[i] # b[j]
  <2>1. Len(b) = 0
    BY <1>2
  <2>2. IsList(b)
    BY <1>2, HandlerLists
  <2> HIDE DEF a, b
  <2>3. \A j \in 1 .. Len(b) : FALSE
    BY <2>1
  <2>4. QED
    BY <1>2, <2>2, <2>3
<1>3. ASSUME NEW list, IsList(list), Without(list, "host_fee"), a = list, b = <<"host_fee">>
      PROVE  IsList(a) /\ IsList(b) /\ \A i \in 1 .. Len(a), j \in 1 .. Len(b) : a[i] # b[j]
  <2>1. Len(b) = 1 /\ b[1] = "host_fee"
    BY <1>3
  <2>2. IsList(b)
    BY <1>3, HandlerLists
  <2> HIDE DEF a, b
  <2>3. \A j \in 1 .. Len(b) : b[j] = "host_fee"
    BY <2>1
  <2>4. QED
    BY <1>3, <2>2, <2>3 DEF Without
<1>4. CASE kind = "Initialize"
  <2> DEFINE list == InitializeRoles \o IF NeedsPermission(values) THEN PermissionRoles ELSE << >>
  <2>1. a = list /\ b = << >>
    BY <1>4 DEF Required, Optional
  <2>2. IsList(InitializeRoles \o PermissionRoles)
    BY HandlerLists, TwoLists
  <2>3. InitializeRoles \o << >> = InitializeRoles
    BY HandlerLists, TwoParts DEF IsList
  <2>4. IsList(list)
    BY <2>2, <2>3, HandlerLists
  <2> HIDE DEF list
  <2>5. QED
    BY <1>2, <2>1, <2>4
<1>5. CASE kind = "Swap"
  <2>1. a = process_swap /\ b = <<"host_fee">>
    BY <1>5 DEF Required, Optional
  <2>2. QED
    BY <1>3, <2>1, HandlerLists
<1>6. CASE kind = "DepositAllTokenTypes"
  <2>1. a = process_deposit_all_token_types /\ b = << >>
    BY <1>6 DEF Required, Optional
  <2>2. QED
    BY <1>2, <2>1, HandlerLists
<1>7. CASE kind = "WithdrawAllTokenTypes"
  <2>1. a = process_withdraw_all_token_types /\ b = << >>
    BY <1>7 DEF Required, Optional
  <2>2. QED
    BY <1>2, <2>1, HandlerLists
<1>8. CASE kind = "DepositSingleTokenTypeExactAmountIn"
  <2>1. a = process_deposit_single_token_type /\ b = <<"pool_fee", "host_fee">>
    BY <1>8 DEF Required, Optional
  <2>2. IsList(a) /\ IsList(b)
    BY <2>1, HandlerLists
  <2>3. Without(a, "pool_fee") /\ Without(a, "host_fee")
    BY <2>1, HandlerLists
  <2>4. Len(b) = 2 /\ b[1] = "pool_fee" /\ b[2] = "host_fee"
    BY <2>1
  <2> HIDE DEF a, b
  <2>5. \A j \in 1 .. Len(b) : b[j] = "pool_fee" \/ b[j] = "host_fee"
    BY <2>4
  <2>6. QED
    BY <2>2, <2>3, <2>5 DEF Without
<1>9. CASE kind = "WithdrawSingleTokenTypeExactAmountOut"
  <2>1. a = process_withdraw_single_token_type /\ b = <<"host_fee">>
    BY <1>9 DEF Required, Optional
  <2>2. QED
    BY <1>3, <2>1, HandlerLists
<1>10. CASE kind = "SetRates"
  <2>1. a = process_curve_update /\ b = << >>
    BY <1>10 DEF Required, Optional
  <2>2. QED
    BY <1>2, <2>1, HandlerLists
<1>11. CASE kind = "InitializePermission"
  <2>1. a = process_initialize_permission /\ b = << >>
    BY <1>11 DEF Required, Optional
  <2>2. QED
    BY <1>2, <2>1, HandlerLists
<1>12. CASE kind = "UpdatePermission"
  <2>1. a = process_update_permission /\ b = << >>
    BY <1>12 DEF Required, Optional
  <2>2. QED
    BY <1>2, <2>1, HandlerLists
<1>13. QED
  BY <1>4, <1>5, <1>6, <1>7, <1>8, <1>9, <1>10, <1>11, <1>12, TheKinds

-----------------------------------------------------------------------------
(* Accounts in their places. *)

Meta == [role : Roles, writable : BOOLEAN, signer : BOOLEAN]

InPlace(kind, role, meta) ==
  /\ meta.role = role
  /\ role \in Changed(kind) => meta.writable
  /\ role \in Signing(kind) => meta.signer

\* Of a message with a part missing, the fee account may be another.
Stands(kind, role, meta, whole) ==
  InPlace(kind, role, meta) \/ (~ whole /\ role = "pool_fee" /\ meta.role # "pool_fee")

AccountsFor(kind, values, metas, whole) ==
  /\ metas \in Seq(Meta)
  /\ \A i \in 1 .. Len(metas) : i \in 1 .. Len(Full(kind, values)) =>
       Stands(kind, Full(kind, values)[i], metas[i], whole)
  /\ whole => Len(metas) >= Len(Required(kind, values))

\* A handler reads what stands in the place of a role.
LEMMA ReadStands ==
  ASSUME NEW kind \in Kinds, NEW values, NEW metas, NEW whole \in BOOLEAN,
         AccountsFor(kind, values, metas, whole)
  PROVE  \A role \in DOMAIN Read(kind, values, metas) :
           Stands(kind, role, Read(kind, values, metas)[role], whole)
<1> DEFINE roles == Full(kind, values)
           L == Len(roles)
           K == Len(metas)
           least == IF K < L THEN K ELSE L
           places == {roles[i] : i \in 1 .. least}
           read == Read(kind, values, metas)
<1>1. read = [role \in places |-> metas[CHOOSE i \in DOMAIN roles : roles[i] = role]]
  BY DEF Read, Full
<1>2. IsList(roles)
  BY FullRoles
<1> HIDE DEF roles, read
<1>3. roles \in Seq(Roles) /\ \A i, j \in 1 .. L : roles[i] = roles[j] => i = j
  BY <1>2 DEF IsList
<1>4. L \in Nat /\ DOMAIN roles = 1 .. L
  BY <1>3
<1>5. metas \in Seq(Meta) /\ \A i \in 1 .. K : i \in 1 .. L => Stands(kind, roles[i], metas[i], whole)
  BY DEF AccountsFor, roles
<1>6. K \in Nat
  BY <1>5
<1> HIDE DEF K, L
<1>7. \A i \in 1 .. least : i \in 1 .. K /\ i \in 1 .. L
  BY <1>4, <1>6, SMT
<1> HIDE DEF least
<1>8. ASSUME NEW role \in places
      PROVE  Stands(kind, role, read[role], whole)
  <2>1. PICK i \in 1 .. least : role = roles[i]
    OBVIOUS
  <2> DEFINE k == CHOOSE j \in DOMAIN roles : roles[j] = role
  <2>2. i \in 1 .. K /\ i \in 1 .. L
    BY <1>7
  <2>3. k \in 1 .. L /\ roles[k] = role
    BY <1>4, <2>1, <2>2
  <2>4. read[role] = metas[k]
    BY <1>1, <1>8
  <2> HIDE DEF k
  <2>5. k = i
    BY <1>3, <2>1, <2>2, <2>3
  <2>6. QED
    BY <1>5, <2>1, <2>2, <2>4, <2>5
<1>9. DOMAIN read = places
  BY <1>1
<1>10. QED
  BY <1>8, <1>9 DEF read

\* The accounts in the places of the handler's list and of more.
LEMMA MetasFit ==
  ASSUME NEW kind \in Kinds, NEW values, NEW more \in Seq(Roles), NEW writable, NEW signers,
         \A i \in 1 .. Len(more) : i \in 1 .. Len(Optional(kind)) => more[i] = Optional(kind)[i],
         \A i \in 1 .. Len(Required(kind, values)) :
           /\ Required(kind, values)[i] \in Changed(kind) => Required(kind, values)[i] \in writable
           /\ Required(kind, values)[i] \in Signing(kind) => Required(kind, values)[i] \in signers,
         \A i \in 1 .. Len(more) : i \in 1 .. Len(Optional(kind)) =>
           /\ more[i] \in Changed(kind) => more[i] \in writable
           /\ more[i] \in Signing(kind) => more[i] \in signers
  PROVE  AccountsFor(kind, values, Metas(Required(kind, values) \o more, writable, signers), TRUE)
<1> DEFINE a == Required(kind, values)
           b == Optional(kind)
           c == a \o more
           metas == Metas(c, writable, signers)
           roles == Full(kind, values)
<1>1. a \in Seq(Roles) /\ b \in Seq(Roles) /\ roles = a \o b
  BY FullRoles DEF Full
<1>2. /\ \A i \in 1 .. Len(more) : i \in 1 .. Len(b) => more[i] = b[i]
      /\ \A i \in 1 .. Len(a) : /\ a[i] \in Changed(kind) => a[i] \in writable
                                /\ a[i] \in Signing(kind) => a[i] \in signers
      /\ \A i \in 1 .. Len(more) : i \in 1 .. Len(b) =>
           /\ more[i] \in Changed(kind) => more[i] \in writable
           /\ more[i] \in Signing(kind) => more[i] \in signers
  OBVIOUS
<1> HIDE DEF a, b, roles
<1> DEFINE K == Len(a)
           L == Len(b)
           M == Len(more)
<1>3. /\ c \in Seq(Roles) /\ K \in Nat /\ M \in Nat /\ Len(c) = K + M
      /\ \A i \in 1 .. K : c[i] = a[i]
      /\ \A i \in 1 .. M : c[K + i] = more[i]
  BY <1>1, TwoParts
<1>4. /\ L \in Nat /\ Len(roles) = K + L
      /\ \A i \in 1 .. K : roles[i] = a[i]
      /\ \A i \in 1 .. L : roles[K + i] = b[i]
  BY <1>1, TwoParts
<1> HIDE DEF c, K, L, M
<1> DEFINE n == Len(c)
           Of(role) == [role |-> role, writable |-> role \in writable, signer |-> role \in signers]
<1>5. n \in Nat /\ DOMAIN c = 1 .. n /\ \A i \in 1 .. n : c[i] \in Roles
  BY <1>3
<1>6. metas = [i \in 1 .. n |-> Of(c[i])]
  BY <1>5 DEF Metas
<1>7. \A role \in Roles : Of(role) \in Meta
  BY DEF Meta
<1> HIDE DEF n, metas, Of
<1>8. metas \in [1 .. n -> Meta]
  BY <1>5, <1>6, <1>7
<1>9. metas \in Seq(Meta) /\ Len(metas) = n
  BY <1>5, <1>8
<1>10. ASSUME NEW i \in 1 .. n, i \in 1 .. (K + L)
       PROVE  Stands(kind, roles[i], metas[i], TRUE)
  <2>1. SUFFICES /\ c[i] = roles[i]
                 /\ c[i] \in Changed(kind) => c[i] \in writable
                 /\ c[i] \in Signing(kind) => c[i] \in signers
    <3>1. metas[i] = Of(c[i])
      BY <1>6
    <3>2. /\ metas[i].role = c[i] /\ metas[i].writable = (c[i] \in writable)
          /\ metas[i].signer = (c[i] \in signers)
      BY <3>1 DEF Of
    <3>3. InPlace(kind, roles[i], metas[i])
      BY <2>1, <3>2, Zenon DEF InPlace
    <3>4. QED
      BY <3>3 DEF Stands
  <2>2. CASE i \in 1 .. K
    BY <1>2, <1>3, <1>4, <2>2 DEF K
  <2>3. CASE i \notin 1 .. K
    <3> DEFINE j == i - K
    <3>1. j \in 1 .. M /\ j \in 1 .. L /\ K + j = i
      BY <1>3, <1>4, <1>10, <2>3, SMT DEF n
    <3> HIDE DEF j
    <3>2. c[i] = more[j] /\ roles[i] = b[j]
      BY <1>3, <1>4, <3>1
    <3>3. QED
      BY <1>2, <3>1, <3>2 DEF M, L
  <2>4. QED
    BY <2>2, <2>3
<1>11. n >= K
  BY <1>3, SMT DEF n
<1>12. QED
  BY <1>4, <1>9, <1>10, <1>11 DEF AccountsFor, metas, c, a, K, roles

\* The accounts in the places of the handler's list and of no more.
LEMMA ListFits ==
  ASSUME NEW kind \in Kinds, NEW values, NEW writable, NEW signers,
         \A i \in 1 .. Len(Required(kind, values)) :
           /\ Required(kind, values)[i] \in Changed(kind) => Required(kind, values)[i] \in writable
           /\ Required(kind, values)[i] \in Signing(kind) => Required(kind, values)[i] \in signers
  PROVE  AccountsFor(kind, values, Metas(Required(kind, values), writable, signers), TRUE)
<1> DEFINE a == Required(kind, values)
           b == Optional(kind)
           more == << >>
<1>1. more \in Seq(Roles) /\ Len(more) = 0
  OBVIOUS
<1>2. a \in Seq(Roles)
  BY FullRoles
<1>3. /\ \A i \in 1 .. Len(a) : /\ a[i] \in Changed(kind) => a[i] \in writable
                                /\ a[i] \in Signing(kind) => a[i] \in signers
  OBVIOUS
<1> HIDE DEF a, b
<1>4. a \o more = a
  BY <1>2, TwoParts
<1> HIDE DEF more
<1>5. \A i \in 1 .. Len(more) : FALSE
  BY <1>1
<1>6. AccountsFor(kind, values, Metas(Required(kind, values) \o more, writable, signers), TRUE)
  <2>1. /\ \A i \in 1 .. Len(more) : i \in 1 .. Len(Optional(kind)) => more[i] = Optional(kind)[i]
        /\ \A i \in 1 .. Len(more) : i \in 1 .. Len(Optional(kind)) =>
             /\ more[i] \in Changed(kind) => more[i] \in writable
             /\ more[i] \in Signing(kind) => more[i] \in signers
    BY <1>5
  <2>2. QED
    BY <1>1, <2>1, MetasFit
<1>7. QED
  BY <1>4, <1>6 DEF a

\* The accounts of the builders are in the places of their handlers.
LEMMA BuildersFit ==
  ASSUME NEW kind \in Kinds, kind \notin Administration, NEW values,
         NEW withHost \in {FALSE, kind = "Swap"}
  PROVE  /\ AccountsFor(kind, values, BuiltAccounts(kind, values, withHost), TRUE)
         /\ AccountsFor(kind, values, ClientAccounts(kind, values, withHost), TRUE)
<1>1. CASE kind = "Initialize"
  <2> DEFINE more == IF NeedsPermission(values) THEN << >> ELSE PermissionRoles
             writable == {"swap", "pool_mint", "destination", "permission", "payer"}
  <2>1. Changed(kind) = writable /\ Signing(kind) = {"payer"} /\ Optional(kind) = << >>
    BY <1>1 DEF Changed, Signing, Optional
  <2>2. Required(kind, values) = InitializeRoles \o IF NeedsPermission(values) THEN PermissionRoles ELSE << >>
    BY <1>1 DEF Required
  <2>3. AccountsFor(kind, values, BuiltAccounts(kind, values, withHost), TRUE)
    <3> DEFINE signers == {"swap", "payer"}
    <3>1. BuiltAccounts(kind, values, withHost) = Metas(Required(kind, values), writable, signers)
      BY <1>1, <2>2 DEF BuiltAccounts, initialize
    <3>2. \A role \in Signing(kind) : role \in signers
      BY <2>1
    <3> HIDE DEF writable, signers
    <3>3. AccountsFor(kind, values, Metas(Required(kind, values), writable, signers), TRUE)
      BY <2>1, <3>2, ListFits
    <3>4. QED
      BY <3>1, <3>3
  <2>4. InitializeRoles \in Seq(Roles) /\ PermissionRoles \in Seq(Roles)
    BY HandlerLists DEF IsList
  <2>5. Required(kind, values) \o more = InitializeRoles \o PermissionRoles
    <3>1. CASE NeedsPermission(values)
      <4>1. InitializeRoles \o PermissionRoles \in Seq(Roles)
        BY <2>4, TwoParts
      <4>2. (InitializeRoles \o PermissionRoles) \o << >> = InitializeRoles \o PermissionRoles
        BY <4>1, TwoParts
      <4>3. QED
        BY <2>2, <3>1, <4>2
    <3>2. CASE ~ NeedsPermission(values)
      <4>1. InitializeRoles \o << >> = InitializeRoles
        BY <2>4, TwoParts
      <4>2. QED
        BY <2>2, <3>2, <4>1
    <3>3. QED
      BY <3>1, <3>2
  <2>6. more \in Seq(Roles)
    BY <2>4
  <2>7. Len(Optional(kind)) = 0
    BY <2>1
  <2>8. ClientAccounts(kind, values, withHost) = Metas(Required(kind, values) \o more, writable, {"payer"})
    BY <1>1, <2>5 DEF ClientAccounts
  <2> HIDE DEF more, writable
  <2>9. AccountsFor(kind, values, Metas(Required(kind, values) \o more, writable, {"payer"}), TRUE)
    <3>1. \A i \in 1 .. Len(Optional(kind)) : FALSE
      BY <2>7
    <3>2. QED
      BY <2>1, <2>6, <3>1, MetasFit
  <2>10. QED
    BY <2>3, <2>8, <2>9
<1>2. ASSUME kind # "Initialize"
      PROVE  ClientAccounts(kind, values, withHost) = BuiltAccounts(kind, values, withHost)
  BY <1>2 DEF ClientAccounts
<1>3. CASE kind = "Swap"
  <2> DEFINE more == IF withHost THEN <<"host_fee">> ELSE << >>
             writable == {"source", "swap_source", "swap_destination", "destination", "pool_mint",
                          "pool_fee", "host_fee"}
             signers == {"user_transfer_authority"}
  <2>1. Changed(kind) = writable /\ Signing(kind) = signers /\ Optional(kind) = <<"host_fee">>
    BY <1>3 DEF Changed, Signing, Optional
  <2>2. Required(kind, values) = process_swap
    BY <1>3 DEF Required
  <2>3. BuiltAccounts(kind, values, withHost) = Metas(Required(kind, values) \o more, writable, signers)
    BY <1>3, <2>2 DEF BuiltAccounts, swap, process_swap
  <2>4. more \in Seq(Roles) /\ \A i \in 1 .. Len(more) : i \in 1 .. Len(<<"host_fee">>) => more[i] = <<"host_fee">>[i]
    <3>1. CASE withHost
      <4>1. IsList(<<"host_fee">>)
        BY HandlerLists
      <4>2. QED
        BY <3>1, <4>1 DEF IsList
    <3>2. CASE ~ withHost
      <4>1. more = << >> /\ Len(<< >>) = 0 /\ << >> \in Seq(Roles)
        BY <3>2
      <4>2. QED
        BY <4>1
    <3>3. QED
      BY <3>1, <3>2
  <2> HIDE DEF more, writable, signers
  <2>5. AccountsFor(kind, values, Metas(Required(kind, values) \o more, writable, signers), TRUE)
    BY <2>1, <2>4, MetasFit
  <2>6. QED
    BY <1>2, <1>3, <2>3, <2>5
<1>4. CASE kind = "DepositAllTokenTypes"
  <2>1. BuiltAccounts(kind, values, withHost) = Metas(Required(kind, values), Changed(kind), Signing(kind))
    BY <1>4 DEF BuiltAccounts, deposit_all_token_types, Required, process_deposit_all_token_types, Changed, Signing
  <2>2. AccountsFor(kind, values, Metas(Required(kind, values), Changed(kind), Signing(kind)), TRUE)
    BY ListFits
  <2>3. QED
    BY <1>2, <1>4, <2>1, <2>2
<1>5. CASE kind = "WithdrawAllTokenTypes"
  <2>1. BuiltAccounts(kind, values, withHost) = Metas(Required(kind, values), Changed(kind), Signing(kind))
    BY <1>5 DEF BuiltAccounts, withdraw_all_token_types, Required, process_withdraw_all_token_types, Changed, Signing
  <2>2. AccountsFor(kind, values, Metas(Required(kind, values), Changed(kind), Signing(kind)), TRUE)
    BY ListFits
  <2>3. QED
    BY <1>2, <1>5, <2>1, <2>2
<1>6. CASE kind = "DepositSingleTokenTypeExactAmountIn"
  <2> DEFINE writable == {"source", "token_a", "token_b", "pool_mint", "destination"}
  <2>1. Required(kind, values) = process_deposit_single_token_type
    BY <1>6 DEF Required
  <2>2. BuiltAccounts(kind, values, withHost) = Metas(Required(kind, values), writable, Signing(kind))
    BY <1>6 DEF BuiltAccounts, deposit_single_token_type_exact_amount_in, Required,
                process_deposit_single_token_type, Signing
  <2>3. Changed(kind) = writable \cup {"pool_fee", "host_fee"}
    BY <1>6 DEF Changed
  <2>4. \A i \in 1 .. Len(Required(kind, values)) : Required(kind, values)[i] \notin {"pool_fee", "host_fee"}
    BY <2>1, HandlerLists DEF Without
  <2> HIDE DEF writable
  <2>5. \A i \in 1 .. Len(Required(kind, values)) :
          Required(kind, values)[i] \in Changed(kind) => Required(kind, values)[i] \in writable
    BY <2>3, <2>4
  <2>6. AccountsFor(kind, values, Metas(Required(kind, values), writable, Signing(kind)), TRUE)
    BY <2>5, ListFits
  <2>7. QED
    BY <1>2, <1>6, <2>2, <2>6
<1>7. CASE kind = "WithdrawSingleTokenTypeExactAmountOut"
  <2> DEFINE writable == {"pool_mint", "source", "token_a", "token_b", "destination", "pool_fee"}
  <2>1. Required(kind, values) = process_withdraw_single_token_type
    BY <1>7 DEF Required
  <2>2. BuiltAccounts(kind, values, withHost) = Metas(Required(kind, values), writable, Signing(kind))
    BY <1>7 DEF BuiltAccounts, withdraw_single_token_type_exact_amount_out, Required,
                process_withdraw_single_token_type, Signing
  <2>3. Changed(kind) = writable \cup {"host_fee"}
    BY <1>7 DEF Changed
  <2>4. \A i \in 1 .. Len(Required(kind, values)) : Required(kind, values)[i] # "host_fee"
    BY <2>1, HandlerLists DEF Without
  <2> HIDE DEF writable
  <2>5. \A i \in 1 .. Len(Required(kind, values)) :
          Required(kind, values)[i] \in Changed(kind) => Required(kind, values)[i] \in writable
    BY <2>3, <2>4
  <2>6. AccountsFor(kind, values, Metas(Required(kind, values), writable, Signing(kind)), TRUE)
    BY <2>5, ListFits
  <2>7. QED
    BY <1>2, <1>7, <2>2, <2>6
<1>8. QED
  BY <1>1, <1>3, <1>4, <1>5, <1>6, <1>7, TheKinds DEF Administration

\* So are accounts that are put together for the handler.
LEMMA OthersFit ==
  ASSUME NEW kind \in Kinds, NEW values
  PROVE  AccountsFor(kind, values, Metas(Required(kind, values), Changed(kind), Signing(kind)), TRUE)
BY ListFits

\* Accounts behind others.
LEMMA TwoMetas ==
  ASSUME NEW a \in Seq(Meta), NEW b \in Seq(Meta)
  PROVE  /\ a \o b \in Seq(Meta) /\ Len(b) \in Nat
         /\ Len(a \o b) = Len(a) + Len(b)
         /\ \A i \in 1 .. Len(a) : (a \o b)[i] = a[i]
         /\ \A i \in 1 .. Len(b) : (a \o b)[Len(a) + i] = b[i]
BY TwoParts

\* Accounts put behind the handler's list stand where they are read.
LEMMA AddedFit ==
  ASSUME NEW kind \in Kinds, NEW values, NEW metas, NEW more \in Seq(Meta), NEW whole \in BOOLEAN,
         AccountsFor(kind, values, metas, TRUE), Len(metas) = Len(Required(kind, values)),
         \A i \in 1 .. Len(more) : i \in 1 .. Len(Optional(kind)) => Stands(kind, Optional(kind)[i], more[i], whole)
  PROVE  AccountsFor(kind, values, metas \o more, whole)
<1> DEFINE a == Required(kind, values)
           b == Optional(kind)
           roles == Full(kind, values)
           c == metas \o more
           K == Len(a)
           L == Len(b)
           M == Len(more)
<1>1. a \in Seq(Roles) /\ b \in Seq(Roles) /\ roles = a \o b
  BY FullRoles DEF Full
<1>2. metas \in Seq(Meta) /\ Len(metas) = K
  BY DEF AccountsFor
<1>3. \A i \in 1 .. K : i \in 1 .. Len(roles) => Stands(kind, roles[i], metas[i], TRUE)
  BY DEF AccountsFor
<1>4. \A i \in 1 .. M : i \in 1 .. L => Stands(kind, b[i], more[i], whole)
  OBVIOUS
<1> HIDE DEF a, b, roles
<1>5. /\ L \in Nat /\ K \in Nat /\ Len(roles) = K + L
      /\ \A i \in 1 .. L : roles[K + i] = b[i]
  BY <1>1, TwoParts
<1>6. /\ c \in Seq(Meta) /\ M \in Nat /\ Len(c) = K + M
      /\ \A i \in 1 .. K : c[i] = metas[i]
      /\ \A i \in 1 .. M : c[K + i] = more[i]
  <2>1. metas \in Seq(Meta) /\ more \in Seq(Meta) /\ Len(metas) = K
    BY <1>2
  <2>2. /\ metas \o more \in Seq(Meta) /\ Len(more) \in Nat
        /\ Len(metas \o more) = Len(metas) + Len(more)
        /\ \A i \in 1 .. Len(metas) : (metas \o more)[i] = metas[i]
        /\ \A i \in 1 .. Len(more) : (metas \o more)[Len(metas) + i] = more[i]
    BY <2>1, TwoMetas
  <2>3. QED
    BY <2>1, <2>2
<1> HIDE DEF c, K, L, M
<1>7. ASSUME NEW i \in 1 .. (K + M), i \in 1 .. (K + L)
      PROVE  Stands(kind, roles[i], c[i], whole)
  <2>1. CASE i \in 1 .. K
    <3>1. Stands(kind, roles[i], metas[i], TRUE)
      BY <1>3, <1>5, <1>7, <2>1
    <3>2. QED
      BY <1>6, <2>1, <3>1 DEF Stands
  <2>2. CASE i \notin 1 .. K
    <3> DEFINE j == i - K
    <3>1. j \in 1 .. M /\ j \in 1 .. L /\ K + j = i
      BY <1>5, <1>6, <1>7, <2>2, SMT
    <3> HIDE DEF j
    <3>2. roles[i] = b[j] /\ c[i] = more[j]
      BY <1>5, <1>6, <3>1
    <3>3. QED
      BY <1>4, <3>1, <3>2
  <2>3. QED
    BY <2>1, <2>2
<1>8. K + M >= K
  BY <1>5, <1>6, SMT
<1>9. QED
  BY <1>5, <1>6, <1>7, <1>8 DEF AccountsFor, c, roles, a, K

\* Accounts of which some are missing from the end still stand in their places.
LEMMA FewerFit ==
  ASSUME NEW kind, NEW values, NEW metas, AccountsFor(kind, values, metas, TRUE),
         NEW length \in Nat, length <= Len(metas)
  PROVE  AccountsFor(kind, values, SubSeq(metas, 1, length), FALSE)
<1> DEFINE roles == Full(kind, values)
           s == SubSeq(metas, 1, length)
<1>1. metas \in Seq(Meta) /\ length <= Len(metas)
  BY DEF AccountsFor
<1>2. \A i \in 1 .. Len(metas) : i \in 1 .. Len(roles) => Stands(kind, roles[i], metas[i], TRUE)
  BY DEF AccountsFor
<1>3. s \in Seq(Meta) /\ Len(s) = length /\ \A i \in 1 .. length : s[i] = metas[i] /\ i \in 1 .. Len(metas)
  <2> HIDE DEF roles
  <2>1. QED
    BY <1>1, Beginning
<1> HIDE DEF roles, s
<1>4. \A i \in 1 .. Len(s) : i \in 1 .. Len(roles) => Stands(kind, roles[i], s[i], FALSE)
  BY <1>2, <1>3 DEF Stands
<1>5. QED
  BY <1>3, <1>4 DEF AccountsFor, roles, s

-----------------------------------------------------------------------------
(* Messages on their way. *)

Trails(kind, rest) == rest \in Seq(0 .. Byte) /\ (kind = "Initialize" => rest = << >>)

\* What the client packed with something behind it, or the beginning of that.
MessageOf(kind, values, bytes, whole) ==
  \/ \E rest : Trails(kind, rest) /\ bytes = PackedData(kind, values) \o rest
  \/ /\ ~ whole
     /\ \E rest : \E length \in Nat :
          /\ Trails(kind, rest) /\ length < Len(PackedData(kind, values) \o rest)
          /\ bytes = SubSeq(PackedData(kind, values) \o rest, 1, length)

\* Such a message is understood or refused, and refused only with a part missing.
LEMMA MessageIsRead ==
  ASSUME Byte >= 8, NEW kind \in Kinds, NEW values, IsMessage(kind, values),
         NEW bytes, NEW whole \in BOOLEAN, MessageOf(kind, values, bytes, whole)
  PROVE  /\ bytes \in Seq(0 .. Byte)
         /\ Unpacks(bytes) => KindOf(bytes) = kind /\ ValuesOf(bytes) = values
         /\ whole => Unpacks(bytes)
<1>1. PackedData(kind, values) \in Seq(0 .. Byte)
  BY DataIs
<1>2. ASSUME NEW rest, Trails(kind, rest), bytes = PackedData(kind, values) \o rest
      PROVE  bytes \in Seq(0 .. Byte) /\ Unpacks(bytes) /\ KindOf(bytes) = kind /\ ValuesOf(bytes) = values
  <2>1. rest \in Seq(0 .. Byte) /\ (kind = "Initialize" => rest = << >>)
    BY <1>2 DEF Trails
  <2>2. /\ Unpacks(PackedData(kind, values) \o rest)
        /\ KindOf(PackedData(kind, values) \o rest) = kind
        /\ ValuesOf(PackedData(kind, values) \o rest) = values
    BY <2>1, WholeIsRead
  <2>3. PackedData(kind, values) \o rest \in Seq(0 .. Byte)
    BY <1>1, <2>1, TwoParts
  <2>4. QED
    BY <1>2, <2>2, <2>3
<1>3. ASSUME NEW rest, NEW length \in Nat, Trails(kind, rest), length < Len(PackedData(kind, values) \o rest),
             bytes = SubSeq(PackedData(kind, values) \o rest, 1, length)
      PROVE  bytes \in Seq(0 .. Byte) /\ (Unpacks(bytes) => KindOf(bytes) = kind /\ ValuesOf(bytes) = values)
  <2>1. rest \in Seq(0 .. Byte) /\ (kind = "Initialize" => rest = << >>)
    BY <1>3 DEF Trails
  <2>2. length < Len(PackedData(kind, values) \o rest)
    BY <1>3
  <2> DEFINE cut == SubSeq(PackedData(kind, values) \o rest, 1, length)
  <2>3. cut \in Seq(0 .. Byte) /\ (Unpacks(cut) => KindOf(cut) = kind /\ ValuesOf(cut) = values)
    BY <2>1, <2>2, CutIsRefused
  <2>4. QED
    BY <1>3, <2>3
<1>4. QED
  BY <1>2, <1>3 DEF MessageOf

\* The messages of both clients.
LEMMA ClientsMessages ==
  ASSUME NEW kind \in Kinds, NEW values, PackedData(kind, values) \in Seq(0 .. Byte)
  PROVE  /\ MessageOf(kind, values, PackedData(kind, values), TRUE)
         /\ MessageOf(kind, values, ClientData(kind, values), TRUE)
<1> DEFINE packed == PackedData(kind, values)
           code == Zeros(Width("referral"))
<1>1. << >> \in Seq(0 .. Byte)
  OBVIOUS
<1>2. packed \o << >> = packed
  <2> HIDE DEF packed
  <2>1. packed \in Seq(0 .. Byte)
    BY DEF packed
  <2>2. QED
    BY <2>1, TwoParts
<1>3. Trails(kind, << >>)
  BY <1>1 DEF Trails
<1>4. MessageOf(kind, values, packed, TRUE) /\ MessageOf(kind, values, packed \o << >>, TRUE)
  BY <1>2, <1>3 DEF MessageOf
<1>5. code \in Seq(0 .. Byte)
  <2>1. Width("referral") \in Nat
    BY WidthType DEF Types
  <2>2. QED
    BY <2>1, ZerosAreBlank DEF BlankForAll, Slices
<1>6. CASE kind \in {"Initialize", "Swap"}
  <2>1. ClientData(kind, values) = packed \o << >>
    BY <1>6 DEF ClientData
  <2>2. QED
    BY <1>4, <2>1
<1>7. CASE kind \notin {"Initialize", "Swap"}
  <2>1. ClientData(kind, values) = packed \o code
    BY <1>7 DEF ClientData
  <2>2. Trails(kind, code)
    BY <1>5, <1>7 DEF Trails
  <2> HIDE DEF code, packed
  <2>3. MessageOf(kind, values, packed \o code, TRUE)
    BY <2>2 DEF MessageOf, packed
  <2>4. QED
    BY <1>4, <2>1, <2>3 DEF packed
<1>8. QED
  BY <1>6, <1>7

\* The accounts of fees that clients put behind the others.
LEMMA FeesFit ==
  ASSUME NEW kind \in {"DepositSingleTokenTypeExactAmountIn", "WithdrawSingleTokenTypeExactAmountOut"},
         NEW roles \in Seq({"pool_fee", "host_fee"}),
         \A i \in 1 .. Len(roles) : i \in 1 .. Len(Optional(kind)) =>
           \/ roles[i] = Optional(kind)[i]
           \/ roles[1] # Optional(kind)[1] /\ Optional(kind)[i] = "pool_fee" /\ roles[i] # "pool_fee"
  PROVE  LET more == Metas(roles, {"pool_fee", "host_fee"}, {})
         IN  /\ more \in Seq(Meta)
             /\ \A i \in 1 .. Len(more) : i \in 1 .. Len(Optional(kind)) =>
                  Stands(kind, Optional(kind)[i], more[i], roles[1] = Optional(kind)[1])
<1> DEFINE fees == {"pool_fee", "host_fee"}
           more == Metas(roles, fees, {})
           n == Len(roles)
           Of(role) == [role |-> role, writable |-> role \in fees, signer |-> role \in {}]
           b == Optional(kind)
<1>1. n \in Nat /\ DOMAIN roles = 1 .. n /\ \A i \in 1 .. n : roles[i] \in fees
  OBVIOUS
<1>2. \A role \in fees : role \notin Signing(kind) /\ role \in Roles
  <2>1. Signing(kind) = {"user_transfer_authority"}
    BY DEF Signing
  <2>2. QED
    BY <2>1 DEF Roles
<1>3. more = [i \in 1 .. n |-> Of(roles[i])]
  BY <1>1 DEF Metas
<1>4. \A role \in fees : Of(role) \in Meta
  BY <1>2 DEF Meta
<1>5. \A i \in 1 .. n : i \in 1 .. Len(b) =>
           \/ roles[i] = b[i]
           \/ roles[1] # b[1] /\ b[i] = "pool_fee" /\ roles[i] # "pool_fee"
  OBVIOUS
<1> HIDE DEF n, more, Of, b, fees
<1>6. more \in [1 .. n -> Meta]
  BY <1>1, <1>3, <1>4
<1>7. more \in Seq(Meta) /\ Len(more) = n
  BY <1>1, <1>6
<1>8. ASSUME NEW i \in 1 .. n, i \in 1 .. Len(b)
      PROVE  Stands(kind, b[i], more[i], roles[1] = b[1])
  <2>1. roles[i] \in fees /\ more[i] = Of(roles[i])
    BY <1>1, <1>3
  <2>2. /\ more[i].role = roles[i] /\ more[i].writable = (roles[i] \in fees)
        /\ more[i].signer = (roles[i] \in {})
    BY <2>1 DEF Of
  <2>3. CASE roles[i] = b[i]
    <3>1. InPlace(kind, b[i], more[i])
      BY <1>2, <2>1, <2>2, <2>3, Zenon DEF InPlace
    <3>2. QED
      BY <3>1 DEF Stands
  <2>4. CASE roles[1] # b[1] /\ b[i] = "pool_fee" /\ roles[i] # "pool_fee"
    BY <2>2, <2>4 DEF Stands
  <2>5. QED
    BY <1>5, <1>8, <2>3, <2>4
<1>9. QED
  BY <1>7, <1>8 DEF more, b, fees

\* So the accounts of AddFeeAccounts.
LEMMA FeeRolesFit ==
  ASSUME NEW kind, NEW roles,
         \/ /\ kind = "DepositSingleTokenTypeExactAmountIn"
            /\ roles \in {<<"pool_fee">>, <<"pool_fee", "host_fee">>, <<"host_fee">>}
         \/ kind = "WithdrawSingleTokenTypeExactAmountOut" /\ roles = <<"host_fee">>
  PROVE  /\ kind \in Kinds
         /\ LET more == Metas(roles, {"pool_fee", "host_fee"}, {})
            IN  /\ more \in Seq(Meta)
                /\ \A i \in 1 .. Len(more) : i \in 1 .. Len(Optional(kind)) =>
                     Stands(kind, Optional(kind)[i], more[i], roles[1] = Optional(kind)[1])
<1>1. kind \in {"DepositSingleTokenTypeExactAmountIn", "WithdrawSingleTokenTypeExactAmountOut"}
  OBVIOUS
<1>2. kind \in Kinds
  <2>1. SwapInstruction[5] = "DepositSingleTokenTypeExactAmountIn"
        /\ SwapInstruction[6] = "WithdrawSingleTokenTypeExactAmountOut"
    BY DEF SwapInstruction
  <2>2. 5 \in DOMAIN SwapInstruction /\ 6 \in DOMAIN SwapInstruction
    BY Tags
  <2>3. QED
    BY <1>1, <2>1, <2>2 DEF Kinds
<1>3. Optional("DepositSingleTokenTypeExactAmountIn") = <<"pool_fee", "host_fee">>
      /\ Optional("WithdrawSingleTokenTypeExactAmountOut") = <<"host_fee">>
  BY DEF Optional
<1> DEFINE fees == {"pool_fee", "host_fee"}
<1>4. /\ <<"pool_fee">> \in [1 .. 1 -> fees] /\ <<"host_fee">> \in [1 .. 1 -> fees]
      /\ <<"pool_fee", "host_fee">> \in [1 .. 2 -> fees]
  OBVIOUS
<1>5. ASSUME NEW n \in Nat, NEW list \in [1 .. n -> fees]
      PROVE  list \in Seq(fees) /\ Len(list) = n
  BY SMT
<1>6. /\ roles \in Seq(fees)
      /\ \A i \in 1 .. Len(roles) : i \in 1 .. Len(Optional(kind)) =>
           \/ roles[i] = Optional(kind)[i]
           \/ roles[1] # Optional(kind)[1] /\ Optional(kind)[i] = "pool_fee" /\ roles[i] # "pool_fee"
  <2> DEFINE b == Optional(kind)
  <2>1. CASE roles = <<"pool_fee">> /\ kind = "DepositSingleTokenTypeExactAmountIn"
    <3>1. roles \in Seq(fees) /\ Len(roles) = 1
      BY <1>4, <1>5, <2>1
    <3>2. roles[1] = b[1]
      BY <1>3, <2>1
    <3> HIDE DEF b
    <3>3. \A i \in 1 .. 1 : i = 1
      OBVIOUS
    <3>4. QED
      BY <3>1, <3>2, <3>3 DEF b
  <2>2. CASE roles = <<"host_fee">> /\ kind = "WithdrawSingleTokenTypeExactAmountOut"
    <3>1. roles \in Seq(fees) /\ Len(roles) = 1
      BY <1>4, <1>5, <2>2
    <3>2. roles[1] = b[1]
      BY <1>3, <2>2
    <3> HIDE DEF b
    <3>3. \A i \in 1 .. 1 : i = 1
      OBVIOUS
    <3>4. QED
      BY <3>1, <3>2, <3>3 DEF b
  <2>3. CASE roles = <<"pool_fee", "host_fee">> /\ kind = "DepositSingleTokenTypeExactAmountIn"
    <3>1. roles \in Seq(fees) /\ Len(roles) = 2
      BY <1>4, <1>5, <2>3
    <3>2. roles[1] = b[1] /\ roles[2] = b[2]
      BY <1>3, <2>3
    <3> HIDE DEF b
    <3>3. \A i \in 1 .. 2 : i = 1 \/ i = 2
      OBVIOUS
    <3>4. QED
      BY <3>1, <3>2, <3>3 DEF b
  <2>4. CASE roles = <<"host_fee">> /\ kind = "DepositSingleTokenTypeExactAmountIn"
    <3>1. roles \in Seq(fees) /\ Len(roles) = 1
      BY <1>4, <1>5, <2>4
    <3>2. roles[1] # b[1] /\ b[1] = "pool_fee" /\ roles[1] # "pool_fee"
      BY <1>3, <2>4
    <3> HIDE DEF b
    <3>3. \A i \in 1 .. 1 : i = 1
      OBVIOUS
    <3>4. QED
      BY <3>1, <3>2, <3>3 DEF b
  <2>5. QED
    BY <2>1, <2>2, <2>3, <2>4
<1>7. QED
  BY <1>1, <1>2, <1>6, FeesFit

\* All values of a kind have the same fields.
LEMMA SameFields ==
  ASSUME NEW kind \in Kinds, NEW one, NEW other, IsMessage(kind, one), IsMessage(kind, other)
  PROVE  DOMAIN one = DOMAIN other
<1>1. CASE kind = "Initialize"
  <2>1. /\ one = [fees |-> one.fees, swap_curve |-> one.swap_curve]
        /\ other = [fees |-> other.fees, swap_curve |-> other.swap_curve]
    BY <1>1 DEF IsMessage
  <2>2. QED
    BY <2>1
<1>2. CASE kind # "Initialize"
  <2> DEFINE names == Names(PackedFields(kind))
  <2>1. one = [name \in names |-> one[name]] /\ other = [name \in names |-> other[name]]
    BY <1>2 DEF IsMessage, IsOf
  <2> HIDE DEF names
  <2>2. QED
    BY <2>1
<1>3. QED
  BY <1>1, <1>2

(***************************************************************************)
(* What is on its way is what was asked for, with all its parts or not;    *)
(* an answer says what was asked, and only a message with a part missing   *)
(* is refused.                                                             *)
(***************************************************************************)
Underway ==
  asked # None =>
    /\ asked.kind \in Kinds /\ asked.values \in Values[asked.kind]
    /\ MessageOf(asked.kind, asked.values, message, sound)
    /\ AccountsFor(asked.kind, asked.values, accounts, sound)

Answered ==
  /\ Accepted => /\ asked # None
                 /\ answer.kind = asked.kind /\ answer.values = asked.values
                 /\ \A role \in DOMAIN answer.read : InPlace(asked.kind, role, answer.read[role])
  /\ EveryClientIsUnderstood

WireInv ==
  /\ message \in Seq(0 .. Byte) /\ accounts \in Seq(Meta) /\ sound \in BOOLEAN
  /\ Underway /\ Answered

\* The values sent are messages of their kind.
LEMMA ValuesAre ==
  ASSUME NEW kind \in Kinds, NEW values \in Values[kind]
  PROVE  IsMessage(kind, values) /\ Byte >= 8
BY WireAssumption

\* Before the first message nothing is asked or answered.
LEMMA WireStarts == WireInit => WireInv
<1>1. SUFFICES ASSUME WireInit PROVE WireInv
  OBVIOUS
<1>2. message \in Seq(0 .. Byte) /\ accounts \in Seq(Meta) /\ sound \in BOOLEAN
  BY <1>1 DEF WireInit
<1>3. Underway /\ Answered
  BY <1>1 DEF WireInit, Underway, Answered, Accepted, EveryClientIsUnderstood
<1>4. QED
  BY <1>2, <1>3 DEF WireInv

\* A client's message has all its parts.
LEMMA SendKeeps ==
  ASSUME NEW kind \in Kinds, NEW values \in Values[kind], NEW bytes, NEW metas,
         Send(kind, values, bytes, metas), MessageOf(kind, values, bytes, TRUE),
         AccountsFor(kind, values, metas, TRUE)
  PROVE  WireInv'
<1>1. /\ asked' = [kind |-> kind, values |-> values]
      /\ message' = bytes /\ accounts' = metas /\ sound' = TRUE /\ answer' = None
  BY DEF Send
<1>2. bytes \in Seq(0 .. Byte)
  BY ValuesAre, MessageIsRead
<1>3. metas \in Seq(Meta)
  BY DEF AccountsFor
<1>4. asked'.kind = kind /\ asked'.values = values
  BY <1>1
<1>5. Underway'
  BY <1>1, <1>4 DEF Underway
<1>6. Answered'
  BY <1>1 DEF Answered, Accepted, EveryClientIsUnderstood
<1>7. QED
  BY <1>1, <1>2, <1>3, <1>5, <1>6 DEF WireInv

\* Both clients send messages with all their parts, every account in its place.
LEMMA ClientsKeep ==
  ASSUME Clients
  PROVE  WireInv'
<1>0. PICK kind \in Kinds : \E values \in Values[kind], withHost \in {FALSE, kind = "Swap"} :
        IF kind \in Administration THEN OtherClient(kind, values)
        ELSE RustClient(kind, values, withHost) \/ JavaScriptClient(kind, values, withHost)
  BY DEF Clients
<1>1. PICK values \in Values[kind], withHost \in {FALSE, kind = "Swap"} :
        IF kind \in Administration THEN OtherClient(kind, values)
        ELSE RustClient(kind, values, withHost) \/ JavaScriptClient(kind, values, withHost)
  BY <1>0
<1>2. IsMessage(kind, values) /\ Byte >= 8
  BY ValuesAre
<1>3. /\ MessageOf(kind, values, PackedData(kind, values), TRUE)
      /\ MessageOf(kind, values, ClientData(kind, values), TRUE)
  BY <1>2, DataIs, ClientsMessages
<1>4. CASE kind \in Administration /\ OtherClient(kind, values)
  BY <1>3, <1>4, OthersFit, SendKeeps DEF OtherClient
<1>5. CASE kind \notin Administration /\ RustClient(kind, values, withHost)
  <2>1. AccountsFor(kind, values, BuiltAccounts(kind, values, withHost), TRUE)
    BY <1>5, BuildersFit
  <2>2. QED
    BY <1>3, <1>5, <2>1, SendKeeps DEF RustClient
<1>6. CASE kind \notin Administration /\ JavaScriptClient(kind, values, withHost)
  <2>1. AccountsFor(kind, values, ClientAccounts(kind, values, withHost), TRUE)
    BY <1>6, BuildersFit
  <2>2. QED
    BY <1>3, <1>6, <2>1, SendKeeps DEF JavaScriptClient
<1>7. QED
  BY <1>1, <1>4, <1>5, <1>6

\* Until it is answered.
LEMMA Unanswered ==
  ASSUME answer = None, UNCHANGED answer
  PROVE  Answered'
BY DEF Answered, Accepted, EveryClientIsUnderstood

\* Fee accounts behind the others stand in their places, or the handler compares the one that does not.
LEMMA AddFeeAccountsKeeps ==
  ASSUME WireInv, NEW kind, NEW roles, AddFeeAccounts(kind, roles),
         \/ /\ kind = "DepositSingleTokenTypeExactAmountIn"
            /\ roles \in {<<"pool_fee">>, <<"pool_fee", "host_fee">>, <<"host_fee">>}
         \/ kind = "WithdrawSingleTokenTypeExactAmountOut" /\ roles = <<"host_fee">>
  PROVE  WireInv'
<1> DEFINE more == Metas(roles, {"pool_fee", "host_fee"}, {})
           whole == roles[1] = Optional(kind)[1]
           values == asked.values
<1>1. /\ asked # None /\ answer = None /\ sound = TRUE /\ asked.kind = kind
      /\ Len(accounts) = Len(Required(kind, values))
      /\ accounts' = accounts \o more /\ sound' = whole
      /\ asked' = asked /\ message' = message /\ answer' = answer
  BY DEF AddFeeAccounts, WireInv
<1>2. /\ kind \in Kinds /\ values \in Values[kind]
      /\ MessageOf(kind, values, message, TRUE) /\ AccountsFor(kind, values, accounts, TRUE)
      /\ message \in Seq(0 .. Byte)
  BY <1>1 DEF WireInv, Underway
<1>3. /\ more \in Seq(Meta)
      /\ \A i \in 1 .. Len(more) : i \in 1 .. Len(Optional(kind)) =>
           Stands(kind, Optional(kind)[i], more[i], whole)
  BY FeeRolesFit
<1>4. whole \in BOOLEAN
  OBVIOUS
<1> HIDE DEF more, whole, values
<1>5. AccountsFor(kind, values, accounts \o more, whole)
  BY <1>1, <1>2, <1>3, <1>4, AddedFit
<1>6. MessageOf(kind, values, message, whole)
  BY <1>2 DEF MessageOf
<1>7. Underway'
  BY <1>1, <1>2, <1>5, <1>6 DEF Underway, values
<1>8. accounts' \in Seq(Meta)
  BY <1>1, <1>5 DEF AccountsFor
<1>9. Answered'
  BY <1>1, Unanswered
<1>10. QED
  BY <1>1, <1>2, <1>4, <1>7, <1>8, <1>9 DEF WireInv

\* Bytes put behind a message are not read.
LEMMA PadKeeps ==
  ASSUME WireInv, NEW n \in 1 .. MaxPadding, Pad(n)
  PROVE  WireInv'
<1> DEFINE kind == asked.kind
           values == asked.values
           padding == [i \in 1 .. n |-> Byte]
           packed == PackedData(kind, values)
           B == 0 .. Byte
<1>1. /\ asked # None /\ answer = None /\ sound = TRUE /\ kind # "Initialize"
      /\ message' = message \o padding
      /\ asked' = asked /\ accounts' = accounts /\ sound' = sound /\ answer' = answer
  BY DEF Pad, WireInv
<1>2. /\ kind \in Kinds /\ values \in Values[kind]
      /\ MessageOf(kind, values, message, TRUE) /\ AccountsFor(kind, values, accounts, TRUE)
      /\ accounts \in Seq(Meta)
  BY <1>1 DEF WireInv, Underway
<1>3. packed \in Seq(B)
  BY <1>2, ValuesAre, DataIs
<1>4. padding \in Seq(B)
  <2>1. n \in Nat
    BY WireAssumption, SMT
  <2>2. Byte \in B
    BY BaseType, SMT
  <2> HIDE DEF B
  <2>3. QED
    BY <2>1, <2>2
<1>5. PICK rest : Trails(kind, rest) /\ message = packed \o rest
  BY <1>2 DEF MessageOf
<1>6. rest \in Seq(B)
  BY <1>5 DEF Trails
<1>7. rest \o padding \in Seq(B) /\ (packed \o rest) \o padding = packed \o (rest \o padding)
  <2> HIDE DEF padding, packed, B
  <2>1. QED
    BY <1>3, <1>4, <1>6, TwoParts, ThreeParts
<1>8. Trails(kind, rest \o padding)
  BY <1>1, <1>7 DEF Trails
<1>9. MessageOf(kind, values, packed \o (rest \o padding), TRUE)
  <2> HIDE DEF padding
  <2>1. QED
    BY <1>8 DEF MessageOf
<1>10. MessageOf(kind, values, message', TRUE)
  BY <1>1, <1>5, <1>7, <1>9
<1> HIDE DEF padding, packed, kind, values, B
<1>11. message' \in Seq(0 .. Byte)
  BY <1>2, <1>10, ValuesAre, MessageIsRead
<1>12. Underway'
  BY <1>1, <1>2, <1>10 DEF Underway, kind, values
<1>13. Answered'
  BY <1>1, Unanswered
<1>14. QED
  BY <1>1, <1>2, <1>11, <1>12, <1>13 DEF WireInv

\* A message may lose its end.
LEMMA CutDataKeeps ==
  ASSUME WireInv, NEW length \in 0 .. Len(message) - 1, CutData(length)
  PROVE  WireInv'
<1> DEFINE kind == asked.kind
           values == asked.values
<1>1. /\ asked # None /\ answer = None /\ sound = TRUE
      /\ message' = SubSeq(message, 1, length) /\ sound' = FALSE
      /\ asked' = asked /\ accounts' = accounts /\ answer' = answer
  BY DEF CutData, WireInv
<1>2. /\ kind \in Kinds /\ values \in Values[kind]
      /\ MessageOf(kind, values, message, TRUE) /\ AccountsFor(kind, values, accounts, TRUE)
      /\ accounts \in Seq(Meta) /\ message \in Seq(0 .. Byte)
  BY <1>1 DEF WireInv, Underway
<1>3. length \in Nat /\ length < Len(message)
  BY <1>2, SMT
<1>4. PICK rest : Trails(kind, rest) /\ message = PackedData(kind, values) \o rest
  BY <1>2 DEF MessageOf
<1>5. MessageOf(kind, values, message', FALSE)
  BY <1>1, <1>3, <1>4 DEF MessageOf
<1>6. AccountsFor(kind, values, accounts, FALSE)
  BY <1>2 DEF AccountsFor, Stands
<1> HIDE DEF kind, values
<1>7. message' \in Seq(0 .. Byte)
  BY <1>2, <1>5, ValuesAre, MessageIsRead
<1>8. Underway'
  BY <1>1, <1>2, <1>5, <1>6 DEF Underway, kind, values
<1>9. Answered'
  BY <1>1, Unanswered
<1>10. QED
  BY <1>1, <1>2, <1>7, <1>8, <1>9 DEF WireInv

\* It may lose its last accounts.
LEMMA DropAccountsKeeps ==
  ASSUME WireInv, NEW length \in 0 .. Len(accounts) - 1, DropAccounts(length)
  PROVE  WireInv'
<1> DEFINE kind == asked.kind
           values == asked.values
<1>1. /\ asked # None /\ answer = None /\ sound = TRUE
      /\ accounts' = SubSeq(accounts, 1, length) /\ sound' = FALSE
      /\ asked' = asked /\ message' = message /\ answer' = answer
  BY DEF DropAccounts, WireInv
<1>2. /\ kind \in Kinds /\ values \in Values[kind]
      /\ MessageOf(kind, values, message, TRUE) /\ AccountsFor(kind, values, accounts, TRUE)
      /\ accounts \in Seq(Meta) /\ message \in Seq(0 .. Byte)
  BY <1>1 DEF WireInv, Underway
<1>3. length \in Nat /\ length <= Len(accounts)
  BY <1>2, SMT
<1>4. AccountsFor(kind, values, accounts', FALSE)
  BY <1>1, <1>2, <1>3, FewerFit
<1>5. MessageOf(kind, values, message, FALSE)
  BY <1>2 DEF MessageOf
<1> HIDE DEF kind, values
<1>6. Underway'
  BY <1>1, <1>2, <1>4, <1>5 DEF Underway, kind, values
<1>7. accounts' \in Seq(Meta)
  BY <1>4 DEF AccountsFor
<1>8. Answered'
  BY <1>1, Unanswered
<1>9. QED
  BY <1>1, <1>2, <1>6, <1>7, <1>8 DEF WireInv

\* The handler reads what was meant, or refuses.
LEMMA ProcessKeeps ==
  ASSUME WireInv, Process
  PROVE  WireInv'
<1> DEFINE kind == asked.kind
           values == asked.values
           read == Read(kind, values, accounts)
           accepted == [ok |-> TRUE, kind |-> KindOf(message), values |-> ValuesOf(message),
                        read |-> Read(KindOf(message), ValuesOf(message), accounts)]
<1>1. /\ asked # None
      /\ answer' = IF Accepts(message, accounts) THEN accepted ELSE [ok |-> FALSE]
      /\ asked' = asked /\ accounts' = accounts /\ message' = message /\ sound' = sound
  BY DEF Process
<1>2. /\ kind \in Kinds /\ values \in Values[kind]
      /\ MessageOf(kind, values, message, sound) /\ AccountsFor(kind, values, accounts, sound)
      /\ accounts \in Seq(Meta) /\ message \in Seq(0 .. Byte) /\ sound \in BOOLEAN
  BY <1>1 DEF WireInv, Underway
<1>3. /\ Unpacks(message) => KindOf(message) = kind /\ ValuesOf(message) = values
      /\ sound => Unpacks(message)
  BY <1>2, ValuesAre, MessageIsRead
<1>4. \A role \in DOMAIN read : Stands(kind, role, read[role], sound)
  BY <1>2, ReadStands
<1> HIDE DEF kind, values, read, accepted
<1>5. Underway'
  BY <1>1, <1>2 DEF Underway, kind, values
<1>6. CASE Accepts(message, accounts)
  <2>1. /\ Unpacks(message)
        /\ KindOf(message) = kind /\ ValuesOf(message) = values
        /\ Read(KindOf(message), ValuesOf(message), accounts) = read
    BY <1>3, <1>6 DEF Accepts, read
  <2>2. \A role \in DOMAIN read \cap Compared : read[role].role = role
    BY <1>6, <2>1 DEF Accepts
  <2>3. answer'.ok = TRUE /\ answer'.kind = kind /\ answer'.values = values /\ answer'.read = read
    BY <1>1, <1>6, <2>1 DEF accepted
  <2>4. \A role \in DOMAIN read : InPlace(kind, role, read[role])
    BY <1>4, <2>2 DEF Stands, Compared
  <2>5. QED
    BY <1>1, <1>2, <1>5, <2>3, <2>4 DEF WireInv, Answered, Accepted, EveryClientIsUnderstood, kind, values
<1>7. CASE ~ Accepts(message, accounts)
  <2>1. answer'.ok = FALSE
    BY <1>1, <1>7
  <2>2. ~ sound
    <3>1. ASSUME sound PROVE Accepts(message, accounts)
      <4>1. Unpacks(message) /\ KindOf(message) = kind /\ ValuesOf(message) = values
        BY <1>3, <3>1
      <4>2. Len(accounts) >= Len(Required(kind, values))
        BY <1>2, <3>1 DEF AccountsFor
      <4>3. \A role \in DOMAIN read : read[role].role = role
        BY <1>4, <3>1 DEF Stands, InPlace
      <4>4. QED
        BY <4>1, <4>2, <4>3 DEF Accepts, read
    <3>2. QED
      BY <1>7, <3>1
  <2>3. QED
    BY <1>1, <1>2, <1>5, <2>1, <2>2 DEF WireInv, Answered, Accepted, EveryClientIsUnderstood
<1>8. QED
  BY <1>6, <1>7

\* No step breaks it.
LEMMA WireKeeps ==
  ASSUME WireInv, [WireNext]_wireVars
  PROVE  WireInv'
<1>1. CASE Clients
  BY <1>1, ClientsKeep
<1>2. ASSUME NEW roles \in {<<"pool_fee">>, <<"pool_fee", "host_fee">>, <<"host_fee">>},
             AddFeeAccounts("DepositSingleTokenTypeExactAmountIn", roles)
      PROVE  WireInv'
  BY <1>2, AddFeeAccountsKeeps
<1>3. CASE AddFeeAccounts("WithdrawSingleTokenTypeExactAmountOut", <<"host_fee">>)
  BY <1>3, AddFeeAccountsKeeps
<1>4. ASSUME NEW n \in 1 .. MaxPadding, Pad(n) PROVE WireInv'
  BY <1>4, PadKeeps
<1>5. ASSUME NEW length \in 0 .. Len(message) - 1, CutData(length) PROVE WireInv'
  BY <1>5, CutDataKeeps
<1>6. ASSUME NEW length \in 0 .. Len(accounts) - 1, DropAccounts(length) PROVE WireInv'
  BY <1>6, DropAccountsKeeps
<1>7. CASE Process
  BY <1>7, ProcessKeeps
<1>8. CASE UNCHANGED wireVars
  BY <1>8 DEF wireVars, WireInv, Underway, Answered, Accepted, EveryClientIsUnderstood
<1>9. QED
  BY <1>1, <1>2, <1>3, <1>4, <1>5, <1>6, <1>7, <1>8 DEF WireNext

\* The invariant of messages and answers.
THEOREM WireIsUnderstood == WireSpec => []WireInv
<1>1. WireInv /\ [WireNext]_wireVars => WireInv'
  BY WireKeeps
<1>2. QED
  BY WireStarts, <1>1, PTL DEF WireSpec

(***************************************************************************)
(* Whatever a client packs, and whatever is cut off or put behind it on    *)
(* its way, a handler that runs has the kind and the very values that were *)
(* sent, with every field of the kind.                                     *)
(***************************************************************************)
THEOREM NoMessageIsMisread == WireSpec => []NothingMisread
<1>1. ASSUME WireInv PROVE NothingMisread
  <2>1. UnderstoodOrRefused
    BY <1>1 DEF WireInv, Answered, UnderstoodOrRefused
  <2>2. asked # None => asked.kind \in Kinds /\ asked.values \in Values[asked.kind]
    BY <1>1 DEF WireInv, Underway
  <2>3. \A i \in DOMAIN accounts : accounts[i].writable \in BOOLEAN /\ accounts[i].signer \in BOOLEAN
    <3>1. accounts \in Seq(Meta)
      BY <1>1 DEF WireInv
    <3>2. \A i \in DOMAIN accounts : accounts[i] \in Meta
      BY <3>1
    <3>3. QED
      BY <3>2 DEF Meta
  <2>4. ASSUME Accepted
        PROVE  /\ answer.kind \in Kinds
               /\ \A values \in Values[answer.kind] : DOMAIN answer.values = DOMAIN values
    <3>1. /\ answer.kind \in Kinds /\ answer.values \in Values[answer.kind]
      BY <1>1, <2>2, <2>4 DEF WireInv, Answered
    <3>2. QED
      BY <3>1, ValuesAre, SameFields
  <2>5. QED
    BY <1>1, <2>1, <2>2, <2>3, <2>4 DEF WireInv, NothingMisread, WireTypeOK
<1>2. QED
  BY WireIsUnderstood, <1>1, PTL

(***************************************************************************)
(* A message with all its parts is accepted, from either client, with the  *)
(* referral code, the bytes of a later version or the optional accounts    *)
(* behind it.                                                              *)
(***************************************************************************)
THEOREM NoClientIsRefused == WireSpec => []EveryClientIsUnderstood
<1>1. WireInv => EveryClientIsUnderstood
  BY DEF WireInv, Answered
<1>2. QED
  BY WireIsUnderstood, <1>1, PTL

(***************************************************************************)
(* A handler has every account in the place its client put it, and with    *)
(* the privileges the handler will use.                                    *)
(***************************************************************************)
THEOREM EveryAccountInPlace == WireSpec => []AccountsInPlace
<1>1. ASSUME WireInv PROVE AccountsInPlace
  <2>1. Accepted => \A role \in DOMAIN answer.read : InPlace(answer.kind, role, answer.read[role])
    BY <1>1 DEF WireInv, Answered
  <2>2. QED
    BY <2>1 DEF AccountsInPlace, RightAccounts, PrivilegesSuffice, InPlace
<1>2. QED
  BY WireIsUnderstood, <1>1, PTL
=============================================================================
