----------------------------- MODULE RingFacts -----------------------------
(***************************************************************************)
(* Lemmas about the ring and the polynomials over it, as GaloisRing and    *)
(* Folding compute them: sums, products and powers, evaluation, division   *)
(* by a linear factor, interpolation, and the two ways to fold a fiber.    *)
(*                                                                         *)
(* They hold in every commutative ring with one, which RingLaws says; with *)
(* r = 1 the operations of RingElements have these laws (ModularRing).     *)
(***************************************************************************)
EXTENDS FriRules, SharedFacts

-----------------------------------------------------------------------------
(* The laws *)

Closed ==
  /\ 0 \in Ring /\ OfInteger(1) \in Ring
  /\ \A x, y \in Ring : Plus(x, y) \in Ring /\ Minus(x, y) \in Ring /\ Times(x, y) \in Ring

Additive ==
  /\ \A x, y \in Ring : Plus(x, y) = Plus(y, x)
  /\ \A x, y, z \in Ring : Plus(Plus(x, y), z) = Plus(x, Plus(y, z))
  /\ \A x \in Ring : Plus(x, 0) = x
  /\ \A x, y \in Ring : Plus(Minus(x, y), y) = x

Multiplicative ==
  /\ \A x, y \in Ring : Times(x, y) = Times(y, x)
  /\ \A x, y, z \in Ring : Times(Times(x, y), z) = Times(x, Times(y, z))
  /\ \A x \in Ring : Times(x, OfInteger(1)) = x

Distributive ==
  \A x, y, z \in Ring : Times(x, Plus(y, z)) = Plus(Times(x, y), Times(x, z))

(* Multiples of one; zero is no unit, a factor of one is.                  *)
Counting ==
  /\ OfInteger(0) = 0 /\ OfInteger(1) = 1
  /\ \A n \in Nat : OfInteger(n) \in Ring /\ OfInteger(n + 1) = Plus(OfInteger(n), OfInteger(1))
  /\ ~IsUnit(0)
  /\ \A x, y \in Ring : Times(x, y) = OfInteger(1) => IsUnit(x)

RingLaws == Closed /\ Additive /\ Multiplicative /\ Distributive /\ Counting

(* A sum determines one summand by the other.                              *)
LEMMA SumCancels ==
  ASSUME RingLaws, NEW x \in Ring, NEW y \in Ring, NEW z \in Ring, Plus(x, z) = Plus(y, z)
  PROVE  x = y
<1>1. \A w \in Ring : Plus(Plus(w, z), Minus(0, z)) = w
  BY DEF RingLaws, Closed, Additive
<1> QED
  BY <1>1 DEF RingLaws, Closed, Additive

(* The difference is what has to be added.                                 *)
LEMMA DifferenceIs ==
  ASSUME RingLaws, NEW x \in Ring, NEW y \in Ring, NEW z \in Ring, Plus(z, y) = x
  PROVE  Minus(x, y) = z
<1>1. Minus(x, y) \in Ring /\ Plus(Minus(x, y), y) = x
  BY DEF RingLaws, Closed, Additive
<1> QED
  BY <1>1, SumCancels

(* Four summands, and four factors, in another order.                      *)
LEMMA FourSummands ==
  ASSUME RingLaws, NEW a \in Ring, NEW b \in Ring, NEW c \in Ring, NEW d \in Ring
  PROVE  Plus(Plus(a, b), Plus(c, d)) = Plus(Plus(a, c), Plus(b, d))
<1>1. /\ \A x, y \in Ring : Plus(x, y) \in Ring /\ Plus(x, y) = Plus(y, x)
      /\ \A x, y, z \in Ring : Plus(Plus(x, y), z) = Plus(x, Plus(y, z))
  BY DEF RingLaws, Closed, Additive
<1>2. Plus(Plus(a, b), Plus(c, d)) = Plus(a, Plus(b, Plus(c, d)))
  BY <1>1
<1>3. Plus(b, Plus(c, d)) = Plus(Plus(b, c), d)
  BY <1>1
<1>4. Plus(Plus(b, c), d) = Plus(Plus(c, b), d)
  BY <1>1
<1>5. Plus(Plus(c, b), d) = Plus(c, Plus(b, d))
  BY <1>1
<1>6. Plus(a, Plus(c, Plus(b, d))) = Plus(Plus(a, c), Plus(b, d))
  BY <1>1
<1> QED
  BY <1>2, <1>3, <1>4, <1>5, <1>6

(* Two products are multiplied crosswise.                                  *)
LEMMA FourFactors ==
  ASSUME RingLaws, NEW a \in Ring, NEW b \in Ring, NEW c \in Ring, NEW d \in Ring
  PROVE  Times(Times(a, b), Times(c, d)) = Times(Times(a, c), Times(b, d))
<1>1. /\ \A x, y \in Ring : Times(x, y) \in Ring /\ Times(x, y) = Times(y, x)
      /\ \A x, y, z \in Ring : Times(Times(x, y), z) = Times(x, Times(y, z))
  BY DEF RingLaws, Closed, Multiplicative
<1>2. Times(Times(a, b), Times(c, d)) = Times(a, Times(b, Times(c, d)))
  BY <1>1
<1>3. Times(b, Times(c, d)) = Times(Times(b, c), d)
  BY <1>1
<1>4. Times(Times(b, c), d) = Times(Times(c, b), d)
  BY <1>1
<1>5. Times(Times(c, b), d) = Times(c, Times(b, d))
  BY <1>1
<1>6. Times(a, Times(c, Times(b, d))) = Times(Times(a, c), Times(b, d))
  BY <1>1
<1> QED
  BY <1>2, <1>3, <1>4, <1>5, <1>6

(* Zero annihilates.                                                       *)
LEMMA TimesZero ==
  ASSUME RingLaws, NEW a \in Ring
  PROVE  Times(a, 0) = 0 /\ Times(0, a) = 0
<1>1. Times(a, 0) \in Ring /\ 0 \in Ring /\ Times(0, a) = Times(a, 0)
  BY DEF RingLaws, Closed, Multiplicative
<1>2. Plus(0, 0) = 0 /\ Plus(0, Times(a, 0)) = Times(a, 0)
  BY <1>1 DEF RingLaws, Additive
<1>3. Times(a, Plus(0, 0)) = Plus(Times(a, 0), Times(a, 0))
  BY <1>1 DEF RingLaws, Distributive
<1>4. Plus(Times(a, 0), Times(a, 0)) = Plus(0, Times(a, 0))
  BY <1>2, <1>3
<1>5. Times(a, 0) = 0
  BY <1>1, <1>4, SumCancels
<1> QED
  BY <1>1, <1>5

(* A product with a difference, and a difference of sums.                  *)
LEMMA TimesDifference ==
  ASSUME RingLaws, NEW a \in Ring, NEW b \in Ring, NEW c \in Ring
  PROVE  Times(a, Minus(b, c)) = Minus(Times(a, b), Times(a, c))
<1>1. Minus(b, c) \in Ring /\ Plus(Minus(b, c), c) = b
  BY DEF RingLaws, Closed, Additive
<1>2. Plus(Times(a, Minus(b, c)), Times(a, c)) = Times(a, b)
  BY <1>1 DEF RingLaws, Distributive
<1>3. Times(a, Minus(b, c)) \in Ring /\ Times(a, c) \in Ring /\ Times(a, b) \in Ring
  BY <1>1 DEF RingLaws, Closed
<1> QED
  BY <1>2, <1>3, DifferenceIs

(* A difference of sums is the sum of the differences.                     *)
LEMMA DifferenceOfSums ==
  ASSUME RingLaws, NEW a \in Ring, NEW b \in Ring, NEW c \in Ring, NEW d \in Ring
  PROVE  Minus(Plus(a, b), Plus(c, d)) = Plus(Minus(a, c), Minus(b, d))
<1>1. /\ Minus(a, c) \in Ring /\ Plus(Minus(a, c), c) = a
      /\ Minus(b, d) \in Ring /\ Plus(Minus(b, d), d) = b
  BY DEF RingLaws, Closed, Additive
<1>2. Plus(Plus(Minus(a, c), Minus(b, d)), Plus(c, d)) = Plus(a, b)
  BY <1>1, FourSummands
<1>3. Plus(Minus(a, c), Minus(b, d)) \in Ring /\ Plus(c, d) \in Ring /\ Plus(a, b) \in Ring
  BY <1>1 DEF RingLaws, Closed
<1> QED
  BY <1>2, <1>3, DifferenceIs

(* A difference is zero where both are the same, and only there.           *)
LEMMA DifferenceZero ==
  ASSUME RingLaws, NEW a \in Ring, NEW b \in Ring
  PROVE  (Minus(a, b) = 0 <=> a = b) /\ Minus(a, 0) = a
<1>1. Plus(0, b) = b /\ Plus(a, 0) = a /\ 0 \in Ring
  BY DEF RingLaws, Closed, Additive
<1>2. a = b => Minus(a, b) = 0
  BY <1>1, DifferenceIs
<1>3. Minus(a, b) = 0 => a = b
  <2>1. Plus(Minus(a, b), b) = a
    BY DEF RingLaws, Additive
  <2> QED
    BY <1>1, <2>1
<1> QED
  BY <1>1, <1>2, <1>3, DifferenceIs

(* Differences are turned round by the factor -1.                          *)
MinusOne == Minus(0, OfInteger(1))

(* Subtracting is adding the other times -1.                               *)
LEMMA DifferenceAsSum ==
  ASSUME RingLaws, NEW a \in Ring, NEW b \in Ring
  PROVE  MinusOne \in Ring /\ Minus(a, b) = Plus(a, Times(MinusOne, b))
<1>1. MinusOne \in Ring /\ Plus(MinusOne, OfInteger(1)) = 0 /\ OfInteger(1) \in Ring
  BY DEF RingLaws, Closed, Additive, MinusOne
<1>2. Plus(Times(MinusOne, b), b) = 0
  <2>1. Times(b, Plus(MinusOne, OfInteger(1))) = Plus(Times(b, MinusOne), Times(b, OfInteger(1)))
    BY <1>1 DEF RingLaws, Distributive
  <2>2. Times(b, MinusOne) = Times(MinusOne, b) /\ Times(b, OfInteger(1)) = b
    BY <1>1 DEF RingLaws, Multiplicative
  <2> QED
    BY <1>1, <2>1, <2>2, TimesZero
<1>3. Times(MinusOne, b) \in Ring /\ Plus(a, Times(MinusOne, b)) \in Ring
  BY <1>1 DEF RingLaws, Closed
<1>4. Plus(Plus(a, Times(MinusOne, b)), b) = a
  <2>1. Plus(Plus(a, Times(MinusOne, b)), b) = Plus(a, Plus(Times(MinusOne, b), b))
    BY <1>3 DEF RingLaws, Additive
  <2> QED
    BY <1>2, <2>1 DEF RingLaws, Additive
<1> QED
  BY <1>1, <1>3, <1>4, DifferenceIs

-----------------------------------------------------------------------------
(* Sums, products, powers *)

(* Two sequences that go on alike from equal beginnings are the same.      *)
LEMMA GoesOnAlike ==
  ASSUME NEW m \in Nat, NEW s, NEW t, s[0] = t[0],
         \A i \in 0 .. m - 1 : s[i] = t[i] => s[i + 1] = t[i + 1]
  PROVE  \A i \in 0 .. m : s[i] = t[i]
<1> DEFINE P == {i \in Nat : i <= m => s[i] = t[i]}
<1>1. 0 \in P
  OBVIOUS
<1>2. ASSUME NEW i \in P PROVE i + 1 \in P
  <2> SUFFICES ASSUME i + 1 <= m PROVE s[i + 1] = t[i + 1]
    OBVIOUS
  <2>1. i \in 0 .. m - 1 /\ s[i] = t[i]
    OBVIOUS
  <2> QED
    BY <2>1
<1>3. P = Nat
  <2>1. P \in SUBSET Nat
    OBVIOUS
  <2> HIDE DEF P
  <2> QED
    BY <1>1, <1>2, <2>1, SetInduction
<1> QED
  BY <1>3

(* The sums of the first summands, as RingSum computes them.               *)
Sums(s, f, m) == s = [i \in 0 .. m |-> IF i = 0 THEN 0 ELSE Plus(s[i - 1], f[i - 1])]

(* A sum is in the ring and grows by one summand at a time.                *)
LEMMA SumSteps ==
  ASSUME RingLaws, NEW n \in Nat, NEW f, \A i \in 0 .. n - 1 : f[i] \in Ring
  PROVE  /\ RingSum(f, 0) = 0
         /\ \A m \in 0 .. n : RingSum(f, m) \in Ring
         /\ \A m \in 0 .. n - 1 : RingSum(f, m + 1) = Plus(RingSum(f, m), f[m])
<1> DEFINE step == [p \in Nat \X Ring |-> IF p[1] < n THEN Plus(p[2], f[p[1]]) ELSE p[2]]
<1>1. step \in [Nat \X Ring -> Ring] /\ 0 \in Ring
  BY DEF RingLaws, Closed
<1>2. PICK T \in [Nat -> Ring] : T[0] = 0 /\ \A i \in Nat : T[i + 1] = step[<<i, T[i]>>]
  <2> HIDE DEF step
  <2>1. HasSequence(Ring, 0, step)
    BY <1>1, RecursionExists
  <2> QED
    BY <2>1 DEF HasSequence
<1>3. ASSUME NEW i \in 0 .. n - 1 PROVE T[i + 1] = Plus(T[i], f[i])
  <2>1. <<i, T[i]>> \in Nat \X Ring /\ i < n /\ i \in Nat
    BY <1>2
  <2> QED
    BY <1>2, <2>1
<1> HIDE DEF step
<1>4. ASSUME NEW m \in 0 .. n PROVE RingSum(f, m) = T[m]
  <2>1. ASSUME NEW s, Sums(s, f, m) PROVE s[m] = T[m]
    <3>1. s[0] = T[0]
      BY <1>2, <2>1 DEF Sums
    <3>2. ASSUME NEW i \in 0 .. m - 1, s[i] = T[i] PROVE s[i + 1] = T[i + 1]
      <4>1. i + 1 \in 0 .. m /\ i + 1 # 0 /\ (i + 1) - 1 = i /\ i \in 0 .. n - 1
        OBVIOUS
      <4>2. s[i + 1] = Plus(s[i], f[i])
        BY <2>1, <4>1 DEF Sums
      <4> QED
        BY <1>3, <3>2, <4>1, <4>2
    <3> QED
      BY <3>1, <3>2, GoesOnAlike, SMTT(30)
  <2>2. \E s : Sums(s, f, m)
    <3> DEFINE t == [i \in 0 .. m |-> T[i]]
    <3>1. ASSUME NEW i \in 0 .. m PROVE t[i] = IF i = 0 THEN 0 ELSE Plus(t[i - 1], f[i - 1])
      <4>1. CASE i = 0
        BY <1>2, <4>1
      <4>2. CASE i # 0
        <5>1. i - 1 \in 0 .. n - 1 /\ (i - 1) + 1 = i /\ i - 1 \in 0 .. m
          BY <4>2
        <5> QED
          BY <1>3, <4>2, <5>1
      <4> QED
        BY <4>1, <4>2
    <3>2. t = [i \in 0 .. m |-> t[i]]
      OBVIOUS
    <3> HIDE DEF t
    <3>3. t = [i \in 0 .. m |-> IF i = 0 THEN 0 ELSE Plus(t[i - 1], f[i - 1])]
      BY <3>1, <3>2
    <3> QED
      BY <3>3 DEF Sums
  <2>3. RingSum(f, m) = (CHOOSE s : Sums(s, f, m))[m]
    BY DEF RingSum, Sums
  <2> QED
    BY <2>1, <2>2, <2>3
<1>5. RingSum(f, 0) = 0
  BY <1>2, <1>4
<1>6. \A m \in 0 .. n : RingSum(f, m) \in Ring
  BY <1>4
<1>7. ASSUME NEW m \in 0 .. n - 1 PROVE RingSum(f, m + 1) = Plus(RingSum(f, m), f[m])
  <2>1. m \in 0 .. n /\ m + 1 \in 0 .. n
    OBVIOUS
  <2> QED
    BY <1>3, <1>4, <2>1
<1> QED
  BY <1>5, <1>6, <1>7

(* The products of the first factors, as RingProduct computes them.        *)
Products(s, f, m) ==
  s = [i \in 0 .. m |-> IF i = 0 THEN OfInteger(1) ELSE Times(s[i - 1], f[i - 1])]

(* A product is in the ring and grows by one factor at a time.             *)
LEMMA ProductSteps ==
  ASSUME RingLaws, NEW n \in Nat, NEW f, \A i \in 0 .. n - 1 : f[i] \in Ring
  PROVE  /\ RingProduct(f, 0) = OfInteger(1)
         /\ \A m \in 0 .. n : RingProduct(f, m) \in Ring
         /\ \A m \in 0 .. n - 1 : RingProduct(f, m + 1) = Times(RingProduct(f, m), f[m])
<1> DEFINE step == [p \in Nat \X Ring |-> IF p[1] < n THEN Times(p[2], f[p[1]]) ELSE p[2]]
<1>1. step \in [Nat \X Ring -> Ring] /\ OfInteger(1) \in Ring
  BY DEF RingLaws, Closed
<1>2. PICK T \in [Nat -> Ring] : T[0] = OfInteger(1) /\ \A i \in Nat : T[i + 1] = step[<<i, T[i]>>]
  <2> HIDE DEF step
  <2>1. HasSequence(Ring, OfInteger(1), step)
    BY <1>1, RecursionExists
  <2> QED
    BY <2>1 DEF HasSequence
<1>3. ASSUME NEW i \in 0 .. n - 1 PROVE T[i + 1] = Times(T[i], f[i])
  <2>1. <<i, T[i]>> \in Nat \X Ring /\ i < n /\ i \in Nat
    BY <1>2
  <2> QED
    BY <1>2, <2>1
<1> HIDE DEF step
<1>4. ASSUME NEW m \in 0 .. n PROVE RingProduct(f, m) = T[m]
  <2>1. ASSUME NEW s, Products(s, f, m) PROVE s[m] = T[m]
    <3>1. s[0] = T[0]
      BY <1>2, <2>1 DEF Products
    <3>2. ASSUME NEW i \in 0 .. m - 1, s[i] = T[i] PROVE s[i + 1] = T[i + 1]
      <4>1. i + 1 \in 0 .. m /\ i + 1 # 0 /\ (i + 1) - 1 = i /\ i \in 0 .. n - 1
        OBVIOUS
      <4>2. s[i + 1] = Times(s[i], f[i])
        BY <2>1, <4>1 DEF Products
      <4> QED
        BY <1>3, <3>2, <4>1, <4>2
    <3> QED
      BY <3>1, <3>2, GoesOnAlike
  <2>2. \E s : Products(s, f, m)
    <3> DEFINE t == [i \in 0 .. m |-> T[i]]
    <3>1. ASSUME NEW i \in 0 .. m
          PROVE  t[i] = IF i = 0 THEN OfInteger(1) ELSE Times(t[i - 1], f[i - 1])
      <4>1. CASE i = 0
        BY <1>2, <4>1
      <4>2. CASE i # 0
        <5>1. i - 1 \in 0 .. n - 1 /\ (i - 1) + 1 = i /\ i - 1 \in 0 .. m
          BY <4>2
        <5> QED
          BY <1>3, <4>2, <5>1
      <4> QED
        BY <4>1, <4>2
    <3>2. t = [i \in 0 .. m |-> t[i]]
      OBVIOUS
    <3> HIDE DEF t
    <3>3. t = [i \in 0 .. m |-> IF i = 0 THEN OfInteger(1) ELSE Times(t[i - 1], f[i - 1])]
      BY <3>1, <3>2
    <3> QED
      BY <3>3 DEF Products
  <2>3. RingProduct(f, m) = (CHOOSE s : Products(s, f, m))[m]
    BY DEF RingProduct, Products
  <2> QED
    BY <2>1, <2>2, <2>3
<1>5. RingProduct(f, 0) = OfInteger(1)
  BY <1>2, <1>4
<1>6. \A m \in 0 .. n : RingProduct(f, m) \in Ring
  BY <1>4
<1>7. ASSUME NEW m \in 0 .. n - 1 PROVE RingProduct(f, m + 1) = Times(RingProduct(f, m), f[m])
  <2>1. m \in 0 .. n /\ m + 1 \in 0 .. n
    OBVIOUS
  <2> QED
    BY <1>3, <1>4, <2>1
<1> QED
  BY <1>5, <1>6, <1>7

(* Sums of the same summands.                                              *)
LEMMA SumSame ==
  ASSUME RingLaws, NEW n \in Nat, NEW f, NEW g,
         \A i \in 0 .. n - 1 : f[i] \in Ring /\ f[i] = g[i]
  PROVE  RingSum(f, n) = RingSum(g, n)
<1> DEFINE P == {m \in 0 .. n : RingSum(f, m) = RingSum(g, m)}
<1>1. 0 \in P
  BY SumSteps
<1>2. ASSUME NEW m \in P, m < n PROVE m + 1 \in P
  <2>1. m \in 0 .. n - 1 /\ m + 1 \in 0 .. n /\ \A i \in 0 .. n - 1 : g[i] \in Ring
    BY <1>2
  <2>2. RingSum(f, m + 1) = Plus(RingSum(f, m), f[m])
    BY <2>1, SumSteps
  <2>3. RingSum(g, m + 1) = Plus(RingSum(g, m), g[m])
    BY <2>1, SumSteps
  <2> QED
    BY <2>1, <2>2, <2>3
<1>3. P = 0 .. n
  <2>1. P \in SUBSET (0 .. n)
    OBVIOUS
  <2> HIDE DEF P
  <2> QED
    BY <1>1, <1>2, <2>1, InductionUpTo
<1> QED
  BY <1>3

(* Sums add up summand by summand.                                         *)
LEMMA SumOfSums ==
  ASSUME RingLaws, NEW n \in Nat, NEW f, NEW g, NEW h,
         \A i \in 0 .. n - 1 : f[i] \in Ring /\ g[i] \in Ring /\ h[i] = Plus(f[i], g[i])
  PROVE  RingSum(h, n) = Plus(RingSum(f, n), RingSum(g, n))
<1> DEFINE P == {m \in 0 .. n : RingSum(h, m) = Plus(RingSum(f, m), RingSum(g, m))}
<1>1. \A i \in 0 .. n - 1 : f[i] \in Ring /\ g[i] \in Ring /\ h[i] \in Ring
  BY DEF RingLaws, Closed
<1>2. 0 \in P
  <2>1. RingSum(f, 0) = 0 /\ RingSum(g, 0) = 0 /\ RingSum(h, 0) = 0
    BY <1>1, SumSteps
  <2>2. Plus(0, 0) = 0
    BY DEF RingLaws, Closed, Additive
  <2> QED
    BY <2>1, <2>2
<1>3. ASSUME NEW m \in P, m < n PROVE m + 1 \in P
  <2>1. m \in 0 .. n - 1 /\ m \in 0 .. n /\ m + 1 \in 0 .. n
    BY <1>3
  <2>2. RingSum(f, m + 1) = Plus(RingSum(f, m), f[m]) /\ RingSum(f, m) \in Ring
    BY <1>1, <2>1, SumSteps
  <2>3. RingSum(g, m + 1) = Plus(RingSum(g, m), g[m]) /\ RingSum(g, m) \in Ring
    BY <1>1, <2>1, SumSteps
  <2>4. RingSum(h, m + 1) = Plus(RingSum(h, m), h[m])
    BY <1>1, <2>1, SumSteps
  <2>5. RingSum(h, m) = Plus(RingSum(f, m), RingSum(g, m)) /\ h[m] = Plus(f[m], g[m])
    BY <2>1
  <2>6. f[m] \in Ring /\ g[m] \in Ring
    BY <2>1
  <2> QED
    BY <2>1, <2>2, <2>3, <2>4, <2>5, <2>6, FourSummands
<1>4. P = 0 .. n
  <2>1. P \in SUBSET (0 .. n)
    OBVIOUS
  <2> HIDE DEF P
  <2> QED
    BY <1>2, <1>3, <2>1, InductionUpTo
<1> QED
  BY <1>4

(* A common factor.                                                        *)
LEMMA SumOfMultiples ==
  ASSUME RingLaws, NEW n \in Nat, NEW a \in Ring, NEW f, NEW h,
         \A i \in 0 .. n - 1 : f[i] \in Ring /\ h[i] = Times(a, f[i])
  PROVE  RingSum(h, n) = Times(a, RingSum(f, n))
<1> DEFINE P == {m \in 0 .. n : RingSum(h, m) = Times(a, RingSum(f, m))}
<1>1. \A i \in 0 .. n - 1 : f[i] \in Ring /\ h[i] \in Ring
  BY DEF RingLaws, Closed
<1>2. 0 \in P
  <2>1. RingSum(f, 0) = 0 /\ RingSum(h, 0) = 0
    BY <1>1, SumSteps
  <2> QED
    BY <2>1, TimesZero
<1>3. ASSUME NEW m \in P, m < n PROVE m + 1 \in P
  <2>1. m \in 0 .. n - 1 /\ m \in 0 .. n /\ m + 1 \in 0 .. n
    BY <1>3
  <2>2. RingSum(f, m + 1) = Plus(RingSum(f, m), f[m]) /\ RingSum(f, m) \in Ring
    BY <1>1, <2>1, SumSteps
  <2>3. RingSum(h, m + 1) = Plus(RingSum(h, m), h[m])
    BY <1>1, <2>1, SumSteps
  <2>4. RingSum(h, m) = Times(a, RingSum(f, m)) /\ h[m] = Times(a, f[m]) /\ f[m] \in Ring
    BY <2>1
  <2> QED
    BY <2>1, <2>2, <2>3, <2>4 DEF RingLaws, Distributive
<1>4. P = 0 .. n
  <2>1. P \in SUBSET (0 .. n)
    OBVIOUS
  <2> HIDE DEF P
  <2> QED
    BY <1>2, <1>3, <2>1, InductionUpTo
<1> QED
  BY <1>4

(* The first n summands and the m that follow.                             *)
LEMMA SumSplit ==
  ASSUME RingLaws, NEW n \in Nat, NEW m \in Nat, NEW f, NEW g,
         \A i \in 0 .. n + m - 1 : f[i] \in Ring,
         \A i \in 0 .. m - 1 : g[i] = f[n + i]
  PROVE  RingSum(f, n + m) = Plus(RingSum(f, n), RingSum(g, m))
<1> DEFINE P == {k \in 0 .. m : RingSum(f, n + k) = Plus(RingSum(f, n), RingSum(g, k))}
<1>1. \A i \in 0 .. m - 1 : g[i] \in Ring
  <2> SUFFICES ASSUME NEW i \in 0 .. m - 1 PROVE g[i] \in Ring
    OBVIOUS
  <2>1. n + i \in 0 .. n + m - 1
    OBVIOUS
  <2> QED
    BY <2>1
<1>2. n + m \in Nat /\ n \in 0 .. n + m
  OBVIOUS
<1>3. RingSum(f, n) \in Ring
  BY <1>2, SumSteps
<1>4. 0 \in P
  <2>1. RingSum(g, 0) = 0
    BY <1>1, SumSteps
  <2>2. Plus(RingSum(f, n), 0) = RingSum(f, n) /\ n + 0 = n
    BY <1>3 DEF RingLaws, Additive
  <2> QED
    BY <2>1, <2>2
<1>5. ASSUME NEW k \in P, k < m PROVE k + 1 \in P
  <2>1. /\ k \in 0 .. m - 1 /\ k \in 0 .. m /\ k + 1 \in 0 .. m
        /\ n + k \in 0 .. n + m - 1 /\ n + (k + 1) = (n + k) + 1
    BY <1>5
  <2>2. RingSum(f, (n + k) + 1) = Plus(RingSum(f, n + k), f[n + k])
    BY <1>2, <2>1, SumSteps
  <2>3. RingSum(g, k + 1) = Plus(RingSum(g, k), g[k]) /\ RingSum(g, k) \in Ring
    BY <1>1, <2>1, SumSteps
  <2>4. RingSum(f, n + k) = Plus(RingSum(f, n), RingSum(g, k)) /\ g[k] = f[n + k] /\ g[k] \in Ring
    BY <1>1, <2>1
  <2>5. Plus(Plus(RingSum(f, n), RingSum(g, k)), g[k]) = Plus(RingSum(f, n), Plus(RingSum(g, k), g[k]))
    BY <1>3, <2>3, <2>4 DEF RingLaws, Additive
  <2> QED
    BY <2>1, <2>2, <2>3, <2>4, <2>5
<1>6. P = 0 .. m
  <2>1. P \in SUBSET (0 .. m)
    OBVIOUS
  <2> HIDE DEF P
  <2> QED
    BY <1>4, <1>5, <2>1, InductionUpTo
<1> QED
  BY <1>6

(* A sum of zeros, and a sum in which one summand may not be zero.         *)
LEMMA SumOfZeros ==
  ASSUME RingLaws, NEW n \in Nat, NEW f, \A i \in 0 .. n - 1 : f[i] = 0
  PROVE  RingSum(f, n) = 0
<1>1. 0 \in Ring /\ Times(0, 0) = 0
  BY TimesZero DEF RingLaws, Closed
<1>2. \A i \in 0 .. n - 1 : f[i] \in Ring /\ f[i] = Times(0, f[i])
  BY <1>1
<1>3. RingSum(f, n) = Times(0, RingSum(f, n)) /\ RingSum(f, n) \in Ring
  BY <1>1, <1>2, SumOfMultiples, SumSteps
<1> QED
  BY <1>3, TimesZero

(* A sum with one term that may differ from 0 is that term.                *)
LEMMA SumOfOne ==
  ASSUME RingLaws, NEW n \in Nat, NEW k \in 0 .. n - 1, NEW f, f[k] \in Ring,
         \A i \in 0 .. n - 1 : i # k => f[i] = 0
  PROVE  RingSum(f, n) = f[k]
<1> DEFINE g == [i \in Nat |-> f[k + i]]
           h == [i \in Nat |-> f[(k + 1) + i]]
           m == n - (k + 1)
<1>1. 0 \in Ring
  BY DEF RingLaws, Closed
<1>2. \A i \in 0 .. n - 1 : f[i] \in Ring
  BY <1>1
<1>3. k \in Nat /\ k + 1 \in Nat /\ m \in Nat /\ n = (k + 1) + m /\ k \in 0 .. (k + 1) - 1
  OBVIOUS
<1>4. RingSum(f, k) = 0
  BY <1>3, SumOfZeros
<1>5. RingSum(f, k + 1) = Plus(RingSum(f, k), f[k])
  <2>1. \A i \in 0 .. (k + 1) - 1 : f[i] \in Ring
    BY <1>2
  <2> QED
    BY <1>3, <2>1, SumSteps
<1>6. RingSum(h, m) = 0
  <2>1. \A i \in 0 .. m - 1 : h[i] = 0
    OBVIOUS
  <2> HIDE DEF h, m
  <2> QED
    BY <1>3, <2>1, SumOfZeros
<1>7. RingSum(f, (k + 1) + m) = Plus(RingSum(f, k + 1), RingSum(h, m))
  <2>1. \A i \in 0 .. (k + 1) + m - 1 : f[i] \in Ring
    BY <1>2
  <2>2. \A i \in 0 .. m - 1 : h[i] = f[(k + 1) + i]
    OBVIOUS
  <2> HIDE DEF h, m
  <2> QED
    BY <1>3, <2>1, <2>2, SumSplit
<1>8. Plus(Plus(0, f[k]), 0) = f[k]
  <2>1. Plus(0, f[k]) = Plus(f[k], 0) /\ Plus(f[k], 0) = f[k]
    BY <1>1 DEF RingLaws, Additive
  <2> QED
    BY <2>1
<1> QED
  BY <1>3, <1>4, <1>5, <1>6, <1>7, <1>8

(* Products of the same factors, and of products.                          *)
LEMMA ProductSame ==
  ASSUME RingLaws, NEW n \in Nat, NEW f, NEW g,
         \A i \in 0 .. n - 1 : f[i] \in Ring /\ f[i] = g[i]
  PROVE  RingProduct(f, n) = RingProduct(g, n)
<1> DEFINE P == {m \in 0 .. n : RingProduct(f, m) = RingProduct(g, m)}
<1>1. 0 \in P
  BY ProductSteps
<1>2. ASSUME NEW m \in P, m < n PROVE m + 1 \in P
  <2>1. m \in 0 .. n - 1 /\ m + 1 \in 0 .. n /\ \A i \in 0 .. n - 1 : g[i] \in Ring
    BY <1>2
  <2>2. RingProduct(f, m + 1) = Times(RingProduct(f, m), f[m])
    BY <2>1, ProductSteps
  <2>3. RingProduct(g, m + 1) = Times(RingProduct(g, m), g[m])
    BY <2>1, ProductSteps
  <2> QED
    BY <2>1, <2>2, <2>3
<1>3. P = 0 .. n
  <2>1. P \in SUBSET (0 .. n)
    OBVIOUS
  <2> HIDE DEF P
  <2> QED
    BY <1>1, <1>2, <2>1, InductionUpTo
<1> QED
  BY <1>3

(* A product of products, factor by factor.                                *)
LEMMA ProductOfProducts ==
  ASSUME RingLaws, NEW n \in Nat, NEW f, NEW g, NEW h,
         \A i \in 0 .. n - 1 : f[i] \in Ring /\ g[i] \in Ring /\ h[i] = Times(f[i], g[i])
  PROVE  RingProduct(h, n) = Times(RingProduct(f, n), RingProduct(g, n))
<1> DEFINE P == {m \in 0 .. n : RingProduct(h, m) = Times(RingProduct(f, m), RingProduct(g, m))}
<1>1. \A i \in 0 .. n - 1 : f[i] \in Ring /\ g[i] \in Ring /\ h[i] \in Ring
  BY DEF RingLaws, Closed
<1>2. 0 \in P
  <2>1. /\ RingProduct(f, 0) = OfInteger(1) /\ RingProduct(g, 0) = OfInteger(1)
        /\ RingProduct(h, 0) = OfInteger(1)
    BY <1>1, ProductSteps
  <2>2. Times(OfInteger(1), OfInteger(1)) = OfInteger(1)
    BY DEF RingLaws, Closed, Multiplicative
  <2> QED
    BY <2>1, <2>2
<1>3. ASSUME NEW m \in P, m < n PROVE m + 1 \in P
  <2>1. m \in 0 .. n - 1 /\ m \in 0 .. n /\ m + 1 \in 0 .. n
    BY <1>3
  <2>2. RingProduct(f, m + 1) = Times(RingProduct(f, m), f[m]) /\ RingProduct(f, m) \in Ring
    BY <1>1, <2>1, ProductSteps
  <2>3. RingProduct(g, m + 1) = Times(RingProduct(g, m), g[m]) /\ RingProduct(g, m) \in Ring
    BY <1>1, <2>1, ProductSteps
  <2>4. RingProduct(h, m + 1) = Times(RingProduct(h, m), h[m])
    BY <1>1, <2>1, ProductSteps
  <2>5. RingProduct(h, m) = Times(RingProduct(f, m), RingProduct(g, m)) /\ h[m] = Times(f[m], g[m])
    BY <2>1
  <2>6. f[m] \in Ring /\ g[m] \in Ring
    BY <2>1
  <2> QED
    BY <2>1, <2>2, <2>3, <2>4, <2>5, <2>6, FourFactors
<1>4. P = 0 .. n
  <2>1. P \in SUBSET (0 .. n)
    OBVIOUS
  <2> HIDE DEF P
  <2> QED
    BY <1>2, <1>3, <2>1, InductionUpTo
<1> QED
  BY <1>4

(* What Power computes by halving the exponent.                            *)
Halvings(s, x, e) ==
  s = [n \in 0 .. e |->
         IF n = 0 THEN OfInteger(1)
         ELSE Times(Times(s[n \div 2], s[n \div 2]), IF n % 2 = 1 THEN x ELSE OfInteger(1))]

(* Square and multiply is one multiplication after another.                *)
LEMMA PowerSteps ==
  ASSUME RingLaws, NEW x \in Ring
  PROVE  /\ Power(x, 0) = OfInteger(1)
         /\ \A n \in Nat : Power(x, n) \in Ring /\ Power(x, n + 1) = Times(Power(x, n), x)
<1> DEFINE step == [p \in Nat \X Ring |-> Times(p[2], x)]
<1>1. step \in [Nat \X Ring -> Ring] /\ OfInteger(1) \in Ring
  BY DEF RingLaws, Closed
<1>2. PICK T \in [Nat -> Ring] : T[0] = OfInteger(1) /\ \A i \in Nat : T[i + 1] = step[<<i, T[i]>>]
  <2> HIDE DEF step
  <2>1. HasSequence(Ring, OfInteger(1), step)
    BY <1>1, RecursionExists
  <2> QED
    BY <2>1 DEF HasSequence
<1>3. ASSUME NEW i \in Nat PROVE T[i + 1] = Times(T[i], x)
  <2>1. <<i, T[i]>> \in Nat \X Ring
    BY <1>2
  <2> QED
    BY <1>2, <2>1
<1> HIDE DEF step
<1>4. ASSUME NEW a \in Nat PROVE \A b \in Nat : T[a + b] = Times(T[a], T[b])
  <2> DEFINE P == {b \in Nat : T[a + b] = Times(T[a], T[b])}
  <2>1. 0 \in P
    BY <1>2 DEF RingLaws, Multiplicative
  <2>2. ASSUME NEW b \in P PROVE b + 1 \in P
    <3>1. /\ T[a + (b + 1)] = Times(T[a + b], x) /\ T[b + 1] = Times(T[b], x)
          /\ T[a + b] = Times(T[a], T[b])
      <4>1. a + (b + 1) = (a + b) + 1 /\ a + b \in Nat /\ b \in Nat
        OBVIOUS
      <4> QED
        BY <1>3, <4>1
    <3>2. T[a] \in Ring /\ T[b] \in Ring
      BY <1>2
    <3>3. Times(Times(T[a], T[b]), x) = Times(T[a], Times(T[b], x))
      BY <3>2 DEF RingLaws, Multiplicative
    <3> QED
      BY <3>1, <3>3
  <2>3. P = Nat
    <3>1. P \in SUBSET Nat
      OBVIOUS
    <3> HIDE DEF P
    <3> QED
      BY <2>1, <2>2, <3>1, SetInduction
  <2> QED
    BY <2>3
<1>5. ASSUME NEW n \in Nat, n # 0
      PROVE  T[n] = Times(Times(T[n \div 2], T[n \div 2]), IF n % 2 = 1 THEN x ELSE OfInteger(1))
  <2> DEFINE h == n \div 2
  <2>1. h \in Nat /\ (n % 2 = 1 => n = (h + h) + 1) /\ (n % 2 # 1 => n = h + h)
    OBVIOUS
  <2>2. T[h + h] = Times(T[h], T[h]) /\ T[h + h] \in Ring
    BY <1>2, <1>4, <2>1
  <2> HIDE DEF h
  <2>3. h + h \in Nat
    BY <2>1
  <2>4. T[(h + h) + 1] = Times(T[h + h], x)
    BY <1>3, <2>3
  <2>5. T[h + h] = Times(T[h + h], OfInteger(1))
    BY <2>2 DEF RingLaws, Multiplicative
  <2>6. CASE n % 2 = 1
    <3>1. T[n] = Times(T[h + h], x)
      BY <2>1, <2>4, <2>6
    <3> QED
      BY <2>2, <2>6, <3>1 DEF h
  <2>7. CASE n % 2 # 1
    <3>1. T[n] = Times(T[h + h], OfInteger(1))
      BY <2>1, <2>5, <2>7
    <3> QED
      BY <2>2, <2>7, <3>1 DEF h
  <2> QED
    BY <2>6, <2>7
<1>6. ASSUME NEW e \in Nat PROVE Power(x, e) = T[e]
  <2>1. ASSUME NEW s, Halvings(s, x, e) PROVE s[e] = T[e]
    <3> DEFINE bad == {n \in 0 .. e : s[n] # T[n]}
    <3> SUFFICES ASSUME bad # {} PROVE FALSE
      OBVIOUS
    <3>1. PICK n \in bad : \A m \in bad : n <= m
      <4>1. bad \in SUBSET Nat
        OBVIOUS
      <4> QED
        BY <4>1, LeastElement
    <3>2. n # 0
      BY <1>2, <2>1, <3>1 DEF Halvings
    <3>3. n \in 0 .. e /\ n \div 2 \in 0 .. e /\ n \div 2 < n
      BY <3>1, <3>2
    <3>4. s[n \div 2] = T[n \div 2]
      BY <3>1, <3>3
    <3>5. s[n] = Times(Times(s[n \div 2], s[n \div 2]), IF n % 2 = 1 THEN x ELSE OfInteger(1))
      BY <2>1, <3>2, <3>3 DEF Halvings
    <3>6. s[n] = T[n]
      BY <1>5, <3>2, <3>3, <3>4, <3>5
    <3> QED
      BY <3>1, <3>6
  <2>2. \E s : Halvings(s, x, e)
    <3> DEFINE t == [i \in 0 .. e |-> T[i]]
    <3>1. ASSUME NEW n \in 0 .. e
          PROVE  t[n] = IF n = 0 THEN OfInteger(1)
                        ELSE Times(Times(t[n \div 2], t[n \div 2]), IF n % 2 = 1 THEN x ELSE OfInteger(1))
      <4>1. n \in Nat /\ n \div 2 \in 0 .. e /\ t[n] = T[n] /\ t[n \div 2] = T[n \div 2]
        OBVIOUS
      <4> HIDE DEF t
      <4> QED
        BY <1>2, <1>5, <4>1
    <3>2. t = [i \in 0 .. e |-> t[i]]
      OBVIOUS
    <3> HIDE DEF t
    <3>3. t = [n \in 0 .. e |->
                 IF n = 0 THEN OfInteger(1)
                 ELSE Times(Times(t[n \div 2], t[n \div 2]), IF n % 2 = 1 THEN x ELSE OfInteger(1))]
      BY <3>1, <3>2
    <3> QED
      BY <3>3 DEF Halvings
  <2>3. Power(x, e) = (CHOOSE s : Halvings(s, x, e))[e]
    BY DEF Power, Halvings
  <2> QED
    BY <2>1, <2>2, <2>3
<1> QED
  BY <1>2, <1>3, <1>6

(* Powers of sums of exponents, of products, of powers, and of one.        *)
LEMMA PowerAdds ==
  ASSUME RingLaws, NEW x \in Ring, NEW a \in Nat, NEW b \in Nat
  PROVE  Power(x, a + b) = Times(Power(x, a), Power(x, b))
<1> DEFINE P == {n \in Nat : Power(x, a + n) = Times(Power(x, a), Power(x, n))}
<1>1. 0 \in P
  BY PowerSteps DEF RingLaws, Multiplicative
<1>2. ASSUME NEW n \in P PROVE n + 1 \in P
  <2>1. a + (n + 1) = (a + n) + 1 /\ a + n \in Nat /\ n \in Nat
    OBVIOUS
  <2>2. /\ Power(x, (a + n) + 1) = Times(Power(x, a + n), x)
        /\ Power(x, n + 1) = Times(Power(x, n), x)
        /\ Power(x, a) \in Ring /\ Power(x, n) \in Ring
    BY <2>1, PowerSteps
  <2>3. Times(Times(Power(x, a), Power(x, n)), x) = Times(Power(x, a), Times(Power(x, n), x))
    BY <2>2 DEF RingLaws, Multiplicative
  <2> QED
    BY <2>1, <2>2, <2>3
<1>3. P = Nat
  <2>1. P \in SUBSET Nat
    OBVIOUS
  <2> HIDE DEF P
  <2> QED
    BY <1>1, <1>2, <2>1, SetInduction
<1> QED
  BY <1>3

(* The power of a product is the product of the powers.                    *)
LEMMA PowerOfProduct ==
  ASSUME RingLaws, NEW x \in Ring, NEW y \in Ring, NEW e \in Nat
  PROVE  Power(Times(x, y), e) = Times(Power(x, e), Power(y, e))
<1> DEFINE P == {n \in Nat : Power(Times(x, y), n) = Times(Power(x, n), Power(y, n))}
<1>1. Times(x, y) \in Ring
  BY DEF RingLaws, Closed
<1>2. 0 \in P
  <2> DEFINE one == OfInteger(1)
  <2>1. Power(x, 0) = one /\ Power(y, 0) = one /\ Power(Times(x, y), 0) = one
    BY <1>1, PowerSteps
  <2>2. Times(one, one) = one
    BY DEF RingLaws, Closed, Multiplicative
  <2> HIDE DEF one
  <2> QED
    BY <2>1, <2>2
<1>3. ASSUME NEW n \in P PROVE n + 1 \in P
  <2>1. /\ Power(Times(x, y), n + 1) = Times(Power(Times(x, y), n), Times(x, y))
        /\ Power(x, n + 1) = Times(Power(x, n), x) /\ Power(x, n) \in Ring
        /\ Power(y, n + 1) = Times(Power(y, n), y) /\ Power(y, n) \in Ring
    BY <1>1, PowerSteps
  <2>2. Times(Times(Power(x, n), Power(y, n)), Times(x, y))
          = Times(Times(Power(x, n), x), Times(Power(y, n), y))
    BY <2>1, FourFactors
  <2> QED
    BY <2>1, <2>2
<1>4. P = Nat
  <2>1. P \in SUBSET Nat
    OBVIOUS
  <2> HIDE DEF P
  <2> QED
    BY <1>2, <1>3, <2>1, SetInduction
<1> QED
  BY <1>4

(* All powers of one are one.                                              *)
LEMMA PowerOfOne ==
  ASSUME RingLaws, NEW e \in Nat
  PROVE  Power(OfInteger(1), e) = OfInteger(1)
<1> DEFINE P == {n \in Nat : Power(OfInteger(1), n) = OfInteger(1)}
<1>1. 0 \in P
  BY PowerSteps DEF RingLaws, Closed
<1>2. ASSUME NEW n \in P PROVE n + 1 \in P
  BY PowerSteps DEF RingLaws, Closed, Multiplicative
<1>3. P = Nat
  <2>1. P \in SUBSET Nat
    OBVIOUS
  <2> HIDE DEF P
  <2> QED
    BY <1>1, <1>2, <2>1, SetInduction
<1> QED
  BY <1>3

(* The first power of x is x.                                              *)
LEMMA PowerFirst ==
  ASSUME RingLaws, NEW x \in Ring
  PROVE  Power(x, 1) = x
<1>1. Power(x, 0 + 1) = Times(Power(x, 0), x) /\ Power(x, 0) = OfInteger(1)
  BY PowerSteps
<1>2. Times(OfInteger(1), x) = x
  BY DEF RingLaws, Closed, Multiplicative
<1> QED
  BY <1>1, <1>2

(* Exponents multiply.                                                     *)
LEMMA PowerOfPower ==
  ASSUME RingLaws, NEW x \in Ring, NEW a \in Nat, NEW b \in Nat
  PROVE  Power(x, a * b) = Power(Power(x, a), b)
<1> DEFINE P == {n \in Nat : Power(x, a * n) = Power(Power(x, a), n)}
<1>1. Power(x, a) \in Ring
  BY PowerSteps
<1>2. 0 \in P
  BY <1>1, PowerSteps
<1>3. ASSUME NEW n \in P PROVE n + 1 \in P
  <2>1. a * (n + 1) = a * n + a /\ a * n \in Nat
    OBVIOUS
  <2>2. Power(x, a * n + a) = Times(Power(x, a * n), Power(x, a))
    BY <2>1, PowerAdds
  <2>3. Power(Power(x, a), n + 1) = Times(Power(Power(x, a), n), Power(x, a))
    BY <1>1, PowerSteps
  <2> QED
    BY <2>1, <2>2, <2>3
<1>4. P = Nat
  <2>1. P \in SUBSET Nat
    OBVIOUS
  <2> HIDE DEF P
  <2> QED
    BY <1>2, <1>3, <2>1, SetInduction
<1> QED
  BY <1>4

-----------------------------------------------------------------------------
(* Units *)

(* The inverse is in the ring, and it is what times the unit gives one.    *)
LEMMA InverseInRing ==
  ASSUME RingLaws, NEW x \in Ring
  PROVE  Inv(x) \in Ring
<1>1. CASE IsUnit(x)
  BY <1>1, InverseAssumption
<1>2. CASE ~IsUnit(x)
  BY <1>2 DEF Inv, RingLaws, Closed
<1> QED
  BY <1>1, <1>2

(* A unit can be cancelled.                                                *)
LEMMA UnitCancels ==
  ASSUME RingLaws, NEW u \in Ring, IsUnit(u), NEW x \in Ring, NEW y \in Ring,
         Times(u, x) = Times(u, y)
  PROVE  x = y
<1>1. Inv(u) \in Ring /\ Times(u, Inv(u)) = OfInteger(1)
  BY InverseAssumption
<1>2. ASSUME NEW z \in Ring PROVE Times(Inv(u), Times(u, z)) = z
  <2>1. Times(Inv(u), Times(u, z)) = Times(Times(Inv(u), u), z)
    BY <1>1 DEF RingLaws, Multiplicative
  <2>2. Times(Inv(u), u) = OfInteger(1)
    BY <1>1 DEF RingLaws, Multiplicative
  <2>3. Times(OfInteger(1), z) = z
    BY DEF RingLaws, Closed, Multiplicative
  <2> QED
    BY <2>1, <2>2, <2>3
<1>3. Times(Inv(u), Times(u, x)) = x /\ Times(Inv(u), Times(u, y)) = y
  BY <1>2
<1> QED
  BY <1>3

(* What gives one with u is the inverse of u.                              *)
LEMMA InverseIs ==
  ASSUME RingLaws, NEW u \in Ring, NEW x \in Ring, Times(u, x) = OfInteger(1)
  PROVE  IsUnit(u) /\ Inv(u) = x
<1>1. IsUnit(u)
  BY DEF RingLaws, Counting
<1>2. Inv(u) \in Ring /\ Times(u, Inv(u)) = Times(u, x)
  BY <1>1, InverseAssumption
<1> QED
  BY <1>1, <1>2, UnitCancels

(* Products are units where all the factors are.                           *)
LEMMA UnitProduct ==
  ASSUME RingLaws, NEW x \in Ring, NEW y \in Ring
  PROVE  /\ IsUnit(Times(x, y)) <=> IsUnit(x) /\ IsUnit(y)
         /\ IsUnit(x) /\ IsUnit(y) => Inv(Times(x, y)) = Times(Inv(x), Inv(y))
<1>1. Times(x, y) \in Ring
  BY DEF RingLaws, Closed
<1>2. ASSUME IsUnit(x), IsUnit(y)
      PROVE  IsUnit(Times(x, y)) /\ Inv(Times(x, y)) = Times(Inv(x), Inv(y))
  <2>1. /\ Inv(x) \in Ring /\ Times(x, Inv(x)) = OfInteger(1)
        /\ Inv(y) \in Ring /\ Times(y, Inv(y)) = OfInteger(1)
    BY <1>2, InverseAssumption
  <2>2. Times(Times(x, y), Times(Inv(x), Inv(y))) = Times(OfInteger(1), OfInteger(1))
    BY <2>1, FourFactors
  <2>3. Times(Times(x, y), Times(Inv(x), Inv(y))) = OfInteger(1) /\ Times(Inv(x), Inv(y)) \in Ring
    BY <2>1, <2>2 DEF RingLaws, Closed, Multiplicative
  <2> QED
    BY <1>1, <2>3, InverseIs
<1>3. ASSUME IsUnit(Times(x, y)) PROVE IsUnit(x) /\ IsUnit(y)
  <2> DEFINE i == Inv(Times(x, y))
  <2>1. i \in Ring /\ Times(Times(x, y), i) = OfInteger(1)
    BY <1>1, <1>3, InverseAssumption
  <2> HIDE DEF i
  <2>2. Times(x, Times(y, i)) = OfInteger(1) /\ Times(y, i) \in Ring
    BY <2>1 DEF RingLaws, Closed, Multiplicative
  <2>3. Times(y, Times(x, i)) = OfInteger(1) /\ Times(x, i) \in Ring
    BY <2>1 DEF RingLaws, Closed, Multiplicative
  <2> QED
    BY <2>2, <2>3, InverseIs
<1> QED
  BY <1>2, <1>3

(* One is its own inverse.                                                 *)
LEMMA OneIsUnit ==
  ASSUME RingLaws
  PROVE  IsUnit(OfInteger(1)) /\ Inv(OfInteger(1)) = OfInteger(1)
<1>1. OfInteger(1) \in Ring /\ Times(OfInteger(1), OfInteger(1)) = OfInteger(1)
  BY DEF RingLaws, Closed, Multiplicative
<1> QED
  BY <1>1, InverseIs

(* Powers of units are units.                                              *)
LEMMA PowerUnit ==
  ASSUME RingLaws, NEW x \in Ring, IsUnit(x), NEW e \in Nat
  PROVE  IsUnit(Power(x, e))
<1> DEFINE P == {n \in Nat : IsUnit(Power(x, n))}
<1>1. 0 \in P
  BY PowerSteps, OneIsUnit
<1>2. ASSUME NEW n \in P PROVE n + 1 \in P
  BY PowerSteps, UnitProduct
<1>3. P = Nat
  <2>1. P \in SUBSET Nat
    OBVIOUS
  <2> HIDE DEF P
  <2> QED
    BY <1>1, <1>2, <2>1, SetInduction
<1> QED
  BY <1>3

(* A difference turned round is a unit when the difference is.             *)
LEMMA DifferenceTurned ==
  ASSUME RingLaws, NEW x \in Ring, NEW y \in Ring
  PROVE  Minus(y, x) = Times(MinusOne, Minus(x, y)) /\ (IsUnit(Minus(x, y)) => IsUnit(Minus(y, x)))
<1>1. /\ MinusOne \in Ring /\ Minus(x, y) \in Ring /\ Minus(y, x) \in Ring
      /\ OfInteger(1) \in Ring /\ 0 \in Ring
  BY DifferenceAsSum DEF RingLaws, Closed
<1>2. Plus(Minus(y, x), Minus(x, y)) = 0
  <2>1. Plus(Minus(y, x), Minus(x, y)) = Minus(Plus(y, x), Plus(x, y))
    BY DifferenceOfSums
  <2>2. Plus(y, x) = Plus(x, y) /\ Plus(x, y) \in Ring
    BY DEF RingLaws, Closed, Additive
  <2> QED
    BY <2>1, <2>2, DifferenceZero
<1>3. Plus(Times(MinusOne, Minus(x, y)), Minus(x, y)) = 0
  <2>1. Minus(Minus(x, y), Minus(x, y)) = Plus(Minus(x, y), Times(MinusOne, Minus(x, y)))
    BY <1>1, DifferenceAsSum
  <2>2. Minus(Minus(x, y), Minus(x, y)) = 0
    BY <1>1, DifferenceZero
  <2>3. Times(MinusOne, Minus(x, y)) \in Ring
    BY <1>1 DEF RingLaws, Closed
  <2> QED
    BY <1>1, <2>1, <2>2, <2>3 DEF RingLaws, Additive
<1>4. Minus(y, x) = Times(MinusOne, Minus(x, y))
  <2>1. Times(MinusOne, Minus(x, y)) \in Ring
    BY <1>1 DEF RingLaws, Closed
  <2> QED
    BY <1>1, <1>2, <1>3, <2>1, SumCancels
<1>5. IsUnit(MinusOne)
  <2>1. Times(MinusOne, MinusOne) = OfInteger(1)
    <3>1. Minus(0, MinusOne) = Plus(0, Times(MinusOne, MinusOne))
      BY <1>1, DifferenceAsSum
    <3>2. Plus(OfInteger(1), MinusOne) = 0
      BY <1>1 DEF RingLaws, Additive, MinusOne
    <3>3. Minus(0, MinusOne) = OfInteger(1)
      BY <1>1, <3>2, DifferenceIs
    <3>4. Times(MinusOne, MinusOne) \in Ring
      BY <1>1 DEF RingLaws, Closed
    <3>5. Plus(0, Times(MinusOne, MinusOne)) = Times(MinusOne, MinusOne)
      BY <1>1, <3>4 DEF RingLaws, Additive
    <3> QED
      BY <3>1, <3>3, <3>5
  <2> QED
    BY <1>1, <2>1, InverseIs
<1> QED
  BY <1>1, <1>4, <1>5, UnitProduct

(* Products of units, of units and zeros, and with a zero among them.      *)
LEMMA ProductOfUnits ==
  ASSUME RingLaws, NEW n \in Nat, NEW f, \A i \in 0 .. n - 1 : f[i] \in Ring /\ IsUnit(f[i])
  PROVE  IsUnit(RingProduct(f, n))
<1> DEFINE P == {m \in 0 .. n : IsUnit(RingProduct(f, m))}
<1>1. 0 \in P
  BY ProductSteps, OneIsUnit
<1>2. ASSUME NEW m \in P, m < n PROVE m + 1 \in P
  <2>1. m \in 0 .. n - 1 /\ m \in 0 .. n /\ m + 1 \in 0 .. n
    BY <1>2
  <2>2. RingProduct(f, m + 1) = Times(RingProduct(f, m), f[m]) /\ RingProduct(f, m) \in Ring
    BY <2>1, ProductSteps
  <2>3. f[m] \in Ring /\ IsUnit(f[m]) /\ IsUnit(RingProduct(f, m))
    BY <2>1
  <2> QED
    BY <2>1, <2>2, <2>3, UnitProduct
<1>3. P = 0 .. n
  <2>1. P \in SUBSET (0 .. n)
    OBVIOUS
  <2> HIDE DEF P
  <2> QED
    BY <1>1, <1>2, <2>1, InductionUpTo
<1> QED
  BY <1>3

(* A product with a factor 0 is 0.                                         *)
LEMMA ProductVanishes ==
  ASSUME RingLaws, NEW n \in Nat, NEW f, \A i \in 0 .. n - 1 : f[i] \in Ring,
         NEW k \in 0 .. n - 1, f[k] = 0
  PROVE  RingProduct(f, n) = 0
<1> DEFINE P == {m \in 0 .. n : m > k => RingProduct(f, m) = 0}
<1>1. 0 \in P
  OBVIOUS
<1>2. ASSUME NEW m \in P, m < n PROVE m + 1 \in P
  <2>1. m \in 0 .. n - 1 /\ m \in 0 .. n /\ m + 1 \in 0 .. n
    BY <1>2
  <2>2. RingProduct(f, m + 1) = Times(RingProduct(f, m), f[m]) /\ RingProduct(f, m) \in Ring
    BY <2>1, ProductSteps
  <2>3. CASE m > k
    <3>1. RingProduct(f, m) = 0 /\ f[m] \in Ring
      BY <2>1, <2>3
    <3> QED
      BY <2>1, <2>2, <3>1, TimesZero
  <2>4. CASE m = k
    BY <2>1, <2>2, <2>4, TimesZero
  <2>5. CASE m < k
    BY <2>1, <2>5
  <2> QED
    BY <2>1, <2>3, <2>4, <2>5
<1>3. P = 0 .. n
  <2>1. P \in SUBSET (0 .. n)
    OBVIOUS
  <2> HIDE DEF P
  <2> QED
    BY <1>1, <1>2, <2>1, InductionUpTo
<1> QED
  BY <1>3

(* A product of units and zeros is a unit or 0.                            *)
LEMMA ProductZeroOrUnit ==
  ASSUME RingLaws, NEW n \in Nat, NEW f,
         \A i \in 0 .. n - 1 : f[i] \in Ring /\ (f[i] = 0 \/ IsUnit(f[i]))
  PROVE  RingProduct(f, n) = 0 \/ IsUnit(RingProduct(f, n))
<1>1. CASE \E k \in 0 .. n - 1 : f[k] = 0
  BY <1>1, ProductVanishes
<1>2. CASE \A k \in 0 .. n - 1 : f[k] # 0
  BY <1>2, ProductOfUnits
<1> QED
  BY <1>1, <1>2

-----------------------------------------------------------------------------
(* Evaluation *)

(* Coefficient sequences; a polynomial uses as many of them as it has.     *)
Coeffs == [Nat -> Ring]

(* The coefficients from s on.                                             *)
Shift(c, s) == [t \in Nat |-> c[s + t]]

Terms(c, x) == [t \in Nat |-> Times(c[t], Power(x, t))]

(* The value at x of the polynomial with the first n of the coefficients.  *)
Value(c, n, x) == RingSum(Terms(c, x), n)

(* The terms of a polynomial at a point of the ring are in the ring.       *)
LEMMA TermsInRing ==
  ASSUME RingLaws, NEW c \in Coeffs, NEW x \in Ring, NEW t \in Nat
  PROVE  Terms(c, x)[t] = Times(c[t], Power(x, t)) /\ Terms(c, x)[t] \in Ring
<1>1. Power(x, t) \in Ring /\ c[t] \in Ring
  BY PowerSteps DEF Coeffs
<1> QED
  BY <1>1 DEF Terms, RingLaws, Closed

(* Leaving out the first s coefficients leaves coefficients.               *)
LEMMA ShiftInRing ==
  ASSUME NEW c \in Coeffs, NEW s \in Nat
  PROVE  Shift(c, s) \in Coeffs /\ \A t \in Nat : Shift(c, s)[t] = c[s + t]
  BY DEF Shift, Coeffs

(* The value with one coefficient more has one term more.                  *)
LEMMA ValueSteps ==
  ASSUME RingLaws, NEW c \in Coeffs, NEW x \in Ring, NEW n \in Nat
  PROVE  /\ Value(c, n, x) \in Ring
         /\ Value(c, 0, x) = 0
         /\ Value(c, n + 1, x) = Plus(Value(c, n, x), Times(c[n], Power(x, n)))
<1>1. n + 1 \in Nat /\ n \in 0 .. (n + 1) - 1 /\ n \in 0 .. n + 1
  OBVIOUS
<1>2. \A i \in 0 .. (n + 1) - 1 : Terms(c, x)[i] \in Ring
  BY TermsInRing
<1>3. Terms(c, x)[n] = Times(c[n], Power(x, n))
  BY TermsInRing
<1> QED
  BY <1>1, <1>2, <1>3, SumSteps DEF Value

(* Values of sums and of multiples of coefficients.                        *)
LEMMA ValueSame ==
  ASSUME RingLaws, NEW c \in Coeffs, NEW d \in Coeffs, NEW x \in Ring,
         NEW n \in Nat, \A i \in 0 .. n - 1 : c[i] = d[i]
  PROVE  Value(c, n, x) = Value(d, n, x)
<1>1. \A i \in 0 .. n - 1 : Terms(c, x)[i] \in Ring /\ Terms(c, x)[i] = Terms(d, x)[i]
  BY TermsInRing
<1> QED
  BY <1>1, SumSame DEF Value

(* The value of a sum of polynomials is the sum of their values.           *)
LEMMA ValueOfSum ==
  ASSUME RingLaws, NEW c \in Coeffs, NEW d \in Coeffs, NEW e \in Coeffs,
         NEW x \in Ring, NEW n \in Nat, \A i \in 0 .. n - 1 : e[i] = Plus(c[i], d[i])
  PROVE  Value(e, n, x) = Plus(Value(c, n, x), Value(d, n, x))
<1>1. ASSUME NEW i \in 0 .. n - 1
      PROVE  /\ Terms(c, x)[i] \in Ring /\ Terms(d, x)[i] \in Ring
             /\ Terms(e, x)[i] = Plus(Terms(c, x)[i], Terms(d, x)[i])
  <2>1. c[i] \in Ring /\ d[i] \in Ring /\ Power(x, i) \in Ring /\ e[i] = Plus(c[i], d[i])
    BY PowerSteps DEF Coeffs
  <2>2. Times(Plus(c[i], d[i]), Power(x, i)) = Plus(Times(c[i], Power(x, i)), Times(d[i], Power(x, i)))
    <3>1. Plus(c[i], d[i]) \in Ring
      BY <2>1 DEF RingLaws, Closed
    <3> QED
      BY <2>1, <3>1 DEF RingLaws, Multiplicative, Distributive
  <2> QED
    BY <2>1, <2>2, TermsInRing
<1> QED
  BY <1>1, SumOfSums DEF Value

(* The value of a multiple is the multiple of the value.                   *)
LEMMA ValueOfMultiple ==
  ASSUME RingLaws, NEW c \in Coeffs, NEW e \in Coeffs, NEW a \in Ring,
         NEW x \in Ring, NEW n \in Nat, \A i \in 0 .. n - 1 : e[i] = Times(a, c[i])
  PROVE  Value(e, n, x) = Times(a, Value(c, n, x))
<1>1. ASSUME NEW i \in 0 .. n - 1
      PROVE  Terms(c, x)[i] \in Ring /\ Terms(e, x)[i] = Times(a, Terms(c, x)[i])
  <2>1. c[i] \in Ring /\ Power(x, i) \in Ring /\ e[i] = Times(a, c[i])
    BY PowerSteps DEF Coeffs
  <2>2. Times(Times(a, c[i]), Power(x, i)) = Times(a, Times(c[i], Power(x, i)))
    BY <2>1 DEF RingLaws, Multiplicative
  <2> QED
    BY <2>1, <2>2, TermsInRing
<1> QED
  BY <1>1, SumOfMultiples DEF Value

(* The low and the high coefficients; the first coefficient and the rest.  *)
LEMMA ValueSplit ==
  ASSUME RingLaws, NEW c \in Coeffs, NEW x \in Ring, NEW n \in Nat, NEW m \in Nat
  PROVE  Value(c, n + m, x) = Plus(Value(c, n, x), Times(Power(x, n), Value(Shift(c, n), m, x)))
<1> DEFINE g == [t \in Nat |-> Terms(c, x)[n + t]]
<1>1. Shift(c, n) \in Coeffs /\ \A t \in Nat : Shift(c, n)[t] = c[n + t]
  BY ShiftInRing
<1>2. Power(x, n) \in Ring
  BY PowerSteps
<1>3. ASSUME NEW i \in 0 .. m - 1
      PROVE  Terms(Shift(c, n), x)[i] \in Ring /\ g[i] = Times(Power(x, n), Terms(Shift(c, n), x)[i])
  <2>1. i \in Nat /\ n + i \in Nat /\ c[n + i] \in Ring /\ Power(x, i) \in Ring
    BY PowerSteps DEF Coeffs
  <2>2. Terms(Shift(c, n), x)[i] = Times(c[n + i], Power(x, i)) /\ Terms(Shift(c, n), x)[i] \in Ring
    BY <1>1, <2>1, TermsInRing
  <2>3. g[i] = Times(c[n + i], Power(x, n + i))
    BY <2>1, TermsInRing
  <2>4. Power(x, n + i) = Times(Power(x, n), Power(x, i))
    BY <2>1, PowerAdds
  <2>5. Times(c[n + i], Times(Power(x, n), Power(x, i))) = Times(Power(x, n), Times(c[n + i], Power(x, i)))
    BY <1>2, <2>1 DEF RingLaws, Closed, Multiplicative, Coeffs
  <2> QED
    BY <2>2, <2>3, <2>4, <2>5
<1>4. RingSum(g, m) = Times(Power(x, n), Value(Shift(c, n), m, x))
  <2> HIDE DEF g
  <2> QED
    BY <1>2, <1>3, SumOfMultiples DEF Value
<1>5. \A i \in 0 .. n + m - 1 : Terms(c, x)[i] \in Ring
  BY TermsInRing
<1>6. \A i \in 0 .. m - 1 : g[i] = Terms(c, x)[n + i]
  OBVIOUS
<1> HIDE DEF g
<1> QED
  BY <1>4, <1>5, <1>6, SumSplit DEF Value

(* The first coefficient taken out: c(x) is c[0] + x times the rest at x.  *)
LEMMA ValueFirst ==
  ASSUME RingLaws, NEW c \in Coeffs, NEW x \in Ring, NEW m \in Nat
  PROVE  Value(c, m + 1, x) = Plus(c[0], Times(x, Value(Shift(c, 1), m, x)))
<1>1. Value(c, 1 + m, x) = Plus(Value(c, 1, x), Times(Power(x, 1), Value(Shift(c, 1), m, x)))
  BY ValueSplit
<1>2. Power(x, 1) = x
  BY PowerFirst
<1>3. Value(c, 0 + 1, x) = Plus(Value(c, 0, x), Times(c[0], Power(x, 0))) /\ Value(c, 0, x) = 0
  BY ValueSteps
<1>4. Power(x, 0) = OfInteger(1) /\ Times(c[0], OfInteger(1)) = c[0]
  BY PowerSteps DEF RingLaws, Multiplicative, Coeffs
<1>5. Plus(0, c[0]) = c[0]
  BY DEF RingLaws, Closed, Additive, Coeffs
<1>6. 0 + 1 = 1 /\ 1 + m = m + 1
  OBVIOUS
<1> QED
  BY <1>1, <1>2, <1>3, <1>4, <1>5, <1>6

(* Leading zeros do not count.                                             *)
LEMMA ValueLeadingZeros ==
  ASSUME RingLaws, NEW c \in Coeffs, NEW x \in Ring, NEW n \in Nat, NEW m \in Nat,
         n <= m, \A i \in n .. m - 1 : c[i] = 0
  PROVE  Value(c, m, x) = Value(c, n, x)
<1> DEFINE k == m - n
<1>1. k \in Nat /\ n + k = m
  OBVIOUS
<1>2. Shift(c, n) \in Coeffs /\ \A t \in Nat : Shift(c, n)[t] = c[n + t]
  BY ShiftInRing
<1>3. \A i \in 0 .. k - 1 : Terms(Shift(c, n), x)[i] = 0
  <2> SUFFICES ASSUME NEW i \in 0 .. k - 1 PROVE Terms(Shift(c, n), x)[i] = 0
    OBVIOUS
  <2>1. i \in Nat /\ n + i \in n .. m - 1 /\ Power(x, i) \in Ring
    BY PowerSteps
  <2> QED
    BY <1>2, <2>1, TermsInRing, TimesZero
<1> HIDE DEF k
<1>4. Value(Shift(c, n), k, x) = 0
  BY <1>1, <1>3, SumOfZeros DEF Value
<1>5. Value(c, n + k, x) = Plus(Value(c, n, x), Times(Power(x, n), Value(Shift(c, n), k, x)))
  BY <1>1, ValueSplit
<1>6. Value(c, n, x) \in Ring /\ Power(x, n) \in Ring
  BY ValueSteps, PowerSteps
<1>7. Plus(Value(c, n, x), Times(Power(x, n), 0)) = Value(c, n, x)
  BY <1>6, TimesZero DEF RingLaws, Additive
<1> QED
  BY <1>1, <1>4, <1>5, <1>7

(* Shifts add up.                                                          *)
LEMMA ShiftTwice ==
  ASSUME NEW c \in Coeffs, NEW s \in Nat, NEW t \in Nat
  PROVE  Shift(Shift(c, s), t) = Shift(c, s + t)
<1>1. \A i \in Nat : t + i \in Nat /\ s + (t + i) = (s + t) + i
  OBVIOUS
<1> QED
  BY <1>1 DEF Shift

(* The value of n coefficients from s on: the first and the rest, the      *)
(* first n and the m that follow.                                          *)
LEMMA ValueFrom ==
  ASSUME RingLaws, NEW c \in Coeffs, NEW x \in Ring, NEW s \in Nat, NEW n \in Nat
  PROVE  /\ Value(Shift(c, s), n, x) \in Ring /\ Value(Shift(c, s), 0, x) = 0
         /\ Value(Shift(c, s), n + 1, x) = Plus(Times(Value(Shift(c, s + 1), n, x), x), c[s])
         /\ \A m \in Nat : Value(Shift(c, s), n + m, x)
              = Plus(Times(Value(Shift(c, s + n), m, x), Power(x, n)), Value(Shift(c, s), n, x))
<1> DEFINE V(t, k) == Value(Shift(c, t), k, x)
<1>1. Shift(c, s) \in Coeffs /\ Shift(c, s)[0] = c[s]
  BY ShiftInRing
<1>2. V(s, n) \in Ring /\ V(s, 0) = 0
  BY <1>1, ValueSteps
<1>3. ASSUME NEW t \in Nat, NEW k \in Nat
      PROVE  Shift(Shift(c, s), t) = Shift(c, s + t) /\ V(s + t, k) \in Ring
  <2>1. s + t \in Nat
    OBVIOUS
  <2>2. Shift(c, s + t) \in Coeffs
    BY <2>1, ShiftInRing
  <2> QED
    BY <2>2, ShiftTwice, ValueSteps
<1>4. V(s, n + 1) = Plus(Times(V(s + 1, n), x), c[s])
  <2>1. V(s, n + 1) = Plus(c[s], Times(x, V(s + 1, n)))
    <3>1. Value(Shift(c, s), n + 1, x) = Plus(Shift(c, s)[0], Times(x, Value(Shift(Shift(c, s), 1), n, x)))
      BY <1>1, ValueFirst
    <3> QED
      BY <1>1, <1>3, <3>1
  <2>2. c[s] \in Ring /\ V(s + 1, n) \in Ring
    BY <1>3 DEF Coeffs
  <2> HIDE DEF V
  <2>3. Plus(c[s], Times(x, V(s + 1, n))) = Plus(Times(V(s + 1, n), x), c[s])
    BY <2>2 DEF RingLaws, Closed, Additive, Multiplicative, Coeffs
  <2> QED
    BY <2>1, <2>3
<1>5. ASSUME NEW m \in Nat
      PROVE  V(s, n + m) = Plus(Times(V(s + n, m), Power(x, n)), V(s, n))
  <2>1. V(s, n + m) = Plus(V(s, n), Times(Power(x, n), V(s + n, m)))
    BY <1>1, <1>3, ValueSplit
  <2>2. Power(x, n) \in Ring /\ V(s + n, m) \in Ring
    BY <1>3, PowerSteps
  <2> HIDE DEF V
  <2>3. Plus(V(s, n), Times(Power(x, n), V(s + n, m))) = Plus(Times(V(s + n, m), Power(x, n)), V(s, n))
    BY <1>2, <2>2 DEF RingLaws, Closed, Additive, Multiplicative
  <2> QED
    BY <2>1, <2>3
<1> QED
  BY <1>2, <1>4, <1>5

(* What Horner builds, from the last coefficient down.                     *)
HornerValues(h, at, first, n, x) ==
  h = [k \in 0 .. n |-> IF k = 0 THEN 0 ELSE Plus(Times(h[k - 1], x), at[first + n - k])]

(* Horner's rule gives the value at x.                                     *)
LEMMA HornerIsValue ==
  ASSUME RingLaws, NEW c \in Coeffs, NEW x \in Ring, NEW first \in Nat, NEW n \in Nat,
         NEW at, \A i \in Nat : first <= i /\ i < first + n => at[i] = c[i]
  PROVE  Horner(at, first, n, x) = Value(Shift(c, first), n, x)
<1> DEFINE V(t, k) == Value(Shift(c, t), k, x)
           w == [k \in 0 .. n |-> V(first + n - k, k)]
<1>1. ASSUME NEW k \in 0 .. n - 1
      PROVE  V(first + n - (k + 1), k + 1) = Plus(Times(V(first + n - k, k), x), at[first + n - (k + 1)])
  <2> DEFINE s == first + n - (k + 1)
  <2>1. s \in Nat /\ k \in Nat /\ s + 1 = first + n - k /\ first <= s /\ s < first + n
    OBVIOUS
  <2> HIDE DEF s
  <2>2. V(s, k + 1) = Plus(Times(V(s + 1, k), x), c[s])
    BY <2>1, ValueFrom
  <2> HIDE DEF V
  <2> QED
    BY <2>1, <2>2 DEF s
<1>2. V(first + n - 0, 0) = 0
  <2>1. first + n - 0 \in Nat
    OBVIOUS
  <2> QED
    BY <2>1, ValueFrom
<1>3. w[0] = 0 /\ w[n] = V(first, n)
  <2>1. first + n - n = first /\ 0 \in 0 .. n /\ n \in 0 .. n
    OBVIOUS
  <2> HIDE DEF V
  <2> QED
    BY <1>2, <2>1
<1>4. ASSUME NEW k \in 0 .. n - 1
      PROVE  w[k + 1] = Plus(Times(w[k], x), at[first + n - (k + 1)])
  <2>1. k \in 0 .. n /\ k + 1 \in 0 .. n
    OBVIOUS
  <2> HIDE DEF V
  <2> QED
    BY <1>1, <2>1
<1>5. w = [k \in 0 .. n |-> w[k]]
  OBVIOUS
<1> HIDE DEF w, V
<1>6. ASSUME NEW h, HornerValues(h, at, first, n, x) PROVE h[n] = V(first, n)
  <2>1. h[0] = w[0]
    BY <1>3, <1>6 DEF HornerValues
  <2>2. ASSUME NEW i \in 0 .. n - 1, h[i] = w[i] PROVE h[i + 1] = w[i + 1]
    <3>1. i + 1 \in 0 .. n /\ i + 1 # 0 /\ (i + 1) - 1 = i
      OBVIOUS
    <3>2. h[i + 1] = Plus(Times(h[i], x), at[first + n - (i + 1)])
      BY <1>6, <3>1 DEF HornerValues
    <3> QED
      BY <1>4, <2>2, <3>2
  <2>3. \A i \in 0 .. n - 1 : h[i] = w[i] => h[i + 1] = w[i + 1]
    BY <2>2
  <2>4. \A i \in 0 .. n : h[i] = w[i]
    BY <2>1, <2>3, GoesOnAlike
  <2> QED
    BY <1>3, <2>4
<1>7. HornerValues(w, at, first, n, x)
  <2>1. ASSUME NEW k \in 0 .. n
        PROVE  w[k] = IF k = 0 THEN 0 ELSE Plus(Times(w[k - 1], x), at[first + n - k])
    <3>1. CASE k = 0
      BY <1>3, <3>1
    <3>2. CASE k # 0
      <4>1. k - 1 \in 0 .. n - 1 /\ (k - 1) + 1 = k
        BY <3>2
      <4>2. w[(k - 1) + 1] = Plus(Times(w[k - 1], x), at[first + n - ((k - 1) + 1)])
        BY <1>4, <4>1
      <4> QED
        BY <3>2, <4>1, <4>2
    <3> QED
      BY <3>1, <3>2
  <2>2. w = [k \in 0 .. n |-> IF k = 0 THEN 0 ELSE Plus(Times(w[k - 1], x), at[first + n - k])]
    BY <1>5, <2>1
  <2> QED
    BY <2>2 DEF HornerValues
<1>8. Horner(at, first, n, x) = (CHOOSE h : HornerValues(h, at, first, n, x))[n]
  BY DEF Horner, HornerValues
<1> QED
  BY <1>6, <1>7, <1>8 DEF V

(* What Evaluate builds, from the last block down.                         *)
BlockOf(f, x, b, blocks) ==
  Horner(f.at, 9 * b, IF b + 1 = blocks THEN f.size - 9 * b ELSE 9, x)

TotalValues(acc, f, x, blocks) ==
  acc = [m \in 0 .. blocks |->
           IF m = 0 THEN 0
           ELSE Plus(Times(acc[m - 1], Power(x, 9)), BlockOf(f, x, blocks - m, blocks))]

IsPolynomial(f) == f.size \in Nat /\ \A i \in 0 .. f.size - 1 : f.at[i] \in Ring

Coefficients(f) == [i \in Nat |-> IF i < f.size THEN f.at[i] ELSE 0]

(* The coefficients of a polynomial, with zeros after the last one.        *)
LEMMA CoefficientsInRing ==
  ASSUME RingLaws, NEW f, IsPolynomial(f)
  PROVE  Coefficients(f) \in Coeffs
<1>1. ASSUME NEW i \in Nat PROVE (IF i < f.size THEN f.at[i] ELSE 0) \in Ring
  BY DEF IsPolynomial, RingLaws, Closed
<1> QED
  BY <1>1 DEF Coefficients, Coeffs

(* Evaluate computes the value, nine coefficients at a time.               *)
LEMMA EvaluateIsValue ==
  ASSUME RingLaws, NEW f, IsPolynomial(f), NEW x \in Ring
  PROVE  Evaluate(f, x) = Value(Coefficients(f), f.size, x) /\ Evaluate(f, x) \in Ring
<1> DEFINE c == Coefficients(f)
           B == (f.size + 8) \div 9
           V(s, n) == Value(Shift(c, s), n, x)
           w == [m \in 0 .. B |-> IF m = 0 THEN 0 ELSE V(9 * (B - m), f.size - 9 * (B - m))]
<1>1. /\ c \in Coeffs /\ f.size \in Nat /\ B \in Nat
      /\ f.size <= 9 * B /\ 9 * B <= f.size + 8
  <2>1. f.size \in Nat
    BY DEF IsPolynomial
  <2> QED
    BY <2>1, CoefficientsInRing
<1>2. \A i \in 0 .. f.size - 1 : f.at[i] = c[i]
  BY <1>1 DEF Coefficients
<1>3. Evaluate(f, x) = (CHOOSE acc : TotalValues(acc, f, x, B))[B]
  BY DEF Evaluate, TotalValues, BlockOf
<1> HIDE DEF c, B
<1>4. ASSUME NEW m \in 0 .. B - 1
      PROVE  w[m + 1] = Plus(Times(w[m], Power(x, 9)), BlockOf(f, x, B - (m + 1), B))
  <2> DEFINE s == 9 * (B - (m + 1))
             k == f.size - s - 9
  <2>1. /\ s \in Nat /\ m + 1 \in 0 .. B /\ m \in 0 .. B /\ m + 1 # 0
        /\ f.size - s \in Nat /\ ((B - (m + 1)) + 1 = B <=> m = 0)
    BY <1>1
  <2>2. w[m + 1] = V(s, f.size - s)
    BY <2>1
  <2>3. Power(x, 9) \in Ring
    BY PowerSteps
  <2>4. CASE m = 0
    <3>1. BlockOf(f, x, B - (m + 1), B) = Horner(f.at, s, f.size - s, x)
      BY <2>1, <2>4 DEF BlockOf
    <3> DEFINE q == f.size - s
    <3>2. q \in Nat /\ \A i \in Nat : s <= i /\ i < s + q => f.at[i] = c[i]
      BY <1>1, <1>2, <2>1
    <3>3. Horner(f.at, s, f.size - s, x) = V(s, f.size - s)
      <4> HIDE DEF s, q
      <4>1. Horner(f.at, s, q, x) = V(s, q)
        BY <1>1, <2>1, <3>2, HornerIsValue
      <4> QED
        BY <4>1 DEF q
    <3> HIDE DEF s
    <3>4. V(s, f.size - s) \in Ring
      BY <1>1, <2>1, ValueFrom
    <3>5. w[m] = 0
      BY <2>1, <2>4
    <3>6. Plus(Times(0, Power(x, 9)), V(s, f.size - s)) = V(s, f.size - s)
      <4>1. Times(0, Power(x, 9)) = 0
        BY <2>3, TimesZero
      <4> HIDE DEF V
      <4> QED
        BY <3>4, <4>1 DEF RingLaws, Closed, Additive
    <3> QED
      BY <2>2, <3>1, <3>3, <3>5, <3>6
  <2>5. CASE m # 0
    <3>1. BlockOf(f, x, B - (m + 1), B) = Horner(f.at, s, 9, x)
      BY <2>1, <2>5 DEF BlockOf
    <3>2. /\ k \in Nat /\ 9 + k = f.size - s /\ s + 9 = 9 * (B - m) /\ k = f.size - 9 * (B - m)
          /\ \A i \in Nat : s <= i /\ i < s + 9 => f.at[i] = c[i]
      BY <1>1, <1>2, <2>1, <2>5
    <3>3. w[m] = V(s + 9, k)
      BY <2>1, <2>5, <3>2
    <3> HIDE DEF s, k, w
    <3>4. Horner(f.at, s, 9, x) = V(s, 9)
      <4> DEFINE q == 9
      <4>1. q \in Nat /\ \A i \in Nat : s <= i /\ i < s + q => f.at[i] = c[i]
        BY <3>2
      <4>2. s \in Nat
        BY <2>1
      <4> HIDE DEF q
      <4>3. Horner(f.at, s, q, x) = V(s, q)
        BY <1>1, <4>1, <4>2, HornerIsValue
      <4> QED
        BY <4>3 DEF q
    <3>5. V(s, 9 + k) = Plus(Times(V(s + 9, k), Power(x, 9)), V(s, 9))
      BY <1>1, <2>1, <3>2, ValueFrom
    <3> HIDE DEF V
    <3> QED
      BY <2>2, <3>1, <3>2, <3>3, <3>4, <3>5
  <2> QED
    BY <2>4, <2>5
<1>5. w = [m \in 0 .. B |-> w[m]] /\ w[0] = 0 /\ (B # 0 => w[B] = V(0, f.size))
  <2>1. 9 * (B - B) = 0 /\ f.size - 0 = f.size /\ B \in 0 .. B /\ 0 \in 0 .. B
    BY <1>1
  <2> HIDE DEF V
  <2> QED
    BY <2>1
<1> HIDE DEF w
<1>6. ASSUME NEW acc, TotalValues(acc, f, x, B) PROVE acc[B] = w[B]
  <2>1. acc[0] = w[0]
    BY <1>1, <1>5, <1>6 DEF TotalValues
  <2>2. ASSUME NEW i \in 0 .. B - 1, acc[i] = w[i] PROVE acc[i + 1] = w[i + 1]
    <3>1. i + 1 \in 0 .. B /\ i + 1 # 0 /\ (i + 1) - 1 = i
      BY <1>1
    <3>2. acc[i + 1] = Plus(Times(acc[i], Power(x, 9)), BlockOf(f, x, B - (i + 1), B))
      BY <1>6, <3>1 DEF TotalValues
    <3> QED
      BY <1>4, <2>2, <3>2
  <2> QED
    BY <1>1, <2>1, <2>2, GoesOnAlike, SMTT(30)
<1>7. TotalValues(w, f, x, B)
  <2>1. ASSUME NEW m \in 0 .. B
        PROVE  w[m] = IF m = 0 THEN 0 ELSE Plus(Times(w[m - 1], Power(x, 9)), BlockOf(f, x, B - m, B))
    <3>1. CASE m = 0
      BY <1>5, <3>1
    <3>2. CASE m # 0
      <4>1. m - 1 \in 0 .. B - 1 /\ (m - 1) + 1 = m
        BY <1>1, <3>2
      <4>2. w[(m - 1) + 1] = Plus(Times(w[m - 1], Power(x, 9)), BlockOf(f, x, B - ((m - 1) + 1), B))
        BY <1>4, <4>1
      <4> QED
        BY <3>2, <4>1, <4>2
    <3> QED
      BY <3>1, <3>2
  <2>2. w = [m \in 0 .. B |-> IF m = 0 THEN 0 ELSE Plus(Times(w[m - 1], Power(x, 9)), BlockOf(f, x, B - m, B))]
    BY <1>5, <2>1
  <2> QED
    BY <2>2 DEF TotalValues
<1>8. w[B] = Value(c, f.size, x)
  <2>1. CASE B = 0
    <3>1. f.size = 0
      BY <1>1, <2>1
    <3> QED
      BY <1>1, <1>5, <2>1, <3>1, ValueSteps
  <2>2. CASE B # 0
    <3>1. Shift(c, 0) = c
      <4>1. \A t \in Nat : 0 + t = t
        OBVIOUS
      <4> QED
        BY <1>1, <4>1 DEF Shift, Coeffs
    <3> QED
      BY <1>5, <2>2, <3>1
  <2> QED
    BY <2>1, <2>2
<1>9. Value(c, f.size, x) \in Ring
  BY <1>1, ValueSteps
<1> QED
  BY <1>3, <1>6, <1>7, <1>8, <1>9 DEF c

(* Tabulating changes nothing.                                             *)
LEMMA TabulatedIs ==
  ASSUME NEW f
  PROVE  Tabulated(f) = f
  BY DEF Tabulated

(* Trim drops leading zeros, and only them.                                *)
LEMMA TrimIs ==
  ASSUME NEW size \in Nat, NEW at
  PROVE  /\ Trim(size, at).size \in 0 .. size
         /\ Trim(size, at).at = [i \in 0 .. Trim(size, at).size - 1 |-> at[i]]
         /\ \A i \in Trim(size, at).size .. size - 1 : at[i] = 0
         /\ Trim(size, at).size = 0 \/ at[Trim(size, at).size - 1] # 0
<1> DEFINE zero(n) == \A i \in n .. size - 1 : at[i] = 0
           tops == {n \in 0 .. size : zero(n)}
<1>1. size \in tops
  OBVIOUS
<1>2. PICK n \in tops : \A m \in tops : n <= m
  <2>1. tops \in SUBSET Nat /\ tops # {}
    BY <1>1
  <2> HIDE DEF tops
  <2> QED
    BY <2>1, LeastElement
<1>3. n = 0 \/ at[n - 1] # 0
  <2> SUFFICES ASSUME n # 0, at[n - 1] = 0 PROVE FALSE
    OBVIOUS
  <2>1. n - 1 \in 0 .. size
    OBVIOUS
  <2>2. zero(n - 1)
    <3> SUFFICES ASSUME NEW i \in (n - 1) .. size - 1 PROVE at[i] = 0
      OBVIOUS
    <3>1. i = n - 1 \/ i \in n .. size - 1
      OBVIOUS
    <3> QED
      BY <3>1
  <2>3. n - 1 \in tops
    BY <2>1, <2>2
  <2> QED
    BY <1>2, <2>3
<1> DEFINE top == CHOOSE m \in 0 .. size : zero(m) /\ (m = 0 \/ at[m - 1] # 0)
<1>4. top \in 0 .. size /\ zero(top) /\ (top = 0 \/ at[top - 1] # 0)
  BY <1>2, <1>3
<1>5. Trim(size, at) = [size |-> top, at |-> Tabulated([i \in 0 .. top - 1 |-> at[i]])]
  BY DEF Trim
<1>6. Trim(size, at).size = top /\ Trim(size, at).at = [i \in 0 .. top - 1 |-> at[i]]
  BY <1>5, TabulatedIs
<1> QED
  BY <1>4, <1>6

(* The constructor's trimming keeps the coefficients and the values.       *)
LEMMA TrimCoefficients ==
  ASSUME RingLaws, NEW size \in Nat, NEW at, NEW c \in Coeffs,
         \A i \in Nat : i < size => at[i] = c[i]
  PROVE  /\ IsPolynomial(Trim(size, at))
         /\ \A i \in Nat : Coefficients(Trim(size, at))[i] = IF i < size THEN c[i] ELSE 0
         /\ \A x \in Ring : Evaluate(Trim(size, at), x) = Value(c, size, x)
<1> DEFINE t == Trim(size, at)
<1>1. /\ t.size \in 0 .. size /\ t.at = [i \in 0 .. t.size - 1 |-> at[i]]
      /\ \A i \in t.size .. size - 1 : at[i] = 0
  BY TrimIs
<1> HIDE DEF t
<1>2. IsPolynomial(t)
  <2>1. ASSUME NEW i \in 0 .. t.size - 1 PROVE t.at[i] \in Ring
    <3>1. i \in Nat /\ i < size
      BY <1>1
    <3> QED
      BY <1>1, <3>1 DEF Coeffs
  <2>2. t.size \in Nat
    BY <1>1
  <2> QED
    BY <2>1, <2>2 DEF IsPolynomial
<1>3. ASSUME NEW i \in Nat PROVE Coefficients(t)[i] = IF i < size THEN c[i] ELSE 0
  <2>1. CASE i < t.size
    BY <1>1, <2>1 DEF Coefficients
  <2>2. CASE ~(i < t.size)
    <3>1. Coefficients(t)[i] = 0
      BY <2>2 DEF Coefficients
    <3>2. i < size => c[i] = 0
      BY <1>1, <2>2
    <3> QED
      BY <3>1, <3>2
  <2> QED
    BY <2>1, <2>2
<1>4. ASSUME NEW x \in Ring PROVE Evaluate(t, x) = Value(c, size, x)
  <2>1. Evaluate(t, x) = Value(Coefficients(t), t.size, x)
    BY <1>2, EvaluateIsValue
  <2>2. Coefficients(t) \in Coeffs
    BY <1>2, CoefficientsInRing
  <2>3. Value(Coefficients(t), t.size, x) = Value(c, t.size, x)
    <3>1. \A i \in 0 .. t.size - 1 : Coefficients(t)[i] = c[i]
      BY <1>1, <1>3
    <3>2. t.size \in Nat
      BY <1>1
    <3> QED
      BY <2>2, <3>1, <3>2, ValueSame
  <2>4. Value(c, size, x) = Value(c, t.size, x)
    <3>1. \A i \in t.size .. size - 1 : c[i] = 0
      BY <1>1
    <3>2. t.size \in Nat /\ t.size <= size
      BY <1>1
    <3> QED
      BY <3>1, <3>2, ValueLeadingZeros
  <2> QED
    BY <2>1, <2>3, <2>4
<1> QED
  BY <1>2, <1>3, <1>4 DEF t

-----------------------------------------------------------------------------
(* Linear factors *)

(* The coefficients of X - a times the polynomial of w.                    *)
Linear(a, w) == [j \in Nat |-> Minus(IF j = 0 THEN 0 ELSE w[j - 1], Times(w[j], a))]

ZeroFrom(c, n) == \A j \in Nat : n <= j => c[j] = 0

(* The coefficients of (X - a) times w.                                    *)
LEMMA LinearInRing ==
  ASSUME RingLaws, NEW a \in Ring, NEW w \in Coeffs
  PROVE  /\ Linear(a, w) \in Coeffs
         /\ Linear(a, w)[0] = Minus(0, Times(w[0], a))
         /\ \A j \in Nat : Linear(a, w)[j + 1] = Minus(w[j], Times(w[j + 1], a))
         /\ \A n \in Nat : ZeroFrom(w, n) => ZeroFrom(Linear(a, w), n + 1)
<1>1. ASSUME NEW j \in Nat
      PROVE  Minus(IF j = 0 THEN 0 ELSE w[j - 1], Times(w[j], a)) \in Ring
  <2>1. (IF j = 0 THEN 0 ELSE w[j - 1]) \in Ring
    BY DEF RingLaws, Closed, Coeffs
  <2> QED
    BY <2>1 DEF RingLaws, Closed, Coeffs
<1>2. Linear(a, w) \in Coeffs
  BY <1>1 DEF Linear, Coeffs
<1>3. \A j \in Nat : Linear(a, w)[j + 1] = Minus(w[j], Times(w[j + 1], a))
  <2> SUFFICES ASSUME NEW j \in Nat PROVE Linear(a, w)[j + 1] = Minus(w[j], Times(w[j + 1], a))
    OBVIOUS
  <2>1. j + 1 \in Nat /\ j + 1 # 0 /\ (j + 1) - 1 = j
    OBVIOUS
  <2> QED
    BY <2>1 DEF Linear
<1>4. ASSUME NEW n \in Nat, ZeroFrom(w, n) PROVE ZeroFrom(Linear(a, w), n + 1)
  <2> SUFFICES ASSUME NEW j \in Nat, n + 1 <= j PROVE Linear(a, w)[j] = 0
    BY DEF ZeroFrom
  <2>1. j # 0 /\ j - 1 \in Nat /\ n <= j - 1 /\ n <= j
    OBVIOUS
  <2>2. w[j - 1] = 0 /\ w[j] = 0
    BY <1>4, <2>1 DEF ZeroFrom
  <2>3. Linear(a, w)[j] = Minus(0, Times(0, a))
    BY <2>1, <2>2 DEF Linear
  <2>4. Times(0, a) = 0 /\ 0 \in Ring
    BY TimesZero DEF RingLaws, Closed
  <2> QED
    BY <2>3, <2>4, DifferenceZero
<1>5. Linear(a, w)[0] = Minus(0, Times(w[0], a))
  BY DEF Linear
<1> QED
  BY <1>2, <1>3, <1>4, <1>5

(* Its value is the product of the values.                                 *)
LEMMA LinearValue ==
  ASSUME RingLaws, NEW a \in Ring, NEW w \in Coeffs, NEW n \in Nat,
         ZeroFrom(w, n), NEW z \in Ring
  PROVE  Value(Linear(a, w), n + 1, z) = Times(Minus(z, a), Value(w, n, z))
<1> DEFINE u == [j \in Nat |-> IF j = 0 THEN 0 ELSE w[j - 1]]
           b == Times(MinusOne, a)
           v == [j \in Nat |-> Times(b, w[j])]
           W == Value(w, n, z)
<1>1. MinusOne \in Ring /\ b \in Ring /\ 0 \in Ring
  BY DifferenceAsSum DEF RingLaws, Closed
<1>2. u \in Coeffs
  BY <1>1 DEF Coeffs
<1>3. v \in Coeffs
  BY <1>1 DEF RingLaws, Closed, Coeffs
<1>4. ASSUME NEW j \in 0 .. n PROVE Linear(a, w)[j] = Plus(u[j], v[j])
  <2>1. u[j] \in Ring /\ w[j] \in Ring /\ Times(w[j], a) \in Ring
    BY <1>2 DEF RingLaws, Closed, Coeffs
  <2>2. Linear(a, w)[j] = Minus(u[j], Times(w[j], a))
    BY DEF Linear
  <2>3. Minus(u[j], Times(w[j], a)) = Plus(u[j], Times(MinusOne, Times(w[j], a)))
    BY <2>1, DifferenceAsSum
  <2>4. Times(MinusOne, Times(w[j], a)) = Times(Times(MinusOne, a), w[j])
    BY <1>1, <2>1 DEF RingLaws, Multiplicative
  <2>5. v[j] = Times(b, w[j])
    OBVIOUS
  <2> QED
    BY <2>2, <2>3, <2>4, <2>5
<1>5. W \in Ring
  BY ValueSteps
<1> HIDE DEF u, v, b
<1>6. Value(Linear(a, w), n + 1, z) = Plus(Value(u, n + 1, z), Value(v, n + 1, z))
  <2> DEFINE k == n + 1
  <2>1. k \in Nat /\ \A j \in 0 .. k - 1 : Linear(a, w)[j] = Plus(u[j], v[j])
    BY <1>4
  <2>2. Linear(a, w) \in Coeffs
    BY LinearInRing
  <2> HIDE DEF k
  <2>3. Value(Linear(a, w), k, z) = Plus(Value(u, k, z), Value(v, k, z))
    BY <1>2, <1>3, <2>1, <2>2, ValueOfSum
  <2> QED
    BY <2>3 DEF k
<1>7. Value(u, n + 1, z) = Times(z, W)
  <2>1. Shift(u, 1) = w
    <3>1. ASSUME NEW t \in Nat PROVE u[1 + t] = w[t]
      <4>1. 1 + t \in Nat /\ 1 + t # 0 /\ (1 + t) - 1 = t
        OBVIOUS
      <4> QED
        BY <4>1 DEF u
    <3> QED
      BY <3>1 DEF Shift, Coeffs
  <2>2. u[0] = 0
    BY DEF u
  <2>3. Value(u, n + 1, z) = Plus(0, Times(z, W))
    BY <1>2, <2>1, <2>2, ValueFirst
  <2>4. Times(z, W) \in Ring
    BY <1>5 DEF RingLaws, Closed
  <2> QED
    BY <1>1, <2>3, <2>4 DEF RingLaws, Additive
<1>8. Value(v, n + 1, z) = Times(b, W)
  <2>1. Value(v, n + 1, z) = Times(b, Value(w, n + 1, z))
    <3> DEFINE k == n + 1
    <3>1. k \in Nat /\ \A j \in 0 .. k - 1 : v[j] = Times(b, w[j])
      BY DEF v
    <3> HIDE DEF k
    <3>2. Value(v, k, z) = Times(b, Value(w, k, z))
      BY <1>1, <1>3, <3>1, ValueOfMultiple
    <3> QED
      BY <3>2 DEF k
  <2>2. Value(w, n + 1, z) = W
    BY ValueLeadingZeros DEF ZeroFrom
  <2> QED
    BY <2>1, <2>2
<1>9. Plus(Times(z, W), Times(b, W)) = Times(Minus(z, a), W)
  <2>1. Minus(z, a) = Plus(z, b) /\ Plus(z, b) \in Ring
    BY <1>1, DifferenceAsSum DEF b, RingLaws, Closed
  <2> HIDE DEF W
  <2>2. Times(W, Plus(z, b)) = Plus(Times(W, z), Times(W, b))
    BY <1>1, <1>5 DEF RingLaws, Distributive
  <2>3. Times(W, z) = Times(z, W) /\ Times(W, b) = Times(b, W) /\ Times(W, Plus(z, b)) = Times(Plus(z, b), W)
    BY <1>1, <1>5, <2>1 DEF RingLaws, Multiplicative
  <2> QED
    BY <2>1, <2>2, <2>3
<1> QED
  BY <1>6, <1>7, <1>8, <1>9

(* What is left of the first n coefficients when X - a is divided out.     *)
Quotient(c, n, a) ==
  [j \in Nat |-> IF j + 1 < n THEN Value(Shift(c, j + 1), n - (j + 1), a) ELSE 0]

(* The quotient of c by X - a, coefficient by coefficient.                 *)
LEMMA QuotientSteps ==
  ASSUME RingLaws, NEW c \in Coeffs, NEW a \in Ring, NEW n \in Nat
  PROVE  /\ Quotient(c, n + 1, a) \in Coeffs /\ ZeroFrom(Quotient(c, n + 1, a), n)
         /\ Value(c, n + 1, a) = Plus(Times(Quotient(c, n + 1, a)[0], a), c[0])
         /\ \A j \in Nat : j < n =>
              Quotient(c, n + 1, a)[j] = Plus(Times(Quotient(c, n + 1, a)[j + 1], a), c[j + 1])
<1> DEFINE V(s, k) == Value(Shift(c, s), k, a)
           q == Quotient(c, n + 1, a)
<1>1. ASSUME NEW j \in Nat PROVE q[j] = IF j < n THEN V(j + 1, n - j) ELSE 0
  <2>1. (j + 1 < n + 1 <=> j < n) /\ (n + 1) - (j + 1) = n - j
    OBVIOUS
  <2> DEFINE r(i) == IF i + 1 < n + 1 THEN V(i + 1, (n + 1) - (i + 1)) ELSE 0
  <2>2. q = [i \in Nat |-> r(i)]
    BY DEF Quotient
  <2> HIDE DEF q, V
  <2>3. r(j) = IF j < n THEN V(j + 1, n - j) ELSE 0
    BY <2>1
  <2> HIDE DEF r
  <2> QED
    BY <2>2, <2>3
<1>2. \A s, k \in Nat : V(s, k) \in Ring /\ V(s, 0) = 0 /\ V(s, k + 1) = Plus(Times(V(s + 1, k), a), c[s])
  BY ValueFrom, ZenonT(60)
<1>3. q \in Coeffs
  <2>1. ASSUME NEW j \in Nat PROVE q[j] \in Ring
    <3>1. j < n => j + 1 \in Nat /\ n - j \in Nat
      OBVIOUS
    <3> HIDE DEF V, q
    <3> QED
      BY <1>1, <1>2, <3>1 DEF RingLaws, Closed
  <2>2. q = [j \in Nat |-> q[j]]
    BY DEF Quotient
  <2> HIDE DEF q
  <2> QED
    BY <2>1, <2>2 DEF Coeffs
<1>4. Value(c, n + 1, a) = V(0, n + 1)
  <2>1. Shift(c, 0) = c
    <3>1. \A t \in Nat : 0 + t = t
      OBVIOUS
    <3> QED
      BY <3>1 DEF Shift, Coeffs
  <2> QED
    BY <2>1
<1> HIDE DEF V, q
<1>5. ASSUME NEW j \in Nat, j <= n PROVE q[j] = V(j + 1, n - j)
  <2>1. CASE j < n
    BY <1>1, <2>1
  <2>2. CASE j = n
    <3>1. n - j = 0 /\ j + 1 \in Nat /\ ~(j < n)
      BY <2>2
    <3> QED
      BY <1>1, <1>2, <3>1
  <2> QED
    BY <1>5, <2>1, <2>2
<1>6. V(0, n + 1) = Plus(Times(q[0], a), c[0])
  <2>1. 0 + 1 = 1 /\ n - 0 = n /\ 0 <= n
    OBVIOUS
  <2>2. q[0] = V(1, n)
    BY <1>5, <2>1
  <2> QED
    BY <1>2, <2>1, <2>2
<1>7. ASSUME NEW j \in Nat, j < n PROVE q[j] = Plus(Times(q[j + 1], a), c[j + 1])
  <2>1. j + 1 \in Nat /\ j <= n /\ j + 1 <= n /\ n - (j + 1) \in Nat /\ n - j = (n - (j + 1)) + 1
    BY <1>7
  <2>2. q[j] = V(j + 1, (n - (j + 1)) + 1) /\ q[j + 1] = V((j + 1) + 1, n - (j + 1))
    BY <1>5, <2>1
  <2> QED
    BY <1>2, <2>1, <2>2
<1>8. ZeroFrom(q, n)
  BY <1>1 DEF ZeroFrom
<1> QED
  BY <1>3, <1>4, <1>6, <1>7, <1>8 DEF q

(* Division by X - a leaves the value at a.                                *)
LEMMA DivisionByLinear ==
  ASSUME RingLaws, NEW c \in Coeffs, NEW a \in Ring, NEW n \in Nat
  PROVE  LET q == Quotient(c, n + 1, a)
         IN  /\ c[0] = Plus(Linear(a, q)[0], Value(c, n + 1, a))
             /\ \A j \in Nat : j < n => c[j + 1] = Linear(a, q)[j + 1]
             /\ \A z \in Ring : Value(c, n + 1, z)
                  = Plus(Times(Minus(z, a), Value(q, n, z)), Value(c, n + 1, a))
<1> DEFINE q == Quotient(c, n + 1, a)
           w == Linear(a, q)
           r == Value(c, n + 1, a)
           e == [j \in Nat |-> IF j = 0 THEN r ELSE 0]
<1>1. /\ q \in Coeffs /\ ZeroFrom(q, n) /\ r = Plus(Times(q[0], a), c[0])
      /\ \A j \in Nat : j < n => q[j] = Plus(Times(q[j + 1], a), c[j + 1])
  BY QuotientSteps
<1>2. r \in Ring /\ 0 \in Ring
  <2> DEFINE k == n + 1
  <2>1. k \in Nat
    OBVIOUS
  <2> HIDE DEF k
  <2>2. Value(c, k, a) \in Ring
    BY <2>1, ValueSteps
  <2> QED
    BY <2>2 DEF k, RingLaws, Closed
<1>3. e \in Coeffs
  BY <1>2 DEF Coeffs
<1> HIDE DEF q, r
<1>4. /\ w \in Coeffs /\ w[0] = Minus(0, Times(q[0], a))
      /\ \A j \in Nat : w[j + 1] = Minus(q[j], Times(q[j + 1], a))
  BY <1>1, LinearInRing
<1> HIDE DEF w, e
<1>5. c[0] = Plus(w[0], r)
  <2>1. q[0] \in Ring /\ c[0] \in Ring /\ Times(q[0], a) \in Ring /\ w[0] \in Ring
    BY <1>1, <1>4 DEF Coeffs, RingLaws, Closed
  <2>2. Plus(w[0], Times(q[0], a)) = 0
    BY <1>2, <1>4, <2>1 DEF RingLaws, Additive
  <2>3. Plus(w[0], r) = Plus(Plus(w[0], Times(q[0], a)), c[0])
    BY <1>1, <2>1 DEF RingLaws, Additive
  <2> QED
    BY <1>2, <2>1, <2>2, <2>3 DEF RingLaws, Additive
<1>6. ASSUME NEW j \in Nat, j < n PROVE c[j + 1] = w[j + 1]
  <2>1. j + 1 \in Nat
    OBVIOUS
  <2>2. q[j + 1] \in Ring /\ c[j + 1] \in Ring /\ Times(q[j + 1], a) \in Ring /\ q[j] \in Ring
    BY <1>1, <2>1 DEF Coeffs, RingLaws, Closed
  <2>3. Plus(c[j + 1], Times(q[j + 1], a)) = q[j]
    BY <1>1, <1>6, <2>2 DEF RingLaws, Additive
  <2>4. Minus(q[j], Times(q[j + 1], a)) = c[j + 1]
    BY <2>2, <2>3, DifferenceIs
  <2> QED
    BY <1>4, <2>4
<1>7. ASSUME NEW z \in Ring PROVE Value(c, n + 1, z) = Plus(Times(Minus(z, a), Value(q, n, z)), r)
  <2> DEFINE k == n + 1
  <2>1. k \in Nat
    OBVIOUS
  <2>2. ASSUME NEW j \in 0 .. k - 1 PROVE c[j] = Plus(w[j], e[j])
    <3>1. CASE j = 0
      BY <1>5, <3>1 DEF e
    <3>2. CASE j # 0
      <4>1. j - 1 \in Nat /\ j - 1 < n /\ (j - 1) + 1 = j
        BY <3>2
      <4>2. c[j] = w[j]
        BY <1>6, <4>1
      <4>3. e[j] = 0 /\ w[j] \in Ring
        BY <1>4, <3>2, <4>1 DEF e, Coeffs
      <4> QED
        BY <4>2, <4>3 DEF RingLaws, Additive
    <3> QED
      BY <3>1, <3>2
  <2>3. Value(e, k, z) = r
    <3>1. \A i \in 1 .. k - 1 : e[i] = 0
      BY DEF e
    <3>2. 1 <= k /\ 1 \in Nat /\ 0 \in Nat
      OBVIOUS
    <3> HIDE DEF k
    <3>3. Value(e, k, z) = Value(e, 1, z)
      BY <1>3, <2>1, <3>1, <3>2, ValueLeadingZeros
    <3>4. Value(e, 0 + 1, z) = Plus(Value(e, 0, z), Times(e[0], Power(z, 0)))
      BY <1>3, <3>2, ValueSteps
    <3>5. Value(e, 0, z) = 0 /\ Power(z, 0) = OfInteger(1) /\ e[0] = r
      BY <1>3, <3>2, ValueSteps, PowerSteps DEF e
    <3>6. Times(r, OfInteger(1)) = r /\ Plus(0, r) = r
      BY <1>2 DEF RingLaws, Additive, Multiplicative
    <3>7. 0 + 1 = 1
      OBVIOUS
    <3> QED
      BY <3>3, <3>4, <3>5, <3>6, <3>7
  <2>4. Value(w, k, z) = Times(Minus(z, a), Value(q, n, z))
    BY <1>1, LinearValue DEF w
  <2> HIDE DEF k
  <2>5. Value(c, k, z) = Plus(Value(w, k, z), Value(e, k, z))
    BY <1>3, <1>4, <2>1, <2>2, ValueOfSum
  <2>6. Value(c, k, z) = Plus(Times(Minus(z, a), Value(q, n, z)), r)
    BY <2>3, <2>4, <2>5
  <2> QED
    BY <2>6 DEF k
<1> QED
  BY <1>5, <1>6, <1>7 DEF q, w, r

(* Dividing a product by X - a returns the other factor.                   *)
LEMMA QuotientOfLinear ==
  ASSUME RingLaws, NEW c \in Coeffs, NEW w \in Coeffs, NEW a \in Ring, NEW n \in Nat,
         ZeroFrom(w, n), \A j \in Nat : j <= n => c[j] = Linear(a, w)[j]
  PROVE  \A j \in Nat : j <= n => Quotient(c, n + 1, a)[j] = w[j]
<1> DEFINE q == Quotient(c, n + 1, a)
           s == [i \in 0 .. n |-> q[n - i]]
           t == [i \in 0 .. n |-> w[n - i]]
<1>1. /\ q \in Coeffs /\ ZeroFrom(q, n)
      /\ \A j \in Nat : j < n => q[j] = Plus(Times(q[j + 1], a), c[j + 1])
  BY QuotientSteps
<1>2. \A j \in Nat : Linear(a, w)[j + 1] = Minus(w[j], Times(w[j + 1], a))
  BY LinearInRing
<1> HIDE DEF q
<1>3. s[0] = t[0]
  BY <1>1 DEF ZeroFrom
<1>4. ASSUME NEW i \in 0 .. n - 1, s[i] = t[i] PROVE s[i + 1] = t[i + 1]
  <2> DEFINE j == n - (i + 1)
  <2>1. j \in Nat /\ j < n /\ j + 1 \in Nat /\ j + 1 <= n /\ n - i = j + 1 /\ i \in 0 .. n /\ i + 1 \in 0 .. n
    OBVIOUS
  <2>2. q[j + 1] = w[j + 1]
    BY <1>4, <2>1
  <2>3. s[i + 1] = q[j] /\ t[i + 1] = w[j]
    BY <2>1
  <2> HIDE DEF j, s, t
  <2>4. q[j] = Plus(Times(w[j + 1], a), Minus(w[j], Times(w[j + 1], a)))
    BY <1>1, <1>2, <2>1, <2>2
  <2>5. w[j] \in Ring /\ w[j + 1] \in Ring /\ Times(w[j + 1], a) \in Ring
    BY <2>1 DEF Coeffs, RingLaws, Closed
  <2>6. q[j] = w[j]
    <3> DEFINE u == Times(w[j + 1], a)
               d == Minus(w[j], u)
    <3>1. d \in Ring /\ Plus(d, u) = w[j] /\ u \in Ring
      BY <2>5 DEF RingLaws, Closed, Additive
    <3>2. q[j] = Plus(u, d)
      BY <2>4
    <3> HIDE DEF u, d
    <3> QED
      BY <3>1, <3>2 DEF RingLaws, Additive
  <2> QED
    BY <2>3, <2>6
<1>5. \A i \in 0 .. n - 1 : s[i] = t[i] => s[i + 1] = t[i + 1]
  BY <1>4
<1>6. ASSUME NEW j \in Nat, j <= n PROVE q[j] = w[j]
  <2>1. n - j \in 0 .. n /\ n - (n - j) = j
    BY <1>6
  <2>2. s[n - j] = q[j] /\ t[n - j] = w[j]
    BY <2>1
  <2> HIDE DEF s, t
  <2>3. \A i \in 0 .. n : s[i] = t[i]
    BY <1>3, <1>5, GoesOnAlike
  <2> QED
    BY <2>1, <2>2, <2>3
<1> QED
  BY <1>6 DEF q

-----------------------------------------------------------------------------
(* Roots *)

(* Points of the ring whose differences are units.                         *)
Apart(x, n) == (\A i \in 0 .. n - 1 : x[i] \in Ring) /\ Exceptional(x, n)

RootsOf(c, x, n) == \A i \in 0 .. n - 1 : Value(c, n, x[i]) = 0

(* n coefficients with n roots are zero.                                   *)
OnlyZero(n) ==
  \A c \in Coeffs : \A x : Apart(x, n) /\ RootsOf(c, x, n) => \A j \in 0 .. n - 1 : c[j] = 0

(* A polynomial with one root more is X minus that root times one with the *)
(* others.                                                                 *)
LEMMA FewRootsStep ==
  ASSUME RingLaws, NEW n \in Nat, OnlyZero(n)
  PROVE  OnlyZero(n + 1)
<1> SUFFICES ASSUME NEW c \in Coeffs, NEW x, Apart(x, n + 1), RootsOf(c, x, n + 1)
             PROVE  \A j \in 0 .. n : c[j] = 0
  BY DEF OnlyZero
<1> DEFINE a == x[n]
           q == Quotient(c, n + 1, a)
<1>1. a \in Ring /\ Value(c, n + 1, a) = 0
  BY DEF Apart, RootsOf
<1>2. \A i \in 0 .. n - 1 : x[i] \in Ring /\ IsUnit(Minus(x[i], a)) /\ Value(c, n + 1, x[i]) = 0
  BY DEF Apart, RootsOf, Exceptional
<1>3. Apart(x, n)
  BY DEF Apart, Exceptional
<1> HIDE DEF a
<1>4. /\ q \in Coeffs /\ ZeroFrom(q, n)
      /\ 0 = Plus(Times(q[0], a), c[0])
      /\ \A j \in Nat : j < n => q[j] = Plus(Times(q[j + 1], a), c[j + 1])
  BY <1>1, QuotientSteps
<1>5. \A z \in Ring : Value(c, n + 1, z) = Plus(Times(Minus(z, a), Value(q, n, z)), 0)
  BY <1>1, DivisionByLinear
<1> HIDE DEF q
<1>6. RootsOf(q, x, n)
  <2> SUFFICES ASSUME NEW i \in 0 .. n - 1 PROVE Value(q, n, x[i]) = 0
    BY DEF RootsOf
  <2> DEFINE v == Value(q, n, x[i])
             u == Minus(x[i], a)
  <2>1. x[i] \in Ring /\ u \in Ring /\ IsUnit(u) /\ 0 \in Ring
    BY <1>1, <1>2 DEF RingLaws, Closed
  <2>2. v \in Ring
    BY <1>4, <2>1, ValueSteps
  <2>3. 0 = Plus(Times(u, v), 0)
    BY <1>2, <1>5
  <2> HIDE DEF u, v
  <2>4. Times(u, v) \in Ring
    BY <2>1, <2>2 DEF RingLaws, Closed
  <2>5. Times(u, v) = Times(u, 0)
    BY <2>1, <2>3, <2>4, TimesZero DEF RingLaws, Additive
  <2>6. v = 0
    BY <2>1, <2>2, <2>5, UnitCancels
  <2> QED
    BY <2>6 DEF v
<1>7. \A j \in 0 .. n - 1 : q[j] = 0
  BY <1>3, <1>4, <1>6 DEF OnlyZero
<1>8. \A j \in Nat : q[j] = 0
  <2> SUFFICES ASSUME NEW j \in Nat PROVE q[j] = 0
    OBVIOUS
  <2>1. j \in 0 .. n - 1 \/ n <= j
    OBVIOUS
  <2> QED
    BY <1>4, <1>7, <2>1 DEF ZeroFrom
<1>9. Times(0, a) = 0 /\ \A j \in Nat : c[j] \in Ring /\ Plus(0, c[j]) = c[j]
  BY <1>1, TimesZero DEF RingLaws, Closed, Additive, Coeffs
<1>10. c[0] = 0
  BY <1>4, <1>8, <1>9
<1>11. ASSUME NEW j \in 0 .. n, j # 0 PROVE c[j] = 0
  <2>1. j - 1 \in Nat /\ j - 1 < n /\ (j - 1) + 1 = j
    BY <1>11
  <2>2. q[j - 1] = Plus(Times(q[j], a), c[j])
    BY <1>4, <2>1
  <2> QED
    BY <1>8, <1>9, <2>1, <2>2
<1> QED
  BY <1>10, <1>11

(* A polynomial of degree below n with n roots apart from each other is 0. *)
LEMMA FewRoots ==
  ASSUME RingLaws, NEW n \in Nat
  PROVE  OnlyZero(n)
<1> DEFINE P == {m \in Nat : OnlyZero(m)}
<1>1. 0 \in P
  BY DEF OnlyZero
<1>2. ASSUME NEW k \in P PROVE k + 1 \in P
  BY <1>2, FewRootsStep
<1> HIDE DEF P
<1>3. P = Nat
  <2>1. P \in SUBSET Nat
    BY DEF P
  <2> QED
    BY <1>1, <1>2, <2>1, SetInduction
<1> QED
  BY <1>3 DEF P

(* Coefficients that agree at as many points are the same.                 *)
LEMMA AgreeingValues ==
  ASSUME RingLaws, NEW n \in Nat, NEW c \in Coeffs, NEW d \in Coeffs, NEW x, Apart(x, n),
         \A i \in 0 .. n - 1 : Value(c, n, x[i]) = Value(d, n, x[i])
  PROVE  \A j \in 0 .. n - 1 : c[j] = d[j]
<1> DEFINE e == [j \in Nat |-> Times(MinusOne, d[j])]
           f == [j \in Nat |-> Plus(c[j], e[j])]
<1>1. MinusOne \in Ring
  BY DifferenceAsSum DEF RingLaws, Closed
<1>2. \A j \in Nat : c[j] \in Ring /\ d[j] \in Ring
  BY DEF Coeffs
<1>3. e \in Coeffs
  BY <1>1, <1>2 DEF Coeffs, RingLaws, Closed
<1> HIDE DEF e
<1>4. f \in Coeffs
  BY <1>2, <1>3 DEF Coeffs, RingLaws, Closed
<1>5. \A j \in 0 .. n - 1 : e[j] = Times(MinusOne, d[j]) /\ f[j] = Plus(c[j], e[j])
  BY DEF e
<1> HIDE DEF f
<1>6. RootsOf(f, x, n)
  <2> SUFFICES ASSUME NEW i \in 0 .. n - 1 PROVE Value(f, n, x[i]) = 0
    BY DEF RootsOf
  <2>1. x[i] \in Ring
    BY DEF Apart
  <2> DEFINE v == Value(c, n, x[i])
  <2>2. v \in Ring
    BY <2>1, ValueSteps
  <2>3. Value(f, n, x[i]) = Plus(v, Value(e, n, x[i]))
    BY <1>3, <1>4, <1>5, <2>1, ValueOfSum
  <2>4. Value(e, n, x[i]) = Times(MinusOne, v)
    <3>1. Value(e, n, x[i]) = Times(MinusOne, Value(d, n, x[i]))
      BY <1>1, <1>3, <1>5, <2>1, ValueOfMultiple
    <3> QED
      BY <3>1
  <2> HIDE DEF v
  <2>5. Minus(v, v) = Plus(v, Times(MinusOne, v)) /\ Minus(v, v) = 0
    BY <2>2, DifferenceAsSum, DifferenceZero
  <2> QED
    BY <2>3, <2>4, <2>5
<1>7. \A j \in 0 .. n - 1 : f[j] = 0
  BY <1>4, <1>6, FewRoots DEF OnlyZero
<1> QED
  <2> SUFFICES ASSUME NEW j \in 0 .. n - 1 PROVE c[j] = d[j]
    OBVIOUS
  <2>1. Plus(c[j], Times(MinusOne, d[j])) = 0 /\ c[j] \in Ring /\ d[j] \in Ring
    BY <1>2, <1>5, <1>7
  <2>2. Minus(c[j], d[j]) = 0
    BY <2>1, DifferenceAsSum
  <2> QED
    BY <2>1, <2>2, DifferenceZero

-----------------------------------------------------------------------------
(* Products of linear factors *)

Unity == [j \in Nat |-> IF j = 0 THEN OfInteger(1) ELSE 0]

WithFactor(c, x, n, skip, m) == IF m < n /\ m # skip THEN Linear(x[m], c) ELSE c

(* P[m] is the product of X - x_j over the j < m that are not left out.    *)
Building(P, x, n, skip) ==
  /\ \A m \in Nat : P[m] \in Coeffs
  /\ P[0] = Unity
  /\ \A m \in Nat : P[m + 1] = WithFactor(P[m], x, n, skip, m)

(* The product of linear factors is built one factor after the other.      *)
LEMMA BuildingExists ==
  ASSUME RingLaws, NEW n \in Nat, NEW x, \A i \in 0 .. n - 1 : x[i] \in Ring, NEW skip
  PROVE  \E P : Building(P, x, n, skip)
<1> DEFINE step == [p \in Nat \X Coeffs |-> WithFactor(p[2], x, n, skip, p[1])]
<1>1. Unity \in Coeffs
  BY DEF Unity, Coeffs, RingLaws, Closed
<1>2. ASSUME NEW m \in Nat, NEW c \in Coeffs PROVE WithFactor(c, x, n, skip, m) \in Coeffs
  <2>1. CASE m < n /\ m # skip
    <3>1. m \in 0 .. n - 1
      BY <2>1
    <3>2. Linear(x[m], c) \in Coeffs
      BY <3>1, LinearInRing
    <3> QED
      BY <2>1, <3>2 DEF WithFactor
  <2>2. CASE ~(m < n /\ m # skip)
    BY <2>2 DEF WithFactor
  <2> QED
    BY <2>1, <2>2
<1>3. step \in [Nat \X Coeffs -> Coeffs]
  <2>1. ASSUME NEW p \in Nat \X Coeffs PROVE WithFactor(p[2], x, n, skip, p[1]) \in Coeffs
    BY <1>2
  <2> QED
    BY <2>1
<1>4. \A m \in Nat : \A c \in Coeffs : step[<<m, c>>] = WithFactor(c, x, n, skip, m)
  OBVIOUS
<1> HIDE DEF step
<1>5. HasSequence(Coeffs, Unity, step)
  BY <1>1, <1>3, RecursionExists
<1>6. PICK P \in [Nat -> Coeffs] : P[0] = Unity /\ \A m \in Nat : P[m + 1] = step[<<m, P[m]>>]
  BY <1>5 DEF HasSequence
<1>7. \A m \in Nat : P[m] \in Coeffs
  BY <1>6
<1>8. \A m \in Nat : P[m + 1] = WithFactor(P[m], x, n, skip, m)
  BY <1>4, <1>6, <1>7
<1> QED
  BY <1>6, <1>7, <1>8 DEF Building

(* Its degree, its leading coefficient and its values.                     *)
FactorsOf(x, n, skip, z) ==
  [j \in 0 .. n - 1 |-> IF j = skip THEN OfInteger(1) ELSE Minus(z, x[j])]

(* The factors at a point are in the ring.                                 *)
LEMMA FactorsInRing ==
  ASSUME RingLaws, NEW n \in Nat, NEW x, \A i \in 0 .. n - 1 : x[i] \in Ring, NEW skip,
         NEW z \in Ring
  PROVE  \A j \in 0 .. n - 1 : FactorsOf(x, n, skip, z)[j] \in Ring
BY DEF FactorsOf, RingLaws, Closed

(* The product without factors is 1 everywhere.                            *)
LEMMA UnityValue ==
  ASSUME RingLaws, NEW z \in Ring
  PROVE  Unity \in Coeffs /\ ZeroFrom(Unity, 1) /\ Unity[0] = OfInteger(1)
         /\ Value(Unity, 1, z) = OfInteger(1)
<1>1. Unity \in Coeffs
  BY DEF Unity, Coeffs, RingLaws, Closed
<1>2. ZeroFrom(Unity, 1) /\ Unity[0] = OfInteger(1)
  BY DEF ZeroFrom, Unity
<1>3. Value(Unity, 0 + 1, z) = Plus(Value(Unity, 0, z), Times(Unity[0], Power(z, 0)))
  BY <1>1, ValueSteps
<1>4. Value(Unity, 0, z) = 0 /\ Power(z, 0) = OfInteger(1)
  BY <1>1, ValueSteps, PowerSteps
<1>5. Times(OfInteger(1), OfInteger(1)) = OfInteger(1) /\ Plus(0, OfInteger(1)) = OfInteger(1)
  BY DEF RingLaws, Closed, Additive, Multiplicative
<1>6. 0 + 1 = 1
  OBVIOUS
<1> QED
  BY <1>1, <1>2, <1>3, <1>4, <1>5, <1>6

BuiltSoFar(P, x, n, skip, m) ==
  /\ ZeroFrom(P[m], m + 1)
  /\ skip \in Nat /\ skip < m => ZeroFrom(P[m], m)
  /\ \A z \in Ring : Value(P[m], m + 1, z) = RingProduct(FactorsOf(x, n, skip, z), m)
  /\ (\A j \in Nat : j < m => j # skip) => P[m][m] = OfInteger(1)

(* One factor more.                                                        *)
LEMMA BuildingStep ==
  ASSUME RingLaws, NEW n \in Nat, NEW x, \A i \in 0 .. n - 1 : x[i] \in Ring, NEW skip,
         NEW P, Building(P, x, n, skip), NEW m \in Nat, m < n, BuiltSoFar(P, x, n, skip, m)
  PROVE  BuiltSoFar(P, x, n, skip, m + 1)
<1>1. P[m] \in Coeffs /\ m + 1 \in Nat /\ m \in 0 .. n - 1 /\ x[m] \in Ring
  BY DEF Building
<1>2. P[m + 1] = WithFactor(P[m], x, n, skip, m) /\ P[m + 1] \in Coeffs
  BY <1>1 DEF Building
<1> DEFINE F(z) == FactorsOf(x, n, skip, z)
           k == m + 1
<1>3. \A z \in Ring : Value(P[m], k, z) = RingProduct(F(z), m)
  BY DEF BuiltSoFar
<1>4. ASSUME NEW z \in Ring PROVE RingProduct(F(z), k) = Times(RingProduct(F(z), m), F(z)[m])
  <2>1. \A j \in 0 .. n - 1 : F(z)[j] \in Ring
    BY FactorsInRing
  <2> HIDE DEF F
  <2> QED
    BY <1>1, <2>1, ProductSteps
<1>5. ASSUME NEW z \in Ring PROVE Value(P[m], k, z) \in Ring
  BY <1>1, <1>5, ValueSteps
<1>6. CASE m = skip
  <2>1. P[k] = P[m]
    BY <1>2, <1>6 DEF WithFactor
  <2>2. ZeroFrom(P[k], k) /\ ZeroFrom(P[k], k + 1)
    BY <2>1 DEF BuiltSoFar, ZeroFrom
  <2>3. ASSUME NEW z \in Ring PROVE Value(P[k], k + 1, z) = RingProduct(F(z), k)
    <3>1. F(z)[m] = OfInteger(1)
      BY <1>1, <1>6 DEF FactorsOf
    <3>2. Value(P[m], k + 1, z) = Value(P[m], k, z)
      <4>1. k \in Nat /\ k + 1 \in Nat /\ k <= k + 1 /\ \A i \in k .. (k + 1) - 1 : P[m][i] = 0
        BY <2>1, <2>2 DEF ZeroFrom
      <4> HIDE DEF k
      <4> QED
        BY <1>1, <4>1, ValueLeadingZeros
    <3> HIDE DEF F
    <3>3. Times(Value(P[m], k, z), OfInteger(1)) = Value(P[m], k, z)
      BY <1>5 DEF RingLaws, Multiplicative
    <3> QED
      BY <1>3, <1>4, <2>1, <3>1, <3>2, <3>3
  <2>4. ~\A j \in Nat : j < k => j # skip
    BY <1>6
  <2> QED
    BY <2>2, <2>3, <2>4 DEF BuiltSoFar
<1>7. CASE m # skip
  <2>1. P[k] = Linear(x[m], P[m])
    BY <1>1, <1>2, <1>7 DEF WithFactor
  <2>2. ZeroFrom(P[m], k)
    BY DEF BuiltSoFar
  <2>3. ZeroFrom(P[k], k + 1)
    BY <1>1, <2>1, <2>2, LinearInRing
  <2>4. ASSUME skip \in Nat, skip < k PROVE ZeroFrom(P[k], k)
    <3>1. skip < m
      BY <1>7, <2>4
    <3>2. ZeroFrom(P[m], m)
      BY <2>4, <3>1 DEF BuiltSoFar
    <3> QED
      BY <1>1, <2>1, <3>2, LinearInRing
  <2>5. ASSUME NEW z \in Ring PROVE Value(P[k], k + 1, z) = RingProduct(F(z), k)
    <3>1. F(z)[m] = Minus(z, x[m])
      BY <1>1, <1>7 DEF FactorsOf
    <3>2. Value(P[k], k + 1, z) = Times(Minus(z, x[m]), Value(P[m], k, z))
      <4>1. k \in Nat
        OBVIOUS
      <4> HIDE DEF k
      <4> QED
        BY <1>1, <2>1, <2>2, <4>1, LinearValue
    <3>3. Minus(z, x[m]) \in Ring
      BY <1>1 DEF RingLaws, Closed
    <3>4. Times(Minus(z, x[m]), Value(P[m], k, z)) = Times(Value(P[m], k, z), Minus(z, x[m]))
      BY <1>5, <3>3 DEF RingLaws, Multiplicative
    <3> HIDE DEF F
    <3> QED
      BY <1>3, <1>4, <3>1, <3>2, <3>4
  <2>6. ASSUME \A j \in Nat : j < k => j # skip PROVE P[k][k] = OfInteger(1)
    <3>1. P[m][m] = OfInteger(1)
      BY <2>6 DEF BuiltSoFar
    <3>2. P[m][k] = 0
      BY <2>2 DEF ZeroFrom
    <3>3. P[k][k] = Minus(P[m][m], Times(P[m][k], x[m]))
      BY <1>1, <2>1, LinearInRing
    <3>4. Times(0, x[m]) = 0 /\ Minus(OfInteger(1), 0) = OfInteger(1)
      BY <1>1, TimesZero, DifferenceZero DEF RingLaws, Closed
    <3> QED
      BY <3>1, <3>2, <3>3, <3>4
  <2> QED
    BY <2>3, <2>4, <2>5, <2>6 DEF BuiltSoFar
<1> QED
  BY <1>6, <1>7

(* What is built so far: degree, values and leading coefficient.           *)
LEMMA BuildingFacts ==
  ASSUME RingLaws, NEW n \in Nat, NEW x, \A i \in 0 .. n - 1 : x[i] \in Ring, NEW skip,
         NEW P, Building(P, x, n, skip)
  PROVE  \A m \in 0 .. n : BuiltSoFar(P, x, n, skip, m)
<1> DEFINE good == {m \in 0 .. n : BuiltSoFar(P, x, n, skip, m)}
<1>1. BuiltSoFar(P, x, n, skip, 0)
  <2>1. P[0] = Unity
    BY DEF Building
  <2>2. 0 + 1 = 1
    OBVIOUS
  <2>3. ZeroFrom(Unity, 1) /\ Unity[0] = OfInteger(1)
    BY DEF ZeroFrom, Unity
  <2>4. ASSUME NEW z \in Ring PROVE Value(Unity, 1, z) = RingProduct(FactorsOf(x, n, skip, z), 0)
    <3>1. RingProduct(FactorsOf(x, n, skip, z), 0) = OfInteger(1)
      BY FactorsInRing, ProductSteps
    <3> QED
      BY <3>1, UnityValue
  <2>5. ~(skip \in Nat /\ skip < 0)
    OBVIOUS
  <2> QED
    BY <2>1, <2>2, <2>3, <2>4, <2>5 DEF BuiltSoFar
<1>2. ASSUME NEW m \in good, m < n PROVE m + 1 \in good
  BY <1>2, BuildingStep
<1>3. good \in SUBSET (0 .. n) /\ 0 \in good
  BY <1>1
<1> HIDE DEF good
<1>4. good = 0 .. n
  BY <1>2, <1>3, InductionUpTo
<1> QED
  BY <1>4 DEF good

(* The order of two factors does not matter.                               *)
LEMMA MinusTwice ==
  ASSUME RingLaws, NEW p \in Ring, NEW q \in Ring, NEW r \in Ring, NEW s \in Ring
  PROVE  Minus(Minus(p, q), Minus(r, s)) = Minus(Minus(p, r), Minus(q, s))
<1> DEFINE a == Minus(p, q)
           b == Minus(r, s)
           c == Minus(p, r)
           d == Minus(q, s)
           e == Minus(c, d)
<1>1. /\ a \in Ring /\ b \in Ring /\ c \in Ring /\ d \in Ring /\ e \in Ring
      /\ Plus(a, q) = p /\ Plus(b, s) = r /\ Plus(c, r) = p /\ Plus(d, s) = q /\ Plus(e, d) = c
  BY DEF RingLaws, Closed, Additive
<1> HIDE DEF a, b, c, d, e
<1>2. Plus(Plus(e, b), q) = p
  <2>1. Plus(Plus(e, b), Plus(d, s)) = Plus(Plus(e, d), Plus(b, s))
    BY <1>1, FourSummands
  <2> QED
    BY <1>1, <2>1
<1>3. Plus(e, b) \in Ring
  BY <1>1 DEF RingLaws, Closed
<1>4. Plus(e, b) = a
  BY <1>1, <1>2, <1>3, SumCancels
<1>5. Minus(a, b) = e
  BY <1>1, <1>4, DifferenceIs
<1> QED
  BY <1>5 DEF a, b, c, d, e

(* Two linear factors may be multiplied in either order.                   *)
LEMMA FactorsCommute ==
  ASSUME RingLaws, NEW a \in Ring, NEW b \in Ring, NEW w \in Coeffs
  PROVE  Linear(a, Linear(b, w)) = Linear(b, Linear(a, w))
<1> DEFINE before(c, j) == IF j = 0 THEN 0 ELSE c[j - 1]
<1>1. ASSUME NEW x \in Ring, NEW j \in Nat PROVE Linear(x, w)[j] = Minus(before(w, j), Times(w[j], x))
  BY DEF Linear
<1>2. ASSUME NEW x \in Ring, NEW y \in Ring, NEW j \in Nat
      PROVE  Linear(x, Linear(y, w))[j]
               = Minus(before(Linear(y, w), j), Times(Minus(before(w, j), Times(w[j], y)), x))
  BY <1>1, LinearInRing DEF Linear
<1>3. \A j \in Nat : w[j] \in Ring /\ before(w, j) \in Ring
  BY DEF Coeffs, RingLaws, Closed
<1>4. ASSUME NEW x \in Ring, NEW j \in Nat, j # 0
      PROVE  before(Linear(x, w), j) = Minus(before(w, j - 1), Times(before(w, j), x)) /\ before(w, j - 1) \in Ring
  <2>1. j - 1 \in Nat
    BY <1>4
  <2>2. before(Linear(x, w), j) = Linear(x, w)[j - 1] /\ before(w, j) = w[j - 1]
    BY <1>4
  <2>3. Linear(x, w)[j - 1] = Minus(before(w, j - 1), Times(w[j - 1], x))
    BY <1>1, <2>1
  <2>4. before(w, j - 1) \in Ring
    BY <1>3, <2>1
  <2> QED
    BY <2>2, <2>3, <2>4
<1>5. \A x \in Ring : before(Linear(x, w), 0) = 0
  OBVIOUS
<1> HIDE DEF before
<1>6. ASSUME NEW x \in Ring, NEW y \in Ring, NEW j \in Nat
      PROVE  Times(Minus(before(w, j), Times(w[j], y)), x)
               = Minus(Times(before(w, j), x), Times(Times(w[j], x), y))
  <2> DEFINE p == before(w, j)
             q == w[j]
  <2>1. p \in Ring /\ q \in Ring
    BY <1>3
  <2> HIDE DEF p, q
  <2>2. Times(q, y) \in Ring /\ Times(Times(q, y), x) = Times(Times(q, x), y) /\ Minus(p, Times(q, y)) \in Ring
    BY <2>1 DEF RingLaws, Closed, Multiplicative
  <2>3. Times(Minus(p, Times(q, y)), x) = Times(x, Minus(p, Times(q, y)))
    BY <2>2 DEF RingLaws, Multiplicative
  <2>4. Times(x, Minus(p, Times(q, y))) = Minus(Times(x, p), Times(x, Times(q, y)))
    BY <2>1, <2>2, TimesDifference
  <2>5. Times(x, p) = Times(p, x) /\ Times(x, Times(q, y)) = Times(Times(q, y), x)
    BY <2>1, <2>2 DEF RingLaws, Multiplicative
  <2>6. Times(Minus(p, Times(q, y)), x) = Minus(Times(p, x), Times(Times(q, x), y))
    BY <2>2, <2>3, <2>4, <2>5
  <2> QED
    BY <2>6 DEF p, q
<1>7. ASSUME NEW j \in Nat PROVE Linear(a, Linear(b, w))[j] = Linear(b, Linear(a, w))[j]
  <2> DEFINE u == Times(before(w, j), a)
             v == Times(before(w, j), b)
             t == Times(Times(w[j], a), b)
  <2>1. u \in Ring /\ v \in Ring /\ t \in Ring
    BY <1>3 DEF RingLaws, Closed
  <2>2. t = Times(Times(w[j], b), a)
    <3> DEFINE q == w[j]
    <3>1. q \in Ring
      BY <1>3
    <3> HIDE DEF q
    <3>2. Times(Times(q, a), b) = Times(Times(q, b), a)
      BY <3>1 DEF RingLaws, Closed, Multiplicative
    <3> QED
      BY <3>2 DEF q
  <2>3. Linear(a, Linear(b, w))[j] = Minus(before(Linear(b, w), j), Minus(u, t))
    BY <1>2, <1>6
  <2>4. Linear(b, Linear(a, w))[j] = Minus(before(Linear(a, w), j), Minus(v, t))
    BY <1>2, <1>6, <2>2
  <2>5. CASE j = 0
    <3>1. before(w, j) = 0
      BY <2>5 DEF before
    <3>2. u = 0 /\ v = 0
      BY <3>1, TimesZero
    <3> QED
      BY <1>5, <2>3, <2>4, <2>5, <3>2
  <2>6. CASE j # 0
    <3>1. /\ before(Linear(a, w), j) = Minus(before(w, j - 1), u)
          /\ before(Linear(b, w), j) = Minus(before(w, j - 1), v)
          /\ before(w, j - 1) \in Ring
      BY <1>4, <2>6
    <3> HIDE DEF u, v, t
    <3>2. Minus(Minus(before(w, j - 1), v), Minus(u, t)) = Minus(Minus(before(w, j - 1), u), Minus(v, t))
      BY <2>1, <3>1, MinusTwice
    <3> QED
      BY <2>3, <2>4, <3>1, <3>2
  <2> QED
    BY <2>5, <2>6
<1> QED
  <2> DEFINE l == Linear(a, Linear(b, w))
             r == Linear(b, Linear(a, w))
  <2>1. l = [j \in Nat |-> l[j]] /\ r = [j \in Nat |-> r[j]]
    BY DEF Linear
  <2>2. \A j \in Nat : l[j] = r[j]
    BY <1>7
  <2> HIDE DEF l, r
  <2>3. l = r
    BY <2>1, <2>2
  <2> QED
    BY <2>3 DEF l, r

(* The product without the i-th factor times that factor is the product.   *)
LEMMA FactorOut ==
  ASSUME RingLaws, NEW n \in Nat, NEW x, \A j \in 0 .. n - 1 : x[j] \in Ring,
         NEW P, Building(P, x, n, n), NEW i \in 0 .. n - 1, NEW R, Building(R, x, n, i)
  PROVE  P[n] = Linear(x[i], R[n]) /\ R[n] \in Coeffs /\ ZeroFrom(R[n], n)
<1> DEFINE alike(m) == IF m <= i THEN P[m] = R[m] ELSE P[m] = Linear(x[i], R[m])
           good == {m \in 0 .. n : alike(m)}
<1>1. \A m \in Nat : /\ R[m] \in Coeffs /\ P[m + 1] = WithFactor(P[m], x, n, n, m)
                     /\ R[m + 1] = WithFactor(R[m], x, n, i, m)
  BY DEF Building
<1>2. alike(0)
  BY DEF Building
<1>3. ASSUME NEW m \in good, m < n PROVE alike(m + 1)
  <2>1. m \in Nat /\ m \in 0 .. n - 1 /\ m # n /\ x[m] \in Ring /\ x[i] \in Ring
    BY <1>3
  <2>2. P[m + 1] = Linear(x[m], P[m])
    BY <1>1, <1>3, <2>1 DEF WithFactor
  <2>3. CASE m < i
    <3>1. R[m + 1] = Linear(x[m], R[m])
      BY <1>1, <1>3, <2>1, <2>3 DEF WithFactor
    <3>2. P[m] = R[m] /\ m + 1 <= i
      BY <1>3, <2>1, <2>3
    <3> QED
      BY <2>2, <3>1, <3>2
  <2>4. CASE m = i
    <3>1. R[m + 1] = R[m]
      BY <1>1, <2>1, <2>4 DEF WithFactor
    <3>2. P[m] = R[m] /\ ~(m + 1 <= i)
      BY <1>3, <2>1, <2>4
    <3> QED
      BY <2>2, <2>4, <3>1, <3>2
  <2>5. CASE m > i
    <3>1. R[m + 1] = Linear(x[m], R[m])
      BY <1>1, <1>3, <2>1, <2>5 DEF WithFactor
    <3>2. P[m] = Linear(x[i], R[m]) /\ ~(m + 1 <= i)
      BY <1>3, <2>1, <2>5
    <3>3. Linear(x[m], Linear(x[i], R[m])) = Linear(x[i], Linear(x[m], R[m]))
      BY <1>1, <2>1, FactorsCommute
    <3> QED
      BY <2>2, <3>1, <3>2, <3>3
  <2> QED
    BY <2>1, <2>3, <2>4, <2>5
<1>4. good \in SUBSET (0 .. n) /\ 0 \in good
  BY <1>2
<1>5. ASSUME NEW m \in good, m < n PROVE m + 1 \in good
  BY <1>3, <1>5
<1>6. n \in good
  <2> HIDE DEF good
  <2>1. good = 0 .. n
    BY <1>4, <1>5, InductionUpTo
  <2> QED
    BY <2>1
<1>7. P[n] = Linear(x[i], R[n])
  BY <1>6
<1>8. ZeroFrom(R[n], n)
  <2>1. BuiltSoFar(R, x, n, i, n)
    BY BuildingFacts
  <2> QED
    BY <2>1 DEF BuiltSoFar
<1> QED
  BY <1>1, <1>7, <1>8

(* What Vanishing builds, one factor at a time.                            *)
VanishingStep(w, points, m) ==
  [j \in 0 .. m |-> Minus(IF j = 0 THEN 0 ELSE w[j - 1], IF j = m THEN 0 ELSE Times(w[j], points[m - 1]))]

VanishingValues(v, points, n) ==
  v = [m \in 0 .. n |-> IF m = 0 THEN [j \in {0} |-> OfInteger(1)]
                        ELSE VanishingStep(Tabulated(v[m - 1]), points, m)]

(* The vanishing polynomial of the code is the product of the factors.     *)
LEMMA VanishingIs ==
  ASSUME RingLaws, NEW n \in Nat, NEW x, \A i \in 0 .. n - 1 : x[i] \in Ring,
         NEW P, Building(P, x, n, n)
  PROVE  Vanishing(x, n) = [j \in 0 .. n |-> P[n][j]]
<1> DEFINE first(m) == [j \in 0 .. m |-> P[m][j]]
           w == [m \in 0 .. n |-> first(m)]
<1>1. \A m \in Nat : P[m] \in Coeffs /\ P[m + 1] = WithFactor(P[m], x, n, n, m)
  BY DEF Building
<1>2. first(0) = [j \in {0} |-> OfInteger(1)]
  <2>1. 0 .. 0 = {0} /\ P[0] = Unity
    BY DEF Building
  <2> QED
    BY <2>1 DEF Unity
<1>3. ASSUME NEW k \in 0 .. n - 1 PROVE VanishingStep(first(k), x, k + 1) = first(k + 1)
  <2> DEFINE m == k + 1
             c == P[k]
  <2>1. k \in Nat /\ m \in Nat /\ m - 1 = k /\ x[k] \in Ring /\ c \in Coeffs
    BY <1>1
  <2>2. P[m] = Linear(x[k], c)
    BY <1>1, <2>1 DEF WithFactor
  <2>3. c[m] = 0 /\ Times(0, x[k]) = 0
    <3>1. BuiltSoFar(P, x, n, n, k)
      BY BuildingFacts
    <3> QED
      BY <2>1, <3>1, TimesZero DEF BuiltSoFar, ZeroFrom
  <2>4. ASSUME NEW j \in 0 .. m
        PROVE  Minus(IF j = 0 THEN 0 ELSE first(k)[j - 1], IF j = m THEN 0 ELSE Times(first(k)[j], x[m - 1]))
                 = P[m][j]
    <3>1. P[m][j] = Minus(IF j = 0 THEN 0 ELSE c[j - 1], Times(c[j], x[k]))
      BY <2>2 DEF Linear
    <3>2. j # 0 => first(k)[j - 1] = c[j - 1]
      BY <2>1
    <3>3. j # m => first(k)[j] = c[j]
      BY <2>1
    <3>4. (IF j = m THEN 0 ELSE Times(first(k)[j], x[m - 1])) = Times(c[j], x[k])
      BY <2>1, <2>3, <3>3
    <3> HIDE DEF first, c, m
    <3> QED
      BY <3>1, <3>2, <3>4
  <2> HIDE DEF m, c
  <2>5. VanishingStep(first(k), x, m) = first(m)
    BY <2>4 DEF VanishingStep
  <2> QED
    BY <2>5 DEF m
<1> HIDE DEF first
<1>4. w[0] = [j \in {0} |-> OfInteger(1)] /\ w[n] = first(n)
  BY <1>2
<1>5. ASSUME NEW k \in 0 .. n - 1 PROVE w[k + 1] = VanishingStep(w[k], x, k + 1)
  <2>1. k \in 0 .. n /\ k + 1 \in 0 .. n
    OBVIOUS
  <2>2. w[k] = first(k) /\ w[k + 1] = first(k + 1)
    BY <2>1
  <2> QED
    BY <1>3, <2>2
<1>6. w = [m \in 0 .. n |-> w[m]]
  OBVIOUS
<1> HIDE DEF w
<1>7. ASSUME NEW v, VanishingValues(v, x, n) PROVE v[n] = first(n)
  <2>1. v[0] = w[0]
    BY <1>4, <1>7 DEF VanishingValues
  <2>2. ASSUME NEW i \in 0 .. n - 1, v[i] = w[i] PROVE v[i + 1] = w[i + 1]
    <3>1. i + 1 \in 0 .. n /\ i + 1 # 0 /\ (i + 1) - 1 = i
      OBVIOUS
    <3>2. v[i + 1] = VanishingStep(Tabulated(v[i]), x, i + 1)
      BY <1>7, <3>1 DEF VanishingValues
    <3> QED
      BY <1>5, <2>2, <3>2, TabulatedIs
  <2>3. \A i \in 0 .. n - 1 : v[i] = w[i] => v[i + 1] = w[i + 1]
    BY <2>2
  <2>4. \A i \in 0 .. n : v[i] = w[i]
    BY <2>1, <2>3, GoesOnAlike
  <2> QED
    BY <1>4, <2>4
<1>8. VanishingValues(w, x, n)
  <2>1. ASSUME NEW m \in 0 .. n
        PROVE  w[m] = IF m = 0 THEN [j \in {0} |-> OfInteger(1)]
                      ELSE VanishingStep(Tabulated(w[m - 1]), x, m)
    <3>1. CASE m = 0
      BY <1>4, <3>1
    <3>2. CASE m # 0
      <4>1. m - 1 \in 0 .. n - 1 /\ (m - 1) + 1 = m
        BY <3>2
      <4>2. w[(m - 1) + 1] = VanishingStep(w[m - 1], x, (m - 1) + 1)
        BY <1>5, <4>1
      <4>3. w[m] = VanishingStep(w[m - 1], x, m)
        BY <4>1, <4>2
      <4> QED
        BY <3>2, <4>3, TabulatedIs
    <3> QED
      BY <3>1, <3>2
  <2>2. w = [m \in 0 .. n |-> IF m = 0 THEN [j \in {0} |-> OfInteger(1)]
                              ELSE VanishingStep(Tabulated(w[m - 1]), x, m)]
    BY <1>6, <2>1
  <2> QED
    BY <2>2 DEF VanishingValues
<1>9. Vanishing(x, n) = (CHOOSE v : VanishingValues(v, x, n))[n]
  BY DEF Vanishing, VanishingValues, VanishingStep
<1> QED
  BY <1>7, <1>8, <1>9 DEF first

(* What DivideByLinear builds, from the last coefficient down.             *)
DivisionValues(q, at, size, root) ==
  q = [j \in 0 .. size - 1 |-> IF j = size - 1 THEN 0 ELSE Plus(at[j + 1], Times(root, q[j + 1]))]

(* The synthetic division of the code is the quotient.                     *)
LEMMA DivideByLinearIs ==
  ASSUME RingLaws, NEW n \in Nat, NEW c \in Coeffs, NEW a \in Ring, NEW at,
         \A j \in Nat : j <= n => at[j] = c[j]
  PROVE  DivideByLinear(at, n + 1, a) = [j \in 0 .. n - 1 |-> Quotient(c, n + 1, a)[j]]
<1> DEFINE d == Quotient(c, n + 1, a)
           w == [j \in 0 .. n |-> d[j]]
<1>1. /\ d \in Coeffs /\ ZeroFrom(d, n)
      /\ \A j \in Nat : j < n => d[j] = Plus(Times(d[j + 1], a), c[j + 1])
  BY QuotientSteps
<1> HIDE DEF d
<1>2. ASSUME NEW j \in 0 .. n PROVE d[j] = IF j = n THEN 0 ELSE Plus(at[j + 1], Times(a, w[j + 1]))
  <2>1. CASE j = n
    BY <1>1, <2>1 DEF ZeroFrom
  <2>2. CASE j # n
    <3>1. j \in Nat /\ j < n /\ j + 1 \in Nat /\ j + 1 <= n /\ j + 1 \in 0 .. n
      BY <2>2
    <3>2. d[j] = Plus(Times(d[j + 1], a), c[j + 1]) /\ at[j + 1] = c[j + 1] /\ w[j + 1] = d[j + 1]
      BY <1>1, <3>1
    <3>3. d[j + 1] \in Ring /\ c[j + 1] \in Ring
      BY <1>1, <3>1 DEF Coeffs
    <3>4. Times(d[j + 1], a) = Times(a, d[j + 1]) /\ Times(a, d[j + 1]) \in Ring
      BY <3>3 DEF RingLaws, Closed, Multiplicative
    <3>5. Plus(Times(a, d[j + 1]), c[j + 1]) = Plus(c[j + 1], Times(a, d[j + 1]))
      BY <3>3, <3>4 DEF RingLaws, Additive
    <3> QED
      BY <2>2, <3>2, <3>4, <3>5
  <2> QED
    BY <2>1, <2>2
<1>3. \A j \in 0 .. n : w[j] = d[j]
  OBVIOUS
<1>4. w = [j \in 0 .. n |-> w[j]]
  OBVIOUS
<1> HIDE DEF w
<1>5. (n + 1) - 1 = n /\ (n + 1) - 2 = n - 1
  OBVIOUS
<1>6. DivisionValues(w, at, n + 1, a)
  <2>1. w = [j \in 0 .. n |-> IF j = n THEN 0 ELSE Plus(at[j + 1], Times(a, w[j + 1]))]
    BY <1>2, <1>3, <1>4
  <2> QED
    BY <1>5, <2>1 DEF DivisionValues
<1>7. ASSUME NEW q, DivisionValues(q, at, n + 1, a) PROVE \A j \in 0 .. n : q[j] = d[j]
  <2> DEFINE s == [i \in 0 .. n |-> q[n - i]]
             t == [i \in 0 .. n |-> w[n - i]]
  <2>1. \A j \in 0 .. n : q[j] = IF j = n THEN 0 ELSE Plus(at[j + 1], Times(a, q[j + 1]))
    BY <1>5, <1>7 DEF DivisionValues
  <2>2. \A j \in 0 .. n : w[j] = IF j = n THEN 0 ELSE Plus(at[j + 1], Times(a, w[j + 1]))
    BY <1>2, <1>3
  <2>3. s[0] = t[0]
    BY <2>1, <2>2
  <2>4. ASSUME NEW i \in 0 .. n - 1, s[i] = t[i] PROVE s[i + 1] = t[i + 1]
    <3> DEFINE j == n - (i + 1)
    <3>1. j \in 0 .. n /\ j # n /\ n - i = j + 1 /\ i \in 0 .. n /\ i + 1 \in 0 .. n
      OBVIOUS
    <3>2. q[j + 1] = w[j + 1]
      BY <2>4, <3>1
    <3>3. s[i + 1] = q[j] /\ t[i + 1] = w[j]
      BY <3>1
    <3> HIDE DEF j, s, t
    <3> QED
      BY <2>1, <2>2, <3>1, <3>2, <3>3
  <2>5. \A i \in 0 .. n - 1 : s[i] = t[i] => s[i + 1] = t[i + 1]
    BY <2>4
  <2> SUFFICES ASSUME NEW j \in 0 .. n PROVE q[j] = d[j]
    OBVIOUS
  <2>6. n - j \in 0 .. n /\ n - (n - j) = j
    OBVIOUS
  <2>7. s[n - j] = q[j] /\ t[n - j] = w[j]
    BY <2>6
  <2> HIDE DEF s, t
  <2>8. \A i \in 0 .. n : s[i] = t[i]
    BY <2>3, <2>5, GoesOnAlike
  <2> QED
    BY <1>3, <2>6, <2>7, <2>8
<1> DEFINE q == CHOOSE q : DivisionValues(q, at, n + 1, a)
<1>8. DivideByLinear(at, n + 1, a) = [j \in 0 .. n - 1 |-> q[j]]
  BY <1>5 DEF DivideByLinear, DivisionValues
<1>9. DivisionValues(q, at, n + 1, a)
  BY <1>6
<1> HIDE DEF q
<1>10. \A j \in 0 .. n - 1 : q[j] = d[j]
  BY <1>7, <1>9
<1> QED
  BY <1>8, <1>10 DEF d

(* The slope of a product at the zero of a factor is the other's value.    *)
Slope(c) == [j \in Nat |-> Times(c[j + 1], OfInteger(j + 1))]

(* The slope has coefficients in the ring.                                 *)
LEMMA SlopeInRing ==
  ASSUME RingLaws, NEW c \in Coeffs
  PROVE  Slope(c) \in Coeffs
<1>1. ASSUME NEW j \in Nat PROVE Times(c[j + 1], OfInteger(j + 1)) \in Ring
  <2>1. j + 1 \in Nat
    OBVIOUS
  <2>2. c[j + 1] \in Ring /\ OfInteger(j + 1) \in Ring
    BY <2>1 DEF Coeffs, RingLaws, Counting
  <2> QED
    BY <2>2 DEF RingLaws, Closed
<1> QED
  BY <1>1 DEF Slope, Coeffs

(* The slope of (X - a) times w at a is w(a).                              *)
LEMMA SlopeOfLinear ==
  ASSUME RingLaws, NEW a \in Ring, NEW w \in Coeffs, NEW n \in Nat, ZeroFrom(w, n)
  PROVE  Value(Slope(Linear(a, w)), n, a) = Value(w, n, a)
<1> DEFINE l == Linear(a, w)
           s == Slope(l)
           term(m) == Times(w[m], Power(a, m))
           extra(m) == Times(OfInteger(m), term(m))
           good == {m \in Nat : Plus(Value(s, m, a), extra(m)) = Value(w, m, a)}
<1>1. l \in Coeffs /\ \A j \in Nat : l[j + 1] = Minus(w[j], Times(w[j + 1], a))
  BY LinearInRing
<1>2. s \in Coeffs
  BY <1>1, SlopeInRing
<1>3. ASSUME NEW m \in Nat
      PROVE  /\ w[m] \in Ring /\ Power(a, m) \in Ring /\ Power(a, m + 1) = Times(Power(a, m), a)
             /\ OfInteger(m) \in Ring /\ OfInteger(m + 1) = Plus(OfInteger(m), OfInteger(1))
             /\ Value(s, m, a) \in Ring /\ Value(w, m, a) \in Ring
             /\ Value(s, m + 1, a) = Plus(Value(s, m, a), Times(s[m], Power(a, m)))
             /\ Value(w, m + 1, a) = Plus(Value(w, m, a), Times(w[m], Power(a, m)))
  <2>1. w[m] \in Ring
    BY DEF Coeffs
  <2>2. Power(a, m) \in Ring /\ Power(a, m + 1) = Times(Power(a, m), a)
    BY PowerSteps
  <2>3. OfInteger(m) \in Ring /\ OfInteger(m + 1) = Plus(OfInteger(m), OfInteger(1))
    BY DEF RingLaws, Counting
  <2> HIDE DEF s, l
  <2>4. /\ Value(s, m, a) \in Ring
        /\ Value(s, m + 1, a) = Plus(Value(s, m, a), Times(s[m], Power(a, m)))
    BY <1>2, ValueSteps
  <2>5. /\ Value(w, m, a) \in Ring
        /\ Value(w, m + 1, a) = Plus(Value(w, m, a), Times(w[m], Power(a, m)))
    BY ValueSteps
  <2> QED
    BY <2>1, <2>2, <2>3, <2>4, <2>5
<1>4. \A m \in Nat : s[m] = Times(l[m + 1], OfInteger(m + 1))
  BY DEF Slope
<1>5. 0 \in good
  <2>1. Value(s, 0, a) = 0 /\ Value(w, 0, a) = 0
    BY <1>2, ValueSteps
  <2>2. OfInteger(0) = 0 /\ term(0) \in Ring
    BY <1>3 DEF RingLaws, Closed, Counting
  <2>3. extra(0) = 0
    BY <2>2, TimesZero
  <2>4. Plus(0, 0) = 0
    BY DEF RingLaws, Closed, Additive
  <2> QED
    BY <2>1, <2>3, <2>4
<1> HIDE DEF s, l
<1>6. ASSUME NEW m \in Nat
      PROVE  /\ term(m) \in Ring /\ extra(m) \in Ring /\ extra(m + 1) \in Ring
             /\ Times(s[m], Power(a, m)) \in Ring
             /\ Plus(Times(s[m], Power(a, m)), extra(m + 1)) = Plus(extra(m), term(m))
  <2> DEFINE p == Power(a, m)
             k == OfInteger(m + 1)
             u == Times(w[m + 1], a)
             d == Minus(w[m], u)
  <2>1. m + 1 \in Nat
    OBVIOUS
  <2>2. p \in Ring /\ k \in Ring /\ w[m] \in Ring /\ w[m + 1] \in Ring /\ u \in Ring /\ d \in Ring
    BY <1>3, <2>1 DEF RingLaws, Closed
  <2>3. term(m) \in Ring /\ extra(m) \in Ring /\ term(m + 1) \in Ring /\ extra(m + 1) \in Ring
    BY <1>3, <2>1 DEF RingLaws, Closed
  <2>4. Times(s[m], p) = Times(Times(d, k), p)
    BY <1>1, <1>4
  <2>5. extra(m + 1) = Times(k, Times(w[m + 1], Times(p, a)))
    BY <1>3
  <2>6. extra(m) = Times(OfInteger(m), Times(w[m], p)) /\ term(m) = Times(w[m], p)
    OBVIOUS
  <2>7. k = Plus(OfInteger(m), OfInteger(1)) /\ Plus(d, u) = w[m] /\ OfInteger(m) \in Ring /\ OfInteger(1) \in Ring
    BY <1>3, <2>2 DEF RingLaws, Closed, Additive
  <2>8. Times(w[m + 1], Times(p, a)) = Times(p, u)
    <3> DEFINE v == w[m + 1]
    <3>1. v \in Ring
      BY <2>2
    <3> HIDE DEF v, p
    <3>2. Times(v, Times(p, a)) = Times(p, Times(v, a))
      BY <2>2, <3>1 DEF RingLaws, Closed, Multiplicative
    <3> QED
      BY <3>2 DEF v
  <2> HIDE DEF p, k, d, u, term, extra
  <2>9. Times(Times(d, k), p) = Times(k, Times(p, d)) /\ Times(p, d) \in Ring /\ Times(p, u) \in Ring
    BY <2>2 DEF RingLaws, Closed, Multiplicative
  <2>10. Plus(Times(k, Times(p, d)), Times(k, Times(p, u))) = Times(k, Times(p, Plus(d, u)))
    <3>1. Times(p, Plus(d, u)) = Plus(Times(p, d), Times(p, u))
      BY <2>2 DEF RingLaws, Distributive
    <3> QED
      BY <2>2, <2>9, <3>1 DEF RingLaws, Distributive
  <2>11. Times(p, w[m]) = Times(w[m], p) /\ Times(w[m], p) \in Ring
    BY <2>2 DEF RingLaws, Closed, Multiplicative
  <2>12. Times(k, term(m)) = Plus(extra(m), term(m))
    <3> DEFINE t == term(m)
    <3>1. t \in Ring /\ extra(m) = Times(OfInteger(m), t)
      BY <2>3, <2>6
    <3> HIDE DEF t
    <3>2. Times(t, k) = Plus(Times(t, OfInteger(m)), Times(t, OfInteger(1)))
      BY <2>7, <3>1 DEF RingLaws, Distributive
    <3>3. Times(t, k) = Times(k, t) /\ Times(t, OfInteger(m)) = Times(OfInteger(m), t) /\ Times(t, OfInteger(1)) = t
      BY <2>2, <2>7, <3>1 DEF RingLaws, Multiplicative
    <3>4. Times(k, t) = Plus(extra(m), t)
      BY <3>1, <3>2, <3>3
    <3> QED
      BY <3>4 DEF t
  <2>13. Plus(Times(s[m], p), extra(m + 1)) = Plus(extra(m), term(m))
    BY <2>4, <2>5, <2>6, <2>7, <2>8, <2>9, <2>10, <2>11, <2>12
  <2>14. Times(s[m], p) \in Ring
    BY <2>2, <2>4, <2>9 DEF RingLaws, Closed
  <2> QED
    BY <2>3, <2>13, <2>14 DEF p
<1>7. ASSUME NEW m \in good PROVE m + 1 \in good
  <2> DEFINE v == Value(s, m, a)
             y == Times(s[m], Power(a, m))
  <2>1. m \in Nat /\ Plus(v, extra(m)) = Value(w, m, a)
    BY <1>7
  <2>2. v \in Ring /\ y \in Ring /\ extra(m) \in Ring /\ extra(m + 1) \in Ring /\ term(m) \in Ring
    BY <1>3, <1>6, <2>1
  <2>3. Value(s, m + 1, a) = Plus(v, y) /\ Plus(y, extra(m + 1)) = Plus(extra(m), term(m))
        /\ Value(w, m + 1, a) = Plus(Value(w, m, a), term(m))
    BY <1>3, <1>6, <2>1
  <2> HIDE DEF v, y, extra, term
  <2>4. Plus(Plus(v, y), extra(m + 1)) = Plus(v, Plus(y, extra(m + 1)))
    BY <2>2 DEF RingLaws, Additive
  <2>5. Plus(v, Plus(extra(m), term(m))) = Plus(Plus(v, extra(m)), term(m))
    BY <2>2 DEF RingLaws, Additive
  <2> QED
    BY <2>1, <2>3, <2>4, <2>5
<1> HIDE DEF extra
<1>8. n \in good
  <2>1. good \in SUBSET Nat
    OBVIOUS
  <2> HIDE DEF good
  <2>2. good = Nat
    BY <1>5, <1>7, <2>1, SetInduction
  <2> QED
    BY <2>2
<1>9. extra(n) = 0
  <2>1. w[n] = 0 /\ Power(a, n) \in Ring /\ OfInteger(n) \in Ring
    BY <1>3 DEF ZeroFrom
  <2>2. term(n) = 0
    BY <2>1, TimesZero
  <2> QED
    BY <2>1, <2>2, TimesZero DEF extra
<1>10. Plus(Value(s, n, a), 0) = Value(s, n, a)
  BY <1>3 DEF RingLaws, Additive
<1> QED
  BY <1>8, <1>9, <1>10 DEF s, l

-----------------------------------------------------------------------------
(* Interpolation *)

(* The polynomials that are zero at all points but one.                    *)
LEMMA FactorsLeft ==
  ASSUME RingLaws, NEW n \in Nat, NEW x, Apart(x, n), NEW P, Building(P, x, n, n),
         NEW i \in 0 .. n - 1, NEW w, w = Quotient(P[n], n + 1, x[i])
  PROVE  /\ w \in Coeffs /\ P[n] \in Coeffs
         /\ \A z \in Ring : Value(w, n, z) = Others(x, n, i, z)
         /\ Value(Slope(P[n]), n, x[i]) = Others(x, n, i, x[i])
         /\ IsUnit(Others(x, n, i, x[i]))
<1>1. \A j \in 0 .. n - 1 : x[j] \in Ring
  BY DEF Apart
<1>2. PICK R : Building(R, x, n, i)
  BY <1>1, BuildingExists
<1> DEFINE o == R[n]
           a == x[i]
<1>3. P[n] = Linear(a, o) /\ o \in Coeffs /\ ZeroFrom(o, n) /\ a \in Ring
  BY <1>1, <1>2, FactorOut
<1>4. ASSUME NEW z \in Ring PROVE Value(o, n, z) = Others(x, n, i, z)
  <2>1. BuiltSoFar(R, x, n, i, n)
    BY <1>1, <1>2, BuildingFacts
  <2>2. Value(o, n + 1, z) = RingProduct(FactorsOf(x, n, i, z), n)
    BY <2>1 DEF BuiltSoFar
  <2>3. Value(o, n + 1, z) = Value(o, n, z)
    <3> DEFINE k == n + 1
    <3>1. k \in Nat /\ n <= k /\ \A j \in n .. k - 1 : o[j] = 0
      BY <1>3 DEF ZeroFrom
    <3> HIDE DEF k, o
    <3>2. Value(o, k, z) = Value(o, n, z)
      BY <1>3, <3>1, ValueLeadingZeros
    <3> QED
      BY <3>2 DEF k
  <2> QED
    BY <2>2, <2>3 DEF Others, FactorsOf
<1> HIDE DEF o
<1>5. P[n] \in Coeffs
  BY DEF Building
<1>6. w = Quotient(Linear(a, o), n + 1, a) /\ w \in Coeffs
  <2>1. Quotient(P[n], n + 1, a) \in Coeffs
    BY <1>3, <1>5, QuotientSteps
  <2> QED
    BY <1>3, <2>1
<1>7. ASSUME NEW j \in 0 .. n - 1 PROVE w[j] = o[j]
  <2>1. \A j1 \in Nat : j1 <= n => P[n][j1] = Linear(a, o)[j1]
    BY <1>3
  <2>2. \A j1 \in Nat : j1 <= n => Quotient(P[n], n + 1, a)[j1] = o[j1]
    BY <1>3, <1>5, <2>1, QuotientOfLinear
  <2> QED
    BY <2>2
<1>8. ASSUME NEW z \in Ring PROVE Value(w, n, z) = Value(o, n, z)
  BY <1>3, <1>6, <1>7, ValueSame
<1>9. Value(Slope(P[n]), n, a) = Value(o, n, a)
  BY <1>3, SlopeOfLinear
<1>10. IsUnit(Others(x, n, i, a))
  <2> DEFINE f == FactorsOf(x, n, i, a)
  <2>1. \A j \in 0 .. n - 1 : f[j] \in Ring
    BY <1>1, <1>3, FactorsInRing
  <2>2. \A j \in 0 .. n - 1 : IsUnit(f[j])
    BY OneIsUnit DEF FactorsOf, Apart, Exceptional
  <2> HIDE DEF f
  <2>3. IsUnit(RingProduct(f, n))
    BY <2>1, <2>2, ProductOfUnits
  <2> QED
    BY <2>3 DEF f, Others, FactorsOf
<1> QED
  BY <1>3, <1>4, <1>5, <1>6, <1>8, <1>9, <1>10

(* The polynomial through n points is the sum of these, each with the      *)
(* weight that gives it its value.                                         *)
Combined(basis, scale, n, m) ==
  [j \in Nat |-> RingSum([i \in 0 .. n - 1 |-> Times(basis[i][j], scale[i])], m)]

(* The value of a linear combination is the combination of the values.     *)
LEMMA CombinedValue ==
  ASSUME RingLaws, NEW n \in Nat, NEW size \in Nat, NEW basis, NEW scale,
         \A i \in 0 .. n - 1 : basis[i] \in Coeffs /\ scale[i] \in Ring, NEW z \in Ring
  PROVE  /\ Combined(basis, scale, n, n) \in Coeffs
         /\ Value(Combined(basis, scale, n, n), size, z)
              = RingSum([i \in 0 .. n - 1 |-> Times(scale[i], Value(basis[i], size, z))], n)
<1> DEFINE C(m) == Combined(basis, scale, n, m)
           G == [i \in 0 .. n - 1 |-> Times(scale[i], Value(basis[i], size, z))]
           good == {m \in 0 .. n : Value(C(m), size, z) = RingSum(G, m)}
           term(j) == [i \in 0 .. n - 1 |-> Times(basis[i][j], scale[i])]
<1>1. ASSUME NEW j \in Nat, NEW i \in 0 .. n - 1
      PROVE  term(j)[i] = Times(basis[i][j], scale[i]) /\ term(j)[i] \in Ring
  <2>1. basis[i] \in Coeffs /\ scale[i] \in Ring
    OBVIOUS
  <2>2. basis[i][j] \in Ring
    BY <2>1 DEF Coeffs
  <2> QED
    BY <2>1, <2>2 DEF RingLaws, Closed
<1>2. ASSUME NEW m \in 0 .. n, NEW j \in Nat PROVE C(m)[j] = RingSum(term(j), m)
  BY DEF Combined
<1> HIDE DEF term
<1>3. ASSUME NEW j \in Nat
      PROVE  /\ RingSum(term(j), 0) = 0 /\ \A m \in 0 .. n : RingSum(term(j), m) \in Ring
             /\ \A m \in 0 .. n - 1 : RingSum(term(j), m + 1) = Plus(RingSum(term(j), m), term(j)[m])
  <2>1. \A i \in 0 .. n - 1 : term(j)[i] \in Ring
    BY <1>1
  <2> QED
    BY <2>1, SumSteps
<1>4. ASSUME NEW m \in 0 .. n PROVE C(m) \in Coeffs
  <2>1. \A j \in Nat : C(m)[j] \in Ring
    BY <1>2, <1>3
  <2>2. C(m) = [j \in Nat |-> C(m)[j]]
    BY DEF Combined
  <2> HIDE DEF C
  <2> QED
    BY <2>1, <2>2 DEF Coeffs
<1>5. ASSUME NEW i \in 0 .. n - 1 PROVE G[i] = Times(scale[i], Value(basis[i], size, z)) /\ G[i] \in Ring
  <2>1. basis[i] \in Coeffs /\ scale[i] \in Ring
    OBVIOUS
  <2>2. Value(basis[i], size, z) \in Ring
    BY <2>1, ValueSteps
  <2> QED
    BY <2>1, <2>2 DEF RingLaws, Closed
<1> HIDE DEF C, G
<1>6. RingSum(G, 0) = 0 /\ \A m \in 0 .. n - 1 : RingSum(G, m + 1) = Plus(RingSum(G, m), G[m])
  BY <1>5, SumSteps
<1>7. 0 \in good
  <2>1. \A i \in 0 .. size - 1 : C(0)[i] = 0
    BY <1>2, <1>3
  <2>2. Value(C(0), size, z) = Value(C(0), 0, z)
    BY <1>4, <2>1, ValueLeadingZeros
  <2>3. Value(C(0), 0, z) = 0
    BY <1>4, ValueSteps
  <2> QED
    BY <1>6, <2>2, <2>3
<1>8. ASSUME NEW m \in good, m < n PROVE m + 1 \in good
  <2> DEFINE e == [j \in Nat |-> Times(scale[m], basis[m][j])]
             k == m + 1
             b == basis[m]
             t == scale[m]
  <2>1. m \in 0 .. n - 1 /\ m \in 0 .. n /\ k \in 0 .. n
    BY <1>8
  <2>2. b \in Coeffs /\ t \in Ring
    BY <2>1
  <2>3. e \in Coeffs
    BY <2>2 DEF Coeffs, RingLaws, Closed
  <2>4. \A j \in 0 .. size - 1 : e[j] = Times(t, b[j])
    OBVIOUS
  <2>5. ASSUME NEW j \in 0 .. size - 1 PROVE C(k)[j] = Plus(C(m)[j], e[j])
    <3>1. C(k)[j] = Plus(RingSum(term(j), m), term(j)[m])
      BY <1>2, <1>3, <2>1
    <3>2. C(m)[j] = RingSum(term(j), m)
      BY <1>2, <2>1
    <3>3. term(j)[m] = Times(b[j], t) /\ b[j] \in Ring
      BY <1>1, <2>1, <2>2 DEF Coeffs
    <3>4. Times(b[j], t) = Times(t, b[j])
      BY <2>2, <3>3 DEF RingLaws, Multiplicative
    <3> QED
      BY <2>4, <3>1, <3>2, <3>3, <3>4
  <2>6. C(k) \in Coeffs /\ C(m) \in Coeffs
    BY <1>4, <2>1
  <2>7. G[m] = Times(t, Value(b, size, z))
    BY <1>5, <2>1
  <2>8. RingSum(G, k) = Plus(RingSum(G, m), G[m])
    BY <1>6, <2>1
  <2> HIDE DEF e, k, b, t
  <2>9. Value(C(k), size, z) = Plus(Value(C(m), size, z), Value(e, size, z))
    BY <2>3, <2>5, <2>6, ValueOfSum
  <2>10. Value(e, size, z) = Times(t, Value(b, size, z))
    BY <2>2, <2>3, <2>4, ValueOfMultiple
  <2>11. Value(C(k), size, z) = RingSum(G, k)
    BY <1>8, <2>7, <2>8, <2>9, <2>10
  <2> QED
    BY <2>1, <2>11 DEF k
<1>9. n \in good
  <2>1. good \in SUBSET (0 .. n)
    OBVIOUS
  <2> HIDE DEF good
  <2>2. good = 0 .. n
    BY <1>7, <1>8, <2>1, InductionUpTo
  <2> QED
    BY <2>2
<1>10. C(n) \in Coeffs
  BY <1>4
<1> QED
  BY <1>9, <1>10 DEF C, G

(* The weights are the inverse slopes of the vanishing polynomial: what    *)
(* Interpolate builds has Lagrange's values.                               *)
LEMMA InterpolateIsLagrange ==
  ASSUME RingLaws, NEW n \in Nat, NEW x, Apart(x, n), NEW values,
         \A i \in 0 .. n - 1 : values[i] \in Ring
  PROVE  \E c \in Coeffs : \E at :
           /\ Interpolate(x, values, n) = Trim(n, at)
           /\ \A j \in Nat : j < n => at[j] = c[j]
           /\ \A z \in Ring : Value(c, n, z) = EvaluateGenericFiber(x, values, n, z)
<1> DEFINE y          == Tabulated(x)
           vanishing  == Tabulated(Vanishing(y, n))
           derivative == Tabulated([j \in 0 .. n - 1 |-> Times(vanishing[j + 1], OfInteger(j + 1))])
           slope(i)   == Evaluate([size |-> n, at |-> derivative], y[i])
           scale      == Tabulated([i \in 0 .. n - 1 |-> Times(values[i], Inv(slope(i)))])
           basis      == Tabulated([i \in 0 .. n - 1 |->
                           Tabulated(DivideByLinear(vanishing, n + 1, y[i]))])
           at         == Tabulated([j \in 0 .. n - 1 |->
                           RingSum([i \in 0 .. n - 1 |-> Times(basis[i][j], scale[i])], n)])
<1>1. Interpolate(x, values, n) = Trim(n, at)
  BY DEF Interpolate
<1>2. y = x /\ \A i \in 0 .. n - 1 : x[i] \in Ring
  BY TabulatedIs DEF Apart
<1>3. PICK P : Building(P, x, n, n)
  BY <1>2, BuildingExists
<1> DEFINE q(i) == Quotient(P[n], n + 1, x[i])
<1>4. vanishing = [j \in 0 .. n |-> P[n][j]]
  BY <1>2, <1>3, VanishingIs, TabulatedIs
<1>5. ASSUME NEW i \in 0 .. n - 1
      PROVE  /\ q(i) \in Coeffs /\ P[n] \in Coeffs
             /\ \A z \in Ring : Value(q(i), n, z) = Others(x, n, i, z)
             /\ Value(Slope(P[n]), n, x[i]) = Others(x, n, i, x[i])
             /\ IsUnit(Others(x, n, i, x[i]))
  BY <1>3, FactorsLeft
<1> HIDE DEF y, vanishing
<1>6. ASSUME NEW j \in 0 .. n - 1 PROVE derivative[j] = Slope(P[n])[j]
  <2>1. derivative = [t \in 0 .. n - 1 |-> Times(vanishing[t + 1], OfInteger(t + 1))]
    BY TabulatedIs
  <2>2. j + 1 \in 0 .. n
    OBVIOUS
  <2>3. vanishing[j + 1] = P[n][j + 1]
    BY <1>4, <2>2
  <2> HIDE DEF derivative
  <2> QED
    BY <2>1, <2>3 DEF Slope
<1> HIDE DEF derivative
<1>7. ASSUME NEW i \in 0 .. n - 1 PROVE slope(i) = Others(x, n, i, x[i])
  <2> DEFINE f == [size |-> n, at |-> derivative]
  <2>1. P[n] \in Coeffs /\ x[i] \in Ring
    BY <1>2, <1>5
  <2>2. Slope(P[n]) \in Coeffs
    BY <2>1, SlopeInRing
  <2>3. IsPolynomial(f)
    BY <1>6, <2>2 DEF IsPolynomial, Coeffs
  <2>4. f.size = n /\ \A j \in 0 .. n - 1 : Coefficients(f)[j] = Slope(P[n])[j]
    BY <1>6 DEF Coefficients
  <2> HIDE DEF f
  <2>5. Evaluate(f, x[i]) = Value(Coefficients(f), n, x[i])
    BY <2>1, <2>3, <2>4, EvaluateIsValue
  <2>6. Coefficients(f) \in Coeffs
    BY <2>3, CoefficientsInRing
  <2>7. Value(Coefficients(f), n, x[i]) = Value(Slope(P[n]), n, x[i])
    BY <2>1, <2>2, <2>4, <2>6, ValueSame
  <2> QED
    BY <1>2, <1>5, <2>5, <2>7 DEF f
<1> HIDE DEF slope
<1>8. ASSUME NEW i \in 0 .. n - 1
      PROVE  scale[i] = Times(values[i], Inv(Others(x, n, i, x[i]))) /\ scale[i] \in Ring
             /\ Others(x, n, i, x[i]) \in Ring
  <2>1. scale = [t \in 0 .. n - 1 |-> Times(values[t], Inv(slope(t)))]
    BY TabulatedIs
  <2> HIDE DEF scale
  <2>2. scale[i] = Times(values[i], Inv(Others(x, n, i, x[i])))
    BY <1>7, <2>1
  <2>3. Others(x, n, i, x[i]) \in Ring
    <3>1. x[i] \in Ring /\ q(i) \in Coeffs
      BY <1>2, <1>5
    <3> HIDE DEF q
    <3>2. Value(q(i), n, x[i]) \in Ring
      BY <3>1, ValueSteps
    <3> QED
      BY <1>5, <3>1, <3>2
  <2>4. Inv(Others(x, n, i, x[i])) \in Ring
    BY <2>3, InverseInRing
  <2> QED
    BY <2>2, <2>3, <2>4 DEF RingLaws, Closed
<1> HIDE DEF scale
<1>9. ASSUME NEW i \in 0 .. n - 1, NEW j \in Nat, j < n PROVE basis[i][j] = q(i)[j]
  <2>1. basis = [t \in 0 .. n - 1 |-> Tabulated(DivideByLinear(vanishing, n + 1, y[t]))]
    BY TabulatedIs
  <2> HIDE DEF basis
  <2>2. basis[i] = DivideByLinear(vanishing, n + 1, x[i])
    BY <1>2, <2>1, TabulatedIs
  <2>3. \A t \in Nat : t <= n => vanishing[t] = P[n][t]
    BY <1>4
  <2>4. DivideByLinear(vanishing, n + 1, x[i]) = [t \in 0 .. n - 1 |-> q(i)[t]]
    <3> DEFINE b == P[n]
               a == x[i]
    <3>1. b \in Coeffs /\ a \in Ring /\ \A t \in Nat : t <= n => vanishing[t] = b[t]
      BY <1>2, <1>5, <2>3
    <3> HIDE DEF b, a
    <3>2. DivideByLinear(vanishing, n + 1, a) = [t \in 0 .. n - 1 |-> Quotient(b, n + 1, a)[t]]
      BY <3>1, DivideByLinearIs
    <3> QED
      BY <3>2 DEF b, a
  <2> QED
    BY <1>9, <2>2, <2>4
<1> HIDE DEF basis
<1> DEFINE parts == [i \in 0 .. n - 1 |-> q(i)]
           c == Combined(parts, scale, n, n)
<1>10. \A i \in 0 .. n - 1 : parts[i] \in Coeffs /\ scale[i] \in Ring /\ parts[i] = q(i)
  BY <1>5, <1>8
<1> HIDE DEF parts, q
<1>11. ASSUME NEW z \in Ring
       PROVE  c \in Coeffs /\ Value(c, n, z) = RingSum([i \in 0 .. n - 1 |-> Times(scale[i], Value(parts[i], n, z))], n)
  BY <1>10, CombinedValue
<1>12. c \in Coeffs
  BY <1>11 DEF RingLaws, Closed
<1>13. ASSUME NEW j \in Nat, j < n PROVE at[j] = c[j]
  <2> DEFINE f == [i \in 0 .. n - 1 |-> Times(basis[i][j], scale[i])]
             g == [i \in 0 .. n - 1 |-> Times(parts[i][j], scale[i])]
  <2>1. at = [t \in 0 .. n - 1 |-> RingSum([i \in 0 .. n - 1 |-> Times(basis[i][t], scale[i])], n)]
    BY TabulatedIs
  <2> HIDE DEF at
  <2>2. at[j] = RingSum(f, n)
    BY <1>13, <2>1
  <2>3. c[j] = RingSum(g, n)
    BY DEF Combined
  <2>4. ASSUME NEW i \in 0 .. n - 1 PROVE f[i] \in Ring /\ f[i] = g[i]
    <3>1. parts[i][j] \in Ring /\ scale[i] \in Ring
      BY <1>10 DEF Coeffs
    <3>2. basis[i][j] = parts[i][j]
      BY <1>9, <1>10, <1>13
    <3> QED
      BY <3>1, <3>2 DEF RingLaws, Closed
  <2> HIDE DEF f, g
  <2>5. RingSum(f, n) = RingSum(g, n)
    BY <2>4, SumSame
  <2> QED
    BY <2>2, <2>3, <2>5
<1> HIDE DEF at
<1>14. ASSUME NEW z \in Ring PROVE Value(c, n, z) = EvaluateGenericFiber(x, values, n, z)
  <2> DEFINE f == [i \in 0 .. n - 1 |-> Times(scale[i], Value(parts[i], n, z))]
             g == [i \in 0 .. n - 1 |-> Times(Times(values[i], Others(x, n, i, z)), Inv(Others(x, n, i, x[i])))]
  <2>1. Value(c, n, z) = RingSum(f, n)
    BY <1>11
  <2>2. EvaluateGenericFiber(x, values, n, z) = RingSum(g, n)
    BY DEF EvaluateGenericFiber
  <2>3. ASSUME NEW i \in 0 .. n - 1 PROVE f[i] \in Ring /\ f[i] = g[i]
    <3> DEFINE o == Value(parts[i], n, z)
               t == Inv(Others(x, n, i, x[i]))
               v == values[i]
    <3>1. o \in Ring /\ o = Others(x, n, i, z)
      <4>1. parts[i] \in Coeffs
        BY <1>10
      <4>2. o \in Ring
        BY <4>1, ValueSteps
      <4> QED
        BY <1>5, <1>10, <4>2
    <3>2. t \in Ring /\ v \in Ring /\ scale[i] = Times(v, t) /\ scale[i] \in Ring
      BY <1>8, InverseInRing
    <3>3. f[i] = Times(scale[i], o) /\ g[i] = Times(Times(v, o), t)
      BY <3>1
    <3> HIDE DEF o, t, v, f, g
    <3>4. Times(Times(v, t), o) = Times(Times(v, o), t) /\ Times(scale[i], o) \in Ring
      BY <3>1, <3>2 DEF RingLaws, Closed, Multiplicative
    <3> QED
      BY <3>2, <3>3, <3>4
  <2> HIDE DEF f, g
  <2>4. RingSum(f, n) = RingSum(g, n)
    BY <2>3, SumSame
  <2> QED
    BY <2>1, <2>2, <2>4
<1> QED
  BY <1>1, <1>12, <1>13, <1>14

(* The product of the differences to the other points is in the ring.      *)
LEMMA OthersInRing ==
  ASSUME RingLaws, NEW n \in Nat, NEW x, \A j \in 0 .. n - 1 : x[j] \in Ring, NEW i,
         NEW z \in Ring
  PROVE  Others(x, n, i, z) \in Ring
<1> DEFINE f == FactorsOf(x, n, i, z)
<1>1. \A j \in 0 .. n - 1 : f[j] \in Ring
  BY FactorsInRing
<1> HIDE DEF f
<1>2. RingProduct(f, n) \in Ring
  BY <1>1, ProductSteps
<1> QED
  BY <1>2 DEF f, Others, FactorsOf

(* The others' product is a unit at the point itself, zero at the others.  *)
LEMMA OthersAtPoints ==
  ASSUME RingLaws, NEW n \in Nat, NEW x, Apart(x, n), NEW i \in 0 .. n - 1
  PROVE  /\ IsUnit(Others(x, n, i, x[i]))
         /\ \A k \in 0 .. n - 1 : k # i => Others(x, n, i, x[k]) = 0
<1>1. \A j \in 0 .. n - 1 : x[j] \in Ring
  BY DEF Apart
<1>2. IsUnit(Others(x, n, i, x[i]))
  <2> DEFINE f == FactorsOf(x, n, i, x[i])
  <2>1. \A j \in 0 .. n - 1 : f[j] \in Ring
    BY <1>1, FactorsInRing
  <2>2. \A j \in 0 .. n - 1 : IsUnit(f[j])
    BY OneIsUnit DEF FactorsOf, Apart, Exceptional
  <2> HIDE DEF f
  <2>3. IsUnit(RingProduct(f, n))
    BY <2>1, <2>2, ProductOfUnits
  <2> QED
    BY <2>3 DEF f, Others, FactorsOf
<1>3. ASSUME NEW k \in 0 .. n - 1, k # i PROVE Others(x, n, i, x[k]) = 0
  <2> DEFINE f == FactorsOf(x, n, i, x[k])
  <2>1. \A j \in 0 .. n - 1 : f[j] \in Ring
    BY <1>1, FactorsInRing
  <2>2. f[k] = 0
    BY <1>1, <1>3, DifferenceZero DEF FactorsOf
  <2> HIDE DEF f
  <2>3. RingProduct(f, n) = 0
    BY <2>1, <2>2, ProductVanishes
  <2> QED
    BY <2>3 DEF f, Others, FactorsOf
<1> QED
  BY <1>2, <1>3

(* The terms of Lagrange's sum.                                            *)
LagrangeTerms(x, values, n, z) ==
  [i \in 0 .. n - 1 |-> Times(Times(values[i], Others(x, n, i, z)), Inv(Others(x, n, i, x[i])))]

(* What the code sums over a fiber is in the ring.                         *)
LEMMA LagrangeTermsInRing ==
  ASSUME RingLaws, NEW n \in Nat, NEW x, \A j \in 0 .. n - 1 : x[j] \in Ring, NEW values,
         \A i \in 0 .. n - 1 : values[i] \in Ring, NEW z \in Ring
  PROVE  /\ \A i \in 0 .. n - 1 : LagrangeTerms(x, values, n, z)[i] \in Ring
         /\ EvaluateGenericFiber(x, values, n, z) = RingSum(LagrangeTerms(x, values, n, z), n)
         /\ EvaluateGenericFiber(x, values, n, z) \in Ring
<1> DEFINE f == LagrangeTerms(x, values, n, z)
<1>1. ASSUME NEW i \in 0 .. n - 1 PROVE f[i] \in Ring
  <2>1. f[i] = Times(Times(values[i], Others(x, n, i, z)), Inv(Others(x, n, i, x[i])))
    BY DEF LagrangeTerms
  <2>2. x[i] \in Ring /\ values[i] \in Ring
    OBVIOUS
  <2>3. Others(x, n, i, z) \in Ring /\ Others(x, n, i, x[i]) \in Ring
    BY <2>2, OthersInRing
  <2>4. Inv(Others(x, n, i, x[i])) \in Ring
    BY <2>3, InverseInRing
  <2> QED
    BY <2>1, <2>2, <2>3, <2>4 DEF RingLaws, Closed
<1>2. EvaluateGenericFiber(x, values, n, z) = RingSum(f, n)
  BY DEF EvaluateGenericFiber, LagrangeTerms
<1> HIDE DEF f
<1>3. RingSum(f, n) \in Ring
  BY <1>1, SumSteps
<1> QED
  BY <1>1, <1>2, <1>3 DEF f

(* At one of its points the Lagrange form gives the value there.           *)
LEMMA LagrangeAtPoint ==
  ASSUME RingLaws, NEW n \in Nat, NEW x, Apart(x, n), NEW values,
         \A i \in 0 .. n - 1 : values[i] \in Ring, NEW k \in 0 .. n - 1
  PROVE  EvaluateGenericFiber(x, values, n, x[k]) = values[k]
<1> DEFINE f == LagrangeTerms(x, values, n, x[k])
<1>1. \A j \in 0 .. n - 1 : x[j] \in Ring
  BY DEF Apart
<1>2. /\ EvaluateGenericFiber(x, values, n, x[k]) = RingSum(f, n)
      /\ \A i \in 0 .. n - 1 : f[i] \in Ring
  BY <1>1, LagrangeTermsInRing
<1>3. ASSUME NEW i \in 0 .. n - 1
      PROVE  f[i] = Times(Times(values[i], Others(x, n, i, x[k])), Inv(Others(x, n, i, x[i])))
  BY DEF LagrangeTerms
<1> HIDE DEF f
<1>4. ASSUME NEW i \in 0 .. n - 1, i # k PROVE f[i] = 0
  <2>1. Others(x, n, i, x[k]) = 0
    BY <1>4, OthersAtPoints
  <2>2. Inv(Others(x, n, i, x[i])) \in Ring
    BY <1>1, OthersInRing, InverseInRing
  <2>3. Times(values[i], 0) = 0 /\ Times(0, Inv(Others(x, n, i, x[i]))) = 0
    BY <2>2, TimesZero
  <2> QED
    BY <1>3, <2>1, <2>3
<1>5. f[k] = values[k]
  <2> DEFINE o == Others(x, n, k, x[k])
             v == values[k]
  <2>1. o \in Ring /\ IsUnit(o) /\ v \in Ring
    BY <1>1, OthersInRing, OthersAtPoints
  <2>2. Inv(o) \in Ring /\ Times(o, Inv(o)) = OfInteger(1)
    BY <2>1, InverseAssumption
  <2>3. f[k] = Times(Times(v, o), Inv(o))
    BY <1>3
  <2> HIDE DEF o, v
  <2>4. Times(Times(v, o), Inv(o)) = v
    BY <2>1, <2>2 DEF RingLaws, Multiplicative
  <2> QED
    BY <2>3, <2>4 DEF v
<1>6. RingSum(f, n) = f[k]
  BY <1>2, <1>4, SumOfOne
<1> QED
  BY <1>2, <1>5, <1>6

(* A polynomial as the constructor leaves it.                              *)
Trimmed(f) == f.size = 0 \/ f.at[f.size - 1] # 0

(* Interpolation gives a polynomial of degree below n with the values      *)
(* asked for, and everywhere the value of the Lagrange form.               *)
THEOREM InterpolateFacts ==
  ASSUME RingLaws, NEW n \in Nat, NEW x, Apart(x, n), NEW values,
         \A i \in 0 .. n - 1 : values[i] \in Ring
  PROVE  LET f == Interpolate(x, values, n)
         IN  /\ IsPolynomial(f) /\ f.size <= n /\ Trimmed(f)
             /\ \A z \in Ring : Evaluate(f, z) = EvaluateGenericFiber(x, values, n, z)
             /\ \A i \in 0 .. n - 1 : Evaluate(f, x[i]) = values[i]
<1> DEFINE f == Interpolate(x, values, n)
<1>1. PICK c \in Coeffs : \E at :
           /\ f = Trim(n, at)
           /\ \A j \in Nat : j < n => at[j] = c[j]
           /\ \A z \in Ring : Value(c, n, z) = EvaluateGenericFiber(x, values, n, z)
  BY InterpolateIsLagrange
<1>2. PICK at :
           /\ f = Trim(n, at)
           /\ \A j \in Nat : j < n => at[j] = c[j]
           /\ \A z \in Ring : Value(c, n, z) = EvaluateGenericFiber(x, values, n, z)
  BY <1>1
<1> HIDE DEF f
<1>3. IsPolynomial(f) /\ \A z \in Ring : Evaluate(f, z) = Value(c, n, z)
  BY <1>2, TrimCoefficients
<1>4. f.size <= n /\ Trimmed(f)
  <2>1. /\ f.size \in 0 .. n /\ f.at = [i \in 0 .. f.size - 1 |-> at[i]]
        /\ f.size = 0 \/ at[f.size - 1] # 0
    BY <1>2, TrimIs
  <2> QED
    BY <2>1 DEF Trimmed
<1>5. ASSUME NEW i \in 0 .. n - 1 PROVE Evaluate(f, x[i]) = values[i]
  <2>1. x[i] \in Ring
    BY DEF Apart
  <2>2. EvaluateGenericFiber(x, values, n, x[i]) = values[i]
    BY LagrangeAtPoint
  <2> QED
    BY <1>2, <1>3, <2>1, <2>2
<1> QED
  BY <1>2, <1>3, <1>4, <1>5 DEF f

(* Polynomials of at most n coefficients that agree at n points are equal. *)
LEMMA AgreeingPolynomials ==
  ASSUME RingLaws, NEW n \in Nat, NEW x, Apart(x, n),
         NEW f, IsPolynomial(f), f.size <= n, NEW g, IsPolynomial(g), g.size <= n,
         \A i \in 0 .. n - 1 : Evaluate(f, x[i]) = Evaluate(g, x[i])
  PROVE  /\ \A j \in Nat : Coefficients(f)[j] = Coefficients(g)[j]
         /\ \A z \in Ring : Evaluate(f, z) = Evaluate(g, z)
         /\ Trimmed(f) => f.size <= g.size
<1> DEFINE c == Coefficients(f)
           d == Coefficients(g)
<1>1. c \in Coeffs /\ d \in Coeffs /\ f.size \in Nat /\ g.size \in Nat
  BY CoefficientsInRing DEF IsPolynomial
<1>2. \A j \in Nat : (j >= f.size => c[j] = 0) /\ (j >= g.size => d[j] = 0)
  BY <1>1 DEF Coefficients
<1>3. ASSUME NEW z \in Ring PROVE Evaluate(f, z) = Value(c, n, z) /\ Evaluate(g, z) = Value(d, n, z)
  <2>1. Evaluate(f, z) = Value(c, f.size, z) /\ Evaluate(g, z) = Value(d, g.size, z)
    BY EvaluateIsValue
  <2>2. (\A i \in f.size .. n - 1 : c[i] = 0) /\ (\A i \in g.size .. n - 1 : d[i] = 0)
    BY <1>1, <1>2
  <2> HIDE DEF c, d
  <2>3. Value(c, n, z) = Value(c, f.size, z)
    BY <1>1, <2>2, ValueLeadingZeros
  <2>4. Value(d, n, z) = Value(d, g.size, z)
    BY <1>1, <2>2, ValueLeadingZeros
  <2> QED
    BY <2>1, <2>3, <2>4
<1>4. Trimmed(f) => (f.size = 0 \/ c[f.size - 1] # 0)
  BY <1>1 DEF Trimmed, Coefficients
<1> HIDE DEF c, d
<1>5. \A i \in 0 .. n - 1 : Value(c, n, x[i]) = Value(d, n, x[i])
  BY <1>3 DEF Apart
<1>6. \A j \in 0 .. n - 1 : c[j] = d[j]
  BY <1>1, <1>5, AgreeingValues
<1>7. \A j \in Nat : c[j] = d[j]
  BY <1>1, <1>2, <1>6
<1>8. ASSUME NEW z \in Ring PROVE Evaluate(f, z) = Evaluate(g, z)
  <2>1. Value(c, n, z) = Value(d, n, z)
    BY <1>1, <1>6, ValueSame
  <2> QED
    BY <1>3, <2>1
<1>9. ASSUME Trimmed(f), f.size > g.size PROVE FALSE
  <2>1. f.size - 1 \in Nat /\ f.size - 1 >= g.size /\ f.size # 0
    BY <1>1, <1>9
  <2>2. c[f.size - 1] = 0
    BY <1>2, <1>7, <2>1
  <2> QED
    BY <1>4, <1>9, <2>1, <2>2
<1> QED
  BY <1>1, <1>7, <1>8, <1>9 DEF c, d

-----------------------------------------------------------------------------
(* Folding a fiber *)

(* The value of a constant.                                                *)
LEMMA ConstantValue ==
  ASSUME RingLaws, NEW r \in Ring, NEW n \in Nat, n # 0, NEW z \in Ring
  PROVE  /\ [j \in Nat |-> IF j = 0 THEN r ELSE 0] \in Coeffs
         /\ Value([j \in Nat |-> IF j = 0 THEN r ELSE 0], n, z) = r
<1> DEFINE e == [j \in Nat |-> IF j = 0 THEN r ELSE 0]
<1>1. e \in Coeffs
  BY DEF Coeffs, RingLaws, Closed
<1>2. e[0] = r /\ \A i \in 1 .. n - 1 : e[i] = 0
  OBVIOUS
<1>3. 1 <= n /\ 1 \in Nat /\ 0 \in Nat /\ 0 + 1 = 1
  OBVIOUS
<1> HIDE DEF e
<1>4. Value(e, n, z) = Value(e, 1, z)
  BY <1>1, <1>2, <1>3, ValueLeadingZeros
<1>5. Value(e, 0 + 1, z) = Plus(Value(e, 0, z), Times(e[0], Power(z, 0))) /\ Value(e, 0, z) = 0
  BY <1>1, <1>3, ValueSteps
<1>6. Power(z, 0) = OfInteger(1) /\ Times(r, OfInteger(1)) = r /\ Plus(0, r) = r
  BY PowerSteps DEF RingLaws, Closed, Additive, Multiplicative
<1> QED
  BY <1>1, <1>2, <1>3, <1>4, <1>5, <1>6 DEF e

(* The slope of X^n - 1, which is the product over n different n-th roots  *)
(* of one.                                                                 *)
RootsOfUnity(x, n) == Apart(x, n) /\ \A i \in 0 .. n - 1 : Power(x[i], n) = OfInteger(1)

(* For n-th roots of unity the product of the differences is n x^(n-1).    *)
LEMMA SlopeAtRoot ==
  ASSUME RingLaws, NEW n \in Nat, n # 0, NEW x, RootsOfUnity(x, n), NEW i \in 0 .. n - 1
  PROVE  Others(x, n, i, x[i]) = Times(OfInteger(n), Power(x[i], n - 1))
<1>1. Apart(x, n) /\ \A j \in 0 .. n - 1 : x[j] \in Ring /\ Power(x[j], n) = OfInteger(1)
  BY DEF RootsOfUnity, Apart
<1>2. PICK P : Building(P, x, n, n)
  BY <1>1, BuildingExists
<1> DEFINE p == P[n]
           d == [j \in Nat |-> IF j = 0 THEN MinusOne ELSE 0]
           q == Quotient(p, n + 1, x[i])
           o == OfInteger(1)
<1>3. p \in Coeffs /\ Value(Slope(p), n, x[i]) = Others(x, n, i, x[i])
  BY <1>1, <1>2, FactorsLeft
<1>4. BuiltSoFar(P, x, n, n, n)
  BY <1>1, <1>2, BuildingFacts
<1>5. p[n] = o
  BY <1>4 DEF BuiltSoFar
<1>6. o \in Ring /\ MinusOne \in Ring /\ 0 \in Ring
  BY DifferenceAsSum DEF RingLaws, Closed
<1> HIDE DEF p
<1>7. ASSUME NEW k \in 0 .. n - 1 PROVE Value(p, n, x[k]) = MinusOne
  <2> DEFINE v == Value(p, n, x[k])
  <2>1. x[k] \in Ring /\ Power(x[k], n) = o
    BY <1>1
  <2>2. v \in Ring /\ Value(p, n + 1, x[k]) = Plus(v, Times(p[n], Power(x[k], n)))
    BY <1>3, <2>1, ValueSteps
  <2>3. Value(p, n + 1, x[k]) = 0
    <3> DEFINE f == FactorsOf(x, n, n, x[k])
    <3>1. Value(p, n + 1, x[k]) = RingProduct(f, n)
      BY <1>4, <2>1 DEF BuiltSoFar, p
    <3>2. \A j \in 0 .. n - 1 : f[j] \in Ring
      BY <1>1, <2>1, FactorsInRing
    <3>3. f[k] = 0
      BY <2>1, DifferenceZero DEF FactorsOf
    <3> HIDE DEF f
    <3>4. RingProduct(f, n) = 0
      BY <3>2, <3>3, ProductVanishes
    <3> QED
      BY <3>1, <3>4
  <2>4. Times(o, o) = o
    BY <1>6 DEF RingLaws, Multiplicative
  <2> HIDE DEF v
  <2>5. Plus(v, o) = 0
    BY <1>5, <2>1, <2>2, <2>3, <2>4
  <2>6. Minus(0, o) = v
    BY <1>6, <2>2, <2>5, DifferenceIs
  <2> QED
    BY <2>6 DEF v, MinusOne
<1>8. d \in Coeffs /\ \A k \in 0 .. n - 1 : Value(d, n, x[k]) = MinusOne
  <2>1. \A z \in Ring : d \in Coeffs /\ Value(d, n, z) = MinusOne
    BY <1>6, ConstantValue
  <2> QED
    BY <1>1, <1>6, <2>1
<1>9. \A j \in 0 .. n - 1 : p[j] = d[j]
  <2> HIDE DEF d
  <2>1. \A k \in 0 .. n - 1 : Value(p, n, x[k]) = Value(d, n, x[k])
    BY <1>7, <1>8
  <2> QED
    BY <1>1, <1>3, <1>8, <2>1, AgreeingValues
<1> DEFINE s == Slope(p)
           t == Terms(s, x[i])
           m == n - 1
<1>10. s \in Coeffs
  BY <1>3, SlopeInRing
<1>11. \A j \in Nat : s[j] = Times(p[j + 1], OfInteger(j + 1))
  BY DEF Slope
<1>12. m \in 0 .. n - 1 /\ m \in Nat /\ m + 1 = n /\ x[i] \in Ring
  BY <1>1
<1>13. OfInteger(n) \in Ring /\ Power(x[i], m) \in Ring
  BY <1>12, PowerSteps DEF RingLaws, Counting
<1>14. s[m] = OfInteger(n)
  <2>1. s[m] = Times(o, OfInteger(n))
    BY <1>5, <1>11, <1>12
  <2> QED
    BY <1>6, <1>13, <2>1 DEF RingLaws, Multiplicative
<1>15. ASSUME NEW j \in 0 .. n - 1, j # m PROVE s[j] = 0
  <2>1. j + 1 \in 0 .. n - 1 /\ j + 1 # 0
    BY <1>15
  <2>2. p[j + 1] = 0
    BY <1>9, <2>1
  <2>3. OfInteger(j + 1) \in Ring
    BY <2>1 DEF RingLaws, Counting
  <2>4. s[j] = Times(0, OfInteger(j + 1))
    BY <1>11, <2>2
  <2> QED
    BY <2>3, <2>4, TimesZero
<1> HIDE DEF s, m
<1>16. ASSUME NEW j \in Nat PROVE t[j] = Times(s[j], Power(x[i], j)) /\ t[j] \in Ring /\ Power(x[i], j) \in Ring
  BY <1>10, <1>12, TermsInRing, PowerSteps
<1> HIDE DEF t
<1>17. RingSum(t, n) = t[m]
  <2>1. t[m] \in Ring
    BY <1>12, <1>16
  <2>2. \A j \in 0 .. n - 1 : j # m => t[j] = 0
    BY <1>15, <1>16, TimesZero
  <2> QED
    BY <1>12, <2>1, <2>2, SumOfOne
<1>18. Value(s, n, x[i]) = t[m]
  BY <1>17 DEF Value, t
<1> QED
  BY <1>3, <1>12, <1>14, <1>16, <1>18 DEF s, m

(* Scaling the points scales every factor.                                 *)
Scales(p, n, i) == [j \in 0 .. n - 1 |-> IF j = i THEN OfInteger(1) ELSE p]

(* Points, and where they are looked at from, scaled by p.                 *)
LEMMA OthersScaled ==
  ASSUME RingLaws, NEW n \in Nat, NEW x, \A j \in 0 .. n - 1 : x[j] \in Ring,
         NEW p \in Ring, NEW y, \A j \in 0 .. n - 1 : y[j] = Times(p, x[j]),
         NEW i, NEW z \in Ring
  PROVE  Others(y, n, i, Times(p, z))
           = Times(RingProduct(Scales(p, n, i), n), Others(x, n, i, z))
<1> DEFINE b == Scales(p, n, i)
           f == [j \in 0 .. n - 1 |-> IF j = i THEN OfInteger(1) ELSE Minus(z, x[j])]
           h == [j \in 0 .. n - 1 |-> IF j = i THEN OfInteger(1) ELSE Minus(Times(p, z), y[j])]
<1>1. ASSUME NEW j \in 0 .. n - 1 PROVE b[j] \in Ring /\ f[j] \in Ring /\ h[j] = Times(b[j], f[j])
  <2>1. CASE j = i
    <3>1. OfInteger(1) \in Ring /\ Times(OfInteger(1), OfInteger(1)) = OfInteger(1)
      BY DEF RingLaws, Closed, Multiplicative
    <3> QED
      BY <2>1, <3>1 DEF Scales
  <2>2. CASE j # i
    <3>1. x[j] \in Ring /\ y[j] = Times(p, x[j])
      OBVIOUS
    <3>2. \A w \in Ring : Times(p, Minus(z, w)) = Minus(Times(p, z), Times(p, w))
      BY TimesDifference
    <3>3. Minus(z, x[j]) \in Ring
      BY <3>1 DEF RingLaws, Closed
    <3> QED
      BY <2>2, <3>1, <3>2, <3>3 DEF Scales
  <2> QED
    BY <2>1, <2>2
<1>2. Others(y, n, i, Times(p, z)) = RingProduct(h, n) /\ Others(x, n, i, z) = RingProduct(f, n)
  BY DEF Others
<1> HIDE DEF b, f, h
<1>3. RingProduct(h, n) = Times(RingProduct(b, n), RingProduct(f, n))
  BY <1>1, ProductOfProducts
<1> QED
  BY <1>2, <1>3 DEF b

(* On a coset of a group of roots of unity the weights are its elements.   *)
LEMMA StructuredIsGeneric ==
  ASSUME RingLaws, NEW n \in Nat, n # 0, NEW root \in Ring, Power(root, n) = OfInteger(1),
         NEW p \in Ring, IsUnit(p), NEW points, Apart(points, n),
         \A i \in 0 .. n - 1 : points[i] = Times(p, Power(root, i)),
         NEW values, \A i \in 0 .. n - 1 : values[i] \in Ring, NEW alpha \in Ring
  PROVE  EvaluateStructuredFiber([i \in 0 .. n - 1 |-> Power(root, i)], values, n, Times(alpha, Inv(p)))
           = EvaluateGenericFiber(points, values, n, alpha)
<1> DEFINE x == [i \in 0 .. n - 1 |-> Power(root, i)]
           z == Times(alpha, Inv(p))
           one == OfInteger(1)
<1>1. ASSUME NEW i \in 0 .. n - 1 PROVE x[i] \in Ring /\ points[i] = Times(p, x[i]) /\ Power(x[i], n) = one
  <2>1. i \in Nat /\ x[i] = Power(root, i)
    OBVIOUS
  <2>2. Power(root, i) \in Ring
    BY <2>1, PowerSteps
  <2>3. Power(root, i * n) = Power(Power(root, i), n) /\ Power(root, n * i) = Power(Power(root, n), i)
    BY <2>1, PowerOfPower
  <2>4. i * n = n * i
    BY <2>1
  <2>5. Power(one, i) = one
    BY <2>1, PowerOfOne
  <2> QED
    BY <2>1, <2>2, <2>3, <2>4, <2>5
<1>2. Inv(p) \in Ring /\ Times(p, Inv(p)) = one /\ z \in Ring /\ Times(p, z) = alpha /\ one \in Ring
  <2>1. Inv(p) \in Ring /\ Times(p, Inv(p)) = one /\ one \in Ring
    BY InverseAssumption DEF RingLaws, Closed
  <2>2. z \in Ring /\ Times(p, z) = Times(alpha, Times(p, Inv(p)))
    BY <2>1 DEF RingLaws, Closed, Multiplicative
  <2> QED
    BY <2>1, <2>2 DEF RingLaws, Multiplicative
<1> HIDE DEF x, z
<1>3. RootsOfUnity(x, n)
  <2>1. ASSUME NEW i \in 0 .. n - 1, NEW j \in 0 .. n - 1, i # j PROVE IsUnit(Minus(x[i], x[j]))
    <3>1. x[i] \in Ring /\ x[j] \in Ring /\ points[i] = Times(p, x[i]) /\ points[j] = Times(p, x[j])
      BY <1>1
    <3>2. IsUnit(Minus(points[i], points[j]))
      BY <2>1 DEF Apart, Exceptional
    <3>3. \A v, w \in Ring : Times(p, Minus(v, w)) = Minus(Times(p, v), Times(p, w))
      BY TimesDifference
    <3>4. Minus(x[i], x[j]) \in Ring
      BY <3>1 DEF RingLaws, Closed
    <3>5. IsUnit(Times(p, Minus(x[i], x[j])))
      BY <3>1, <3>2, <3>3
    <3> QED
      BY <3>4, <3>5, UnitProduct
  <2>2. Apart(x, n)
    BY <1>1, <2>1 DEF Apart, Exceptional
  <2> QED
    BY <1>1, <2>2 DEF RootsOfUnity
<1> DEFINE N == OfInteger(n)
           b(i) == RingProduct(Scales(p, n, i), n)
           O(i, y) == Others(x, n, i, y)
<1>4. ASSUME NEW i \in 0 .. n - 1
      PROVE  /\ O(i, x[i]) \in Ring /\ IsUnit(O(i, x[i])) /\ N \in Ring
             /\ Inv(O(i, x[i])) = Times(x[i], Inv(N)) /\ Inv(N) \in Ring
  <2> DEFINE o == O(i, x[i])
             w == Power(x[i], n - 1)
  <2>1. x[i] \in Ring /\ n - 1 \in Nat /\ (n - 1) + 1 = n /\ N \in Ring
    BY <1>1 DEF RingLaws, Counting
  <2>2. w \in Ring /\ Times(w, x[i]) = one
    <3>1. Power(x[i], n - 1) \in Ring /\ Power(x[i], (n - 1) + 1) = Times(Power(x[i], n - 1), x[i])
      BY <2>1, PowerSteps
    <3> QED
      BY <1>1, <2>1, <3>1
  <2>3. o = Times(N, w)
    BY <1>3, SlopeAtRoot
  <2>4. o \in Ring /\ IsUnit(o)
    BY <1>1, <1>3, <2>1, OthersInRing, OthersAtPoints DEF RootsOfUnity
  <2> HIDE DEF N, w, o
  <2>5. IsUnit(N) /\ Inv(N) \in Ring /\ Times(N, Inv(N)) = one
    BY <2>1, <2>2, <2>3, <2>4, UnitProduct, InverseAssumption
  <2>6. Times(x[i], Inv(N)) \in Ring
    BY <2>1, <2>5 DEF RingLaws, Closed
  <2>7. Times(Times(N, w), Times(Inv(N), x[i])) = Times(Times(N, Inv(N)), Times(w, x[i]))
    BY <2>1, <2>2, <2>5, FourFactors
  <2>8. Times(Inv(N), x[i]) = Times(x[i], Inv(N)) /\ Times(one, one) = one
    BY <1>2, <2>1, <2>5 DEF RingLaws, Multiplicative
  <2>9. Times(o, Times(x[i], Inv(N))) = one
    BY <2>2, <2>3, <2>5, <2>7, <2>8
  <2>10. Inv(o) = Times(x[i], Inv(N))
    BY <2>4, <2>6, <2>9, InverseIs
  <2> QED
    BY <2>1, <2>4, <2>5, <2>10 DEF o
<1>5. ASSUME NEW i \in 0 .. n - 1
      PROVE  /\ b(i) \in Ring /\ IsUnit(b(i))
             /\ \A y \in Ring : Others(points, n, i, Times(p, y)) = Times(b(i), O(i, y))
  <2> DEFINE f == Scales(p, n, i)
  <2>1. \A j \in 0 .. n - 1 : f[j] \in Ring /\ IsUnit(f[j])
    BY <1>2, OneIsUnit DEF Scales
  <2>2. ASSUME NEW y \in Ring PROVE Others(points, n, i, Times(p, y)) = Times(RingProduct(f, n), O(i, y))
    <3>1. (\A j \in 0 .. n - 1 : x[j] \in Ring) /\ \A j \in 0 .. n - 1 : points[j] = Times(p, x[j])
      BY <1>1
    <3> QED
      BY <3>1, OthersScaled, SMTT(30)
  <2> HIDE DEF f
  <2>3. RingProduct(f, n) \in Ring /\ IsUnit(RingProduct(f, n))
    <3>1. \A j \in 0 .. n - 1 : f[j] \in Ring
      BY <2>1
    <3> QED
      BY <2>1, <3>1, ProductSteps, ProductOfUnits
  <2> QED
    BY <2>2, <2>3 DEF f
<1> DEFINE g == LagrangeTerms(points, values, n, alpha)
           h == [i \in 0 .. n - 1 |-> Times(Times(values[i], O(i, z)), Times(x[i], Inv(N)))]
<1>6. EvaluateStructuredFiber(x, values, n, z) = RingSum(h, n)
  BY DEF EvaluateStructuredFiber
<1>7. EvaluateGenericFiber(points, values, n, alpha) = RingSum(g, n)
  BY DEF EvaluateGenericFiber, LagrangeTerms
<1> HIDE DEF b
<1>8. ASSUME NEW i \in 0 .. n - 1 PROVE g[i] = h[i] /\ g[i] \in Ring
  <2> DEFINE u == O(i, z)
             o == O(i, x[i])
             c == b(i)
             v == values[i]
  <2>1. u \in Ring /\ o \in Ring /\ c \in Ring /\ v \in Ring /\ IsUnit(o) /\ IsUnit(c)
    BY <1>1, <1>2, <1>4, <1>5, OthersInRing
  <2>2. Others(points, n, i, alpha) = Times(c, u) /\ Others(points, n, i, points[i]) = Times(c, o)
    BY <1>1, <1>2, <1>5
  <2>3. g[i] = Times(Times(v, Times(c, u)), Inv(Times(c, o)))
    BY <2>2 DEF LagrangeTerms
  <2>4. h[i] = Times(Times(v, u), Inv(o))
    BY <1>4
  <2> HIDE DEF u, o, c, v, g, h
  <2>5. Inv(c) \in Ring /\ Inv(o) \in Ring /\ Times(c, Inv(c)) = one /\ Inv(Times(c, o)) = Times(Inv(c), Inv(o))
    BY <2>1, InverseAssumption, UnitProduct
  <2>6. Times(v, Times(c, u)) = Times(c, Times(v, u)) /\ Times(v, u) \in Ring
    BY <2>1 DEF RingLaws, Closed, Multiplicative
  <2>7. Times(Times(c, Times(v, u)), Times(Inv(c), Inv(o))) = Times(Times(c, Inv(c)), Times(Times(v, u), Inv(o)))
    BY <2>1, <2>5, <2>6, FourFactors
  <2>8. Times(Times(v, u), Inv(o)) \in Ring /\ Times(one, Times(Times(v, u), Inv(o))) = Times(Times(v, u), Inv(o))
    BY <1>2, <2>5, <2>6 DEF RingLaws, Closed, Multiplicative
  <2> QED
    BY <2>3, <2>4, <2>5, <2>6, <2>7, <2>8
<1> HIDE DEF g, h
<1>9. RingSum(g, n) = RingSum(h, n)
  BY <1>8, SumSame
<1> QED
  BY <1>6, <1>7, <1>9 DEF x, z

(* Whichever way FoldEvalK takes, it evaluates the polynomial of degree    *)
(* less than n through the fiber.                                          *)
THEOREM FoldIsLagrange ==
  ASSUME RingLaws, NEW n \in Nat, n # 0, NEW points, Apart(points, n),
         NEW values, \A i \in 0 .. n - 1 : values[i] \in Ring, NEW alpha \in Ring
  PROVE  /\ FoldEvalK(points, values, n, alpha) = EvaluateGenericFiber(points, values, n, alpha)
         /\ FoldEvalK(points, values, n, alpha) = Evaluate(Interpolate(points, values, n), alpha)
         /\ FoldEvalK(points, values, n, alpha) \in Ring
<1>1. \A i \in 0 .. n - 1 : points[i] \in Ring
  BY DEF Apart
<1>2. /\ Evaluate(Interpolate(points, values, n), alpha) = EvaluateGenericFiber(points, values, n, alpha)
      /\ EvaluateGenericFiber(points, values, n, alpha) \in Ring
  BY <1>1, InterpolateFacts, LagrangeTermsInRing
<1>3. CASE ~IsStructured(points, n)
  BY <1>2, <1>3 DEF FoldEvalK
<1>4. CASE IsStructured(points, n)
  <2> DEFINE p == points[0]
             base == Inv(p)
             root == IF n = 1 THEN OfInteger(1) ELSE Times(points[1], base)
  <2>1. p \in Ring /\ IsUnit(p) /\ base \in Ring
    BY <1>1, <1>4, InverseInRing DEF IsStructured
  <2>2. OfInteger(1) \in Ring /\ n # 1 => points[1] \in Ring
    BY <1>1 DEF RingLaws, Closed
  <2>3. root \in Ring
    BY <1>1, <2>1 DEF RingLaws, Closed
  <2>4. Power(root, n) = OfInteger(1) /\ \A i \in 0 .. n - 1 : points[i] = Times(p, Power(root, i))
    <3>1. CASE n = 1
      <4>1. root = OfInteger(1) /\ Power(OfInteger(1), 1) = OfInteger(1) /\ Power(OfInteger(1), 0) = OfInteger(1)
        BY <3>1, PowerOfOne
      <4>2. Times(p, OfInteger(1)) = p
        BY <2>1 DEF RingLaws, Multiplicative
      <4>3. \A i \in 0 .. n - 1 : i = 0
        BY <3>1
      <4> QED
        BY <3>1, <4>1, <4>2, <4>3
    <3>2. CASE n # 1
      <4>1. n > 1
        BY <3>2
      <4> QED
        BY <1>4, <3>2, <4>1 DEF IsStructured
    <3> QED
      BY <3>1, <3>2
  <2>5. FoldEvalK(points, values, n, alpha)
          = EvaluateStructuredFiber([i \in 0 .. n - 1 |-> Power(root, i)], values, n, Times(alpha, base))
    BY <1>4 DEF FoldEvalK
  <2> HIDE DEF root, p
  <2>6. EvaluateStructuredFiber([i \in 0 .. n - 1 |-> Power(root, i)], values, n, Times(alpha, base))
          = EvaluateGenericFiber(points, values, n, alpha)
    BY <2>1, <2>3, <2>4, StructuredIsGeneric
  <2> QED
    BY <1>2, <2>5, <2>6
<1> QED
  BY <1>3, <1>4

(* A slot counts in the fold with its weight.                              *)
SlotOnly(n, o) == [i \in 0 .. n - 1 |-> IF i = o THEN OfInteger(1) ELSE 0]

(* Changing one value that was 0 adds its weight to the fold.              *)
LEMMA WeightOfSlot ==
  ASSUME RingLaws, NEW n \in Nat, NEW x, \A j \in 0 .. n - 1 : x[j] \in Ring,
         NEW o \in 0 .. n - 1, NEW values, \A i \in 0 .. n - 1 : values[i] \in Ring, values[o] = 0,
         NEW q \in Ring, NEW changed, \A i \in 0 .. n - 1 : changed[i] = IF i = o THEN q ELSE values[i],
         NEW z \in Ring
  PROVE  EvaluateGenericFiber(x, changed, n, z)
           = Plus(EvaluateGenericFiber(x, values, n, z),
                  Times(q, EvaluateGenericFiber(x, SlotOnly(n, o), n, z)))
<1> DEFINE f == LagrangeTerms(x, values, n, z)
           s == LagrangeTerms(x, SlotOnly(n, o), n, z)
           h == LagrangeTerms(x, changed, n, z)
           g == [i \in 0 .. n - 1 |-> Times(q, s[i])]
<1>1. \A i \in 0 .. n - 1 : SlotOnly(n, o)[i] \in Ring /\ changed[i] \in Ring
  BY DEF SlotOnly, RingLaws, Closed
<1>2. /\ \A i \in 0 .. n - 1 : f[i] \in Ring
      /\ EvaluateGenericFiber(x, values, n, z) = RingSum(f, n)
  BY LagrangeTermsInRing
<1>3. /\ \A i \in 0 .. n - 1 : s[i] \in Ring
      /\ EvaluateGenericFiber(x, SlotOnly(n, o), n, z) = RingSum(s, n)
  BY <1>1, LagrangeTermsInRing
<1>4. EvaluateGenericFiber(x, changed, n, z) = RingSum(h, n)
  BY <1>1, LagrangeTermsInRing
<1>5. ASSUME NEW i \in 0 .. n - 1 PROVE g[i] \in Ring /\ g[i] = Times(q, s[i]) /\ h[i] = Plus(f[i], g[i])
  <2> DEFINE u == Others(x, n, i, z)
             t == Inv(Others(x, n, i, x[i]))
  <2>1. u \in Ring /\ t \in Ring
    BY OthersInRing, InverseInRing
  <2>2. /\ f[i] = Times(Times(values[i], u), t)
        /\ s[i] = Times(Times(SlotOnly(n, o)[i], u), t)
        /\ h[i] = Times(Times(changed[i], u), t)
    BY DEF LagrangeTerms
  <2>3. g[i] = Times(q, s[i])
    OBVIOUS
  <2>4. s[i] \in Ring /\ f[i] \in Ring /\ values[i] \in Ring
    BY <1>2, <1>3
  <2> HIDE DEF u, t, f, s, g, h
  <2>5. g[i] \in Ring
    BY <2>3, <2>4 DEF RingLaws, Closed
  <2>6. Times(0, u) = 0 /\ Times(0, t) = 0
    BY <2>1, TimesZero
  <2>7. CASE i = o
    <3>1. SlotOnly(n, o)[i] = OfInteger(1) /\ changed[i] = q /\ values[i] = 0
      BY <2>7 DEF SlotOnly
    <3>2. f[i] = 0
      BY <2>2, <2>6, <3>1
    <3>3. Times(OfInteger(1), u) = u /\ Times(u, t) \in Ring
      BY <2>1 DEF RingLaws, Closed, Multiplicative
    <3>4. s[i] = Times(u, t) /\ Times(q, Times(u, t)) = Times(Times(q, u), t)
      BY <2>1, <2>2, <3>1, <3>3 DEF RingLaws, Multiplicative
    <3>5. h[i] = g[i]
      BY <2>2, <2>3, <3>1, <3>4
    <3>6. Plus(0, g[i]) = g[i]
      BY <2>5 DEF RingLaws, Closed, Additive
    <3> QED
      BY <2>3, <2>5, <3>2, <3>5, <3>6
  <2>8. CASE i # o
    <3>1. SlotOnly(n, o)[i] = 0 /\ changed[i] = values[i]
      BY <2>8 DEF SlotOnly
    <3>2. s[i] = 0 /\ Times(q, 0) = 0
      BY <2>2, <2>6, <3>1, TimesZero
    <3>3. h[i] = f[i] /\ g[i] = 0 /\ Plus(f[i], 0) = f[i]
      BY <2>2, <2>3, <2>4, <3>1, <3>2 DEF RingLaws, Additive
    <3> QED
      BY <2>3, <2>5, <3>3
  <2> QED
    BY <2>7, <2>8
<1> HIDE DEF f, s, g, h
<1>6. RingSum(h, n) = Plus(RingSum(f, n), RingSum(g, n))
  BY <1>2, <1>5, SumOfSums
<1>7. RingSum(g, n) = Times(q, RingSum(s, n))
  <2>1. \A i \in 0 .. n - 1 : s[i] \in Ring /\ g[i] = Times(q, s[i])
    BY <1>3, <1>5
  <2> QED
    BY <2>1, SumOfMultiples
<1> QED
  BY <1>2, <1>3, <1>4, <1>6, <1>7

(* The weight of a slot is a product of differences from the challenge:    *)
(* zero or a unit when these are.                                          *)
LEMMA WeightZeroOrUnit ==
  ASSUME RingLaws, NEW n \in Nat, NEW x, Apart(x, n), NEW o \in 0 .. n - 1, NEW z \in Ring,
         \A j \in 0 .. n - 1 : x[j] = z \/ IsUnit(Minus(z, x[j]))
  PROVE  LET w == EvaluateGenericFiber(x, SlotOnly(n, o), n, z) IN w = 0 \/ IsUnit(w)
<1> DEFINE s == LagrangeTerms(x, SlotOnly(n, o), n, z)
           u == Others(x, n, o, z)
           v == Others(x, n, o, x[o])
<1>1. \A j \in 0 .. n - 1 : x[j] \in Ring
  BY DEF Apart
<1>2. \A i \in 0 .. n - 1 : SlotOnly(n, o)[i] \in Ring
  BY DEF SlotOnly, RingLaws, Closed
<1>3. /\ \A i \in 0 .. n - 1 : s[i] \in Ring
      /\ EvaluateGenericFiber(x, SlotOnly(n, o), n, z) = RingSum(s, n)
  BY <1>1, <1>2, LagrangeTermsInRing
<1>4. \A i \in 0 .. n - 1 :
        s[i] = Times(Times(SlotOnly(n, o)[i], Others(x, n, i, z)), Inv(Others(x, n, i, x[i])))
  BY DEF LagrangeTerms
<1>5. \A i \in 0 .. n - 1 : Others(x, n, i, z) \in Ring /\ Inv(Others(x, n, i, x[i])) \in Ring
  BY <1>1, OthersInRing, InverseInRing
<1>6. u \in Ring /\ v \in Ring /\ IsUnit(v)
  BY <1>1, OthersInRing, OthersAtPoints
<1> HIDE DEF s
<1>7. RingSum(s, n) = s[o]
  <2>1. ASSUME NEW i \in 0 .. n - 1, i # o PROVE s[i] = 0
    <3>1. SlotOnly(n, o)[i] = 0
      BY <2>1 DEF SlotOnly
    <3> QED
      BY <1>4, <1>5, <3>1, TimesZero
  <2> QED
    BY <1>3, <2>1, SumOfOne
<1>8. s[o] = Times(u, Inv(v))
  <2>1. SlotOnly(n, o)[o] = OfInteger(1)
    BY DEF SlotOnly
  <2>2. Times(OfInteger(1), u) = u
    BY <1>6 DEF RingLaws, Closed, Multiplicative
  <2> QED
    BY <1>4, <2>1, <2>2
<1>9. u = 0 \/ IsUnit(u)
  <2> DEFINE f == FactorsOf(x, n, o, z)
  <2>1. \A j \in 0 .. n - 1 : f[j] \in Ring
    BY <1>1, FactorsInRing
  <2>2. \A j \in 0 .. n - 1 : f[j] = 0 \/ IsUnit(f[j])
    BY <1>1, OneIsUnit, DifferenceZero DEF FactorsOf
  <2> HIDE DEF f
  <2>3. RingProduct(f, n) = 0 \/ IsUnit(RingProduct(f, n))
    BY <2>1, <2>2, ProductZeroOrUnit
  <2> QED
    BY <2>3 DEF f, Others, FactorsOf
<1> HIDE DEF u, v
<1>10. Inv(v) \in Ring /\ Times(v, Inv(v)) = OfInteger(1)
  BY <1>6, InverseAssumption
<1>11. IsUnit(Inv(v))
  BY <1>6, <1>10, OneIsUnit, UnitProduct
<1>12. Times(0, Inv(v)) = 0 /\ (IsUnit(u) => IsUnit(Times(u, Inv(v))))
  BY <1>6, <1>10, <1>11, TimesZero, UnitProduct
<1> QED
  BY <1>3, <1>7, <1>8, <1>9, <1>12

(* A polynomial in blocks of k coefficients.                               *)
Blocks(c, k, m) == [j \in 0 .. m - 1 |-> Shift(c, k * j)]
Powers(y, m) == [j \in 0 .. m - 1 |-> Power(y, j)]

(* The blocks of k coefficients, and the powers they count with.           *)
LEMMA BlocksInRing ==
  ASSUME RingLaws, NEW c \in Coeffs, NEW k \in Nat, NEW m \in Nat, NEW y \in Ring
  PROVE  \A j \in 0 .. m - 1 : /\ k * j \in Nat /\ Blocks(c, k, m)[j] = Shift(c, k * j)
                               /\ Blocks(c, k, m)[j] \in Coeffs
                               /\ Powers(y, m)[j] = Power(y, j) /\ Powers(y, m)[j] \in Ring
<1> SUFFICES ASSUME NEW j \in 0 .. m - 1
             PROVE  /\ k * j \in Nat /\ Blocks(c, k, m)[j] = Shift(c, k * j)
                    /\ Blocks(c, k, m)[j] \in Coeffs
                    /\ Powers(y, m)[j] = Power(y, j) /\ Powers(y, m)[j] \in Ring
  OBVIOUS
<1>1. j \in Nat /\ k * j \in Nat
  OBVIOUS
<1>2. Shift(c, k * j) \in Coeffs /\ Power(y, j) \in Ring
  BY <1>1, ShiftInRing, PowerSteps
<1> QED
  BY <1>1, <1>2 DEF Blocks, Powers

(* A polynomial in blocks of k coefficients: their combination with the    *)
(* powers of x^k.                                                          *)
LEMMA ValueInBlocks ==
  ASSUME RingLaws, NEW c \in Coeffs, NEW k \in Nat, NEW m \in Nat, NEW x \in Ring
  PROVE  Value(c, k * m, x) = Value(Combined(Blocks(c, k, m), Powers(Power(x, k), m), m, m), k, x)
<1> DEFINE y == Power(x, k)
           B == Blocks(c, k, m)
           S == Powers(y, m)
           g == [i \in 0 .. m - 1 |-> Times(S[i], Value(B[i], k, x))]
           good == {j \in 0 .. m : Value(c, k * j, x) = RingSum(g, j)}
<1>1. y \in Ring
  BY PowerSteps
<1>2. \A j \in 0 .. m - 1 : /\ k * j \in Nat /\ B[j] = Shift(c, k * j) /\ B[j] \in Coeffs
                            /\ S[j] = Power(y, j) /\ S[j] \in Ring
  BY <1>1, BlocksInRing
<1> HIDE DEF y, B, S
<1>3. Value(Combined(B, S, m, m), k, x) = RingSum(g, m)
  BY <1>2, CombinedValue
<1>4. ASSUME NEW j \in 0 .. m - 1 PROVE g[j] = Times(S[j], Value(B[j], k, x)) /\ g[j] \in Ring
  <2>1. B[j] \in Coeffs /\ S[j] \in Ring
    BY <1>2
  <2>2. Value(B[j], k, x) \in Ring
    BY <2>1, ValueSteps
  <2> QED
    BY <2>1, <2>2 DEF RingLaws, Closed
<1> HIDE DEF g
<1>5. RingSum(g, 0) = 0 /\ \A j \in 0 .. m - 1 : RingSum(g, j + 1) = Plus(RingSum(g, j), g[j])
  BY <1>4, SumSteps
<1>6. 0 \in good
  <2>1. k * 0 = 0
    OBVIOUS
  <2>2. Value(c, 0, x) = 0
    BY ValueSteps
  <2> QED
    BY <1>5, <2>1, <2>2
<1>7. ASSUME NEW j \in good, j < m PROVE j + 1 \in good
  <2>1. j \in 0 .. m - 1 /\ j \in Nat /\ k * j \in Nat /\ k * (j + 1) = k * j + k /\ j + 1 \in 0 .. m
    BY <1>7
  <2> DEFINE s == k * j
  <2>2. s \in Nat /\ B[j] = Shift(c, s) /\ S[j] = Power(y, j)
    BY <1>2, <2>1
  <2>3. Power(x, s) = Power(y, j)
    BY <2>1, PowerOfPower DEF y
  <2>4. RingSum(g, j + 1) = Plus(RingSum(g, j), g[j]) /\ g[j] = Times(S[j], Value(B[j], k, x))
    BY <1>4, <1>5, <2>1
  <2>5. Value(c, s, x) = RingSum(g, j) /\ k * (j + 1) = s + k
    BY <1>7, <2>1
  <2> HIDE DEF s
  <2>6. Value(c, s + k, x) = Plus(Value(c, s, x), Times(Power(x, s), Value(Shift(c, s), k, x)))
    BY <2>2, ValueSplit
  <2>7. Value(c, s + k, x) = RingSum(g, j + 1)
    BY <2>2, <2>3, <2>4, <2>5, <2>6
  <2> QED
    BY <2>1, <2>5, <2>7
<1>8. m \in good
  <2>1. good \in SUBSET (0 .. m)
    OBVIOUS
  <2> HIDE DEF good
  <2>2. good = 0 .. m
    BY <1>6, <1>7, <2>1, InductionUpTo
  <2> QED
    BY <2>2
<1> QED
  BY <1>3, <1>8 DEF y, B, S

(* The coefficients PolyFold computes are the blocks' values at alpha.     *)
FoldsInto(f, k, alpha, m, d) ==
  /\ m = (f.size + k - 1) \div k /\ f.size <= k * m
  /\ IsPolynomial(PolyFold(f, k, alpha)) /\ PolyFold(f, k, alpha).size <= m
  /\ Trimmed(PolyFold(f, k, alpha))
  /\ \A j \in Nat : j < m => d[j] = Value(Shift(Coefficients(f), k * j), k, alpha)
  /\ \A y \in Ring : Evaluate(PolyFold(f, k, alpha), y) = Value(d, m, y)

(* poly_fold: coefficient j of the folded polynomial is the value of block *)
(* j at alpha.                                                             *)
LEMMA PolyFoldIs ==
  ASSUME RingLaws, NEW f, IsPolynomial(f), NEW k \in Nat, k # 0, NEW alpha \in Ring
  PROVE  \E m \in Nat : \E d \in Coeffs : FoldsInto(f, k, alpha, m, d)
<1> DEFINE c == Coefficients(f)
           m == (f.size + k - 1) \div k
           d == [j \in Nat |-> Value(Shift(c, k * j), k, alpha)]
           term(j) == [r \in 0 .. k - 1 |->
                        IF k * j + r < f.size THEN Times(Power(alpha, r), f.at[k * j + r]) ELSE 0]
           at == [j \in 0 .. m - 1 |-> RingSum(term(j), k)]
<1>1. c \in Coeffs /\ f.size \in Nat
  BY CoefficientsInRing DEF IsPolynomial
<1>2. m \in Nat /\ f.size <= k * m
  BY <1>1
<1>3. \A i \in Nat : c[i] = IF i < f.size THEN f.at[i] ELSE 0
  BY DEF Coefficients
<1> HIDE DEF c
<1>4. ASSUME NEW j \in Nat PROVE k * j \in Nat /\ Shift(c, k * j) \in Coeffs /\ Value(Shift(c, k * j), k, alpha) \in Ring
  <2>1. k * j \in Nat
    OBVIOUS
  <2>2. Shift(c, k * j) \in Coeffs
    BY <1>1, <2>1, ShiftInRing
  <2> QED
    BY <2>1, <2>2, ValueSteps
<1>5. d \in Coeffs
  BY <1>4 DEF Coeffs
<1>6. PolyFold(f, k, alpha) = Trim(m, at)
  BY DEF PolyFold
<1> HIDE DEF m
<1>7. ASSUME NEW j \in Nat, j < m PROVE at[j] = d[j]
  <2> DEFINE s == k * j
             t == Terms(Shift(c, s), alpha)
             g == [r \in 0 .. k - 1 |-> IF s + r < f.size THEN Times(Power(alpha, r), f.at[s + r]) ELSE 0]
  <2>1. s \in Nat /\ Shift(c, s) \in Coeffs
    BY <1>4
  <2>2. at[j] = RingSum(g, k) /\ d[j] = RingSum(t, k)
    <3>1. term(j) = g
      OBVIOUS
    <3>2. d[j] = RingSum(t, k)
      BY DEF Value
    <3> HIDE DEF term, g
    <3>3. at[j] = RingSum(term(j), k)
      BY <1>2, <1>7
    <3> QED
      BY <3>1, <3>2, <3>3
  <2> HIDE DEF s
  <2>3. ASSUME NEW r \in 0 .. k - 1 PROVE t[r] \in Ring /\ t[r] = g[r]
    <3>1. r \in Nat /\ s + r \in Nat
      BY <2>1
    <3>2. t[r] = Times(Shift(c, s)[r], Power(alpha, r)) /\ t[r] \in Ring
      BY <2>1, <3>1, TermsInRing
    <3>3. Shift(c, s)[r] = c[s + r] /\ Power(alpha, r) \in Ring /\ c[s + r] \in Ring
      BY <1>1, <2>1, <3>1, ShiftInRing, PowerSteps DEF Coeffs
    <3>4. Times(c[s + r], Power(alpha, r)) = Times(Power(alpha, r), c[s + r])
      BY <3>3 DEF RingLaws, Multiplicative
    <3>5. Times(0, Power(alpha, r)) = 0
      BY <3>3, TimesZero
    <3>6. c[s + r] = IF s + r < f.size THEN f.at[s + r] ELSE 0
      BY <1>3, <3>1
    <3> HIDE DEF t
    <3> QED
      BY <3>2, <3>3, <3>4, <3>5, <3>6
  <2> HIDE DEF t, g
  <2>4. RingSum(t, k) = RingSum(g, k)
    BY <2>3, SumSame
  <2> QED
    BY <2>2, <2>4
<1> HIDE DEF at, term
<1>8. /\ IsPolynomial(Trim(m, at)) /\ \A y \in Ring : Evaluate(Trim(m, at), y) = Value(d, m, y)
  <2> HIDE DEF d
  <2> QED
    BY <1>2, <1>5, <1>7, TrimCoefficients
<1>9. Trim(m, at).size <= m /\ Trimmed(Trim(m, at))
  <2> DEFINE t == Trim(m, at)
  <2>1. /\ t.size \in 0 .. m /\ t.at = [i \in 0 .. t.size - 1 |-> at[i]]
        /\ t.size = 0 \/ at[t.size - 1] # 0
    BY <1>2, TrimIs
  <2> HIDE DEF t
  <2>2. t.size <= m /\ Trimmed(t)
    BY <1>2, <2>1 DEF Trimmed
  <2> QED
    BY <2>2 DEF t
<1>10. \A j \in Nat : j < m => d[j] = Value(Shift(c, k * j), k, alpha)
  OBVIOUS
<1> HIDE DEF d
<1>11. FoldsInto(f, k, alpha, m, d)
  BY <1>2, <1>6, <1>8, <1>9, <1>10 DEF FoldsInto, c, m
<1> QED
  BY <1>2, <1>5, <1>11

(* Folding the values of a polynomial on a fiber over y gives the value of *)
(* the folded polynomial at y.                                             *)
THEOREM FoldOfValues ==
  ASSUME RingLaws, NEW f, IsPolynomial(f), NEW k \in Nat, k # 0, NEW points, Apart(points, k),
         NEW y \in Ring, \A o \in 0 .. k - 1 : Power(points[o], k) = y,
         NEW values, \A o \in 0 .. k - 1 : values[o] = Evaluate(f, points[o]), NEW alpha \in Ring
  PROVE  FoldEvalK(points, values, k, alpha) = Evaluate(PolyFold(f, k, alpha), y)
<1> DEFINE c == Coefficients(f)
<1>1. PICK m \in Nat, d \in Coeffs : FoldsInto(f, k, alpha, m, d)
  BY PolyFoldIs
<1>2. /\ f.size <= k * m
      /\ \A j \in Nat : j < m => d[j] = Value(Shift(c, k * j), k, alpha)
      /\ \A z \in Ring : Evaluate(PolyFold(f, k, alpha), z) = Value(d, m, z)
  BY <1>1 DEF FoldsInto
<1>3. c \in Coeffs /\ f.size \in Nat /\ \A i \in Nat : i >= f.size => c[i] = 0
  <2>1. f.size \in Nat
    BY DEF IsPolynomial
  <2>2. \A i \in Nat : i >= f.size => c[i] = 0
    BY <2>1 DEF Coefficients
  <2> QED
    BY <2>1, <2>2, CoefficientsInRing
<1>4. \A z \in Ring : Evaluate(f, z) = Value(c, f.size, z) /\ Evaluate(f, z) \in Ring
  BY EvaluateIsValue
<1> HIDE DEF c
<1> DEFINE B == Blocks(c, k, m)
           S == Powers(y, m)
           C == Combined(B, S, m, m)
           g == Trim(k, C)
           h == Interpolate(points, values, k)
<1>5. \A j \in 0 .. m - 1 : /\ k * j \in Nat /\ B[j] = Shift(c, k * j) /\ B[j] \in Coeffs
                            /\ S[j] = Power(y, j) /\ S[j] \in Ring
  BY <1>3, BlocksInRing
<1>6. \A o \in 0 .. k - 1 : points[o] \in Ring /\ values[o] \in Ring
  BY <1>4 DEF Apart
<1>7. ASSUME NEW o \in 0 .. k - 1 PROVE Value(C, k, points[o]) = values[o]
  <2> DEFINE p == points[o]
             n == k * m
  <2>1. p \in Ring /\ Power(p, k) = y /\ values[o] = Evaluate(f, p)
    BY <1>6
  <2> HIDE DEF p
  <2>2. Value(c, n, p) = Value(Combined(Blocks(c, k, m), Powers(Power(p, k), m), m, m), k, p)
    BY <1>3, <2>1, ValueInBlocks
  <2>3. n \in Nat /\ f.size <= n /\ \A i \in f.size .. n - 1 : c[i] = 0
    BY <1>2, <1>3
  <2> HIDE DEF n
  <2>4. Value(c, n, p) = Value(c, f.size, p)
    BY <1>3, <2>1, <2>3, ValueLeadingZeros
  <2>5. Value(C, k, p) = values[o]
    BY <1>4, <2>1, <2>2, <2>4
  <2> QED
    BY <2>5 DEF p
<1> HIDE DEF B, S
<1>8. C \in Coeffs
  <2>1. 0 \in Ring
    BY DEF RingLaws, Closed
  <2> QED
    BY <1>5, <2>1, CombinedValue
<1>9. Value(C, k, alpha) = RingSum([j \in 0 .. m - 1 |-> Times(S[j], Value(B[j], k, alpha))], m)
  BY <1>5, CombinedValue
<1> HIDE DEF C
<1>10. /\ IsPolynomial(g) /\ g.size <= k /\ \A z \in Ring : Evaluate(g, z) = Value(C, k, z)
  <2>1. IsPolynomial(g) /\ \A z \in Ring : Evaluate(g, z) = Value(C, k, z)
    BY <1>8, TrimCoefficients
  <2>2. g.size \in 0 .. k
    BY TrimIs
  <2> QED
    BY <2>1, <2>2
<1>11. /\ IsPolynomial(h) /\ h.size <= k
       /\ \A o \in 0 .. k - 1 : Evaluate(h, points[o]) = values[o]
  BY <1>6, InterpolateFacts
<1>12. FoldEvalK(points, values, k, alpha) = Evaluate(h, alpha)
  BY <1>6, FoldIsLagrange
<1> HIDE DEF g, h
<1>13. \A o \in 0 .. k - 1 : Evaluate(h, points[o]) = Evaluate(g, points[o])
  BY <1>6, <1>7, <1>10, <1>11
<1>14. Evaluate(h, alpha) = Evaluate(g, alpha)
  <2>1. \A z \in Ring : Evaluate(h, z) = Evaluate(g, z)
    BY <1>10, <1>11, <1>13, AgreeingPolynomials
  <2> QED
    BY <2>1
<1>15. Value(C, k, alpha) = Value(d, m, y)
  <2> DEFINE s == [j \in 0 .. m - 1 |-> Times(S[j], Value(B[j], k, alpha))]
             t == Terms(d, y)
  <2>1. ASSUME NEW j \in 0 .. m - 1 PROVE t[j] \in Ring /\ t[j] = s[j]
    <3>1. j \in Nat /\ j < m
      OBVIOUS
    <3>2. t[j] = Times(d[j], Power(y, j)) /\ t[j] \in Ring
      BY <3>1, TermsInRing
    <3>3. d[j] = Value(B[j], k, alpha) /\ S[j] = Power(y, j) /\ S[j] \in Ring
      BY <1>2, <1>5, <3>1
    <3>4. d[j] \in Ring
      BY <3>1 DEF Coeffs
    <3>5. Times(d[j], Power(y, j)) = Times(Power(y, j), d[j])
      BY <3>3, <3>4 DEF RingLaws, Multiplicative
    <3> HIDE DEF t
    <3> QED
      BY <3>2, <3>3, <3>5
  <2>2. Value(d, m, y) = RingSum(t, m)
    BY DEF Value
  <2>3. Value(C, k, alpha) = RingSum(s, m)
    BY <1>9
  <2> HIDE DEF s, t
  <2>4. RingSum(t, m) = RingSum(s, m)
    BY <2>1, SumSame
  <2> QED
    BY <2>2, <2>3, <2>4
<1> QED
  BY <1>2, <1>10, <1>12, <1>14, <1>15

-----------------------------------------------------------------------------
(* The quotient by X - x *)

(* The quotient by X - x of f - v, with v the value of f at x: its degree  *)
(* and its values.                                                         *)
THEOREM QuotientFacts ==
  ASSUME RingLaws, NEW f, IsPolynomial(f), NEW x \in Ring, NEW v, v = Evaluate(f, x)
  PROVE  LET q == QuotientAt(f, x, v)
         IN  /\ IsPolynomial(q) /\ Trimmed(q)
             /\ q.size = 0 \/ q.size + 1 <= f.size
             /\ \A z \in Ring : Evaluate(f, z) = Plus(Times(Minus(z, x), Evaluate(q, z)), v)
<1> DEFINE c == Coefficients(f)
           s == IF f.size = 0 THEN 1 ELSE f.size
           at == [i \in 0 .. (IF f.size = 0 THEN 0 ELSE f.size - 1) |->
                    Minus(IF f.size = 0 THEN 0 ELSE f.at[i], IF i = 0 THEN v ELSE 0)]
           r == [j \in Nat |-> IF j = 0 THEN v ELSE 0]
           e == [j \in Nat |-> Minus(c[j], r[j])]
           t == Trim(s, at)
           q == QuotientAt(f, x, v)
<1>1. f.size \in Nat /\ c \in Coeffs /\ \A i \in Nat : c[i] = IF i < f.size THEN f.at[i] ELSE 0
  <2>1. f.size \in Nat
    BY DEF IsPolynomial
  <2> QED
    BY <2>1, CoefficientsInRing DEF Coefficients
<1>2. v \in Ring /\ \A z \in Ring : Evaluate(f, z) = Value(c, f.size, z) /\ Evaluate(f, z) \in Ring
  BY EvaluateIsValue
<1>3. s \in Nat /\ s # 0 /\ f.size <= s
  BY <1>1
<1>4. r \in Coeffs /\ \A z \in Ring : Value(r, s, z) = v
  <2> HIDE DEF s
  <2>1. \A z \in Ring : r \in Coeffs /\ Value(r, s, z) = v
    BY <1>2, <1>3, ConstantValue
  <2> QED
    BY <1>2, <2>1
<1>5. ASSUME NEW i \in Nat, i < s PROVE at[i] = e[i]
  <2>1. i \in 0 .. (IF f.size = 0 THEN 0 ELSE f.size - 1)
    BY <1>1, <1>5
  <2>2. (IF f.size = 0 THEN 0 ELSE f.at[i]) = c[i]
    BY <1>1, <1>5
  <2>3. at[i] = Minus(IF f.size = 0 THEN 0 ELSE f.at[i], IF i = 0 THEN v ELSE 0)
    BY <2>1
  <2> QED
    BY <2>2, <2>3
<1>6. q = IF t.size = 0 THEN t ELSE Trim(t.size - 1, DivideByLinear(t.at, t.size, x))
  BY DEF QuotientAt
<1> HIDE DEF c, s, at, q
<1>7. e \in Coeffs
  <2>1. \A j \in Nat : c[j] \in Ring /\ r[j] \in Ring
    BY <1>1, <1>4 DEF Coeffs
  <2> HIDE DEF r
  <2>2. \A j \in Nat : Minus(c[j], r[j]) \in Ring
    BY <2>1 DEF RingLaws, Closed
  <2> QED
    BY <2>2 DEF Coeffs
<1> HIDE DEF r
<1>8. ASSUME NEW z \in Ring PROVE Value(c, s, z) = Plus(Value(e, s, z), v)
  <2>1. ASSUME NEW j \in 0 .. s - 1 PROVE c[j] = Plus(e[j], r[j])
    <3>1. j \in Nat /\ c[j] \in Ring /\ r[j] \in Ring
      BY <1>1, <1>3, <1>4 DEF Coeffs
    <3> QED
      BY <3>1 DEF RingLaws, Additive
  <2> HIDE DEF e
  <2>2. Value(c, s, z) = Plus(Value(e, s, z), Value(r, s, z))
    BY <1>1, <1>3, <1>4, <1>7, <2>1, ValueOfSum
  <2> QED
    BY <1>4, <2>2
<1> HIDE DEF e
<1>9. ASSUME NEW z \in Ring PROVE Evaluate(f, z) = Value(c, s, z)
  <2>1. \A i \in f.size .. s - 1 : c[i] = 0
    BY <1>1, <1>3
  <2>2. Value(c, s, z) = Value(c, f.size, z)
    BY <1>1, <1>3, <2>1, ValueLeadingZeros
  <2> QED
    BY <1>2, <2>2
<1>10. /\ IsPolynomial(t) /\ \A z \in Ring : Evaluate(t, z) = Value(e, s, z)
       /\ \A i \in Nat : Coefficients(t)[i] = IF i < s THEN e[i] ELSE 0
  BY <1>3, <1>5, <1>7, TrimCoefficients
<1>11. t.size \in 0 .. s /\ Trimmed(t)
  <2>1. /\ t.size \in 0 .. s /\ t.at = [i \in 0 .. t.size - 1 |-> at[i]]
        /\ t.size = 0 \/ at[t.size - 1] # 0
    BY <1>3, TrimIs
  <2> HIDE DEF t
  <2> QED
    BY <1>3, <2>1 DEF Trimmed
<1> HIDE DEF t
<1>12. ASSUME NEW z \in Ring PROVE Evaluate(t, z) \in Ring /\ Evaluate(f, z) = Plus(Evaluate(t, z), v)
  BY <1>8, <1>9, <1>10, EvaluateIsValue
<1>13. Evaluate(t, x) = 0
  <2>1. Plus(Evaluate(t, x), v) = Plus(0, v)
    BY <1>2, <1>12 DEF RingLaws, Closed, Additive
  <2> QED
    BY <1>2, <1>12, <2>1, SumCancels DEF RingLaws, Closed
<1>14. CASE t.size = 0
  <2>1. q = t
    BY <1>6, <1>14
  <2>2. ASSUME NEW z \in Ring PROVE Evaluate(t, z) = 0
    <3>1. Evaluate(t, z) = Value(Coefficients(t), 0, z) /\ Coefficients(t) \in Coeffs
      BY <1>10, <1>14, EvaluateIsValue, CoefficientsInRing
    <3> QED
      BY <3>1, ValueSteps
  <2>3. ASSUME NEW z \in Ring PROVE Evaluate(f, z) = Plus(Times(Minus(z, x), Evaluate(q, z)), v)
    <3>1. Minus(z, x) \in Ring
      BY DEF RingLaws, Closed
    <3>2. Times(Minus(z, x), 0) = 0
      BY <3>1, TimesZero
    <3> QED
      BY <1>12, <2>1, <2>2, <3>2
  <2> QED
    BY <1>10, <1>11, <1>14, <2>1, <2>3 DEF q
<1>15. CASE t.size # 0
  <2> DEFINE n == t.size - 1
             d == Coefficients(t)
             w == Quotient(d, n + 1, x)
             b == DivideByLinear(t.at, n + 1, x)
  <2>1. n \in Nat /\ n + 1 = t.size /\ n <= s - 1
    BY <1>3, <1>11, <1>15
  <2>2. d \in Coeffs /\ \A z \in Ring : Evaluate(t, z) = Value(d, n + 1, z)
    BY <1>10, <2>1, EvaluateIsValue, CoefficientsInRing
  <2>3. \A j \in Nat : j <= n => t.at[j] = d[j]
    BY <2>1 DEF Coefficients
  <2> HIDE DEF n, d
  <2>4. q = Trim(n, b)
    BY <1>6, <1>15, <2>1 DEF n
  <2>5. b = [j \in 0 .. n - 1 |-> w[j]]
    BY <2>1, <2>2, <2>3, DivideByLinearIs
  <2>6. w \in Coeffs
    BY <2>1, <2>2, QuotientSteps
  <2>7. \A j \in Nat : j < n => b[j] = w[j]
    BY <2>1, <2>5
  <2>8. \A z \in Ring : Value(d, n + 1, z)
          = Plus(Times(Minus(z, x), Value(w, n, z)), Value(d, n + 1, x))
    BY <2>1, <2>2, DivisionByLinear
  <2> HIDE DEF b, w
  <2>9. IsPolynomial(q) /\ \A z \in Ring : Evaluate(q, z) = Value(w, n, z)
    BY <2>1, <2>4, <2>6, <2>7, TrimCoefficients
  <2>10. q.size <= n /\ Trimmed(q)
    <3>1. /\ q.size \in 0 .. n /\ q.at = [i \in 0 .. q.size - 1 |-> b[i]]
          /\ q.size = 0 \/ b[q.size - 1] # 0
      BY <2>1, <2>4, TrimIs
    <3> QED
      BY <2>1, <3>1 DEF Trimmed
  <2>11. q.size = 0 \/ q.size + 1 <= f.size
    <3>1. f.size # 0 => s = f.size
      BY DEF s
    <3>2. f.size = 0 => s = 1
      BY DEF s
    <3>3. q.size \in Nat
      BY <2>9 DEF IsPolynomial
    <3> QED
      BY <1>1, <2>1, <2>10, <3>1, <3>2, <3>3
  <2>12. ASSUME NEW z \in Ring PROVE Evaluate(f, z) = Plus(Times(Minus(z, x), Evaluate(q, z)), v)
    <3> DEFINE u == Times(Minus(z, x), Evaluate(q, z))
    <3>1. u \in Ring
      BY <2>9, EvaluateIsValue DEF RingLaws, Closed
    <3>2. Evaluate(t, z) = Plus(u, 0)
      BY <1>13, <2>2, <2>8, <2>9
    <3>3. Plus(u, 0) = u
      BY <3>1 DEF RingLaws, Additive
    <3> QED
      BY <1>12, <3>2, <3>3
  <2> QED
    BY <2>9, <2>10, <2>11, <2>12 DEF q
<1> QED
  BY <1>14, <1>15

-----------------------------------------------------------------------------
(* The integers modulo p^k have the laws *)

(* Adding a multiple of m changes no residue.                              *)
LEMMA ResidueSame ==
  ASSUME NEW m \in Nat \ {0}, NEW a \in Int, NEW b \in Int, NEW q \in Int, a = m * q + b
  PROVE  a % m = b % m
<1> DEFINE c == b \div m
           r == b % m
<1>1. c \in Int /\ r \in 0 .. m - 1 /\ b = m * c + r
  OBVIOUS
<1> HIDE DEF c, r
<1>2. q + c \in Int /\ m * (q + c) = m * q + m * c
  BY <1>1
<1>3. a = m * (q + c) + r
  BY <1>1, <1>2
<1>4. a % m = r
  BY <1>1, <1>2, <1>3
<1> QED
  BY <1>4 DEF r

(* A residue may take its number's place in a sum and in a product.        *)
LEMMA ResidueInSum ==
  ASSUME NEW m \in Nat \ {0}, NEW a \in Int, NEW b \in Int
  PROVE  ((a % m) + b) % m = (a + b) % m
<1> DEFINE c == a \div m
           r == a % m
<1>1. c \in Int /\ r \in Int /\ a = m * c + r
  OBVIOUS
<1> HIDE DEF c, r
<1> DEFINE x == a + b
           y == r + b
<1>2. x \in Int /\ y \in Int /\ x = m * c + y
  BY <1>1
<1>3. x % m = y % m
  <2> HIDE DEF x, y
  <2> QED
    BY <1>1, <1>2, ResidueSame
<1> QED
  BY <1>3 DEF r

(* A factor may be replaced by its residue.                                *)
LEMMA ResidueInProduct ==
  ASSUME NEW m \in Nat \ {0}, NEW a \in Int, NEW b \in Int
  PROVE  ((a % m) * b) % m = (a * b) % m
<1> DEFINE c == a \div m
           r == a % m
<1>1. c \in Int /\ r \in Int /\ a = m * c + r
  OBVIOUS
<1> HIDE DEF c, r
<1> DEFINE x == a * b
           y == r * b
           z == c * b
<1>2. x \in Int /\ y \in Int /\ z \in Int /\ x = m * z + y
  BY <1>1
<1>3. x % m = y % m
  <2> HIDE DEF x, y, z
  <2> QED
    BY <1>2, ResidueSame
<1> QED
  BY <1>3 DEF r

(* A factor of one is no multiple of a divisor p > 1 of m.                 *)
LEMMA ResidueOfFactor ==
  ASSUME NEW m \in Nat \ {0}, NEW p \in Nat \ {0, 1}, m % p = 0,
         NEW a \in Nat, NEW b \in Nat, (a * b) % m = 1
  PROVE  a % p # 0
<1> SUFFICES ASSUME a % p = 0 PROVE FALSE
  OBVIOUS
<1> DEFINE c == a \div p
           k == m \div p
           q == (a * b) \div m
<1>1. c \in Int /\ k \in Int /\ a = p * c /\ m = p * k
  OBVIOUS
<1>2. q \in Int /\ a * b = m * q + 1
  <2>1. a * b \in Int
    OBVIOUS
  <2> QED
    BY <2>1
<1> HIDE DEF c, k, q
<1>3. c * b - k * q \in Int /\ c * b \in Int /\ k * q \in Int
  BY <1>1, <1>2
<1>4. a * b = p * (c * b) /\ m * q = p * (k * q)
  BY <1>1, <1>2
<1>5. p * (c * b - k * q) = p * (c * b) - p * (k * q)
  BY <1>3
<1>6. 1 = p * (c * b - k * q) + 0 /\ 1 = p * 0 + 1
  BY <1>1, <1>2, <1>3, <1>4, <1>5
<1>7. 1 % p = 0 /\ 1 % p = 1
  BY <1>3, <1>6
<1> QED
  BY <1>7

(* The laws that the theorems about the protocols ask for hold for r = 1,  *)
(* which is what FRI and STIR are instantiated with.                       *)
THEOREM ModularRing ==
  ASSUME ExtensionDegree = 1,
         \A x, y \in Ring : /\ Plus(x, y) = ModularPlus(x, y)
                            /\ Minus(x, y) = ModularMinus(x, y)
                            /\ Times(x, y) = ModularTimes(x, y)
  PROVE  RingLaws
<1> DEFINE m == Modulus
<1>1. m \in Nat \ {0, 1} /\ Ring = 0 .. m - 1 /\ m % Prime = 0 /\ Prime \in Nat \ {0, 1}
  BY SizesAssumption, RingAssumption
<1>2. \A x, y \in Ring : /\ Plus(x, y) = (x + y) % m /\ Minus(x, y) = (x - y) % m
                         /\ Times(x, y) = (x * y) % m
  BY DEF ModularPlus, ModularMinus, ModularTimes
<1>3. \A n \in Nat : OfInteger(n) = n % m
  BY DEF OfInteger
<1>4. \A x : IsUnit(x) <=> x % Prime # 0
  BY DEF IsUnit
<1> HIDE DEF m
<1>5. \A a \in Int : a % m \in Ring
  BY <1>1
<1>6. \A x \in Ring : x % m = x /\ x \in Nat
  BY <1>1
<1>7. OfInteger(1) = 1 /\ OfInteger(0) = 0 /\ 0 \in Ring /\ 1 \in Ring
  BY <1>1, <1>3, <1>6
<1>8. Closed
  <2>1. \A x, y \in Ring : x + y \in Int /\ x - y \in Int /\ x * y \in Int
    BY <1>6
  <2> QED
    BY <1>2, <1>5, <1>7, <2>1 DEF Closed
<1>9. Additive
  <2>1. ASSUME NEW x \in Ring, NEW y \in Ring, NEW z \in Ring
        PROVE  Plus(Plus(x, y), z) = Plus(x, Plus(y, z))
    <3>1. x \in Int /\ y \in Int /\ z \in Int /\ x + y \in Int /\ y + z \in Int /\ m \in Nat \ {0}
      BY <1>1, <1>6
    <3>2. Plus(Plus(x, y), z) = (((x + y) % m) + z) % m /\ Plus(x, Plus(y, z)) = (x + ((y + z) % m)) % m
      BY <1>2, <1>8 DEF Closed
    <3>3. (((x + y) % m) + z) % m = ((x + y) + z) % m
      BY <3>1, ResidueInSum
    <3>4. (((y + z) % m) + x) % m = ((y + z) + x) % m
      BY <3>1, ResidueInSum
    <3>5. (x + y) + z = (y + z) + x
      BY <3>1
    <3>6. x + ((y + z) % m) = ((y + z) % m) + x
      BY <3>1
    <3> QED
      BY <3>2, <3>3, <3>4, <3>5, <3>6
  <2>2. ASSUME NEW x \in Ring, NEW y \in Ring
        PROVE  Plus(x, y) = Plus(y, x) /\ Plus(x, 0) = x /\ Plus(Minus(x, y), y) = x
    <3>1. x \in Int /\ y \in Int /\ x - y \in Int /\ m \in Nat \ {0} /\ x % m = x
      BY <1>1, <1>6
    <3>2. Plus(Minus(x, y), y) = (((x - y) % m) + y) % m
      BY <1>2, <1>8 DEF Closed
    <3>3. (((x - y) % m) + y) % m = ((x - y) + y) % m
      BY <3>1, ResidueInSum
    <3>4. (x - y) + y = x /\ x + 0 = x /\ x + y = y + x
      BY <3>1
    <3> QED
      BY <1>2, <1>7, <3>1, <3>2, <3>3, <3>4
  <2> QED
    BY <2>1, <2>2 DEF Additive
<1>10. Multiplicative
  <2>1. ASSUME NEW x \in Ring, NEW y \in Ring, NEW z \in Ring
        PROVE  Times(Times(x, y), z) = Times(x, Times(y, z))
    <3>1. x \in Int /\ y \in Int /\ z \in Int /\ x * y \in Int /\ y * z \in Int /\ m \in Nat \ {0}
      BY <1>1, <1>6
    <3>2. Times(Times(x, y), z) = (((x * y) % m) * z) % m /\ Times(x, Times(y, z)) = (x * ((y * z) % m)) % m
      BY <1>2, <1>8 DEF Closed
    <3>3. (((x * y) % m) * z) % m = ((x * y) * z) % m
      BY <3>1, ResidueInProduct
    <3>4. (((y * z) % m) * x) % m = ((y * z) * x) % m
      BY <3>1, ResidueInProduct
    <3>5. (x * y) * z = (y * z) * x
      BY <3>1
    <3>6. x * ((y * z) % m) = ((y * z) % m) * x
      <4>1. (y * z) % m \in Int
        BY <3>1
      <4> QED
        BY <3>1, <4>1
    <3> QED
      BY <3>2, <3>3, <3>4, <3>5, <3>6
  <2>2. ASSUME NEW x \in Ring, NEW y \in Ring
        PROVE  Times(x, y) = Times(y, x) /\ Times(x, OfInteger(1)) = x
    <3>1. x \in Int /\ y \in Int /\ x % m = x
      BY <1>6
    <3>2. x * y = y * x /\ x * 1 = x
      BY <3>1
    <3> QED
      BY <1>2, <1>7, <3>1, <3>2
  <2> QED
    BY <2>1, <2>2 DEF Multiplicative
<1>11. Distributive
  <2>1. ASSUME NEW x \in Ring, NEW y \in Ring, NEW z \in Ring
        PROVE  Times(x, Plus(y, z)) = Plus(Times(x, y), Times(x, z))
    <3> DEFINE a == x * y
               b == x * z
               s == y + z
    <3>1. x \in Int /\ a \in Int /\ b \in Int /\ s \in Int /\ m \in Nat \ {0}
          /\ a % m \in Int /\ b % m \in Int /\ s % m \in Int
      BY <1>1, <1>6
    <3>2. s * x = a + b
      BY <1>6
    <3>3. /\ Times(x, Plus(y, z)) = (x * (s % m)) % m
          /\ Plus(Times(x, y), Times(x, z)) = ((a % m) + (b % m)) % m
      BY <1>2, <1>8 DEF Closed
    <3> HIDE DEF a, b, s
    <3>4. ((s % m) * x) % m = (s * x) % m
      BY <3>1, ResidueInProduct
    <3>5. ((a % m) + (b % m)) % m = (a + (b % m)) % m
      BY <3>1, ResidueInSum
    <3>6. ((b % m) + a) % m = (b + a) % m
      BY <3>1, ResidueInSum
    <3>7. x * (s % m) = (s % m) * x /\ (b % m) + a = a + (b % m) /\ b + a = a + b
      BY <3>1
    <3> QED
      BY <3>2, <3>3, <3>4, <3>5, <3>6, <3>7
  <2> QED
    BY <2>1 DEF Distributive
<1>12. Counting
  <2>1. ASSUME NEW n \in Nat
        PROVE  OfInteger(n) \in Ring /\ OfInteger(n + 1) = Plus(OfInteger(n), OfInteger(1))
    <3>1. n \in Int /\ 1 \in Int /\ n + 1 \in Nat /\ m \in Nat \ {0}
      BY <1>1
    <3>2. OfInteger(n) = n % m /\ OfInteger(n + 1) = (n + 1) % m /\ n % m \in Ring
      BY <1>3, <1>5, <3>1
    <3>3. ((n % m) + 1) % m = (n + 1) % m
      BY <3>1, ResidueInSum
    <3> QED
      BY <1>2, <1>7, <3>2, <3>3
  <2>2. ~IsUnit(0)
    BY <1>1, <1>4
  <2>3. ASSUME NEW x \in Ring, NEW y \in Ring, Times(x, y) = OfInteger(1)
        PROVE  IsUnit(x)
    <3>1. x \in Nat /\ y \in Nat /\ (x * y) % m = 1
      BY <1>2, <1>6, <1>7, <2>3
    <3>2. x % Prime # 0
      BY <1>1, <3>1, ResidueOfFactor
    <3> QED
      BY <1>4, <3>2
  <2> QED
    BY <1>7, <2>1, <2>2, <2>3 DEF Counting
<1> QED
  BY <1>8, <1>9, <1>10, <1>11, <1>12 DEF RingLaws

-----------------------------------------------------------------------------
(* Domains *)

(* n divided by a divisor, and by a divisor of the quotient.               *)
LEMMA DividedBy ==
  ASSUME NEW n \in Nat \ {0}, NEW d \in Nat \ {0}, n % d = 0
  PROVE  n \div d \in Nat \ {0} /\ n = d * (n \div d)
         /\ (d > 1 => n \div d < n)
<1> DEFINE q == n \div d
<1>2. q \in Nat /\ n = d * q
  OBVIOUS
<1> HIDE DEF q
<1>3. q # 0
  BY <1>2
<1>4. d > 1 => q < n
  BY <1>2, <1>3
<1> QED
  BY <1>2, <1>3, <1>4 DEF q

(* A multiple of d divided by d.                                           *)
LEMMA MultipleOf ==
  ASSUME NEW d \in Nat \ {0}, NEW q \in Nat
  PROVE  (d * q) % d = 0 /\ (d * q) \div d = q
  BY SMT

(* Every number from two on has a divisor without smaller divisors.        *)
LEMMA LeastDivisor ==
  ASSUME NEW q \in Nat, q > 1
  PROVE  \E d \in 2 .. q : q % d = 0 /\ \A e \in 2 .. d - 1 : d % e # 0
<1> DEFINE S == {d \in 2 .. q : q % d = 0}
<1>1. q \in S
  BY SMT
<1>2. S \in SUBSET Nat /\ S # {}
  <2>1. \A d \in S : d \in Nat
    OBVIOUS
  <2> QED
    BY <1>1, <2>1
<1>3. PICK d \in S : \A e \in S : d <= e
  BY <1>2, LeastElement
<1>4. d \in 2 .. q /\ q % d = 0
  BY <1>3
<1>5. ASSUME NEW e \in 2 .. d - 1, d % e = 0 PROVE FALSE
  <2> DEFINE a == q \div d
             b == d \div e
  <2>1. a \in Nat /\ q = d * a /\ b \in Nat /\ d = e * b
    <3>1. q \in Nat \ {0} /\ d \in Nat \ {0} /\ e \in Nat \ {0}
      BY <1>4
    <3> QED
      BY <1>4, <1>5, <3>1, DividedBy
  <2> HIDE DEF a, b
  <2>2. b * a \in Nat /\ q = e * (b * a)
    BY <2>1
  <2> DEFINE c == b * a
  <2>3. c \in Nat /\ q = e * c
    BY <2>2
  <2> HIDE DEF c
  <2>4. q % e = 0
    <3>1. e \in Nat \ {0}
      BY <1>4
    <3>2. (e * c) % e = 0
      BY <2>3, <3>1, MultipleOf
    <3> QED
      BY <2>3, <3>2
  <2>5. e \in S /\ e < d
    BY <1>4, <2>4
  <2> QED
    BY <1>3, <1>4, <2>5
<1> QED
  BY <1>4, <1>5

(* The powers of a root of exact order n below n are not one.              *)
LEMMA OrderIsLeast ==
  ASSUME RingLaws, NEW x \in Ring, NEW n \in Nat \ {0}, HasExactOrder(x, n)
  PROVE  Power(x, n) = OfInteger(1) /\ \A i \in 1 .. n - 1 : Power(x, i) # OfInteger(1)
<1>1. Power(x, n) = OfInteger(1)
      /\ \A d \in PrimeDivisors(n) : Power(x, n \div d) # OfInteger(1)
  BY DEF HasExactOrder
<1> DEFINE S == {i \in 1 .. n : Power(x, i) = OfInteger(1)}
<1>2. S \in SUBSET Nat /\ n \in S
  <2>1. \A i \in S : i \in Nat
    OBVIOUS
  <2>2. n \in 1 .. n
    OBVIOUS
  <2> QED
    BY <1>1, <2>1, <2>2
<1>3. PICK t \in S : \A i \in S : t <= i
  BY <1>2, LeastElement
<1>4. t \in 1 .. n /\ Power(x, t) = OfInteger(1) /\ t \in Nat \ {0} /\ t \in Nat
  BY <1>3
<1> SUFFICES ASSUME t # n PROVE FALSE
  <2>1. ASSUME NEW i \in 1 .. n - 1, Power(x, i) = OfInteger(1) PROVE FALSE
    <3>1. i \in S
      BY <2>1
    <3>2. t = n
      OBVIOUS
    <3> QED
      BY <1>3, <3>1, <3>2
  <2> QED
    BY <1>1, <2>1
<1> DEFINE q == n \div t
           s == n % t
           e == t * q
<1>5. q \in Nat /\ s \in 0 .. t - 1 /\ n = t * q + s
  BY <1>4
<1> HIDE DEF q, s
<1>5a. e \in Nat /\ s \in Nat /\ n = e + s
  BY <1>4, <1>5
<1> HIDE DEF e
<1>6. Power(x, e) = OfInteger(1)
  <2>1. Power(x, e) = Power(Power(x, t), q)
    BY <1>4, <1>5, PowerOfPower DEF e
  <2> QED
    BY <1>4, <1>5, <2>1, PowerOfOne
<1>7. s = 0
  <2>1. Power(x, n) = Times(Power(x, e), Power(x, s))
    BY <1>5a, PowerAdds
  <2>2. Power(x, s) \in Ring
    BY <1>5a, PowerSteps
  <2>3. Power(x, s) = OfInteger(1)
    BY <1>1, <1>6, <2>1, <2>2 DEF RingLaws, Closed, Multiplicative
  <2>4. s # 0 => s \in S
    BY <1>4, <1>5, <2>3
  <2> QED
    BY <1>3, <1>4, <1>5, <2>4
<1>8. q > 1 /\ n = t * q
  <2>1. n = t * q
    BY <1>5, <1>7
  <2>2. q # 0 /\ q # 1
    BY <1>4, <2>1
  <2> QED
    BY <1>5, <2>1, <2>2
<1>9. PICK d \in 2 .. q : q % d = 0 /\ \A f \in 2 .. d - 1 : d % f # 0
  BY <1>5, <1>8, LeastDivisor
<1> DEFINE p == q \div d
<1>10. p \in Nat /\ q = d * p
  <2>1. q \in Nat \ {0} /\ d \in Nat \ {0}
    BY <1>5, <1>8
  <2> QED
    BY <1>9, <2>1, DividedBy
<1> HIDE DEF p
<1> DEFINE u == t * p
<1>11. u \in Nat /\ n = d * u
  BY <1>4, <1>8, <1>10
<1> HIDE DEF u
<1>12. n % d = 0 /\ n \div d = u
  <2>1. d \in Nat \ {0}
    BY <1>9
  <2> QED
    BY <1>11, <2>1, MultipleOf
<1>13. d \in PrimeDivisors(n)
  <2>1. d <= n
    <3>1. u # 0
      BY <1>11
    <3> QED
      BY <1>9, <1>11, <3>1
  <2>2. d \in 2 .. n
    BY <1>5, <1>9, <2>1
  <2> QED
    BY <1>9, <1>12, <2>2 DEF PrimeDivisors
<1>14. Power(x, u) = OfInteger(1)
  <2>1. Power(x, u) = Power(Power(x, t), p)
    BY <1>4, <1>10, PowerOfPower DEF u
  <2> QED
    BY <1>4, <1>10, <2>1, PowerOfOne
<1> QED
  BY <1>1, <1>12, <1>13, <1>14

(* The points of a domain are different units of the ring.                 *)
LEMMA PointsOfDomain ==
  ASSUME RingLaws, NEW d, IsDomain(d)
  PROVE  /\ d.size \in Nat \ {0} /\ d.offset \in Ring /\ d.root \in Ring
         /\ \A i \in 0 .. d.size - 1 :
              /\ d.points[i] = Times(d.offset, Power(d.root, i))
              /\ d.points[i] \in Ring /\ IsUnit(d.points[i])
         /\ \A i \in 0 .. d.size - 1 : \A j \in 0 .. d.size - 1 :
              i # j => d.points[i] # d.points[j]
<1> DEFINE n == d.size
           a == d.offset
           w == d.root
<1>1. /\ n \in Nat \ {0} /\ a \in Ring /\ w \in Ring
      /\ IsUnit(a) /\ IsUnit(w) /\ HasExactOrder(w, n)
      /\ d = MakeDomain(a, w, n)
  BY DEF IsDomain
<1>2. d.points = [i \in 0 .. n - 1 |-> Times(a, Power(w, i))]
  <2>1. d.points = MakeDomain(a, w, n).points
    BY <1>1
  <2>2. MakeDomain(a, w, n).points = Tabulated([i \in 0 .. n - 1 |-> Times(a, Power(w, i))])
    BY DEF MakeDomain
  <2> QED
    BY <2>1, <2>2, TabulatedIs
<1> HIDE DEF n, a, w
<1>3. ASSUME NEW i \in 0 .. n - 1
      PROVE  /\ d.points[i] = Times(a, Power(w, i))
             /\ d.points[i] \in Ring /\ IsUnit(d.points[i])
  <2>1. d.points[i] = Times(a, Power(w, i))
    BY <1>2
  <2>2. i \in Nat
    BY <1>1
  <2>3. Power(w, i) \in Ring /\ IsUnit(Power(w, i))
    BY <1>1, <2>2, PowerSteps, PowerUnit
  <2> DEFINE p == Power(w, i)
  <2>4. p \in Ring /\ IsUnit(p) /\ d.points[i] = Times(a, p)
    BY <2>1, <2>3
  <2> HIDE DEF p
  <2>5. Times(a, p) \in Ring
    BY <1>1, <2>4 DEF RingLaws, Closed
  <2>6. IsUnit(Times(a, p))
    BY <1>1, <2>4, UnitProduct
  <2> QED
    BY <2>1, <2>4, <2>5, <2>6
<1>4. ASSUME NEW i \in 0 .. n - 1, NEW j \in 0 .. n - 1, i < j, d.points[i] = d.points[j]
      PROVE  FALSE
  <2> DEFINE t == j - i
             p == Power(w, i)
             q == Power(w, t)
  <2>1. i \in Nat /\ t \in Nat /\ j = i + t /\ t \in 1 .. n - 1
    BY <1>1, <1>4
  <2>2. p \in Ring /\ q \in Ring /\ IsUnit(p)
    BY <1>1, <2>1, PowerSteps, PowerUnit
  <2>3. Power(w, j) = Times(p, q)
    <3>1. Power(w, i + t) = Times(Power(w, i), Power(w, t))
      BY <1>1, <2>1, PowerAdds
    <3> QED
      BY <2>1, <3>1
  <2>4. Times(a, p) = Times(a, Times(p, q))
    BY <1>3, <1>4, <2>3
  <2>5. q # OfInteger(1)
    BY <1>1, <2>1, OrderIsLeast
  <2> HIDE DEF p, q, t
  <2>6. Times(p, q) \in Ring
    BY <2>2 DEF RingLaws, Closed
  <2>7. p = Times(p, q)
    <3> DEFINE r == Times(p, q)
    <3>1. r \in Ring /\ Times(a, p) = Times(a, r)
      BY <2>4, <2>6
    <3> HIDE DEF r
    <3>2. p = r
      BY <1>1, <2>2, <3>1, UnitCancels
    <3> QED
      BY <3>2 DEF r
  <2>8. OfInteger(1) \in Ring /\ Times(p, OfInteger(1)) = Times(p, q)
    BY <2>2, <2>7 DEF RingLaws, Closed, Multiplicative
  <2>9. OfInteger(1) = q
    <3> DEFINE o == OfInteger(1)
    <3>1. o \in Ring /\ Times(p, o) = Times(p, q)
      BY <2>8
    <3> HIDE DEF o
    <3>2. o = q
      BY <2>2, <3>1, UnitCancels
    <3> QED
      BY <3>2 DEF o
  <2> QED
    BY <2>5, <2>9
<1>5. ASSUME NEW i \in 0 .. n - 1, NEW j \in 0 .. n - 1, i # j
      PROVE  d.points[i] # d.points[j]
  <2>1. i < j \/ j < i
    BY <1>1, <1>5
  <2> QED
    BY <1>4, <2>1
<1> QED
  BY <1>1, <1>3, <1>5 DEF n, a, w

(* Products and powers of Teichmueller units are Teichmueller units.       *)
LEMMA TeichmullerProduct ==
  ASSUME RingLaws, NEW x \in Ring, NEW y \in Ring, IsUnit(x), IsUnit(y),
         IsTeichmuller(x), IsTeichmuller(y)
  PROVE  IsTeichmuller(Times(x, y))
<1> DEFINE e == ResidueSize - 1
<1>1. e \in Nat
  BY SizesAssumption
<1>2. x # 0 /\ y # 0
  BY DEF RingLaws, Counting
<1> HIDE DEF e
<1>3. Power(x, e) = OfInteger(1) /\ Power(y, e) = OfInteger(1)
  BY <1>2 DEF IsTeichmuller, e
<1>4. Power(Times(x, y), e) = OfInteger(1)
  <2>1. Power(Times(x, y), e) = Times(Power(x, e), Power(y, e))
    BY <1>1, PowerOfProduct
  <2> QED
    BY <1>3, <2>1 DEF RingLaws, Closed, Multiplicative
<1>5. IsUnit(Times(x, y))
  BY UnitProduct
<1> QED
  BY <1>4, <1>5 DEF IsTeichmuller, e

(* The Teichmueller set is closed under powers.                            *)
LEMMA TeichmullerPower ==
  ASSUME RingLaws, NEW x \in Ring, IsUnit(x), IsTeichmuller(x), NEW n \in Nat
  PROVE  IsTeichmuller(Power(x, n))
<1> DEFINE e == ResidueSize - 1
<1>1. e \in Nat
  BY SizesAssumption
<1>2. x # 0
  BY DEF RingLaws, Counting
<1> HIDE DEF e
<1>3. Power(x, e) = OfInteger(1)
  BY <1>2 DEF IsTeichmuller, e
<1>4. Power(Power(x, n), e) = OfInteger(1)
  <2>1. Power(x, n * e) = Power(Power(x, n), e)
    BY <1>1, PowerOfPower
  <2>2. Power(x, e * n) = Power(Power(x, e), n)
    BY <1>1, PowerOfPower
  <2>3. n * e = e * n
    BY <1>1
  <2>4. Power(OfInteger(1), n) = OfInteger(1)
    BY PowerOfOne
  <2> QED
    BY <1>3, <2>1, <2>2, <2>3, <2>4
<1>5. IsUnit(Power(x, n))
  BY PowerUnit
<1> QED
  BY <1>4, <1>5 DEF IsTeichmuller, e

(* A domain of Teichmueller units can be interpolated on.                  *)
LEMMA DomainApart ==
  ASSUME RingLaws, NEW d, IsDomain(d), IsTeichmullerSubset(d)
  PROVE  /\ Apart(d.points, d.size)
         /\ \A i \in 0 .. d.size - 1 : d.points[i] \in TeichmullerSet
<1> DEFINE n == d.size
           a == d.offset
           w == d.root
<1>1. /\ n \in Nat \ {0} /\ a \in Ring /\ w \in Ring /\ IsUnit(a) /\ IsUnit(w)
      /\ IsTeichmuller(a) /\ IsTeichmuller(w)
  BY DEF IsDomain, IsTeichmullerSubset
<1>2. \A i \in 0 .. n - 1 : d.points[i] = Times(a, Power(w, i)) /\ d.points[i] \in Ring
  BY PointsOfDomain
<1>3. \A i \in 0 .. n - 1 : \A j \in 0 .. n - 1 : i # j => d.points[i] # d.points[j]
  BY PointsOfDomain
<1> HIDE DEF n, a, w
<1>4. ASSUME NEW i \in 0 .. n - 1 PROVE d.points[i] \in TeichmullerSet
  <2> DEFINE p == Power(w, i)
  <2>1. i \in Nat
    BY <1>1
  <2>2. p \in Ring /\ IsUnit(p) /\ IsTeichmuller(p)
    BY <1>1, <2>1, PowerSteps, PowerUnit, TeichmullerPower
  <2>3. d.points[i] = Times(a, p) /\ d.points[i] \in Ring
    BY <1>2
  <2> HIDE DEF p
  <2>4. IsTeichmuller(Times(a, p))
    BY <1>1, <2>2, TeichmullerProduct
  <2> QED
    BY <2>3, <2>4 DEF TeichmullerSet
<1>5. Exceptional(d.points, n)
  <2> SUFFICES ASSUME NEW i \in 0 .. n - 1, NEW j \in 0 .. n - 1, i # j
               PROVE  IsUnit(Minus(d.points[i], d.points[j]))
    BY DEF Exceptional
  <2> QED
    BY <1>3, <1>4, TeichmullerAssumption
<1> QED
  BY <1>2, <1>4, <1>5 DEF Apart, n

(* The offset need not be a Teichmueller unit for that.                    *)
LEMMA CosetApart ==
  ASSUME RingLaws, NEW d, IsDomain(d), IsTeichmuller(d.root)
  PROVE  Apart(d.points, d.size)
<1> DEFINE n == d.size
           a == d.offset
           w == d.root
<1>1. n \in Nat \ {0} /\ a \in Ring /\ w \in Ring /\ IsUnit(a) /\ IsUnit(w) /\ IsTeichmuller(w)
  BY DEF IsDomain
<1>2. /\ \A i \in 0 .. n - 1 : d.points[i] = Times(a, Power(w, i)) /\ d.points[i] \in Ring
      /\ \A i \in 0 .. n - 1 : \A j \in 0 .. n - 1 : i # j => d.points[i] # d.points[j]
  BY PointsOfDomain
<1> HIDE DEF n, a, w
<1>3. ASSUME NEW i \in 0 .. n - 1 PROVE Power(w, i) \in Ring /\ Power(w, i) \in TeichmullerSet
  <2>1. i \in Nat
    BY <1>1
  <2>2. Power(w, i) \in Ring /\ IsTeichmuller(Power(w, i))
    BY <1>1, <2>1, PowerSteps, TeichmullerPower
  <2> QED
    BY <2>2 DEF TeichmullerSet
<1>4. ASSUME NEW i \in 0 .. n - 1, NEW j \in 0 .. n - 1, i # j
      PROVE  IsUnit(Minus(d.points[i], d.points[j]))
  <2> DEFINE x == Power(w, i)
             y == Power(w, j)
  <2>1. x \in Ring /\ y \in Ring /\ x \in TeichmullerSet /\ y \in TeichmullerSet
    BY <1>3
  <2>2. d.points[i] = Times(a, x) /\ d.points[j] = Times(a, y) /\ d.points[i] # d.points[j]
    BY <1>2, <1>4
  <2> HIDE DEF x, y
  <2>3. IsUnit(Minus(x, y)) /\ Minus(x, y) \in Ring
    BY <2>1, <2>2, TeichmullerAssumption DEF RingLaws, Closed
  <2>4. Times(a, Minus(x, y)) = Minus(Times(a, x), Times(a, y))
    BY <1>1, <2>1, TimesDifference
  <2>5. IsUnit(Times(a, Minus(x, y)))
    BY <1>1, <2>3, UnitProduct
  <2> QED
    BY <2>2, <2>4, <2>5
<1> QED
  BY <1>2, <1>4 DEF Apart, Exceptional, n

(* A number that divides another is their greatest common divisor.         *)
LEMMA GcdOfDivisor ==
  ASSUME NEW n \in Nat \ {0}, NEW k \in Nat \ {0}, n % k = 0
  PROVE  Gcd(n, k) = k
<1>1. k \in 1 .. n /\ k % k = 0
  <2>1. n \div k \in Nat \ {0} /\ n = k * (n \div k)
    BY DividedBy
  <2> DEFINE q == n \div k
  <2>2. q \in Nat \ {0} /\ n = k * q
    BY <2>1
  <2> HIDE DEF q
  <2>3. k <= n
    BY <2>2
  <2> QED
    BY <2>3
<1>2. \A h \in k + 1 .. n : k % h = k
  OBVIOUS
<1>3. \A h \in k + 1 .. n : ~(n % h = 0 /\ k % h = 0)
  BY <1>2
<1>4. ASSUME NEW g \in 1 .. n, n % g = 0, k % g = 0,
             \A h \in g + 1 .. n : ~(n % h = 0 /\ k % h = 0)
      PROVE  g = k
  <2>1. ~(k \in g + 1 .. n)
    BY <1>1, <1>4
  <2>2. ~(g \in k + 1 .. n)
    BY <1>3, <1>4
  <2> QED
    BY <1>1, <2>1, <2>2
<1> QED
  BY <1>1, <1>3, <1>4 DEF Gcd

(* The image of a domain under x |-> x^k is a domain when k divides its    *)
(* size; the fiber over its point c are the points c + o m.                *)
LEMMA PowMapParts ==
  ASSUME RingLaws, NEW d, IsDomain(d), NEW k \in Nat \ {0}, d.size % k = 0
  PROVE  /\ PowMap(d, k).size = d.size \div k
         /\ PowMap(d, k).offset = Power(d.offset, k)
         /\ PowMap(d, k).root = Power(d.root, k)
         /\ PowMap(d, k) = MakeDomain(PowMap(d, k).offset, PowMap(d, k).root, PowMap(d, k).size)
<1>1. Gcd(d.size, k) = k
  BY GcdOfDivisor DEF IsDomain
<1> QED
  BY <1>1 DEF PowMap, MakeDomain

(* The image of a domain's root has the order of the image.                *)
LEMMA PowMapOrder ==
  ASSUME RingLaws, NEW d, IsDomain(d), NEW k \in Nat \ {0}, d.size % k = 0,
         NEW m, m = d.size \div k
  PROVE  HasExactOrder(Power(d.root, k), m)
<1> DEFINE n == d.size
           w == d.root
           u == Power(w, k)
<1>1. n \in Nat \ {0} /\ w \in Ring /\ HasExactOrder(w, n)
  BY DEF IsDomain
<1>2. m \in Nat \ {0} /\ n = k * m
  <2> HIDE DEF w
  <2>1. n \in Nat \ {0} /\ n % k = 0 /\ m = n \div k
    BY <1>1
  <2> HIDE DEF n
  <2> QED
    BY <2>1, DividedBy
<1> HIDE DEF n, w
<1>3. Power(w, n) = OfInteger(1) /\ \A i \in 1 .. n - 1 : Power(w, i) # OfInteger(1)
  BY <1>1, OrderIsLeast
<1>4. ASSUME NEW i \in Nat PROVE k * i \in Nat /\ Power(u, i) = Power(w, k * i)
  BY <1>1, PowerOfPower
<1>5. u \in Ring
  BY <1>1, PowerSteps
<1>6. Power(u, m) = OfInteger(1)
  BY <1>2, <1>3, <1>4
<1>7. ASSUME NEW e \in PrimeDivisors(m) PROVE Power(u, m \div e) # OfInteger(1)
  <2>1. e \in 2 .. m /\ m % e = 0
    BY DEF PrimeDivisors
  <2> DEFINE p == m \div e
  <2>2. p \in Nat \ {0} /\ p < m
    <3>1. e \in Nat \ {0} /\ e > 1
      BY <1>2, <2>1
    <3> QED
      BY <1>2, <2>1, <3>1, DividedBy
  <2> HIDE DEF p
  <2> DEFINE kp == k * p
  <2>3. kp \in 1 .. n - 1
    <3>1. kp \in Nat \ {0}
      BY <2>2
    <3>2. k * p < k * m
      BY <1>2, <2>2
    <3> QED
      BY <1>1, <1>2, <3>1, <3>2
  <2>4. Power(u, p) = Power(w, kp)
    BY <1>4, <2>2
  <2> HIDE DEF kp
  <2> QED
    BY <1>3, <2>3, <2>4 DEF p
<1> QED
  BY <1>2, <1>6, <1>7 DEF HasExactOrder, u, w

(* The image of a domain under x |-> x^k is one, in the Teichmueller set   *)
(* if the domain is.                                                       *)
LEMMA PowMapIsDomain ==
  ASSUME RingLaws, NEW d, IsDomain(d), NEW k \in Nat \ {0}, d.size % k = 0
  PROVE  /\ IsDomain(PowMap(d, k))
         /\ IsTeichmullerSubset(d) => IsTeichmullerSubset(PowMap(d, k))
<1> DEFINE e == PowMap(d, k)
           a == d.offset
           w == d.root
<1>1. /\ e.size = d.size \div k /\ e.offset = Power(a, k) /\ e.root = Power(w, k)
      /\ e = MakeDomain(e.offset, e.root, e.size)
  BY PowMapParts
<1>2. a \in Ring /\ w \in Ring /\ IsUnit(a) /\ IsUnit(w) /\ d.size \in Nat \ {0}
  BY DEF IsDomain
<1>3. HasExactOrder(Power(w, k), d.size \div k)
  BY PowMapOrder
<1>4. d.size \div k \in Nat \ {0}
  BY <1>2, DividedBy
<1>5. IsTeichmullerSubset(d) => IsTeichmuller(a) /\ IsTeichmuller(w)
  BY DEF IsTeichmullerSubset
<1> HIDE DEF e, a, w
<1>6. Power(a, k) \in Ring /\ Power(w, k) \in Ring /\ IsUnit(Power(a, k)) /\ IsUnit(Power(w, k))
  BY <1>2, PowerSteps, PowerUnit
<1>7. IsDomain(e)
  BY <1>1, <1>3, <1>4, <1>6 DEF IsDomain
<1>8. ASSUME IsTeichmullerSubset(d) PROVE IsTeichmullerSubset(e)
  <2>1. IsTeichmuller(Power(a, k)) /\ IsTeichmuller(Power(w, k))
    BY <1>2, <1>5, <1>8, TeichmullerPower
  <2> QED
    BY <1>1, <2>1 DEF IsTeichmullerSubset
<1> QED
  BY <1>7, <1>8 DEF e

(* Different slots of a fiber have different indices.                      *)
LEMMA SlotsDiffer ==
  ASSUME NEW m \in Nat \ {0}, NEW c \in Nat, NEW o \in Nat, NEW t \in Nat, o # t
  PROVE  c + o * m # c + t * m
<1>1. ASSUME NEW a \in Nat, NEW b \in Nat, a < b PROVE a * m < b * m
  BY <1>1
<1>2. o * m \in Nat /\ t * m \in Nat
  OBVIOUS
<1>3. o < t \/ t < o
  OBVIOUS
<1>4. o * m < t * m \/ t * m < o * m
  BY <1>1, <1>3
<1> QED
  BY <1>2, <1>4

(* The indices of a fiber are in the domain.                               *)
LEMMA FiberIndices ==
  ASSUME NEW n \in Nat \ {0}, NEW k \in Nat \ {0}, n % k = 0, NEW m, m = n \div k,
         NEW c \in 0 .. m - 1
  PROVE  /\ m \in Nat \ {0} /\ n = k * m
         /\ \A o \in 0 .. k - 1 : c + o * m \in 0 .. n - 1
<1>1. m \in Nat \ {0} /\ n = k * m
  BY DividedBy
<1>2. ASSUME NEW o \in 0 .. k - 1 PROVE c + o * m \in 0 .. n - 1
  <2>1. o \in Nat /\ o + 1 <= k
    OBVIOUS
  <2>2. (o + 1) * m <= k * m
    BY <1>1, <2>1
  <2>3. (o + 1) * m = o * m + m /\ o * m \in Nat
    BY <1>1, <2>1
  <2> QED
    BY <1>1, <2>2, <2>3
<1> QED
  BY <1>1, <1>2

(* The fiber of the map x |-> x^k over point c of the image.               *)
FiberOf(d, c, m, k) == [o \in 0 .. k - 1 |-> d.points[c + o * m]]

(* All points of a fiber have the same k-th power, the point they are      *)
(* over.                                                                   *)
LEMMA FiberFacts ==
  ASSUME RingLaws, NEW d, IsDomain(d), NEW k \in Nat \ {0}, d.size % k = 0,
         NEW m, m = d.size \div k, NEW c \in 0 .. m - 1
  PROVE  /\ \A o \in 0 .. k - 1 : c + o * m \in 0 .. d.size - 1
         /\ \A o \in 0 .. k - 1 : FiberOf(d, c, m, k)[o] = d.points[c + o * m]
                                  /\ FiberOf(d, c, m, k)[o] \in Ring
         /\ PowMap(d, k).points[c] \in Ring
         /\ \A o \in 0 .. k - 1 :
              Power(FiberOf(d, c, m, k)[o], k) = PowMap(d, k).points[c]
<1> DEFINE n == d.size
           a == d.offset
           w == d.root
           u == Power(w, k)
           v == Power(a, k)
           e == PowMap(d, k)
           at(o) == c + o * m
<1>1. /\ n \in Nat \ {0} /\ a \in Ring /\ w \in Ring
      /\ \A i \in 0 .. n - 1 : d.points[i] = Times(a, Power(w, i)) /\ d.points[i] \in Ring
  BY PointsOfDomain
<1>2. n % k = 0 /\ m = n \div k
  OBVIOUS
<1>3. e.size = m /\ e.offset = v /\ e.root = u /\ IsDomain(e)
  BY PowMapParts, PowMapIsDomain
<1>4. e.points[c] = Times(v, Power(u, c)) /\ e.points[c] \in Ring
  <2> HIDE DEF e, u, v
  <2> QED
    BY <1>3, PointsOfDomain
<1>5. HasExactOrder(u, m)
  BY PowMapOrder
<1> HIDE DEF n
<1>6. /\ m \in Nat \ {0}
      /\ \A o \in 0 .. k - 1 : at(o) \in 0 .. n - 1
  BY <1>1, <1>2, FiberIndices
<1> HIDE DEF a, w, e
<1>7. u \in Ring /\ v \in Ring
  BY <1>1, PowerSteps
<1>8. ASSUME NEW i \in Nat PROVE Power(Power(w, i), k) = Power(u, i)
  <2>1. Power(w, i * k) = Power(Power(w, i), k)
    BY <1>1, PowerOfPower
  <2>2. Power(w, k * i) = Power(u, i)
    BY <1>1, PowerOfPower
  <2>3. i * k = k * i
    OBVIOUS
  <2> QED
    BY <2>1, <2>2, <2>3
<1> HIDE DEF u, v, at
<1>9. ASSUME NEW o \in 0 .. k - 1 PROVE Power(d.points[at(o)], k) = e.points[c]
  <2> DEFINE i == at(o)
             p == Power(w, i)
             t == o * m
  <2>1. i \in 0 .. n - 1 /\ i \in Nat
    <3>1. i \in 0 .. n - 1
      BY <1>6
    <3> HIDE DEF i
    <3> QED
      BY <1>1, <3>1
  <2>2. o \in Nat /\ t \in Nat /\ c \in Nat /\ i = c + t
    BY <1>6 DEF at
  <2>3. d.points[i] = Times(a, p) /\ p \in Ring
    BY <1>1, <2>1, PowerSteps
  <2>4. Power(p, k) = Power(u, i)
    BY <1>8, <2>1
  <2>5. Power(d.points[i], k) = Times(v, Power(u, i))
    <3> HIDE DEF p
    <3>1. Power(Times(a, p), k) = Times(Power(a, k), Power(p, k))
      BY <1>1, <2>3, PowerOfProduct
    <3> QED
      BY <2>3, <2>4, <3>1 DEF v
  <2> HIDE DEF t, i
  <2>6. Power(u, i) = Times(Power(u, c), Power(u, t))
    BY <1>7, <2>2, PowerAdds
  <2>7. Power(u, t) = OfInteger(1)
    <3>1. t = m * o
      BY <1>6 DEF t
    <3>2. Power(u, m * o) = Power(Power(u, m), o)
      BY <1>6, <1>7, <2>2, PowerOfPower
    <3>3. Power(u, m) = OfInteger(1)
      BY <1>5 DEF HasExactOrder
    <3> QED
      BY <2>2, <3>1, <3>2, <3>3, PowerOfOne
  <2>8. Power(u, c) \in Ring
    BY <1>7, <2>2, PowerSteps
  <2>9. Power(u, i) = Power(u, c)
    BY <2>6, <2>7, <2>8 DEF RingLaws, Closed, Multiplicative
  <2> QED
    BY <1>4, <2>5, <2>9 DEF i
<1>10. \A o \in 0 .. k - 1 : FiberOf(d, c, m, k)[o] = d.points[at(o)]
  BY DEF FiberOf, at
<1>11. \A o \in 0 .. k - 1 : d.points[at(o)] \in Ring
  BY <1>1, <1>6
<1>12. /\ \A o \in 0 .. k - 1 : at(o) \in 0 .. n - 1
       /\ \A o \in 0 .. k - 1 : FiberOf(d, c, m, k)[o] = d.points[at(o)]
                                  /\ FiberOf(d, c, m, k)[o] \in Ring
       /\ e.points[c] \in Ring
       /\ \A o \in 0 .. k - 1 : Power(FiberOf(d, c, m, k)[o], k) = e.points[c]
  BY <1>4, <1>6, <1>9, <1>10, <1>11
<1> QED
  BY <1>12 DEF at, n, e

(* Points of a fiber are different points of the domain.                   *)
LEMMA FiberOfApart ==
  ASSUME RingLaws, NEW d, IsDomain(d), Apart(d.points, d.size), NEW k \in Nat \ {0},
         d.size % k = 0, NEW m, m = d.size \div k, NEW c \in 0 .. m - 1
  PROVE  Apart(FiberOf(d, c, m, k), k)
<1> DEFINE n == d.size
           at(o) == c + o * m
<1>1. n \in Nat \ {0} /\ n % k = 0 /\ m = n \div k
  BY PointsOfDomain
<1>2. /\ \A i \in 0 .. n - 1 : d.points[i] \in Ring
      /\ \A i \in 0 .. n - 1 : \A j \in 0 .. n - 1 :
           i # j => IsUnit(Minus(d.points[i], d.points[j]))
  BY DEF Apart, Exceptional
<1> HIDE DEF n
<1>3. /\ \A o \in 0 .. k - 1 : at(o) \in 0 .. n - 1
      /\ \A o \in 0 .. k - 1 : \A t \in 0 .. k - 1 : o # t => at(o) # at(t)
  <2>1. \A o \in 0 .. k - 1 : at(o) \in 0 .. n - 1
    BY <1>1, FiberIndices
  <2>2. \A o \in 0 .. k - 1 : \A t \in 0 .. k - 1 : o # t => at(o) # at(t)
    <3> SUFFICES ASSUME NEW o \in 0 .. k - 1, NEW t \in 0 .. k - 1, o # t PROVE at(o) # at(t)
      OBVIOUS
    <3>1. m \in Nat \ {0} /\ c \in Nat /\ o \in Nat /\ t \in Nat
      <4>1. m \in Nat \ {0}
        BY <1>1, FiberIndices
      <4> QED
        BY <4>1
    <3> QED
      BY <3>1, SlotsDiffer
  <2> QED
    BY <2>1, <2>2
<1>4. \A o \in 0 .. k - 1 : FiberOf(d, c, m, k)[o] = d.points[at(o)]
  BY DEF FiberOf
<1> HIDE DEF at
<1>5. \A o \in 0 .. k - 1 : FiberOf(d, c, m, k)[o] \in Ring
  BY <1>2, <1>3, <1>4
<1>6. Exceptional(FiberOf(d, c, m, k), k)
  <2> SUFFICES ASSUME NEW o \in 0 .. k - 1, NEW t \in 0 .. k - 1, o # t
               PROVE  IsUnit(Minus(FiberOf(d, c, m, k)[o], FiberOf(d, c, m, k)[t]))
    BY DEF Exceptional
  <2>1. at(o) \in 0 .. n - 1 /\ at(t) \in 0 .. n - 1 /\ at(o) # at(t)
    BY <1>3
  <2> QED
    BY <1>2, <1>4, <2>1
<1> QED
  BY <1>5, <1>6 DEF Apart

(* In a domain of Teichmueller units they can be interpolated on.          *)
LEMMA FiberApart ==
  ASSUME RingLaws, NEW d, IsDomain(d), IsTeichmullerSubset(d), NEW k \in Nat \ {0},
         d.size % k = 0, NEW m, m = d.size \div k, NEW c \in 0 .. m - 1
  PROVE  /\ Apart(FiberOf(d, c, m, k), k)
         /\ \A o \in 0 .. k - 1 : FiberOf(d, c, m, k)[o] \in TeichmullerSet
<1> DEFINE n == d.size
<1>1. n \in Nat \ {0} /\ n % k = 0 /\ m = n \div k
  BY PointsOfDomain
<1>2. Apart(d.points, d.size) /\ \A i \in 0 .. n - 1 : d.points[i] \in TeichmullerSet
  BY DomainApart
<1>3. Apart(FiberOf(d, c, m, k), k)
  BY <1>2, FiberOfApart
<1>4. \A o \in 0 .. k - 1 : c + o * m \in 0 .. n - 1
  <2> HIDE DEF n
  <2> QED
    BY <1>1, FiberIndices
<1>5. \A o \in 0 .. k - 1 : FiberOf(d, c, m, k)[o] = d.points[c + o * m]
  BY DEF FiberOf
<1> QED
  BY <1>2, <1>3, <1>4, <1>5

-----------------------------------------------------------------------------
(* Tables, trees and openings *)

(* A table on 0 .. n - 1 has n entries.                                    *)
LEMMA TableSizeOf ==
  ASSUME NEW n \in Nat, NEW t, DOMAIN t = 0 .. n - 1
  PROVE  TableSize(t) = n
<1>1. Cardinality(0 .. n - 1) = n
  BY FS_Interval
<1> QED
  BY <1>1 DEF TableSize

(* Its root has its entries first.                                         *)
LEMMA RootHasTable ==
  ASSUME NEW n \in Nat, NEW t, DOMAIN t = 0 .. n - 1, NEW i \in 0 .. n - 1
  PROVE  Root(t)[i] = t[i]
<1> DEFINE width == NextPowerOfTwo(n)
<1>1. width \in Nat /\ n <= width
  BY PaddedWidth, PowerType
<1>2. Root(t) = [j \in 0 .. width - 1 |-> t[IF j < n THEN j ELSE n - 1]]
  BY TableSizeOf DEF Root
<1> HIDE DEF width
<1>3. i \in 0 .. width - 1 /\ i < n
  BY <1>1
<1> QED
  BY <1>2, <1>3

(* An accepted multiproof for these indices shows what is under the root.  *)
LEMMA OpenedIsUnderRoot ==
  ASSUME NEW I \in SUBSET Nat, IsFiniteSet(I), NEW p, p.queried_indices = Ascending(I),
         NEW root, NEW n, TreeAccepts(root, n, p), NEW i \in I
  PROVE  Opened(p, i) = root[i]
<1> DEFINE q == p.queried_indices
           at == CHOOSE j \in 1 .. Len(q) : q[j] = i
<1>1. q \in Seq(Nat) /\ Range(q) = I
  BY AscendingSorts
<1>2. Len(q) \in Nat /\ DOMAIN q = 1 .. Len(q)
  BY <1>1, LenProperties
<1>3. \E j \in 1 .. Len(q) : q[j] = i
  BY <1>1, <1>2 DEF Range
<1>4. at \in 1 .. Len(q) /\ q[at] = i
  BY <1>3
<1>5. root[q[at]] = p.leaf_payloads[at]
  BY <1>4 DEF TreeAccepts
<1>6. Opened(p, i) = p.leaf_payloads[at]
  BY DEF Opened
<1> HIDE DEF at, q
<1> QED
  BY <1>4, <1>5, <1>6

Tables(n) == [0 .. n - 1 -> Ring]

(* The values of a polynomial are a table, and so is what folding gives.   *)
LEMMA EncodeIsTable ==
  ASSUME RingLaws, NEW d, IsDomain(d), NEW f, IsPolynomial(f)
  PROVE  /\ Encode(d, f) \in Tables(d.size) /\ DOMAIN Encode(d, f) = 0 .. d.size - 1
         /\ \A i \in 0 .. d.size - 1 : Encode(d, f)[i] = Evaluate(f, d.points[i])
                                       /\ Encode(d, f)[i] \in Ring
<1> DEFINE n == d.size
<1>1. \A i \in 0 .. n - 1 : d.points[i] \in Ring
  BY PointsOfDomain
<1>2. \A x \in Ring : Evaluate(f, x) \in Ring
  BY EvaluateIsValue
<1>3. Encode(d, f) = [i \in 0 .. n - 1 |-> Evaluate(f, d.points[i])]
  BY DEF Encode
<1> HIDE DEF n
<1>4. \A i \in 0 .. n - 1 : Encode(d, f)[i] = Evaluate(f, d.points[i]) /\ Encode(d, f)[i] \in Ring
  BY <1>1, <1>2, <1>3
<1>5. Encode(d, f) \in [0 .. n - 1 -> Ring]
  BY <1>3, <1>4
<1> QED
  BY <1>3, <1>4, <1>5 DEF Tables, n

(* One slot of the folded table. *)
ValuesOnFiber(table, c, m, k) == [o \in 0 .. k - 1 |-> table[c + o * m]]

(* The folded table, slot by slot.                                         *)
LEMMA FoldTableIs ==
  ASSUME NEW d, NEW table, NEW k, NEW beta, NEW m, m = d.size \div k
  PROVE  FoldTableK(d, table, k, beta)
           = [c \in 0 .. m - 1 |-> FoldEvalK(FiberOf(d, c, m, k), ValuesOnFiber(table, c, m, k), k, beta)]
  BY DEF FoldTableK, FiberPoints, FiberOf, ValuesOnFiber

(* A fiber's values are in the ring.                                       *)
LEMMA FiberValuesInRing ==
  ASSUME RingLaws, NEW n \in Nat \ {0}, NEW k \in Nat \ {0}, n % k = 0, NEW m, m = n \div k,
         NEW c \in 0 .. m - 1, NEW table, \A i \in 0 .. n - 1 : table[i] \in Ring
  PROVE  \A o \in 0 .. k - 1 : /\ c + o * m \in 0 .. n - 1
                               /\ ValuesOnFiber(table, c, m, k)[o] = table[c + o * m]
                               /\ ValuesOnFiber(table, c, m, k)[o] \in Ring
<1> DEFINE at(o) == c + o * m
<1>1. \A o \in 0 .. k - 1 : at(o) \in 0 .. n - 1
  BY FiberIndices
<1>2. \A o \in 0 .. k - 1 : ValuesOnFiber(table, c, m, k)[o] = table[at(o)]
  BY DEF ValuesOnFiber
<1> HIDE DEF at
<1>3. \A o \in 0 .. k - 1 : ValuesOnFiber(table, c, m, k)[o] = table[at(o)]
                            /\ ValuesOnFiber(table, c, m, k)[o] \in Ring
  BY <1>1, <1>2
<1> QED
  BY <1>1, <1>3 DEF at

(* Folding gives a table over the next domain.                             *)
LEMMA FoldTableInRing ==
  ASSUME RingLaws, NEW d, IsDomain(d), IsTeichmuller(d.root), NEW k \in Nat \ {0}, d.size % k = 0,
         NEW m, m = d.size \div k,
         NEW table, \A i \in 0 .. d.size - 1 : table[i] \in Ring, NEW beta \in Ring
  PROVE  /\ FoldTableK(d, table, k, beta) \in Tables(m)
         /\ \A c \in 0 .. m - 1 : FoldTableK(d, table, k, beta)[c]
              = FoldEvalK(FiberOf(d, c, m, k), ValuesOnFiber(table, c, m, k), k, beta)
<1> DEFINE F == FoldTableK(d, table, k, beta)
           n == d.size
           e(c) == FoldEvalK(FiberOf(d, c, m, k), ValuesOnFiber(table, c, m, k), k, beta)
<1>1. F = [c \in 0 .. m - 1 |-> e(c)]
  BY FoldTableIs
<1>2. n \in Nat \ {0} /\ n % k = 0 /\ m = n \div k /\ \A i \in 0 .. n - 1 : table[i] \in Ring
  BY DEF IsDomain
<1>3. ASSUME NEW c \in 0 .. m - 1 PROVE e(c) \in Ring
  <2> DEFINE pts == FiberOf(d, c, m, k)
             vals == ValuesOnFiber(table, c, m, k)
  <2>1. Apart(pts, k)
    BY CosetApart, FiberOfApart
  <2> HIDE DEF n
  <2>2. \A o \in 0 .. k - 1 : vals[o] \in Ring
    BY <1>2, FiberValuesInRing
  <2> HIDE DEF pts, vals
  <2>3. k \in Nat /\ k # 0
    OBVIOUS
  <2>4. FoldEvalK(pts, vals, k, beta) \in Ring
    BY <2>1, <2>2, <2>3, FoldIsLagrange
  <2> QED
    BY <2>4 DEF pts, vals
<1> HIDE DEF F, e
<1>4. F \in [0 .. m - 1 -> Ring] /\ \A c \in 0 .. m - 1 : F[c] = e(c)
  BY <1>1, <1>3
<1> QED
  BY <1>4 DEF F, e, Tables

(* Folding the encoding of a polynomial is encoding the folded polynomial. *)
LEMMA FoldOfEncoding ==
  ASSUME RingLaws, NEW d, IsDomain(d), IsTeichmuller(d.root), NEW k \in Nat \ {0}, d.size % k = 0,
         NEW f, IsPolynomial(f), NEW beta \in Ring
  PROVE  FoldTableK(d, Encode(d, f), k, beta) = Encode(PowMap(d, k), PolyFold(f, k, beta))
<1> DEFINE m == d.size \div k
           t == Encode(d, f)
           g == PolyFold(f, k, beta)
           y(c) == PowMap(d, k).points[c]
           n == d.size
<1>1. PowMap(d, k).size = m
  BY PowMapParts
<1>2. FoldTableK(d, t, k, beta)
        = [c \in 0 .. m - 1 |-> FoldEvalK(FiberOf(d, c, m, k), ValuesOnFiber(t, c, m, k), k, beta)]
  BY FoldTableIs
<1>3. Encode(PowMap(d, k), g) = [c \in 0 .. m - 1 |-> Evaluate(g, y(c))]
  BY <1>1 DEF Encode
<1>4. n \in Nat \ {0} /\ n % k = 0 /\ m = n \div k
      /\ \A i \in 0 .. n - 1 : t[i] \in Ring /\ t[i] = Evaluate(f, d.points[i])
  BY EncodeIsTable DEF IsDomain
<1>5. ASSUME NEW c \in 0 .. m - 1
      PROVE  FoldEvalK(FiberOf(d, c, m, k), ValuesOnFiber(t, c, m, k), k, beta) = Evaluate(g, y(c))
  <2> DEFINE pts == FiberOf(d, c, m, k)
             vals == ValuesOnFiber(t, c, m, k)
             z == y(c)
             at(o) == c + o * m
  <2>1. Apart(pts, k)
    BY CosetApart, FiberOfApart
  <2>2. z \in Ring /\ \A o \in 0 .. k - 1 : Power(pts[o], k) = z
    <3> HIDE DEF m
    <3>1. m = d.size \div k
      BY DEF m
    <3> QED
      BY <3>1, FiberFacts
  <2>3. \A o \in 0 .. k - 1 : at(o) \in 0 .. n - 1 /\ vals[o] = t[at(o)]
    <3> HIDE DEF t, n, m
    <3>1. n \in Nat \ {0} /\ n % k = 0 /\ m = n \div k
      BY <1>4
    <3>2. \A o \in 0 .. k - 1 : at(o) \in 0 .. n - 1
      BY <3>1, FiberIndices
    <3>3. \A o \in 0 .. k - 1 : vals[o] = t[at(o)]
      BY DEF ValuesOnFiber
    <3> QED
      BY <3>2, <3>3
  <2>4. \A o \in 0 .. k - 1 : pts[o] = d.points[at(o)]
    BY DEF FiberOf
  <2> HIDE DEF pts, vals, z, at, t, n, m
  <2>5. \A o \in 0 .. k - 1 : vals[o] = Evaluate(f, pts[o])
    BY <1>4, <2>3, <2>4
  <2>6. k \in Nat /\ k # 0
    OBVIOUS
  <2> HIDE DEF g
  <2>7. FoldEvalK(pts, vals, k, beta) = Evaluate(PolyFold(f, k, beta), z)
    BY <2>1, <2>2, <2>5, <2>6, FoldOfValues
  <2> QED
    BY <2>7 DEF pts, vals, z, g
<1> HIDE DEF t, g, y, m
<1> QED
  BY <1>2, <1>3, <1>5 DEF t, g

(* Tables of the same length with the same root are the same.              *)
LEMMA RootDetermines ==
  ASSUME NEW n \in Nat, NEW t, DOMAIN t = 0 .. n - 1, NEW u, DOMAIN u = 0 .. n - 1,
         Root(t) = Root(u)
  PROVE  \A i \in 0 .. n - 1 : t[i] = u[i]
<1> SUFFICES ASSUME NEW i \in 0 .. n - 1 PROVE t[i] = u[i]
  OBVIOUS
<1>1. Root(t)[i] = t[i] /\ Root(u)[i] = u[i]
  BY RootHasTable
<1> QED
  BY <1>1

AnyTable == UNION {[0 .. n - 1 -> Ring] : n \in Nat}

(* What the root of a table with n entries may be.                         *)
Roots(n) == [0 .. NextPowerOfTwo(n) - 1 -> Ring]

(* What is under the root of a table: the table, and padding.              *)
LEMMA RootInRing ==
  ASSUME NEW n \in Nat \ {0}, NEW t \in Tables(n)
  PROVE  /\ Root(t) \in Roots(n) /\ Root(t) \in AnyTable /\ t \in AnyTable
         /\ \A i \in 0 .. n - 1 : Root(t)[i] = t[i]
<1> DEFINE w == NextPowerOfTwo(n)
<1>1. w \in Nat
  BY PaddedWidth, PowerType
<1>2. DOMAIN t = 0 .. n - 1 /\ \A i \in 0 .. n - 1 : t[i] \in Ring
  BY DEF Tables
<1>3. TableSize(t) = n
  BY <1>2, TableSizeOf
<1>4. Root(t) = [i \in 0 .. w - 1 |-> t[IF i < n THEN i ELSE n - 1]]
  BY <1>3 DEF Root
<1>5. \A i \in 0 .. n - 1 : Root(t)[i] = t[i]
  BY <1>2, RootHasTable
<1> HIDE DEF w
<1>6. Root(t) \in [0 .. w - 1 -> Ring]
  BY <1>1, <1>2, <1>4
<1>7. t \in AnyTable
  BY DEF Tables, AnyTable
<1> QED
  BY <1>1, <1>5, <1>6, <1>7 DEF Roots, AnyTable, w

(* Entries under a root are in the ring.                                   *)
LEMMA RootEntries ==
  ASSUME NEW n \in Nat \ {0}, NEW root \in Roots(n)
  PROVE  \A i \in 0 .. n - 1 : root[i] \in Ring
<1> DEFINE w == NextPowerOfTwo(n)
<1>1. w \in Nat /\ n <= w
  BY PaddedWidth, PowerType
<1>2. root \in [0 .. w - 1 -> Ring]
  BY DEF Roots
<1> HIDE DEF w
<1> QED
  BY <1>1, <1>2

(* One entry changed is a table still.                                     *)
LEMMA DamagedTable ==
  ASSUME RingLaws, NEW n, NEW t \in [0 .. n -> Ring]
  PROVE  [t EXCEPT ![0] = Plus(@, 1)] \in [0 .. n -> Ring]
<1>1. 1 \in Ring /\ \A x \in Ring : Plus(x, 1) \in Ring
  BY DEF RingLaws, Closed, Counting
<1> QED
  BY <1>1

(* (X - a) q + v is a polynomial.                                          *)
LEMMA LinearTimes ==
  ASSUME RingLaws, NEW q, IsPolynomial(q), NEW a \in Ring, NEW v \in Ring
  PROVE  \E g : /\ IsPolynomial(g) /\ g.size <= q.size + 1
                /\ \A z \in Ring : Evaluate(g, z) = Plus(Times(Minus(z, a), Evaluate(q, z)), v)
<1> DEFINE c == Coefficients(q)
           n == q.size
           s == n + 1
           l == Linear(a, c)
           r == [j \in Nat |-> IF j = 0 THEN v ELSE 0]
           e == [j \in Nat |-> Plus(l[j], r[j])]
           g == Trim(s, e)
<1>1. n \in Nat /\ s \in Nat /\ s # 0 /\ c \in Coeffs
  BY CoefficientsInRing DEF IsPolynomial
<1>2. ZeroFrom(c, n)
  BY <1>1 DEF ZeroFrom, Coefficients
<1>3. ASSUME NEW z \in Ring PROVE Evaluate(q, z) = Value(c, n, z)
  BY EvaluateIsValue
<1> HIDE DEF c, n
<1>4. l \in Coeffs
  BY <1>1, LinearInRing
<1>5. \A z \in Ring : Value(l, s, z) = Times(Minus(z, a), Value(c, n, z))
  BY <1>1, <1>2, LinearValue
<1> HIDE DEF l, s
<1>6. \A z \in Ring : r \in Coeffs /\ Value(r, s, z) = v
  BY <1>1, ConstantValue
<1>7. r \in Coeffs
  BY <1>6
<1>8. e \in Coeffs
  <2>1. \A j \in Nat : l[j] \in Ring /\ r[j] \in Ring
    BY <1>4, <1>7 DEF Coeffs
  <2> HIDE DEF r
  <2>2. \A j \in Nat : Plus(l[j], r[j]) \in Ring
    BY <2>1 DEF RingLaws, Closed
  <2> QED
    BY <2>2 DEF Coeffs
<1> HIDE DEF r
<1>9. \A j \in Nat : e[j] = Plus(l[j], r[j])
  OBVIOUS
<1> HIDE DEF e
<1>10. \A z \in Ring : Value(e, s, z) = Plus(Value(l, s, z), Value(r, s, z))
  <2> SUFFICES ASSUME NEW z \in Ring PROVE Value(e, s, z) = Plus(Value(l, s, z), Value(r, s, z))
    OBVIOUS
  <2>1. \A i \in 0 .. s - 1 : e[i] = Plus(l[i], r[i])
    BY <1>1, <1>9
  <2> QED
    BY <1>1, <1>4, <1>7, <1>8, <2>1, ValueOfSum
<1>11. IsPolynomial(g) /\ \A z \in Ring : Evaluate(g, z) = Value(e, s, z)
  BY <1>1, <1>8, TrimCoefficients
<1>12. g.size \in 0 .. s
  BY <1>1, TrimIs
<1> HIDE DEF g
<1>13. g.size <= n + 1
  BY <1>1, <1>12 DEF s
<1>14. \A z \in Ring : Evaluate(g, z) = Plus(Times(Minus(z, a), Evaluate(q, z)), v)
  BY <1>3, <1>5, <1>6, <1>10, <1>11
<1> QED
  BY <1>11, <1>13, <1>14 DEF n

(* An increasing vector of a set's elements names each of them once.       *)
NamesAll(index, n, S) ==
  /\ n \in Nat
  /\ \A i \in 0 .. n - 1 : index[i + 1] \in S
  /\ \A i, j \in 0 .. n - 1 : i # j => index[i + 1] # index[j + 1]
  /\ \A s \in S : \E i \in 0 .. n - 1 : index[i + 1] = s

(* A set listed in ascending order is listed once each.                    *)
LEMMA AscendingNames ==
  ASSUME NEW N \in Nat, NEW S \in SUBSET (0 .. N - 1), NEW n, n = Cardinality(S),
         NEW index, index = Ascending(S)
  PROVE  NamesAll(index, n, S)
<1>1. S \in SUBSET Nat /\ IsFiniteSet(S)
  <2>1. \A x \in 0 .. N - 1 : x \in Nat
    OBVIOUS
  <2>2. IsFiniteSet(0 .. N - 1)
    BY FS_Interval
  <2> QED
    BY <2>1, <2>2, FS_Subset
<1>2. index \in Seq(Nat) /\ Increasing(index) /\ Range(index) = S
  BY <1>1, AscendingSorts
<1>3. Len(index) = n /\ n \in Nat /\ DOMAIN index = 1 .. n
  BY <1>2, IncreasingSize, LenProperties
<1>4. ASSUME NEW i \in 0 .. n - 1 PROVE i + 1 \in DOMAIN index /\ index[i + 1] \in S
  <2>1. i + 1 \in DOMAIN index
    BY <1>3
  <2> QED
    BY <1>2, <2>1 DEF Range
<1>5. ASSUME NEW i \in 0 .. n - 1, NEW j \in 0 .. n - 1, i < j PROVE index[i + 1] # index[j + 1]
  <2>1. i + 1 \in DOMAIN index /\ j + 1 \in DOMAIN index /\ i + 1 < j + 1
    BY <1>3, <1>5
  <2>2. index[i + 1] < index[j + 1]
    BY <1>2, <2>1 DEF Increasing
  <2>3. index[i + 1] \in Nat
    BY <1>1, <1>4
  <2> QED
    BY <2>2, <2>3
<1>6. \A i, j \in 0 .. n - 1 : i # j => index[i + 1] # index[j + 1]
  <2> SUFFICES ASSUME NEW i \in 0 .. n - 1, NEW j \in 0 .. n - 1, i # j
               PROVE  index[i + 1] # index[j + 1]
    OBVIOUS
  <2>1. i < j \/ j < i
    BY <1>3
  <2> QED
    BY <1>5, <2>1
<1>7. ASSUME NEW s \in S PROVE \E i \in 0 .. n - 1 : index[i + 1] = s
  <2>1. PICK k \in DOMAIN index : index[k] = s
    BY <1>2 DEF Range
  <2>2. k - 1 \in 0 .. n - 1 /\ (k - 1) + 1 = k
    BY <1>3, <2>1
  <2> QED
    BY <2>1, <2>2
<1> QED
  BY <1>3, <1>4, <1>6, <1>7 DEF NamesAll

(* A table of values of a polynomial has no interpolant of a higher degree. *)
LEMMA InterpolantOfEncoding ==
  ASSUME RingLaws, NEW d, IsDomain(d), IsTeichmuller(d.root),
         NEW g, IsPolynomial(g), g.size <= d.size, NEW table,
         \A i \in 0 .. d.size - 1 : table[i] = Evaluate(g, d.points[i])
  PROVE  LET f == Interpolate(d.points, table, d.size)
         IN  /\ f.size <= g.size /\ Degree(f) <= Degree(g)
             /\ \A z \in Ring : Evaluate(f, z) = Evaluate(g, z)
<1> DEFINE n == d.size
           x == d.points
           f == Interpolate(x, table, n)
<1>1. /\ n \in Nat /\ Apart(x, n) /\ g.size <= n
      /\ \A i \in 0 .. n - 1 : x[i] \in Ring /\ table[i] = Evaluate(g, x[i])
  BY CosetApart DEF IsDomain, Apart
<1> HIDE DEF n, x
<1>2. \A i \in 0 .. n - 1 : table[i] \in Ring
  BY <1>1, EvaluateIsValue
<1>3. /\ IsPolynomial(f) /\ f.size <= n /\ Trimmed(f)
      /\ \A i \in 0 .. n - 1 : Evaluate(f, x[i]) = table[i]
  BY <1>1, <1>2, InterpolateFacts
<1> HIDE DEF f
<1>4. \A i \in 0 .. n - 1 : Evaluate(f, x[i]) = Evaluate(g, x[i])
  BY <1>1, <1>3
<1>5. f.size <= g.size /\ \A z \in Ring : Evaluate(f, z) = Evaluate(g, z)
  BY <1>1, <1>3, <1>4, AgreeingPolynomials
<1>6. Degree(f) <= Degree(g)
  BY <1>3, <1>5 DEF Degree, IsPolynomial
<1> QED
  BY <1>5, <1>6 DEF f, x, n

(* A sequence of anything can be appended to.                              *)
LEMMA AppendAnything ==
  ASSUME NEW s, \E S : s \in Seq(S), NEW e
  PROVE  /\ \E S : Append(s, e) \in Seq(S)
         /\ Len(s) \in Nat /\ Len(Append(s, e)) = Len(s) + 1
         /\ \A i \in 1 .. Len(s) : Append(s, e)[i] = s[i]
         /\ Append(s, e)[Len(s) + 1] = e
<1>1. PICK S : s \in Seq(S)
  OBVIOUS
<1> DEFINE T == S \cup {e}
<1>2. \A i \in 1 .. Len(s) : s[i] \in S
  BY <1>1
<1>3. s \in Seq(T) /\ e \in T
  BY <1>1, <1>2
<1> HIDE DEF T
<1>4. Append(s, e) \in Seq(T)
  BY <1>3
<1> QED
  BY <1>3, <1>4

(* A tree accepts what it opened, and that shows the table.                *)
LEMMA OwnOpening ==
  ASSUME NEW n \in Nat, NEW t, DOMAIN t = 0 .. n - 1, NEW I \in SUBSET (0 .. n - 1),
         IsFiniteSet(I)
  PROVE  /\ OpenTree(t, I).queried_indices = Ascending(I)
         /\ TreeAccepts(Root(t), n, OpenTree(t, I))
         /\ \A i \in I : Opened(OpenTree(t, I), i) = t[i]
<1> DEFINE s == Ascending(I)
           p == OpenTree(t, I)
<1>1. I \in SUBSET Nat
  <2>1. \A i \in 0 .. n - 1 : i \in Nat
    OBVIOUS
  <2> QED
    BY <2>1
<1>2. s \in Seq(Nat) /\ Range(s) = I
  BY <1>1, AscendingSorts
<1>3. p = [queried_indices |-> s, leaf_payloads |-> [j \in 1 .. Len(s) |-> t[s[j]]],
           sibling_hashes |-> "intact"]
  BY DEF OpenTree
<1> HIDE DEF s, p
<1>4. Len(s) \in Nat /\ DOMAIN s = 1 .. Len(s)
  BY <1>2, LenProperties
<1>5. \A j \in 1 .. Len(s) : s[j] \in I
  BY <1>2, <1>4 DEF Range
<1>6. \A j \in 1 .. Len(s) : s[j] < n /\ Root(t)[s[j]] = t[s[j]]
  <2> SUFFICES ASSUME NEW j \in 1 .. Len(s) PROVE s[j] < n /\ Root(t)[s[j]] = t[s[j]]
    OBVIOUS
  <2> DEFINE i == s[j]
  <2>1. i \in 0 .. n - 1
    BY <1>5
  <2> HIDE DEF i
  <2>2. i < n /\ Root(t)[i] = t[i]
    BY <2>1, RootHasTable
  <2> QED
    BY <2>2 DEF i
<1>7. DOMAIN Root(t) = 0 .. NextPowerOfTwo(n) - 1
  BY TableSizeOf DEF Root
<1>8. Len(p.leaf_payloads) = Len(s)
  BY <1>3, <1>4
<1>9. TreeAccepts(Root(t), n, p)
  BY <1>3, <1>4, <1>6, <1>7, <1>8 DEF TreeAccepts
<1>10. p.queried_indices = Ascending(I)
  BY <1>3 DEF s
<1>11. ASSUME NEW i \in I PROVE Opened(p, i) = t[i]
  <2>1. Opened(p, i) = Root(t)[i]
    BY <1>1, <1>9, <1>10, OpenedIsUnderRoot
  <2>2. Root(t)[i] = t[i]
    BY RootHasTable
  <2> QED
    BY <2>1, <2>2
<1> QED
  BY <1>9, <1>10, <1>11 DEF p
=============================================================================
