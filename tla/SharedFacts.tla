---------------------------- MODULE SharedFacts ----------------------------
(***************************************************************************)
(* Lemmas that several proof modules need: natural numbers and powers of   *)
(* two, increasing vectors, and the trees and proof order of               *)
(* MultiproofPlan.                                                         *)
(***************************************************************************)
EXTENDS Integers, Functions, MultiproofPlan, FiniteSetTheorems, SequenceTheorems, TLAPS

(* The intervals 0 .. n, ordered by inclusion, are finite subsets of Nat,  *)
(* which are well founded.                                                 *)
LEMMA LeastElement ==
  ASSUME NEW T \in SUBSET Nat, T # {}
  PROVE  \E x \in T : \A y \in T : x <= y
<1> DEFINE below(n) == 0 .. n
           W == {below(n) : n \in T}
<1>1. IsWellFoundedOn(StrictSubsetOrdering(Nat), FiniteSubsetsOf(Nat))
  BY FS_StrictSubsetOrderingWellFounded
<1>2. W \subseteq FiniteSubsetsOf(Nat)
  <2> SUFFICES ASSUME NEW n \in T PROVE below(n) \in FiniteSubsetsOf(Nat)
    OBVIOUS
  <2>1. IsFiniteSet(0 .. n)
    BY FS_Interval
  <2> QED
    BY <2>1 DEF FiniteSubsetsOf
<1>3. \E w \in W : \A v \in W : ~ (<<v, w>> \in StrictSubsetOrdering(Nat))
  <2>1. W # {}
    OBVIOUS
  <2> HIDE DEF W
  <2> QED
    BY <1>1, <1>2, <2>1, WFMin
<1>4. PICK x \in T : \A v \in W : ~ (<<v, below(x)>> \in StrictSubsetOrdering(Nat))
  BY <1>3
<1>5. ASSUME NEW y \in T, y < x
      PROVE  FALSE
  <2>1. below(y) \in W /\ below(y) \subseteq below(x) /\ below(y) # below(x)
    BY <1>5
  <2>2. <<below(y), below(x)>> \in StrictSubsetOrdering(Nat)
    BY <2>1, <1>2 DEF StrictSubsetOrdering
  <2> QED
    BY <2>1, <2>2, <1>4
<1> QED
  BY <1>5

(* Induction, for a set of numbers.                                        *)
LEMMA SetInduction ==
  ASSUME NEW P \in SUBSET Nat, 0 \in P, \A k \in P : k + 1 \in P
  PROVE  P = Nat
<1> SUFFICES ASSUME Nat \ P # {} PROVE FALSE
  OBVIOUS
<1>1. PICK x \in Nat \ P : \A y \in Nat \ P : x <= y
  BY LeastElement
<1>2. x # 0 /\ x - 1 \in Nat /\ ~(x <= x - 1)
  BY <1>1
<1>3. x - 1 \in P
  BY <1>1, <1>2
<1>4. (x - 1) + 1 = x
  BY <1>1
<1>5. x \in P
  BY <1>3, <1>4
<1> QED
  BY <1>1, <1>5

(* The same up to a bound.                                                 *)
LEMMA InductionUpTo ==
  ASSUME NEW n \in Nat, NEW P \in SUBSET (0 .. n), 0 \in P,
         \A k \in P : k < n => k + 1 \in P
  PROVE  P = 0 .. n
<1> DEFINE Q == {k \in Nat : k <= n => k \in P}
<1>1. 0 \in Q
  OBVIOUS
<1>2. ASSUME NEW k \in Q PROVE k + 1 \in Q
  <2> SUFFICES ASSUME k + 1 <= n PROVE k + 1 \in P
    OBVIOUS
  <2>1. k \in P /\ k < n
    OBVIOUS
  <2> QED
    BY <2>1
<1>3. Q = Nat
  <2>1. Q \in SUBSET Nat
    OBVIOUS
  <2> HIDE DEF Q
  <2> QED
    BY <1>1, <1>2, <2>1, SetInduction
<1>4. ASSUME NEW k \in 0 .. n PROVE k \in P
  <2>1. k \in Q
    BY <1>3
  <2> QED
    BY <2>1
<1> QED
  BY <1>4

(* The first n + 1 values that a step gives, one from the other.           *)
Iteration(f, a, step, n) ==
  /\ DOMAIN f = 0 .. n /\ f[0] = a
  /\ \A i \in 0 .. n - 1 : f[i + 1] = step[<<i, f[i]>>]

(* A sequence of values goes on forever from a.                            *)
HasSequence(V, a, step) ==
  \E T \in [Nat -> V] : T[0] = a /\ \A n \in Nat : T[n + 1] = step[<<n, T[n]>>]

(* A step that stays in a set has a sequence of its values, and the first  *)
(* of them are those of every beginning.                                   *)
LEMMA RecursionExists ==
  ASSUME NEW V, NEW a \in V, NEW step \in [Nat \X V -> V]
  PROVE  HasSequence(V, a, step)
<1> DEFINE good(n) == \E f \in [0 .. n -> V] : Iteration(f, a, step, n)
           P == {n \in Nat : good(n)}
<1>1. 0 \in P
  <2> DEFINE f == [i \in 0 .. 0 |-> a]
  <2>1. f \in [0 .. 0 -> V] /\ Iteration(f, a, step, 0)
    BY DEF Iteration
  <2> QED
    BY <2>1
<1>2. ASSUME NEW n \in P PROVE n + 1 \in P
  <2>1. PICK f \in [0 .. n -> V] : Iteration(f, a, step, n)
    OBVIOUS
  <2> DEFINE g == [i \in 0 .. n + 1 |-> IF i = n + 1 THEN step[<<n, f[n]>>] ELSE f[i]]
  <2>2. f[n] \in V /\ step[<<n, f[n]>>] \in V
    BY <2>1
  <2>3. g \in [0 .. n + 1 -> V]
    BY <2>1, <2>2
  <2>4. g[0] = a
    BY <2>1 DEF Iteration
  <2>5. ASSUME NEW i \in 0 .. (n + 1) - 1 PROVE g[i + 1] = step[<<i, g[i]>>]
    <3>1. CASE i = n
      <4>1. g[i + 1] = step[<<n, f[n]>>] /\ g[i] = f[n]
        BY <3>1
      <4> QED
        BY <3>1, <4>1
    <3>2. CASE i # n
      <4>1. i \in 0 .. n - 1 /\ g[i + 1] = f[i + 1] /\ g[i] = f[i]
        BY <3>2
      <4> QED
        BY <2>1, <4>1 DEF Iteration
    <3> QED
      BY <3>1, <3>2
  <2>6. Iteration(g, a, step, n + 1)
    BY <2>3, <2>4, <2>5 DEF Iteration
  <2> QED
    BY <2>3, <2>6
<1>3. P = Nat
  <2> HIDE DEF P
  <2>1. P \in SUBSET Nat
    BY DEF P
  <2> QED
    BY <1>1, <1>2, <2>1, SetInduction
<1> DEFINE F(n) == CHOOSE f \in [0 .. n -> V] : Iteration(f, a, step, n)
           T == [n \in Nat |-> F(n)[n]]
<1>4. ASSUME NEW n \in Nat PROVE F(n) \in [0 .. n -> V] /\ Iteration(F(n), a, step, n)
  BY <1>3
<1> HIDE DEF F, P
<1>5. ASSUME NEW n \in Nat
      PROVE  \A i \in Nat : i <= n => F(n)[i] = F(n + 1)[i]
  <2> DEFINE Q == {i \in Nat : i <= n => F(n)[i] = F(n + 1)[i]}
  <2>1. Iteration(F(n), a, step, n) /\ Iteration(F(n + 1), a, step, n + 1)
    BY <1>4
  <2>2. 0 \in Q
    BY <2>1 DEF Iteration
  <2>3. ASSUME NEW i \in Q PROVE i + 1 \in Q
    <3> SUFFICES ASSUME i + 1 <= n PROVE F(n)[i + 1] = F(n + 1)[i + 1]
      OBVIOUS
    <3>1. i \in 0 .. n - 1 /\ i \in 0 .. (n + 1) - 1 /\ F(n)[i] = F(n + 1)[i]
      OBVIOUS
    <3> QED
      BY <2>1, <3>1 DEF Iteration
  <2>4. Q = Nat
    <3>1. Q \in SUBSET Nat
      OBVIOUS
    <3> HIDE DEF Q
    <3> QED
      BY <2>2, <2>3, <3>1, SetInduction
  <2> QED
    BY <2>4
<1>6. T \in [Nat -> V]
  BY <1>4
<1>7. T[0] = a
  BY <1>4 DEF Iteration
<1>8. ASSUME NEW n \in Nat PROVE T[n + 1] = step[<<n, T[n]>>]
  <2>1. Iteration(F(n + 1), a, step, n + 1) /\ n \in 0 .. (n + 1) - 1 /\ n + 1 \in Nat
    BY <1>4
  <2>2. F(n + 1)[n + 1] = step[<<n, F(n + 1)[n]>>]
    BY <2>1 DEF Iteration
  <2>3. F(n + 1)[n] = F(n)[n]
    BY <1>5
  <2> QED
    BY <2>1, <2>2, <2>3
<1> QED
  BY <1>6, <1>7, <1>8 DEF HasSequence

-----------------------------------------------------------------------------
(* A set has two to the size of it subsets; with one element more, twice   *)
(* as many, half of them with that element.                                *)
LEMMA PowerType ==
  ASSUME NEW n \in Nat
  PROVE  2^n \in Nat /\ Cardinality(SUBSET (1 .. n)) = 2^n /\ IsFiniteSet(SUBSET (1 .. n))
<1>1. IsFiniteSet(1 .. n) /\ Cardinality(1 .. n) = n
  BY FS_Interval
<1>2. IsFiniteSet(SUBSET (1 .. n)) /\ Cardinality(SUBSET (1 .. n)) = 2^n
  BY <1>1, FS_SUBSET
<1> QED
  BY <1>2, FS_CardinalityType

(* Where the powers of two start.                                         *)
LEMMA PowerOfZero == 2^0 = 1
  OBVIOUS

(* One more in the exponent doubles the power.                             *)
LEMMA PowerOfNext ==
  ASSUME NEW n \in Nat
  PROVE  2^(n + 1) = 2 * 2^n
<1> DEFINE without == SUBSET (1 .. n)
           top == n + 1
           with == {X \in SUBSET (1 .. top) : top \in X}
           add == [X \in without |-> X \cup {top}]
<1>1. IsFiniteSet(without) /\ Cardinality(without) = 2^n /\ 2^n \in Nat
  BY PowerType
<1>2. Cardinality(SUBSET (1 .. top)) = 2^top
  BY PowerType
<1>3. add \in Bijection(without, with)
  <2>1. add \in [without -> with]
    OBVIOUS
  <2>2. \A X, Y \in without : add[X] = add[Y] => X = Y
    <3> SUFFICES ASSUME NEW X \in without, NEW Y \in without, add[X] = add[Y]
                 PROVE  X = Y
      OBVIOUS
    <3>1. top \notin X /\ top \notin Y
      OBVIOUS
    <3>2. X \cup {top} = Y \cup {top}
      OBVIOUS
    <3> QED
      BY <3>1, <3>2
  <2>3. \A Z \in with : \E X \in without : add[X] = Z
    <3> SUFFICES ASSUME NEW Z \in with PROVE \E X \in without : add[X] = Z
      OBVIOUS
    <3>1. Z \ {top} \in without /\ (Z \ {top}) \cup {top} = Z
      OBVIOUS
    <3> QED
      BY <3>1
  <2> QED
    BY <2>1, <2>2, <2>3 DEF Bijection, Injection, IsInjective, Surjection
<1>4. IsFiniteSet(with) /\ Cardinality(with) = 2^n
  BY <1>1, <1>3, FS_Bijection DEF ExistsBijection
<1>5. SUBSET (1 .. top) = without \cup with /\ without \cap with = {}
  <2>1. \A X \in SUBSET (1 .. top) : top \notin X => X \in without
    OBVIOUS
  <2> QED
    BY <2>1
<1>6. Cardinality(without \cup with) = Cardinality(without) + Cardinality(with) - Cardinality(without \cap with)
  BY <1>1, <1>4, FS_Union
<1>7. Cardinality(without \cap with) = 0
  BY <1>5, FS_EmptySet
<1>8. 2^top = Cardinality(without) + Cardinality(with)
  <2> HIDE DEF without, with
  <2>1. Cardinality(without) \in Nat /\ Cardinality(with) \in Nat
    BY <1>1, <1>4
  <2>2. Cardinality(without \cup with) = Cardinality(without) + Cardinality(with)
    BY <1>6, <1>7, <2>1
  <2>3. without \cup with = SUBSET (1 .. top)
    BY <1>5
  <2> QED
    BY <1>2, <2>2, <2>3, Zenon
<1> QED
  BY <1>1, <1>4, <1>8

(* A power of two is greater than its exponent: the least exponent it is   *)
(* not greater than would follow one it is greater than.                   *)
LEMMA PowerExceeds ==
  ASSUME NEW n \in Nat
  PROVE  n < 2^n
<1> DEFINE bad == {k \in Nat : ~(k < 2^k)}
<1>1. ASSUME bad # {}
      PROVE  FALSE
  <2>1. PICK k \in bad : \A j \in bad : k <= j
    <3>1. bad \in SUBSET Nat
      OBVIOUS
    <3> HIDE DEF bad
    <3> QED
      BY <1>1, <3>1, LeastElement
  <2>2. k \in Nat /\ ~(k < 2^k) /\ 2^k \in Nat
    BY PowerType
  <2>3. k # 0
    <3>1. k = 0 => 2^k = 2^0
      BY Zenon
    <3> QED
      BY <2>2, <3>1, PowerOfZero
  <2>4. k - 1 \in Nat /\ k - 1 \notin bad /\ 2^(k - 1) \in Nat
    BY <2>1, <2>2, <2>3, PowerType
  <2>5. k - 1 < 2^(k - 1)
    BY <2>4
  <2>6. 2^k = 2 * 2^(k - 1)
    <3>1. 2^((k - 1) + 1) = 2 * 2^(k - 1)
      BY <2>4, PowerOfNext
    <3>2. (k - 1) + 1 = k
      BY <2>2
    <3> QED
      BY <3>1, <3>2, Zenon
  <2> QED
    BY <2>2, <2>3, <2>4, <2>5, <2>6
<1> QED
  BY <1>1

(* Halving a number n times, and once more.                                *)
LEMMA DivideByPower ==
  ASSUME NEW x \in Nat, NEW n \in Nat
  PROVE  /\ x \div 2^0 = x
         /\ x \div 2^n \in Nat
         /\ (x \div 2^n) \div 2 = x \div 2^(n + 1)
<1> DEFINE m == 2^n
<1>1. m \in Nat \ {0}
  BY PowerType, PowerExceeds
<1>2. 2^(n + 1) = 2 * m
  BY PowerOfNext
<1> HIDE DEF m
<1>3. x \div m \in Nat /\ (x \div m) \div 2 = x \div (2 * m)
  BY <1>1
<1>4. x \div 2^0 = x \div 1
  BY PowerOfZero, Zenon
<1> QED
  BY <1>2, <1>3, <1>4 DEF m

(* Powers of two grow with their exponent.                                 *)
LEMMA PowerGrows ==
  ASSUME NEW n \in Nat, NEW k \in Nat
  PROVE  2^n < 2^k <=> n < k
<1>1. ASSUME NEW a \in Nat, NEW b \in Nat, a < b
      PROVE  2^a < 2^b
  <2> DEFINE bad == {d \in Nat : ~(2^a < 2^(a + d + 1))}
  <2>1. ASSUME bad # {}
        PROVE  FALSE
    <3>1. PICK d \in bad : \A e \in bad : d <= e
      <4>1. bad \in SUBSET Nat
        OBVIOUS
      <4> HIDE DEF bad
      <4> QED
        BY <2>1, <4>1, LeastElement
    <3>2. d \in Nat /\ ~(2^a < 2^(a + d + 1)) /\ 2^a \in Nat /\ 2^(a + d) \in Nat /\ 2^a > 0
      BY PowerType, PowerExceeds
    <3>3. 2^((a + d) + 1) = 2 * 2^(a + d)
      BY PowerOfNext
    <3>4. 2^a <= 2^(a + d)
      <4>1. CASE d = 0
        <5>1. a + d = a
          BY <4>1
        <5>2. 2^(a + d) = 2^a
          BY <5>1, Zenon
        <5> QED
          BY <3>2, <5>2
      <4>2. CASE d # 0
        <5>1. d - 1 \in Nat /\ d - 1 \notin bad /\ a + (d - 1) + 1 = a + d
          BY <3>1, <3>2, <4>2
        <5>2. 2^a < 2^(a + (d - 1) + 1)
          BY <5>1
        <5>3. 2^(a + (d - 1) + 1) = 2^(a + d)
          BY <5>1, Zenon
        <5> QED
          BY <3>2, <5>2, <5>3
      <4> QED
        BY <4>1, <4>2
    <3> QED
      BY <3>2, <3>3, <3>4
  <2> DEFINE d == b - a - 1
  <2>2. d \in Nat /\ a + d + 1 = b
    BY <1>1
  <2>3. 2^a < 2^(a + d + 1)
    <3>1. d \notin bad
      BY <2>1
    <3> QED
      BY <2>2, <3>1
  <2>4. 2^(a + d + 1) = 2^b
    BY <2>2, Zenon
  <2> QED
    BY <2>3, <2>4
<1>2. 2^n \in Nat /\ 2^k \in Nat
  BY PowerType
<1>3. n < k => 2^n < 2^k
  BY <1>1
<1>4. k < n => 2^k < 2^n
  BY <1>1
<1>5. n = k => 2^n = 2^k
  BY Zenon
<1> QED
  BY <1>2, <1>3, <1>4, <1>5

-----------------------------------------------------------------------------
(* Among the first k * m naturals every residue modulo m comes k times.    *)
LEMMA ResidueClass ==
  ASSUME NEW m \in Nat \ {0}, NEW k \in Nat, NEW v \in 0 .. m - 1
  PROVE  Cardinality({c \in 0 .. m * k - 1 : c % m = v}) = k
<1> DEFINE class == {c \in 0 .. m * k - 1 : c % m = v}
           nth == [j \in 0 .. k - 1 |-> m * j + v]
<1>1. ASSUME NEW j \in 0 .. k - 1
      PROVE  m * j + v \in 0 .. m * k - 1 /\ (m * j + v) % m = v
  <2>1. m * j + m <= m * k
    OBVIOUS
  <2>2. m * j \in Nat /\ m * k \in Nat
    OBVIOUS
  <2>3. (m * j + v) % m = v
    OBVIOUS
  <2> QED
    BY <2>1, <2>2, <2>3
<1>2. nth \in [0 .. k - 1 -> class]
  BY <1>1
<1>3. \A i, j \in 0 .. k - 1 : nth[i] = nth[j] => i = j
  OBVIOUS
<1>4. \A c \in class : \E j \in 0 .. k - 1 : nth[j] = c
  <2> SUFFICES ASSUME NEW c \in class
               PROVE  \E j \in 0 .. k - 1 : nth[j] = c
    OBVIOUS
  <2>1. c \in Nat /\ c < m * k /\ c % m = v
    OBVIOUS
  <2>2. c \div m \in Nat /\ c = m * (c \div m) + v
    BY <2>1
  <2>3. c \div m < k
    BY <2>1, <2>2
  <2> DEFINE q == c \div m
  <2>4. q \in 0 .. k - 1 /\ nth[q] = m * q + v
    BY <2>2, <2>3
  <2> HIDE DEF q, nth
  <2>5. nth[q] = c
    BY <2>2, <2>4 DEF q
  <2> QED
    BY <2>4, <2>5
<1>5. nth \in Bijection(0 .. k - 1, class)
  BY <1>2, <1>3, <1>4 DEF Bijection, Injection, IsInjective, Surjection
<1>6. IsFiniteSet(0 .. k - 1) /\ Cardinality(0 .. k - 1) = k
  BY FS_Interval
<1> QED
  BY <1>5, <1>6, FS_Bijection DEF ExistsBijection

-----------------------------------------------------------------------------
(* Increasing vectors *)

Increasing(s) == \A j, k \in DOMAIN s : j < k => s[j] < s[k]

(* The sorted vector of a set: every element at its rank.                  *)
LEMMA AscendingSorts ==
  ASSUME NEW S \in SUBSET Nat, IsFiniteSet(S)
  PROVE  /\ Ascending(S) \in Seq(Nat) /\ Increasing(Ascending(S))
         /\ Range(Ascending(S)) = S
<1> DEFINE below(x) == {y \in S : y < x}
           N == Cardinality(S)
           rank == [x \in S |-> Cardinality(below(x))]
           at(k) == CHOOSE x \in S : Cardinality(below(x)) = k - 1
           s == Ascending(S)
<1>0. \A x \in S : x \in Nat
  OBVIOUS
<1>1. N \in Nat
  BY FS_CardinalityType
<1>2. ASSUME NEW x \in S
      PROVE  rank[x] \in 0 .. N - 1 /\ IsFiniteSet(below(x)) /\ rank[x] = Cardinality(below(x))
  <2>1. below(x) \in SUBSET S /\ below(x) # S
    OBVIOUS
  <2>2. IsFiniteSet(below(x)) /\ Cardinality(below(x)) <= N /\ Cardinality(below(x)) # N
    BY <2>1, FS_Subset
  <2>3. Cardinality(below(x)) \in Nat
    BY <2>2, FS_CardinalityType
  <2>4. rank[x] = Cardinality(below(x))
    OBVIOUS
  <2> DEFINE c == Cardinality(below(x))
  <2> HIDE DEF c, N, rank
  <2>5. c \in 0 .. N - 1
    BY <1>1, <2>2, <2>3 DEF c
  <2> QED
    BY <2>2, <2>4, <2>5 DEF c
<1>3. ASSUME NEW x \in S, NEW y \in S, x < y
      PROVE  rank[x] < rank[y]
  <2>1. below(x) \in SUBSET below(y) /\ below(x) # below(y)
    <3>1. \A z \in S : z < x => z < y
      BY <1>0, <1>3
    <3>2. x \in below(y) /\ x \notin below(x)
      BY <1>0, <1>3
    <3> QED
      BY <3>1, <3>2
  <2>2. Cardinality(below(x)) <= Cardinality(below(y)) /\ Cardinality(below(x)) # Cardinality(below(y))
    BY <1>2, <2>1, FS_Subset
  <2> HIDE DEF rank, N
  <2>3. rank[x] <= rank[y] /\ rank[x] # rank[y] /\ rank[x] \in Nat /\ rank[y] \in Nat
    BY <1>1, <1>2, <2>2
  <2> QED
    BY <2>3
<1>4. s = [k \in 1 .. N |-> at(k)]
  BY DEF Ascending
<1>5. \A k \in 1 .. N : (\E x \in S : rank[x] = k - 1) => at(k) \in S /\ rank[at(k)] = k - 1
  OBVIOUS
<1>6. rank \in [S -> 0 .. N - 1]
  BY <1>2
<1> HIDE DEF N, rank, at, below, s
<1>7. \A x, y \in S : rank[x] = rank[y] => x = y
  <2> SUFFICES ASSUME NEW x \in S, NEW y \in S, rank[x] = rank[y] PROVE x = y
    OBVIOUS
  <2>1. ~(x < y) /\ ~(y < x)
    BY <1>1, <1>2, <1>3
  <2> QED
    BY <1>0, <2>1
<1>8. rank \in Surjection(S, 0 .. N - 1)
  <2>1. IsFiniteSet(0 .. N - 1) /\ Cardinality(0 .. N - 1) = N
    BY <1>1, FS_Interval
  <2>2. rank \in Injection(S, 0 .. N - 1)
    BY <1>6, <1>7 DEF Injection, IsInjective
  <2> QED
    BY <2>1, <2>2, FS_Injection DEF N
<1>9. \A k \in 1 .. N : s[k] \in S /\ rank[s[k]] = k - 1
  <2>1. \A k \in 1 .. N : k - 1 \in 0 .. N - 1
    BY <1>1
  <2>2. \A k \in 1 .. N : \E x \in S : rank[x] = k - 1
    BY <1>8, <2>1 DEF Surjection
  <2> QED
    BY <1>4, <1>5, <2>2
<1>10. s \in [1 .. N -> S]
  BY <1>4, <1>9
<1>11. s \in Seq(Nat)
  <2>1. s \in [1 .. N -> Nat]
    BY <1>0, <1>10
  <2> QED
    BY <1>1, <2>1, SeqDef
<1>12. Increasing(s)
  <2> SUFFICES ASSUME NEW j \in 1 .. N, NEW k \in 1 .. N, j < k
               PROVE  s[j] < s[k]
    BY <1>10 DEF Increasing
  <2>1. s[j] \in S /\ s[k] \in S /\ rank[s[j]] < rank[s[k]] /\ rank[s[j]] \in Nat /\ rank[s[k]] \in Nat
    BY <1>1, <1>9
  <2>2. ~(s[k] < s[j]) /\ s[j] # s[k]
    <3> DEFINE a == s[j]
               b == s[k]
    <3>1. a \in S /\ b \in S /\ rank[a] < rank[b] /\ rank[a] \in Nat /\ rank[b] \in Nat
      BY <2>1
    <3> HIDE DEF a, b
    <3>2. ~(rank[b] < rank[a]) /\ rank[a] # rank[b]
      BY <3>1
    <3>3. ~(b < a) /\ a # b
      BY <1>3, <3>1, <3>2
    <3> QED
      BY <3>3 DEF a, b
  <2>3. s[j] \in Nat /\ s[k] \in Nat
    BY <1>0, <2>1
  <2> QED
    BY <2>2, <2>3
<1>13. Range(s) = S
  <2>1. \A x \in S : \E k \in 1 .. N : s[k] = x
    <3> SUFFICES ASSUME NEW x \in S PROVE \E k \in 1 .. N : s[k] = x
      OBVIOUS
    <3>1. rank[x] \in Nat /\ rank[x] <= N - 1
      BY <1>1, <1>2
    <3>2. PICK k \in 1 .. N : k - 1 = rank[x]
      <4>1. rank[x] + 1 \in 1 .. N /\ (rank[x] + 1) - 1 = rank[x]
        BY <1>1, <3>1
      <4> QED
        BY <4>1
    <3>3. s[k] = x
      BY <1>7, <1>9, <3>2
    <3> QED
      BY <3>3
  <2> QED
    BY <1>10, <2>1 DEF Range
<1> QED
  BY <1>11, <1>12, <1>13 DEF s

(* One more, greater element at the end.                                   *)
LEMMA AppendIncreases ==
  ASSUME NEW s \in Seq(Nat), Increasing(s), NEW v \in Nat, \A x \in Range(s) : x < v
  PROVE  /\ Append(s, v) \in Seq(Nat) /\ Increasing(Append(s, v))
         /\ Range(Append(s, v)) = Range(s) \cup {v}
<1> DEFINE r == Append(s, v)
           n == Len(s)
<1>1. /\ r \in Seq(Nat) /\ Len(r) = n + 1 /\ r[n + 1] = v
      /\ \A k \in 1 .. n : r[k] = s[k]
      /\ n \in Nat /\ DOMAIN s = 1 .. n /\ DOMAIN r = 1 .. n + 1
  BY AppendProperties, LenProperties
<1> HIDE DEF r, n
<1>2. \A k \in 1 .. n : s[k] < v
  BY <1>1 DEF Range
<1>3. ASSUME NEW j \in 1 .. n + 1, NEW k \in 1 .. n + 1, j < k PROVE r[j] < r[k]
  <2>1. j \in 1 .. n /\ r[j] = s[j]
    BY <1>1, <1>3
  <2>2. CASE k \in 1 .. n
    <3>1. s[j] < s[k]
      BY <1>1, <1>3, <2>1, <2>2 DEF Increasing
    <3> QED
      BY <1>1, <2>1, <2>2, <3>1
  <2>3. CASE k = n + 1
    BY <1>1, <1>2, <2>1, <2>3
  <2> QED
    BY <1>1, <2>2, <2>3
<1>4. Increasing(r)
  BY <1>1, <1>3 DEF Increasing
<1>5. Range(r) = Range(s) \cup {v}
  <2>1. Range(s) = {s[k] : k \in 1 .. n} /\ Range(r) = {r[k] : k \in 1 .. n + 1}
    BY <1>1 DEF Range
  <2>2. ASSUME NEW k \in 1 .. n + 1 PROVE r[k] \in Range(s) \cup {v}
    <3>1. k \in 1 .. n \/ k = n + 1
      BY <1>1
    <3> QED
      BY <1>1, <2>1, <3>1
  <2>3. ASSUME NEW k \in 1 .. n PROVE s[k] \in Range(r)
    <3>1. k \in 1 .. n + 1 /\ s[k] = r[k]
      BY <1>1
    <3> QED
      BY <2>1, <3>1
  <2>4. v \in Range(r)
    <3>1. n + 1 \in 1 .. n + 1 /\ r[n + 1] = v
      BY <1>1
    <3> QED
      BY <2>1, <3>1
  <2> QED
    BY <2>1, <2>2, <2>3, <2>4
<1> QED
  BY <1>1, <1>4, <1>5 DEF r

(* An increasing vector has as many elements as entries.                   *)
LEMMA IncreasingSize ==
  ASSUME NEW s \in Seq(Nat), Increasing(s)
  PROVE  IsFiniteSet(Range(s)) /\ Cardinality(Range(s)) = Len(s)
<1> DEFINE n == Len(s)
<1>1. n \in Nat /\ DOMAIN s = 1 .. n /\ s \in [1 .. n -> Nat]
  BY LenProperties
<1>2. \A j, k \in 1 .. n : s[j] = s[k] => j = k
  BY <1>1 DEF Increasing
<1>3. s \in Bijection(1 .. n, Range(s))
  BY <1>1, <1>2 DEF Bijection, Injection, IsInjective, Surjection, Range
<1> HIDE DEF n
<1>4. IsFiniteSet(1 .. n) /\ Cardinality(1 .. n) = n
  BY <1>1, FS_Interval
<1> QED
  BY <1>3, <1>4, FS_Bijection DEF ExistsBijection, n

(* Two increasing vectors of the same elements are equal: at the first     *)
(* place they differ, the smaller of the two would be missing in the other.*)
LEMMA IncreasingUnique ==
  ASSUME NEW s \in Seq(Nat), Increasing(s), NEW r \in Seq(Nat), Increasing(r),
         Range(s) = Range(r)
  PROVE  s = r
<1> DEFINE n == Len(s)
<1>1. n \in Nat /\ DOMAIN s = 1 .. n /\ s \in [1 .. n -> Nat]
  BY LenProperties
<1>2. Len(r) = n /\ DOMAIN r = 1 .. n /\ r \in [1 .. n -> Nat]
  BY IncreasingSize, LenProperties
<1> DEFINE differ == {k \in 1 .. n : s[k] # r[k]}
<1>3. ASSUME differ # {}
      PROVE  FALSE
  <2>1. PICK k \in differ : \A j \in differ : k <= j
    <3>1. differ \in SUBSET Nat
      OBVIOUS
    <3> HIDE DEF differ
    <3> QED
      BY <1>3, <3>1, LeastElement
  <2>2. k \in 1 .. n /\ s[k] # r[k] /\ s[k] \in Nat /\ r[k] \in Nat
    BY <1>1, <1>2
  <2>3. \A j \in 1 .. n : j < k => s[j] = r[j]
    BY <1>1, <2>1
  <2>4. PICK a \in 1 .. n : r[a] = s[k]
    BY <1>1, <1>2, <2>2 DEF Range
  <2>5. PICK b \in 1 .. n : s[b] = r[k]
    BY <1>1, <1>2, <2>2 DEF Range
  <2> HIDE DEF differ, n
  <2>6. \A i1, i2 \in 1 .. n : i1 < i2 => s[i1] < s[i2] /\ r[i1] < r[i2]
    BY <1>1, <1>2 DEF Increasing
  <2>7. \A j \in 1 .. n : s[j] \in Nat /\ r[j] \in Nat
    BY <1>1, <1>2
  <2>8. a < k \/ r[k] < r[a]
    <3>1. a < k \/ a = k \/ k < a
      BY <1>1, <2>2
    <3>2. a # k
      BY <2>2, <2>4
    <3>3. k < a => r[k] < r[a]
      BY <2>2, <2>6
    <3> QED
      BY <3>1, <3>2, <3>3
  <2>9. b < k \/ s[k] < s[b]
    <3>1. b < k \/ b = k \/ k < b
      BY <1>1, <2>2
    <3>2. b # k
      BY <2>2, <2>5
    <3>3. k < b => s[k] < s[b]
      BY <2>2, <2>6
    <3> QED
      BY <3>1, <3>2, <3>3
  <2>10. ~(a < k)
    <3>1. a < k => s[a] = r[a] /\ s[a] < s[k]
      BY <2>2, <2>3, <2>6
    <3> QED
      BY <2>2, <2>4, <2>7, <3>1
  <2>11. ~(b < k)
    <3>1. b < k => s[b] = r[b] /\ r[b] < r[k]
      BY <2>2, <2>3, <2>6
    <3> QED
      BY <2>2, <2>5, <2>7, <3>1
  <2> QED
    <3> DEFINE x == s[k]
               y == r[k]
    <3>1. x \in Nat /\ y \in Nat /\ x # y
      BY <2>2
    <3>2. y < x /\ x < y
      BY <2>4, <2>5, <2>8, <2>9, <2>10, <2>11
    <3> HIDE DEF x, y
    <3> QED
      BY <3>1, <3>2
<1>4. \A k \in 1 .. n : s[k] = r[k]
  BY <1>3
<1>5. s = [k \in 1 .. n |-> s[k]] /\ r = [k \in 1 .. n |-> r[k]]
  BY <1>1, <1>2
<1> HIDE DEF n
<1> QED
  BY <1>4, <1>5

(* What a sequence of naturals holds is a finite set of naturals.          *)
LEMMA RangeFinite ==
  ASSUME NEW s \in Seq(Nat)
  PROVE  IsFiniteSet(Range(s)) /\ Range(s) \in SUBSET Nat
<1>1. Len(s) \in Nat /\ s \in [1 .. Len(s) -> Nat] /\ DOMAIN s = 1 .. Len(s)
  BY LenProperties
<1>2. s \in Surjection(1 .. Len(s), Range(s))
  BY <1>1 DEF Surjection, Range
<1>3. IsFiniteSet(1 .. Len(s))
  BY <1>1, FS_Interval
<1> QED
  BY <1>1, <1>2, <1>3, FS_Surjection DEF Range

-----------------------------------------------------------------------------
(* Trees *)

(* The padded width is a power of two that has room for the leaves.        *)
LEMMA PaddedWidth ==
  ASSUME NEW x \in Nat
  PROVE  \E k \in Nat : NextPowerOfTwo(x) = 2^k /\ x <= 2^k
<1> DEFINE enough == {k \in Nat : 2^k >= x}
<1>1. x \in enough
  BY PowerType, PowerExceeds
<1>2. PICK k \in enough : \A j \in enough : k <= j
  <2>1. enough \in SUBSET Nat /\ enough # {}
    BY <1>1
  <2> HIDE DEF enough
  <2> QED
    BY <2>1, LeastElement
<1>3. k \in 0 .. x /\ 2^k >= x /\ k \in Nat
  BY <1>1, <1>2
<1>4. \A j \in 0 .. k - 1 : 2^j < x
  <2> SUFFICES ASSUME NEW j \in 0 .. k - 1 PROVE 2^j < x
    OBVIOUS
  <2>0. j \in Nat /\ j < k
    BY <1>3
  <2>1. j \notin enough
    BY <1>2, <1>3, <2>0
  <2>2. 2^j \in Nat
    BY <2>0, PowerType
  <2> QED
    BY <2>0, <2>1, <2>2
<1> DEFINE least == CHOOSE n \in 0 .. x : 2^n >= x /\ \A j \in 0 .. n - 1 : 2^j < x
<1>5. least \in 0 .. x /\ 2^least >= x
  BY <1>3, <1>4
<1>6. NextPowerOfTwo(x) = 2^least
  BY DEF NextPowerOfTwo
<1> HIDE DEF least
<1> QED
  BY <1>5, <1>6

(* A node and its sibling are the two children of their parent.            *)
LEMMA ParentFacts ==
  ASSUME NEW n \in Nat
  PROVE  /\ Parent(n) \in Nat /\ Sibling(n) \in Nat
         /\ Sibling(n) # n /\ Parent(Sibling(n)) = Parent(n)
         /\ \A m \in Nat : Parent(m) = Parent(n) => m = n \/ m = Sibling(n)
         /\ n % 2 = 0 <=> Sibling(n) = n + 1
         /\ n % 2 = 1 <=> n = Sibling(n) + 1
         /\ \A w \in Nat : n < 2 * w => Parent(n) < w /\ Sibling(n) < 2 * w
  BY DEF Parent, Sibling

(* The two children of every node of a set are what has its parent there.  *)
LEMMA ChildrenOf ==
  ASSUME NEW P \in SUBSET Nat
  PROVE  UNION {{2 * p, 2 * p + 1} : p \in P} = {n \in Nat : Parent(n) \in P}
<1>1. \A p \in P : 2 * p \in Nat /\ Parent(2 * p) = p /\ 2 * p + 1 \in Nat /\ Parent(2 * p + 1) = p
  BY DEF Parent
<1>2. \A n \in Nat : n \in {2 * Parent(n), 2 * Parent(n) + 1}
  BY DEF Parent
<1>3. ASSUME NEW n \in UNION {{2 * p, 2 * p + 1} : p \in P}
      PROVE  n \in Nat /\ Parent(n) \in P
  <2>1. PICK p \in P : n = 2 * p \/ n = 2 * p + 1
    BY <1>3
  <2> QED
    BY <1>1, <2>1
<1>4. ASSUME NEW n \in Nat, Parent(n) \in P
      PROVE  n \in UNION {{2 * p, 2 * p + 1} : p \in P}
  BY <1>2, <1>4
<1> QED
  BY <1>3, <1>4

(* The parents of the ancestors are the ancestors one level up.            *)
LEMMA AncestorsStep ==
  ASSUME NEW S \in SUBSET Nat, NEW l \in Nat
  PROVE  /\ Ancestors(S, 0) = S /\ Ancestors(S, l) \in SUBSET Nat
         /\ {Parent(n) : n \in Ancestors(S, l)} = Ancestors(S, l + 1)
<1>1. \A n \in S : n \div 2^0 = n /\ n \div 2^l \in Nat /\ (n \div 2^l) \div 2 = n \div 2^(l + 1)
  BY DivideByPower
<1> DEFINE up(n) == n \div 2^l
           top(n) == n \div 2^(l + 1)
<1>2. Ancestors(S, l) = {up(n) : n \in S} /\ Ancestors(S, l + 1) = {top(n) : n \in S}
  BY DEF Ancestors
<1>3. \A n \in S : Parent(up(n)) = top(n)
  BY <1>1 DEF Parent
<1>4. Ancestors(S, 0) = S
  BY <1>1, Zenon DEF Ancestors
<1>5. \A n \in S : up(n) \in Nat
  BY <1>1
<1> HIDE DEF up, top
<1> QED
  BY <1>2, <1>3, <1>4, <1>5

(* The inner levels of a tree with 2^d slots are 0 .. d - 1.               *)
LEMMA InnerLevelsOf ==
  ASSUME NEW d \in Nat
  PROVE  InnerLevels(2^d) = 0 .. d - 1 /\ Cardinality(InnerLevels(2^d)) = d
<1>1. 2^d \in Nat /\ d < 2^d
  BY PowerType, PowerExceeds
<1>2. \A k \in Nat : 2^k < 2^d <=> k < d
  BY PowerGrows
<1>3. InnerLevels(2^d) = 0 .. d - 1
  <2>1. ASSUME NEW k \in InnerLevels(2^d)
        PROVE  k \in 0 .. d - 1
    <3>1. k \in Nat /\ 2^k < 2^d
      BY <1>1 DEF InnerLevels
    <3> QED
      BY <1>2, <3>1
  <2>2. ASSUME NEW k \in 0 .. d - 1
        PROVE  k \in InnerLevels(2^d)
    <3>1. k \in 0 .. 2^d /\ k \in Nat /\ k < d
      BY <1>1
    <3> QED
      BY <1>2, <3>1 DEF InnerLevels
  <2> QED
    BY <2>1, <2>2
<1>4. Cardinality(0 .. d - 1) = d
  BY FS_Interval
<1> QED
  BY <1>3, <1>4

-----------------------------------------------------------------------------
(* Proof order *)

Pairs == Nat \X Nat
Precedes(r, s) == r[1] < s[1] \/ (r[1] = s[1] /\ r[2] < s[2])
InOrder(t) == \A j, k \in DOMAIN t : j < k => Precedes(t[j], t[k])
Ahead(X, s) == {r \in X : Precedes(r, s)}

(* PlanOrder, of any set of pairs.                                         *)
Listed(X) == [k \in 1 .. Cardinality(X) |-> CHOOSE s \in X : Cardinality(Ahead(X, s)) = k - 1]

(* The list of a set is its only arrangement in proof order.               *)
LEMMA ListedUnique ==
  ASSUME NEW t \in Seq(Pairs), InOrder(t)
  PROVE  Listed(Range(t)) = t
<1> DEFINE X == Range(t)
           n == Len(t)
           before(k) == {t[j] : j \in 1 .. k - 1}
<1>1. n \in Nat /\ DOMAIN t = 1 .. n /\ t \in [1 .. n -> Pairs]
  BY LenProperties
<1>2. \A r, s \in Pairs : ~(Precedes(r, s) /\ Precedes(s, r)) /\ ~Precedes(r, r)
  BY DEF Precedes, Pairs
<1>3. \A j, k \in 1 .. n : j < k => Precedes(t[j], t[k])
  BY <1>1 DEF InOrder
<1>4. \A k \in 1 .. n : t[k] \in Pairs /\ t[k] \in X
  BY <1>1 DEF Range
<1>5. X = {t[k] : k \in 1 .. n}
  BY <1>1 DEF Range
<1> HIDE DEF n, X
<1>6. \A j, k \in 1 .. n : j # k => j < k \/ k < j
  BY <1>1
<1>7. \A j, k \in 1 .. n : (Precedes(t[j], t[k]) => j < k) /\ (t[j] = t[k] => j = k)
  BY <1>2, <1>3, <1>4, <1>6
<1>8. ASSUME NEW k \in 1 .. n
      PROVE  Cardinality(Ahead(X, t[k])) = k - 1
  <2>1. \A j \in 1 .. k - 1 : j \in 1 .. n /\ j < k
    BY <1>1
  <2>2. \A j \in 1 .. n : j < k => j \in 1 .. k - 1
    BY <1>1
  <2>3. Ahead(X, t[k]) = before(k)
    <3>1. ASSUME NEW r \in Ahead(X, t[k])
          PROVE  r \in before(k)
      <4>1. r \in X /\ Precedes(r, t[k])
        BY <3>1 DEF Ahead
      <4>2. PICK j \in 1 .. n : r = t[j]
        BY <1>5, <4>1
      <4> QED
        BY <1>7, <2>2, <4>1, <4>2
    <3>2. ASSUME NEW j \in 1 .. k - 1
          PROVE  t[j] \in Ahead(X, t[k])
      BY <1>3, <1>4, <2>1, <3>2 DEF Ahead
    <3> QED
      BY <3>1, <3>2
  <2>4. [j \in 1 .. k - 1 |-> t[j]] \in Bijection(1 .. k - 1, before(k))
    BY <1>7, <2>1 DEF Bijection, Injection, IsInjective, Surjection
  <2>5. k - 1 \in Nat
    BY <1>1
  <2>6. IsFiniteSet(1 .. k - 1) /\ Cardinality(1 .. k - 1) = k - 1
    BY <2>5, FS_Interval
  <2> HIDE DEF before
  <2> QED
    BY <2>3, <2>4, <2>6, FS_Bijection DEF ExistsBijection
<1>9. Cardinality(X) = n
  <2>1. [j \in 1 .. n |-> t[j]] \in Bijection(1 .. n, X)
    BY <1>5, <1>7 DEF Bijection, Injection, IsInjective, Surjection
  <2>2. IsFiniteSet(1 .. n) /\ Cardinality(1 .. n) = n
    BY <1>1, FS_Interval
  <2> QED
    BY <2>1, <2>2, FS_Bijection DEF ExistsBijection
<1>10. ASSUME NEW k \in 1 .. n
       PROVE  (CHOOSE s \in X : Cardinality(Ahead(X, s)) = k - 1) = t[k]
  <2> DEFINE rank(s) == Cardinality(Ahead(X, s))
  <2>1. t[k] \in X /\ rank(t[k]) = k - 1
    BY <1>4, <1>8
  <2>2. \A s \in X : rank(s) = k - 1 => s = t[k]
    <3> SUFFICES ASSUME NEW j \in 1 .. n, rank(t[j]) = k - 1 PROVE t[j] = t[k]
      BY <1>5
    <3>1. j - 1 = k - 1
      BY <1>8
    <3>2. j = k
      BY <1>1, <3>1
    <3> QED
      BY <3>2
  <2> HIDE DEF rank
  <2>3. (CHOOSE s \in X : rank(s) = k - 1) = t[k]
    BY <2>1, <2>2
  <2> QED
    BY <2>3 DEF rank
<1>11. Listed(X) = [k \in 1 .. n |-> t[k]]
  BY <1>9, <1>10 DEF Listed
<1>12. t = [k \in 1 .. n |-> t[k]]
  BY <1>1
<1> QED
  BY <1>11, <1>12 DEF X

(* In the list every pair of the set stands at its rank, and there is      *)
(* nothing else in it.                                                     *)
LEMMA ListedPosition ==
  ASSUME NEW X \in SUBSET Pairs, IsFiniteSet(X)
  PROVE  /\ \A s \in X : /\ Cardinality(Ahead(X, s)) + 1 \in 1 .. Cardinality(X)
                         /\ Listed(X)[Cardinality(Ahead(X, s)) + 1] = s
         /\ \A k \in 1 .. Cardinality(X) : \E s \in X : k = Cardinality(Ahead(X, s)) + 1
<1> DEFINE N == Cardinality(X)
           rank == [s \in X |-> Cardinality(Ahead(X, s))]
<1>1. N \in Nat
  BY FS_CardinalityType
<1>2. ASSUME NEW r \in Pairs, NEW s \in Pairs, NEW q \in Pairs
      PROVE  /\ ~Precedes(r, r)
             /\ r # s => Precedes(r, s) \/ Precedes(s, r)
             /\ Precedes(r, s) /\ Precedes(s, q) => Precedes(r, q)
  <2>1. /\ r[1] \in Nat /\ r[2] \in Nat /\ s[1] \in Nat /\ s[2] \in Nat
        /\ q[1] \in Nat /\ q[2] \in Nat /\ (r[1] = s[1] /\ r[2] = s[2] => r = s)
    BY DEF Pairs
  <2> QED
    BY <2>1 DEF Precedes
<1>3. ASSUME NEW s \in X
      PROVE  /\ rank[s] \in 0 .. N - 1 /\ IsFiniteSet(Ahead(X, s))
             /\ rank[s] = Cardinality(Ahead(X, s))
  <2>1. Ahead(X, s) \in SUBSET X /\ Ahead(X, s) # X
    <3>1. s \in X /\ s \notin Ahead(X, s)
      BY <1>2 DEF Ahead
    <3> QED
      BY <3>1 DEF Ahead
  <2>2. IsFiniteSet(Ahead(X, s)) /\ Cardinality(Ahead(X, s)) <= N /\ Cardinality(Ahead(X, s)) # N
    BY <2>1, FS_Subset
  <2>3. Cardinality(Ahead(X, s)) \in Nat
    BY <2>2, FS_CardinalityType
  <2> DEFINE c == Cardinality(Ahead(X, s))
  <2>4. rank[s] = c
    OBVIOUS
  <2> HIDE DEF c, N, rank
  <2>5. c \in 0 .. N - 1
    BY <1>1, <2>2, <2>3 DEF c
  <2> QED
    BY <2>2, <2>4, <2>5 DEF c
<1>4. ASSUME NEW r \in X, NEW s \in X, Precedes(r, s)
      PROVE  rank[r] # rank[s]
  <2>1. Ahead(X, r) \in SUBSET Ahead(X, s)
    BY <1>2, <1>4 DEF Ahead
  <2>2. r \in Ahead(X, s) /\ r \notin Ahead(X, r)
    BY <1>2, <1>4 DEF Ahead
  <2>3. Cardinality(Ahead(X, r)) # Cardinality(Ahead(X, s))
    BY <1>3, <2>1, <2>2, FS_Subset
  <2> QED
    BY <1>3, <2>3
<1>5. \A r, s \in X : rank[r] = rank[s] => r = s
  BY <1>2, <1>4
<1>6. rank \in [X -> 0 .. N - 1]
  BY <1>3
<1>7. \A s \in X : rank[s] = Cardinality(Ahead(X, s))
  BY <1>3
<1> HIDE DEF N, rank
<1>8. rank \in Surjection(X, 0 .. N - 1)
  <2>1. IsFiniteSet(0 .. N - 1) /\ Cardinality(0 .. N - 1) = N
    BY <1>1, FS_Interval
  <2>2. rank \in Injection(X, 0 .. N - 1)
    BY <1>5, <1>6 DEF Injection, IsInjective
  <2> QED
    BY <2>1, <2>2, FS_Injection DEF N
<1>9. ASSUME NEW s \in X
      PROVE  rank[s] + 1 \in 1 .. N /\ Listed(X)[rank[s] + 1] = s
  <2>1. rank[s] + 1 \in 1 .. N /\ (rank[s] + 1) - 1 = rank[s]
    BY <1>1, <1>6
  <2>2. Listed(X)[rank[s] + 1] = CHOOSE r \in X : Cardinality(Ahead(X, r)) = rank[s]
    BY <2>1 DEF Listed, N
  <2>3. \A r \in X : Cardinality(Ahead(X, r)) = rank[s] <=> r = s
    BY <1>5, <1>7
  <2>4. (CHOOSE r \in X : Cardinality(Ahead(X, r)) = rank[s]) = s
    BY <2>3
  <2> QED
    BY <2>1, <2>2, <2>4
<1>10. ASSUME NEW k \in 1 .. N
       PROVE  \E s \in X : k = rank[s] + 1
  <2>1. k - 1 \in 0 .. N - 1 /\ (k - 1) + 1 = k
    BY <1>1
  <2>2. PICK s \in X : rank[s] = k - 1
    BY <1>8, <2>1 DEF Surjection
  <2> QED
    BY <2>1, <2>2
<1> QED
  BY <1>7, <1>9, <1>10 DEF N
=============================================================================
