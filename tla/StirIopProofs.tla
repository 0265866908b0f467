--------------------------- MODULE StirIopProofs ---------------------------
(***************************************************************************)
(* Theorems about StirIop, over every ring with the laws of RingFacts: in  *)
(* theorem mode a shake point is left, the prover's divisions are exact    *)
(* and its polynomials within their bounds, the table it may reuse is the  *)
(* encoding; what an accepted proof says of the tables under its roots, and*)
(* that a proof nothing damaged is accepted.                               *)
(***************************************************************************)
EXTENDS StirIop, RingFacts

-----------------------------------------------------------------------------
(* The schedule *)

(* Values that go on by a step from a.                                     *)
GoesOn(T, V, a, step) == T \in [Nat -> V] /\ T[0] = a /\ \A n \in Nat : T[n + 1] = step[T[n]]

(* A step that stays in a set has such a sequence.                         *)
LEMMA StepsFollow ==
  ASSUME NEW V, NEW a \in V, NEW step \in [V -> V]
  PROVE  \E T : GoesOn(T, V, a, step)
<1> DEFINE next == [x \in Nat \X V |-> step[x[2]]]
<1>1. next \in [Nat \X V -> V] /\ \A n \in Nat : \A v \in V : next[<<n, v>>] = step[v]
  OBVIOUS
<1> HIDE DEF next
<1>2. HasSequence(V, a, next)
  BY <1>1, RecursionExists
<1>3. PICK T \in [Nat -> V] : T[0] = a /\ \A n \in Nat : T[n + 1] = next[<<n, T[n]>>]
  BY <1>2 DEF HasSequence
<1>4. \A n \in Nat : T[n + 1] = step[T[n]]
  BY <1>1, <1>3
<1> QED
  BY <1>3, <1>4 DEF GoesOn

(* A beginning of it.                                                      *)
Beginning(T, r) == [i \in 0 .. r |-> T[i]]

(* Its entries follow from the ones before, as a recursion has it.         *)
LEMMA BeginningSteps ==
  ASSUME NEW V, NEW a \in V, NEW step, NEW T, GoesOn(T, V, a, step), NEW r \in Nat, NEW i \in 0 .. r
  PROVE  LET f == Beginning(T, r)
         IN  IF i = 0 THEN f[i] = a ELSE f[i] = step[f[i - 1]] /\ f[i - 1] \in V
<1>1. CASE i = 0
  BY <1>1 DEF Beginning, GoesOn
<1>2. CASE i # 0
  <2>1. i - 1 \in Nat /\ i - 1 \in 0 .. r /\ (i - 1) + 1 = i
    BY <1>2
  <2>2. T[(i - 1) + 1] = step[T[i - 1]] /\ T[i - 1] \in V
    BY <2>1 DEF GoesOn
  <2> QED
    BY <1>2, <2>1, <2>2 DEF Beginning
<1> QED
  BY <1>1, <1>2

(* What starts and goes on alike has its values.                           *)
LEMMA SameSteps ==
  ASSUME NEW V, NEW a \in V, NEW step, NEW T, GoesOn(T, V, a, step), NEW r \in Nat, NEW f,
         f[0] = a, \A i \in 1 .. r : f[i - 1] \in V => f[i] = step[f[i - 1]]
  PROVE  f[r] = T[r]
<1>1. ASSUME NEW i \in 0 .. r - 1, f[i] = T[i] PROVE f[i + 1] = T[i + 1]
  <2>1. i + 1 \in 1 .. r /\ (i + 1) - 1 = i /\ i \in Nat
    OBVIOUS
  <2>2. T[i] \in V /\ T[i + 1] = step[T[i]]
    BY <2>1 DEF GoesOn
  <2>3. f[i + 1] = step[f[i]]
    BY <1>1, <2>1, <2>2
  <2> QED
    BY <1>1, <2>2, <2>3
<1>2. f[0] = T[0]
  BY DEF GoesOn
<1>3. \A i \in 0 .. r - 1 : f[i] = T[i] => f[i + 1] = T[i + 1]
  BY <1>1
<1>4. \A i \in 0 .. r : f[i] = T[i]
  BY <1>2, <1>3, GoesOnAlike
<1> QED
  BY <1>4

(* What BoundAfter computes, from the first bound on.                      *)
BoundValues(f, params, degree, r) ==
  f = [i \in 0 .. r |-> IF i = 0 THEN degree ELSE FoldedDegreeBound(f[i - 1], params.virtual_fold_factor)]

(* The bound is divided by the fold factor in every round.                 *)
LEMMA BoundSteps ==
  ASSUME NEW params, params.virtual_fold_factor = 9, NEW degree \in Nat
  PROVE  /\ BoundAfter(params, degree, 0) = degree
         /\ \A r \in Nat : /\ BoundAfter(params, degree, r) \in Nat
                           /\ BoundAfter(params, degree, r + 1) = BoundAfter(params, degree, r) \div 9
                           /\ BoundAfter(params, degree, r + 1)
                                = FoldedDegreeBound(BoundAfter(params, degree, r), 9)
<1> DEFINE Naturals == Nat
           step == [b \in Naturals |-> FoldedDegreeBound(b, params.virtual_fold_factor)]
<1>1. \A b \in Nat : FoldedDegreeBound(b, 9) = b \div 9 /\ b \div 9 \in Nat
  BY DEF FoldedDegreeBound
<1>2. /\ degree \in Naturals /\ step \in [Naturals -> Naturals]
      /\ \A b \in Naturals : step[b] = FoldedDegreeBound(b, params.virtual_fold_factor)
  BY <1>1
<1>0. Naturals = Nat
  OBVIOUS
<1> HIDE DEF step, Naturals
<1> PICK T : GoesOn(T, Naturals, degree, step)
  BY <1>2, StepsFollow
<1>3. ASSUME NEW r \in Nat PROVE BoundValues(Beginning(T, r), params, degree, r)
  <2> DEFINE f == Beginning(T, r)
  <2>1. ASSUME NEW i \in 0 .. r PROVE f[i] = IF i = 0 THEN degree ELSE FoldedDegreeBound(f[i - 1], params.virtual_fold_factor)
    <3>1. IF i = 0 THEN f[i] = degree ELSE f[i] = step[f[i - 1]] /\ f[i - 1] \in Naturals
      BY <1>2, BeginningSteps
    <3> HIDE DEF f
    <3> QED
      BY <1>2, <3>1
  <2>2. f = [i \in 0 .. r |-> f[i]]
    BY DEF Beginning
  <2> HIDE DEF f
  <2>3. f = [i \in 0 .. r |-> IF i = 0 THEN degree ELSE FoldedDegreeBound(f[i - 1], params.virtual_fold_factor)]
    BY <2>1, <2>2
  <2> QED
    BY <2>3 DEF BoundValues, f
<1>4. ASSUME NEW r \in Nat, NEW f, BoundValues(f, params, degree, r) PROVE f[r] = T[r]
  <2>1. \A i \in 0 .. r : f[i] = IF i = 0 THEN degree ELSE FoldedDegreeBound(f[i - 1], params.virtual_fold_factor)
    BY <1>4 DEF BoundValues
  <2>2. f[0] = degree /\ \A i \in 1 .. r : f[i - 1] \in Naturals => f[i] = step[f[i - 1]]
    <3>1. \A i \in 1 .. r : i \in 0 .. r /\ i # 0
      OBVIOUS
    <3>2. f[0] = degree
      BY <2>1
    <3>3. ASSUME NEW i \in 1 .. r, f[i - 1] \in Naturals PROVE f[i] = step[f[i - 1]]
      <4>1. f[i] = FoldedDegreeBound(f[i - 1], params.virtual_fold_factor)
        BY <2>1, <3>1
      <4> QED
        BY <1>2, <3>3, <4>1
    <3> QED
      BY <3>2, <3>3
  <2> QED
    BY <1>2, <2>2, SameSteps
<1>5. ASSUME NEW r \in Nat PROVE BoundAfter(params, degree, r) = T[r]
  <2>1. BoundAfter(params, degree, r) = (CHOOSE f : BoundValues(f, params, degree, r))[r]
    BY DEF BoundAfter, BoundValues
  <2> QED
    BY <1>3, <1>4, <2>1
<1>6. /\ BoundAfter(params, degree, 0) = degree
      /\ \A r \in Nat : /\ BoundAfter(params, degree, r) \in Naturals
                        /\ BoundAfter(params, degree, r + 1) = step[BoundAfter(params, degree, r)]
  BY <1>5 DEF GoesOn
<1> QED
  BY <1>0, <1>1, <1>2, <1>6

(* What SizeAfter computes, from the first size on.                        *)
SizeValues(f, params, size, r) ==
  f = [i \in 0 .. r |-> IF i = 0 THEN size ELSE f[i - 1] \div params.shift_power]

(* The size is divided by the shift power in every round.                  *)
LEMMA SizeSteps ==
  ASSUME NEW params, params.shift_power = 3, NEW size \in Nat
  PROVE  /\ SizeAfter(params, size, 0) = size
         /\ \A r \in Nat : /\ SizeAfter(params, size, r) \in Nat
                           /\ SizeAfter(params, size, r + 1) = SizeAfter(params, size, r) \div 3
<1> DEFINE Naturals == Nat
           step == [n \in Naturals |-> n \div params.shift_power]
<1>1. \A n \in Nat : n \div 3 \in Nat
  OBVIOUS
<1>2. size \in Naturals /\ step \in [Naturals -> Naturals] /\ \A n \in Naturals : step[n] = n \div params.shift_power
  BY <1>1
<1>0. Naturals = Nat
  OBVIOUS
<1> HIDE DEF step, Naturals
<1> PICK T : GoesOn(T, Naturals, size, step)
  BY <1>2, StepsFollow
<1>3. ASSUME NEW r \in Nat PROVE SizeValues(Beginning(T, r), params, size, r)
  <2> DEFINE f == Beginning(T, r)
  <2>1. ASSUME NEW i \in 0 .. r PROVE f[i] = IF i = 0 THEN size ELSE f[i - 1] \div params.shift_power
    <3>1. IF i = 0 THEN f[i] = size ELSE f[i] = step[f[i - 1]] /\ f[i - 1] \in Naturals
      BY <1>2, BeginningSteps
    <3> HIDE DEF f
    <3> QED
      BY <1>2, <3>1
  <2>2. f = [i \in 0 .. r |-> f[i]]
    BY DEF Beginning
  <2> HIDE DEF f
  <2>3. f = [i \in 0 .. r |-> IF i = 0 THEN size ELSE f[i - 1] \div params.shift_power]
    BY <2>1, <2>2
  <2> QED
    BY <2>3 DEF SizeValues, f
<1>4. ASSUME NEW r \in Nat, NEW f, SizeValues(f, params, size, r) PROVE f[r] = T[r]
  <2>1. \A i \in 0 .. r : f[i] = IF i = 0 THEN size ELSE f[i - 1] \div params.shift_power
    BY <1>4 DEF SizeValues
  <2>2. f[0] = size /\ \A i \in 1 .. r : f[i - 1] \in Naturals => f[i] = step[f[i - 1]]
    <3>1. \A i \in 1 .. r : i \in 0 .. r /\ i # 0
      OBVIOUS
    <3>2. f[0] = size
      BY <2>1
    <3>3. ASSUME NEW i \in 1 .. r, f[i - 1] \in Naturals PROVE f[i] = step[f[i - 1]]
      <4>1. f[i] = f[i - 1] \div params.shift_power
        BY <2>1, <3>1
      <4> QED
        BY <1>2, <3>3, <4>1
    <3> QED
      BY <3>2, <3>3
  <2> QED
    BY <1>2, <2>2, SameSteps
<1>5. ASSUME NEW r \in Nat PROVE SizeAfter(params, size, r) = T[r]
  <2>1. SizeAfter(params, size, r) = (CHOOSE f : SizeValues(f, params, size, r))[r]
    BY DEF SizeAfter, SizeValues
  <2> QED
    BY <1>3, <1>4, <2>1
<1>6. /\ SizeAfter(params, size, 0) = size
      /\ \A r \in Nat : /\ SizeAfter(params, size, r) \in Naturals
                        /\ SizeAfter(params, size, r + 1) = step[SizeAfter(params, size, r)]
  BY <1>5 DEF GoesOn
<1> QED
  BY <1>0, <1>2, <1>6

(* What StirDomain computes, from the first domain on.                     *)
DomainValues(f, params, domain, r) ==
  f = [i \in 0 .. r |-> IF i = 0 THEN domain ELSE ScaleOffset(f[i - 1], params.shift_power)]

(* The domain is shifted and thinned in every round.                       *)
LEMMA DomainSteps ==
  ASSUME RingLaws, NEW params, params.shift_power = 3, NEW domain, IsDomain(domain)
  PROVE  /\ StirDomain(params, domain, 0) = domain
         /\ \A r \in Nat : StirDomain(params, domain, r + 1) = ScaleOffset(StirDomain(params, domain, r), 3)
<1> DEFINE Cosets == {MakeDomain(o, w, n) : o \in Ring, w \in Ring, n \in Nat}
           step   == [d \in Cosets |-> ScaleOffset(d, params.shift_power)]
<1>1. ASSUME NEW d \in Cosets PROVE ScaleOffset(d, 3) \in Cosets
  <2>1. PICK o \in Ring, w \in Ring, n \in Nat : d = MakeDomain(o, w, n)
    OBVIOUS
  <2>2. d.offset = o /\ d.root = w /\ d.size = n
    BY <2>1 DEF MakeDomain
  <2>3. Times(o, w) \in Ring /\ Power(w, 3) \in Ring /\ n \div 3 \in Nat
    <3>1. \A e \in Nat : Power(w, e) \in Ring
      BY PowerSteps
    <3> QED
      BY <3>1 DEF RingLaws, Closed
  <2>4. ScaleOffset(d, 3) = MakeDomain(Times(o, w), Power(w, 3), n \div 3)
    BY <2>2 DEF ScaleOffset
  <2> QED
    BY <2>3, <2>4
<1>2. /\ domain \in Cosets /\ step \in [Cosets -> Cosets]
      /\ \A d \in Cosets : step[d] = ScaleOffset(d, params.shift_power)
  <2>1. domain \in Cosets
    BY DEF IsDomain
  <2> HIDE DEF Cosets
  <2> QED
    BY <1>1, <2>1
<1> HIDE DEF step, Cosets
<1> PICK T : GoesOn(T, Cosets, domain, step)
  BY <1>2, StepsFollow
<1>3. ASSUME NEW r \in Nat PROVE DomainValues(Beginning(T, r), params, domain, r)
  <2> DEFINE f == Beginning(T, r)
  <2>1. ASSUME NEW i \in 0 .. r PROVE f[i] = IF i = 0 THEN domain ELSE ScaleOffset(f[i - 1], params.shift_power)
    <3>1. IF i = 0 THEN f[i] = domain ELSE f[i] = step[f[i - 1]] /\ f[i - 1] \in Cosets
      BY <1>2, BeginningSteps
    <3> HIDE DEF f
    <3> QED
      BY <1>2, <3>1
  <2>2. f = [i \in 0 .. r |-> f[i]]
    BY DEF Beginning
  <2> HIDE DEF f
  <2>3. f = [i \in 0 .. r |-> IF i = 0 THEN domain ELSE ScaleOffset(f[i - 1], params.shift_power)]
    BY <2>1, <2>2
  <2> QED
    BY <2>3 DEF DomainValues, f
<1>4. ASSUME NEW r \in Nat, NEW f, DomainValues(f, params, domain, r) PROVE f[r] = T[r]
  <2>1. \A i \in 0 .. r : f[i] = IF i = 0 THEN domain ELSE ScaleOffset(f[i - 1], params.shift_power)
    BY <1>4 DEF DomainValues
  <2>2. f[0] = domain /\ \A i \in 1 .. r : f[i - 1] \in Cosets => f[i] = step[f[i - 1]]
    <3>1. \A i \in 1 .. r : i \in 0 .. r /\ i # 0
      OBVIOUS
    <3>2. f[0] = domain
      BY <2>1
    <3>3. ASSUME NEW i \in 1 .. r, f[i - 1] \in Cosets PROVE f[i] = step[f[i - 1]]
      <4>1. f[i] = ScaleOffset(f[i - 1], params.shift_power)
        BY <2>1, <3>1
      <4> QED
        BY <1>2, <3>3, <4>1
    <3> QED
      BY <3>2, <3>3
  <2> QED
    BY <1>2, <2>2, SameSteps
<1>5. ASSUME NEW r \in Nat PROVE StirDomain(params, domain, r) = T[r]
  <2>1. StirDomain(params, domain, r) = (CHOOSE f : DomainValues(f, params, domain, r))[r]
    BY DEF StirDomain, DomainValues
  <2> QED
    BY <1>3, <1>4, <2>1
<1>6. /\ StirDomain(params, domain, 0) = domain
      /\ \A r \in Nat : /\ StirDomain(params, domain, r) \in Cosets
                        /\ StirDomain(params, domain, r + 1) = step[StirDomain(params, domain, r)]
  BY <1>5 DEF GoesOn
<1> QED
  BY <1>2, <1>6

(* A shifted domain is one again, of a third of the size.                  *)
LEMMA ScaleOffsetIsDomain ==
  ASSUME RingLaws, NEW d, IsDomain(d), IsTeichmuller(d.root), NEW k \in Nat \ {0}, d.size % k = 0
  PROVE  /\ IsDomain(ScaleOffset(d, k)) /\ IsTeichmuller(ScaleOffset(d, k).root)
         /\ ScaleOffset(d, k).size = d.size \div k
<1> DEFINE e == ScaleOffset(d, k)
           a == d.offset
           w == d.root
           u == Power(w, k)
           b == Times(a, w)
<1>1. e.size = d.size \div k /\ e.offset = b /\ e.root = u /\ e = MakeDomain(b, u, d.size \div k)
  BY DEF ScaleOffset, MakeDomain
<1>2. a \in Ring /\ w \in Ring /\ IsUnit(a) /\ IsUnit(w) /\ d.size \in Nat \ {0}
  BY DEF IsDomain
<1>3. HasExactOrder(u, d.size \div k)
  BY PowMapOrder
<1>4. d.size \div k \in Nat \ {0}
  BY <1>2, DividedBy
<1>5. IsTeichmuller(u) /\ u \in Ring /\ IsUnit(u)
  <2>1. IsTeichmuller(w)
    OBVIOUS
  <2> HIDE DEF w
  <2> QED
    BY <1>2, <2>1, PowerSteps, PowerUnit, TeichmullerPower
<1>6. b \in Ring /\ IsUnit(b)
  <2> HIDE DEF a, w
  <2> QED
    BY <1>2, UnitProduct DEF RingLaws, Closed
<1> HIDE DEF e, a, w, u, b
<1>7. IsDomain(e)
  BY <1>1, <1>3, <1>4, <1>5, <1>6 DEF IsDomain
<1> QED
  BY <1>1, <1>5, <1>7 DEF e

(* A bound falls until it is zero.                                         *)
LEMMA BoundFalls ==
  ASSUME NEW params, params.virtual_fold_factor = 9, NEW degree \in Nat, NEW r \in Nat
  PROVE  /\ BoundAfter(params, degree, r) \in Nat
         /\ BoundAfter(params, degree, r) = 0 \/ BoundAfter(params, degree, r) + r <= degree
<1> DEFINE B(t) == BoundAfter(params, degree, t)
           P == {t \in Nat : B(t) = 0 \/ B(t) + t <= degree}
<1>1. /\ B(0) = degree
      /\ \A t \in Nat : B(t) \in Nat /\ B(t + 1) = B(t) \div 9
  BY BoundSteps
<1> HIDE DEF B
<1>2. 0 \in P
  BY <1>1
<1>3. ASSUME NEW t \in P PROVE t + 1 \in P
  <2>1. t \in Nat /\ B(t) \in Nat /\ B(t + 1) = B(t) \div 9 /\ (B(t) = 0 \/ B(t) + t <= degree)
    BY <1>1
  <2>2. B(t + 1) = 0 \/ B(t + 1) < B(t)
    BY <2>1
  <2>3. B(t + 1) \in Nat /\ t + 1 \in Nat
    BY <1>1, <2>1
  <2> QED
    BY <2>1, <2>2, <2>3
<1>4. P = Nat
  <2>1. P \in SUBSET Nat
    OBVIOUS
  <2> HIDE DEF P
  <2> QED
    BY <1>2, <1>3, <2>1, SetInduction
<1> QED
  BY <1>1, <1>4 DEF B

(* The number of rounds is the first at which the bound is small enough.   *)
LEMMA StirRoundCountIsFirst ==
  ASSUME NEW params, params.virtual_fold_factor = 9, params.stop_degree \in Nat, NEW degree \in Nat
  PROVE  /\ StirRoundCount(params, degree) \in 0 .. degree
         /\ BoundAfter(params, degree, StirRoundCount(params, degree)) <= params.stop_degree
<1> DEFINE A(r) == BoundAfter(params, degree, r)
           small == {r \in 0 .. degree : A(r) <= params.stop_degree}
<1>1. ASSUME NEW r \in Nat
      PROVE  A(r) \in Nat /\ (A(r) = 0 \/ A(r) + r <= degree)
  BY BoundFalls
<1> HIDE DEF A
<1>3. degree \in small
  <2>1. A(degree) \in Nat /\ (A(degree) = 0 \/ A(degree) + degree <= degree)
    BY <1>1
  <2>2. A(degree) <= params.stop_degree
    BY <2>1
  <2> QED
    BY <2>2
<1>4. PICK r \in small : \A s \in small : r <= s
  <2>1. small \in SUBSET Nat /\ small # {}
    BY <1>3
  <2> HIDE DEF small
  <2> QED
    BY <2>1, LeastElement
<1>5. ASSUME NEW s \in 0 .. r - 1 PROVE A(s) > params.stop_degree
  <2>1. s \in 0 .. degree /\ s \in Nat /\ ~(r <= s)
    BY <1>4
  <2>2. A(s) \in Nat
    BY <1>1, <2>1
  <2>3. s \notin small
    BY <1>4, <2>1
  <2> QED
    BY <2>1, <2>2, <2>3
<1>6. \E t \in 0 .. degree :
        /\ A(t) <= params.stop_degree
        /\ \A s \in 0 .. t - 1 : A(s) > params.stop_degree
  BY <1>4, <1>5
<1> QED
  BY <1>6 DEF StirRoundCount, A

(* A round's domain is one, of the schedule's size and larger than its     *)
(* bound.                                                                  *)
DomainFits(params, domain, degree, r) ==
  LET d == StirDomain(params, domain, r)
  IN  /\ IsDomain(d) /\ IsTeichmuller(d.root) /\ d.size = SizeAfter(params, domain.size, r)
      /\ BoundAfter(params, degree, r) \in Nat /\ BoundAfter(params, degree, r) < d.size

(* What validate let pass fits, in every round.                            *)
LEMMA StirDomainsFit ==
  ASSUME RingLaws, NEW params, params.stop_degree \in Nat, NEW domain, IsDomain(domain),
         IsTeichmuller(domain.root), NEW degree \in Nat, ValidStirInstance(params, domain, degree)
  PROVE  LET R == StirRoundCount(params, degree)
             D(r) == StirDomain(params, domain, r)
         IN  /\ R \in Nat /\ params.virtual_fold_factor = 9 /\ params.shift_power = 3
             /\ \A r \in 0 .. R : DomainFits(params, domain, degree, r) /\ D(r).size % 9 = 0
             /\ \A r \in 0 .. R - 1 : D(r + 1) = ScaleOffset(D(r), 3)
<1> DEFINE R == StirRoundCount(params, degree)
           D(r) == StirDomain(params, domain, r)
           A(r) == SizeAfter(params, domain.size, r)
           B(r) == BoundAfter(params, degree, r)
           good(r) == DomainFits(params, domain, degree, r)
<1>1. params.virtual_fold_factor = 9 /\ params.shift_power = 3
  BY DEF ValidStirInstance, ValidStirParameters
<1>2. R \in Nat
  BY <1>1, StirRoundCountIsFirst
<1>3. D(0) = domain /\ \A r \in Nat : D(r + 1) = ScaleOffset(D(r), 3)
  BY <1>1, DomainSteps
<1>4. A(0) = domain.size /\ \A r \in Nat : A(r + 1) = A(r) \div 3
  <2>1. domain.size \in Nat
    BY DEF IsDomain
  <2> QED
    BY <1>1, <2>1, SizeSteps
<1>5. B(0) = degree /\ \A r \in Nat : B(r) \in Nat /\ B(r + 1) = B(r) \div 9
  BY <1>1, BoundSteps
<1>6. \A r \in 0 .. R - 1 : A(r) % 9 = 0 /\ A(r) % 3 = 0
  BY <1>1 DEF ValidStirInstance, ChainDivides
<1>7. degree < domain.size /\ A(R) % 9 = 0
  BY <1>1 DEF ValidStirInstance
<1>8. \A r : good(r) <=> /\ IsDomain(D(r)) /\ IsTeichmuller(D(r).root)
                          /\ D(r).size = A(r) /\ B(r) \in Nat /\ B(r) < D(r).size
  BY DEF DomainFits
<1>9. good(0)
  BY <1>3, <1>4, <1>5, <1>7, <1>8
<1> HIDE DEF R, D, A, B, good
<1>10. ASSUME NEW r \in Nat, r < R, good(r) PROVE good(r + 1)
  <2> DEFINE n == D(r).size
             k == 3
  <2>1. r \in 0 .. R - 1 /\ r + 1 \in Nat
    BY <1>2, <1>10
  <2>2. k \in Nat \ {0} /\ n % k = 0 /\ IsDomain(D(r)) /\ IsTeichmuller(D(r).root)
    BY <1>6, <1>8, <1>10, <2>1
  <2>3. n \in Nat \ {0} /\ n % 3 = 0 /\ n % 9 = 0
    BY <1>6, <1>8, <1>10, <2>1, <2>2 DEF IsDomain
  <2>4. /\ IsDomain(ScaleOffset(D(r), k)) /\ IsTeichmuller(ScaleOffset(D(r), k).root)
        /\ ScaleOffset(D(r), k).size = n \div k
    <3> HIDE DEF k
    <3> QED
      BY <2>2, ScaleOffsetIsDomain
  <2>5. B(r) \in Nat /\ B(r) < n /\ B(r + 1) = B(r) \div 9 /\ A(r + 1) = n \div 3
    BY <1>4, <1>5, <1>8, <1>10
  <2>6. B(r) \div 9 < n \div 3
    <3> DEFINE b == B(r)
    <3>1. b \in Nat /\ b < n
      BY <2>5
    <3> HIDE DEF b, n
    <3>2. b \div 9 < n \div 3
      BY <2>3, <3>1
    <3> QED
      BY <3>2 DEF b, n
  <2>7. B(r + 1) \in Nat
    BY <1>5, <2>1
  <2> QED
    BY <1>3, <1>8, <2>4, <2>5, <2>6, <2>7
<1>11. {r \in 0 .. R : good(r)} = 0 .. R
  <2> DEFINE P == {r \in 0 .. R : good(r)}
  <2>1. P \in SUBSET (0 .. R) /\ 0 \in P
    BY <1>2, <1>9
  <2>2. ASSUME NEW j \in P, j < R PROVE j + 1 \in P
    BY <1>2, <1>10, <2>2
  <2> HIDE DEF P
  <2>3. P = 0 .. R
    BY <1>2, <2>1, <2>2, InductionUpTo
  <2> QED
    BY <2>3 DEF P
<1>12. \A r \in 0 .. R : good(r)
  BY <1>11
<1>13. ASSUME NEW r \in 0 .. R PROVE D(r).size % 9 = 0
  <2>1. D(r).size = A(r)
    BY <1>8, <1>12
  <2>2. CASE r = R
    BY <1>7, <2>1, <2>2
  <2>3. CASE r # R
    BY <1>2, <1>6, <2>1, <2>3
  <2> QED
    BY <2>2, <2>3
<1>14. \A r \in 0 .. R - 1 : D(r + 1) = ScaleOffset(D(r), 3)
  BY <1>2, <1>3
<1> QED
  BY <1>1, <1>2, <1>12, <1>13, <1>14 DEF R, D, good

-----------------------------------------------------------------------------
(* The instance *)

(* The setup is one of those, and from the start on a valid one; the round *)
(* is one of its rounds.                                                   *)
StirSetting ==
  /\ setup \in Setups /\ polynomial \in Polynomials /\ round \in Nat
  /\ pc \notin {"prove", "done"} => MayProve
  /\ pc \in {"fold", "answer", "check", "draw"} => round < Rounds
  /\ pc \in {"finish", "deliver", "final"} => round = Rounds
  /\ pc \in {"prove", "verify"} => round = 0
  /\ pc \in {"prove", "fold", "answer", "finish", "deliver", "verify", "check", "draw", "final",
             "done"}

(* What validate settles for all rounds, the last one included.            *)
DomainHolds(r) ==
  /\ IsDomain(DomainAt(r)) /\ IsTeichmuller(DomainAt(r).root)
  /\ DomainAt(r).size = SizeAfter(Params, setup.domain.size, r)
  /\ DomainAt(r).size \in Nat \ {0} /\ DomainAt(r).size % 9 = 0
  /\ BoundAt(r) \in Nat /\ BoundAt(r) < DomainAt(r).size

LEMMA StirInstance ==
  ASSUME RingLaws, setup \in Setups, ValidStirInstance(Params, setup.domain, setup.degree)
  PROVE  /\ K = 9 /\ Params.shift_power = 3 /\ Rounds \in Nat
         /\ \A r \in 0 .. Rounds : DomainHolds(r)
         /\ \A r \in 0 .. Rounds - 1 :
              /\ DomainAt(r + 1) = ScaleOffset(DomainAt(r), 3)
              /\ ValidRound(Params, setup.domain, setup.degree, r)
         /\ \A r \in Nat : BoundAt(r) \in Nat /\ BoundAt(r + 1) = BoundAt(r) \div 9
         /\ BoundAt(0) = setup.degree
<1>1. /\ setup.params.stop_degree \in Nat /\ IsDomain(setup.domain)
      /\ IsTeichmuller(setup.domain.root) /\ setup.degree \in Nat
  BY SetupsAssumption
<1> DEFINE p == setup.params
           d == setup.domain
           g == setup.degree
           R == StirRoundCount(p, g)
<1>2. p.stop_degree \in Nat /\ IsDomain(d) /\ IsTeichmuller(d.root) /\ g \in Nat
      /\ ValidStirInstance(p, d, g)
  BY <1>1 DEF Params
<1>3. /\ Rounds = R /\ K = p.virtual_fold_factor /\ Params = p
      /\ \A r : DomainAt(r) = StirDomain(p, d, r) /\ BoundAt(r) = BoundAfter(p, g, r)
  BY DEF Rounds, K, Params, DomainAt, BoundAt
<1>4. \A r \in 0 .. R - 1 : ValidRound(p, d, g, r)
  BY <1>2 DEF ValidStirInstance
<1> HIDE DEF p, d, g
<1>5. /\ R \in Nat /\ p.virtual_fold_factor = 9 /\ p.shift_power = 3
      /\ \A r \in 0 .. R : DomainFits(p, d, g, r) /\ StirDomain(p, d, r).size % 9 = 0
      /\ \A r \in 0 .. R - 1 : StirDomain(p, d, r + 1) = ScaleOffset(StirDomain(p, d, r), 3)
  BY <1>2, StirDomainsFit
<1>6. /\ BoundAfter(p, g, 0) = g
      /\ \A r \in Nat : /\ BoundAfter(p, g, r) \in Nat
                        /\ BoundAfter(p, g, r + 1) = BoundAfter(p, g, r) \div 9
  BY <1>2, <1>5, BoundSteps, ZenonT(60)
<1> HIDE DEF R
<1>7. ASSUME NEW r \in 0 .. R PROVE DomainHolds(r)
  <2>1. DomainFits(p, d, g, r) /\ StirDomain(p, d, r).size % 9 = 0
    BY <1>5
  <2>2. StirDomain(p, d, r).size \in Nat \ {0}
    BY <2>1 DEF DomainFits, IsDomain
  <2>3. d = setup.domain
    BY DEF d
  <2> QED
    BY <1>3, <2>1, <2>2, <2>3 DEF DomainHolds, DomainFits
<1>8. \A r \in 0 .. Rounds : DomainHolds(r)
  BY <1>3, <1>7
<1>9. ASSUME NEW r \in 0 .. Rounds - 1
      PROVE  /\ DomainAt(r + 1) = ScaleOffset(DomainAt(r), 3)
             /\ ValidRound(Params, setup.domain, setup.degree, r)
  <2>1. r \in 0 .. R - 1
    BY <1>3
  <2>2. ValidRound(p, d, g, r) /\ StirDomain(p, d, r + 1) = ScaleOffset(StirDomain(p, d, r), 3)
    BY <1>4, <1>5, <2>1
  <2> QED
    BY <1>3, <2>2 DEF d, g
<1>10. BoundAt(0) = setup.degree
  BY <1>3, <1>6 DEF g
<1> QED
  BY <1>3, <1>5, <1>6, <1>8, <1>9, <1>10

(* The three domains of a round, and the next bound.                       *)
RoundSettled(r, ds) ==
  /\ ds = RoundDomains(Params, DomainAt(r))
  /\ ds.input = DomainAt(r) /\ ds.shift = DomainAt(r + 1) /\ ds.folded = PowMap(DomainAt(r), 9)
  /\ IsDomain(ds.input) /\ IsTeichmuller(ds.input.root)
  /\ IsDomain(ds.shift) /\ IsTeichmuller(ds.shift.root)
  /\ IsDomain(ds.folded) /\ IsTeichmuller(ds.folded.root)
  /\ ds.input.size \in Nat \ {0} /\ ds.shift.size \in Nat \ {0} /\ ds.folded.size \in Nat \ {0}
  /\ ds.input.size % 9 = 0 /\ ds.folded.size = ds.input.size \div 9
  /\ ValidRound(Params, setup.domain, setup.degree, r)

LEMMA FoldedDomain ==
  ASSUME RingLaws, NEW d, IsDomain(d), IsTeichmuller(d.root), d.size % 9 = 0
  PROVE  /\ IsDomain(PowMap(d, 9)) /\ IsTeichmuller(PowMap(d, 9).root)
         /\ PowMap(d, 9).size = d.size \div 9 /\ PowMap(d, 9).size \in Nat \ {0}
<1> DEFINE k == 9
<1>1. k \in Nat \ {0} /\ d.size % k = 0
  OBVIOUS
<1> HIDE DEF k
<1>2. IsDomain(PowMap(d, k)) /\ PowMap(d, k).size = d.size \div k /\ PowMap(d, k).root = Power(d.root, k)
  BY <1>1, PowMapIsDomain, PowMapParts
<1>3. IsTeichmuller(Power(d.root, k))
  <2>1. d.root \in Ring /\ IsUnit(d.root)
    BY DEF IsDomain
  <2> QED
    BY <1>1, <2>1, TeichmullerPower
<1>4. PowMap(d, k).size \in Nat \ {0}
  BY <1>2 DEF IsDomain
<1> QED
  BY <1>2, <1>3, <1>4 DEF k

LEMMA RoundIsSettled ==
  ASSUME RingLaws, setup \in Setups, ValidStirInstance(Params, setup.domain, setup.degree),
         NEW r \in 0 .. Rounds - 1
  PROVE  /\ RoundSettled(r, RoundDomains(Params, DomainAt(r)))
         /\ r \in Nat /\ BoundAt(r) \in Nat /\ BoundAt(r) < DomainAt(r).size
         /\ BoundAt(r + 1) \in Nat /\ BoundAt(r + 1) = BoundAt(r) \div 9
<1> DEFINE d == DomainAt(r)
           ds == RoundDomains(Params, d)
<1>1. K = 9 /\ Params.shift_power = 3 /\ Rounds \in Nat
  BY StirInstance
<1>2. r \in Nat /\ r \in 0 .. Rounds /\ r + 1 \in 0 .. Rounds
  BY <1>1
<1>3. DomainHolds(r) /\ DomainHolds(r + 1)
  BY <1>2, StirInstance
<1>4. d.size \in Nat \ {0} /\ d.size % 9 = 0 /\ IsDomain(d) /\ IsTeichmuller(d.root)
      /\ BoundAt(r) \in Nat /\ BoundAt(r) < d.size
  BY <1>3 DEF DomainHolds
<1>5. DomainAt(r + 1) = ScaleOffset(d, 3) /\ ValidRound(Params, setup.domain, setup.degree, r)
  BY StirInstance
<1>6. BoundAt(r + 1) \in Nat /\ BoundAt(r + 1) = BoundAt(r) \div 9
  BY <1>2, <1>3, StirInstance DEF DomainHolds
<1>7. /\ ds.input = d /\ ds.shift = DomainAt(r + 1) /\ ds.folded = PowMap(d, 9)
  BY <1>1, <1>5 DEF RoundDomains, K
<1>8. /\ IsDomain(PowMap(d, 9)) /\ IsTeichmuller(PowMap(d, 9).root)
      /\ PowMap(d, 9).size = d.size \div 9 /\ PowMap(d, 9).size \in Nat \ {0}
  <2> HIDE DEF d
  <2> QED
    BY <1>4, FoldedDomain
<1>9. IsDomain(DomainAt(r + 1)) /\ IsTeichmuller(DomainAt(r + 1).root)
      /\ DomainAt(r + 1).size \in Nat \ {0}
  BY <1>3 DEF DomainHolds
<1> HIDE DEF ds
<1>10. RoundSettled(r, ds)
  BY <1>4, <1>5, <1>7, <1>8, <1>9 DEF RoundSettled, ds
<1> QED
  BY <1>2, <1>4, <1>6, <1>10 DEF ds

-----------------------------------------------------------------------------
(* The setting *)

LEMMA SettingInit == Init => StirSetting
<1> SUFFICES ASSUME Init PROVE StirSetting
  OBVIOUS
<1> QED
  BY DEF Init, StirSetting

LEMMA SettingStop ==
  ASSUME StirSetting, NEW v, Stop(v)
  PROVE  StirSetting'
BY DEF StirSetting, Stop

(* What does not depend on the variables a step changes.                   *)
SameSetup == setup' = setup /\ polynomial' = polynomial

LEMMA SetupStays ==
  ASSUME SameSetup
  PROVE  /\ Params' = Params /\ K' = K /\ Rounds' = Rounds /\ MayProve' = MayProve
         /\ FinalDomain' = FinalDomain
         /\ \A r : DomainAt(r)' = DomainAt(r) /\ BoundAt(r)' = BoundAt(r)
<1>1. Params' = Params /\ K' = K
  BY DEF SameSetup, Params, K
<1>2. Rounds' = Rounds
  BY DEF SameSetup, Params, Rounds
<1>3. \A r : DomainAt(r)' = DomainAt(r) /\ BoundAt(r)' = BoundAt(r)
  BY DEF SameSetup, Params, DomainAt, BoundAt
<1>4. MayProve' = MayProve
  BY DEF SameSetup, Params, MayProve
<1>5. FinalDomain' = FinalDomain
  BY <1>1, <1>2, <1>3 DEF FinalDomain
<1> QED
  BY <1>1, <1>2, <1>3, <1>4, <1>5

(* What every action leaves of the setting's state.                        *)
LEMMA SettingAt ==
  ASSUME RingLaws, StirSetting, pc \notin {"prove", "done"}
  PROVE  /\ MayProve /\ ValidStirInstance(Params, setup.domain, setup.degree)
         /\ setup \in Setups /\ polynomial \in Polynomials
         /\ K = 9 /\ Params.shift_power = 3 /\ Rounds \in Nat /\ round \in 0 .. Rounds
<1>1. MayProve /\ setup \in Setups /\ polynomial \in Polynomials /\ round \in Nat
  BY DEF StirSetting
<1>2. ValidStirInstance(Params, setup.domain, setup.degree)
  BY <1>1 DEF MayProve
<1>3. K = 9 /\ Params.shift_power = 3 /\ Rounds \in Nat
  BY <1>1, <1>2, StirInstance
<1>4. round \in 0 .. Rounds
  BY <1>1, <1>3 DEF StirSetting
<1> QED
  BY <1>1, <1>2, <1>3, <1>4

LEMMA SettingStart ==
  ASSUME RingLaws, StirSetting, ProveStart
  PROVE  StirSetting'
<1>1. CASE MayProve
  <2>1. ValidStirInstance(Params, setup.domain, setup.degree) /\ setup \in Setups
    BY <1>1 DEF MayProve, StirSetting
  <2>2. Rounds \in Nat
    BY <2>1, StirInstance
  <2>3. /\ SameSetup /\ round' = round /\ pc = "prove"
        /\ pc' = IF Rounds = 0 THEN "finish" ELSE "fold"
    BY <1>1 DEF ProveStart, SameSetup
  <2>4. Rounds' = Rounds /\ MayProve' = MayProve
    BY <2>3, SetupStays
  <2> QED
    BY <1>1, <2>2, <2>3, <2>4 DEF StirSetting, SameSetup
<1>2. CASE ~MayProve
  <2>1. Stop("refused")
    BY <1>2 DEF ProveStart
  <2> QED
    BY <2>1, SettingStop
<1> QED
  BY <1>1, <1>2

LEMMA SettingFold ==
  ASSUME RingLaws, StirSetting, FoldRound
  PROVE  StirSetting'
<1>1. SameSetup /\ round' = round /\ pc = "fold" /\ pc' = "answer"
  BY DEF FoldRound, SameSetup
<1>2. Rounds' = Rounds /\ MayProve' = MayProve
  BY <1>1, SetupStays
<1> QED
  BY <1>1, <1>2 DEF StirSetting, SameSetup

(* A step to the next round, on either side.                               *)
LEMMA SettingAdvances ==
  ASSUME RingLaws, StirSetting, pc \in {"answer", "draw"}, SameSetup, round' = round + 1,
         \/ pc' = "done"
         \/ pc' \in {"finish", "final"} /\ round + 1 = Rounds
         \/ pc' \in {"fold", "check"} /\ round + 1 < Rounds
  PROVE  StirSetting'
<1>1. Rounds' = Rounds /\ MayProve' = MayProve
  BY SetupStays
<1>2. MayProve /\ round \in Nat /\ setup' \in Setups /\ polynomial' \in Polynomials
  BY DEF StirSetting, SameSetup
<1>3. round' \in Nat
  BY <1>2
<1> QED
  BY <1>1, <1>2, <1>3 DEF StirSetting

LEMMA SentGoesOn ==
  ASSUME RingLaws, StirSetting, pc = "answer", NEW d, NEW a, NEW fits, SendRound(d, a, fits)
  PROVE  \/ pc' = "done"
         \/ pc' = "finish" /\ round + 1 = Rounds
         \/ pc' = "fold" /\ round + 1 < Rounds
<1>1. pc' = CASE ~fits -> "done"
              [] fits /\ round + 1 = Rounds -> "finish"
              [] fits /\ round + 1 < Rounds -> "fold"
  BY DEF SendRound
<1>2. round < Rounds /\ round \in Nat /\ Rounds \in Nat
  BY SettingAt DEF StirSetting
<1>3. round + 1 = Rounds \/ round + 1 < Rounds
  BY <1>2
<1>4. CASE ~fits
  BY <1>1, <1>4
<1>5. CASE fits /\ round + 1 = Rounds
  <2>1. ~(round + 1 < Rounds)
    BY <1>2, <1>5
  <2> QED
    BY <1>1, <1>5, <2>1
<1>6. CASE fits /\ round + 1 < Rounds
  <2>1. round + 1 # Rounds
    BY <1>2, <1>6
  <2> QED
    BY <1>1, <1>6, <2>1
<1> QED
  BY <1>3, <1>4, <1>5, <1>6

LEMMA SettingAnswer ==
  ASSUME RingLaws, StirSetting, AnswerRound
  PROVE  StirSetting'
<1>1. (\E v : Stop(v)) \/ \E d, a, fits : SendRound(d, a, fits)
  BY DEF AnswerRound
<1>2. CASE \E v : Stop(v)
  BY <1>2, SettingStop
<1>3. ASSUME NEW d, NEW a, NEW fits, SendRound(d, a, fits) PROVE StirSetting'
  <2>1. pc = "answer" /\ SameSetup /\ round' = round + 1
    BY <1>3 DEF AnswerRound, SendRound, SameSetup
  <2>2. \/ pc' = "done"
        \/ pc' = "finish" /\ round + 1 = Rounds
        \/ pc' = "fold" /\ round + 1 < Rounds
    BY <1>3, <2>1, SentGoesOn
  <2> QED
    BY <2>1, <2>2, SettingAdvances
<1> QED
  BY <1>1, <1>2, <1>3

LEMMA SettingFinish ==
  ASSUME RingLaws, StirSetting, ProveFinish
  PROVE  StirSetting'
<1>1. SameSetup /\ round' = round /\ pc = "finish" /\ pc' \in {"deliver", "done"}
  BY DEF ProveFinish, SameSetup
<1>2. Rounds' = Rounds /\ MayProve' = MayProve
  BY <1>1, SetupStays
<1> QED
  BY <1>1, <1>2 DEF StirSetting, SameSetup

LEMMA SettingDeliver ==
  ASSUME RingLaws, StirSetting, pc = "deliver", NEW kind, Deliver(kind)
  PROVE  StirSetting'
<1>1. SameSetup /\ round' = 0 /\ pc' = "verify"
  BY DEF Deliver, SameSetup
<1>2. Rounds' = Rounds /\ MayProve' = MayProve
  BY <1>1, SetupStays
<1> QED
  BY <1>1, <1>2 DEF StirSetting, SameSetup

LEMMA SettingVerify ==
  ASSUME RingLaws, StirSetting, VerifyStart
  PROVE  StirSetting'
<1>1. CASE EntryHolds
  <2>1. SameSetup /\ round' = round /\ pc = "verify" /\ pc' = IF Rounds = 0 THEN "final" ELSE "check"
    BY <1>1 DEF VerifyStart, SameSetup
  <2>2. Rounds' = Rounds /\ MayProve' = MayProve
    BY <2>1, SetupStays
  <2>3. Rounds \in Nat
    BY <2>1, SettingAt
  <2> QED
    BY <2>1, <2>2, <2>3 DEF StirSetting, SameSetup
<1>2. CASE ~EntryHolds
  <2>1. Stop("reject")
    BY <1>2 DEF VerifyStart
  <2> QED
    BY <2>1, SettingStop
<1> QED
  BY <1>1, <1>2

LEMMA SettingCheck ==
  ASSUME RingLaws, StirSetting, VerifyRound
  PROVE  StirSetting'
<1>1. Stop("reject") \/ (SameSetup /\ round' = round /\ pc = "check" /\ pc' = "draw")
  BY DEF VerifyRound, SameSetup
<1>2. CASE Stop("reject")
  BY <1>2, SettingStop
<1>3. CASE SameSetup /\ round' = round /\ pc = "check" /\ pc' = "draw"
  <2>1. Rounds' = Rounds /\ MayProve' = MayProve
    BY <1>3, SetupStays
  <2> QED
    BY <1>3, <2>1 DEF StirSetting, SameSetup
<1> QED
  BY <1>1, <1>2, <1>3

LEMMA SettingDraw ==
  ASSUME RingLaws, StirSetting, DrawRound
  PROVE  StirSetting'
<1>1. \/ Stop("reject")
      \/ SameSetup /\ round' = round + 1 /\ pc' = IF round + 1 = Rounds THEN "final" ELSE "check"
  BY DEF DrawRound, AdvanceRound, SameSetup
<1>2. CASE Stop("reject")
  BY <1>2, SettingStop
<1>3. CASE SameSetup /\ round' = round + 1 /\ pc' = IF round + 1 = Rounds THEN "final" ELSE "check"
  <2>1. pc = "draw"
    BY DEF DrawRound
  <2>2. round < Rounds /\ round \in Nat /\ Rounds \in Nat
    BY <2>1, SettingAt DEF StirSetting
  <2>3. round + 1 = Rounds \/ round + 1 < Rounds
    BY <2>2
  <2> QED
    BY <1>3, <2>1, <2>3, SettingAdvances
<1> QED
  BY <1>1, <1>2, <1>3

LEMMA SettingFinal ==
  ASSUME RingLaws, StirSetting, VerifyFinal
  PROVE  StirSetting'
<1>1. Stop("reject") \/ (SameSetup /\ round' = round /\ pc = "final" /\ pc' = "done")
  BY DEF VerifyFinal, SameSetup
<1>2. CASE Stop("reject")
  BY <1>2, SettingStop
<1>3. CASE SameSetup /\ round' = round /\ pc = "final" /\ pc' = "done"
  BY <1>3 DEF StirSetting, SameSetup
<1> QED
  BY <1>1, <1>2, <1>3

LEMMA SettingStutter ==
  ASSUME StirSetting, UNCHANGED vars
  PROVE  StirSetting'
<1>1. pc' = pc /\ SameSetup /\ round' = round
  BY DEF vars, SameSetup
<1>2. Rounds' = Rounds /\ MayProve' = MayProve
  BY <1>1, SetupStays
<1> QED
  BY <1>1, <1>2 DEF StirSetting, SameSetup

LEMMA SettingKeeps ==
  ASSUME RingLaws, StirSetting, [Next]_vars
  PROVE  StirSetting'
<1>1. CASE pc = "deliver" /\ \E kind \in DamageKinds : Deliver(kind)
  BY <1>1, SettingDeliver
<1>2. CASE UNCHANGED vars \/ Return
  BY <1>2, SettingStutter DEF Return
<1> QED
  BY <1>1, <1>2, SettingStart, SettingFold, SettingAnswer, SettingFinish, SettingVerify,
     SettingCheck, SettingDraw, SettingFinal DEF Next

LEMMA SettingHolds ==
  ASSUME RingLaws
  PROVE  Spec => []StirSetting
<1>1. Init => StirSetting
  BY SettingInit
<1>2. StirSetting /\ [Next]_vars => StirSetting'
  BY SettingKeeps
<1> QED
  BY <1>1, <1>2, PTL DEF Spec

-----------------------------------------------------------------------------
(* The pool of a round in theorem mode *)

(* The ring is finite. *)
LEMMA RingFinite == IsFiniteSet(Ring) /\ Ring \in SUBSET Nat
<1> DEFINE N == Modulus^ExtensionDegree
<1>1. N \in Nat \ {0}
  BY SizesAssumption
<1>2. Ring = 0 .. N - 1
  BY DEF Ring
<1> HIDE DEF N
<1>3. IsFiniteSet(0 .. N - 1)
  BY <1>1, FS_Interval
<1> QED
  BY <1>1, <1>2, <1>3

(* Points of a domain of Teichmueller units are.                           *)
LEMMA UnitPoints ==
  ASSUME RingLaws, NEW d, IsDomain(d), InTeichmullerUnits(d)
  PROVE  DomainPoints(d) \in SUBSET TeichmullerSet
<1>1. IsTeichmullerSubset(d)
  BY DEF InTeichmullerUnits
<1>2. \A i \in 0 .. d.size - 1 : d.points[i] \in TeichmullerSet
  BY <1>1, DomainApart
<1> QED
  BY <1>2 DEF DomainPoints

(* So many points less so many leave the rest.                             *)
LEMMA LeftOver ==
  ASSUME NEW T, IsFiniteSet(T), NEW A \in SUBSET T, NEW z \in T, NEW c \in Nat,
         Cardinality(T) - 1 - Cardinality(A) >= c, NEW P, IsFiniteSet(P),
         (T \ {z}) \ A \in SUBSET P
  PROVE  Cardinality(P) >= c
<1>1. IsFiniteSet(A) /\ Cardinality(A) \in Nat /\ Cardinality(T) \in Nat
  BY FS_Subset, FS_CardinalityType
<1>2. IsFiniteSet(T \ {z}) /\ Cardinality(T \ {z}) = Cardinality(T) - 1
  BY FS_RemoveElement
<1>3. IsFiniteSet((T \ {z}) \ A)
      /\ Cardinality((T \ {z}) \ A) = Cardinality(T \ {z}) - Cardinality((T \ {z}) \cap A)
  BY <1>2, FS_Difference
<1>4. IsFiniteSet((T \ {z}) \cap A) /\ Cardinality((T \ {z}) \cap A) <= Cardinality(A)
      /\ Cardinality((T \ {z}) \cap A) \in Nat
  <2>1. (T \ {z}) \cap A \in SUBSET A
    OBVIOUS
  <2> QED
    BY <1>1, <2>1, FS_Subset, FS_CardinalityType
<1>5. Cardinality((T \ {z}) \ A) <= Cardinality(P) /\ Cardinality((T \ {z}) \ A) \in Nat
      /\ Cardinality(P) \in Nat
  BY <1>3, FS_Subset, FS_CardinalityType
<1> QED
  BY <1>1, <1>2, <1>3, <1>4, <1>5

(* Capacity is what is left of the Teichmueller units.                     *)
LEMMA PoolIsLarge ==
  ASSUME RingLaws, NEW ds, IsDomain(ds.input), IsDomain(ds.shift), IsDomain(ds.folded),
         NEW c \in Nat, PoolHasCapacity(ds, c)
  PROVE  /\ IsFiniteSet(SafeComplement(ds, {})) /\ SafeComplement(ds, {}) \in SUBSET TeichmullerSet
         /\ Cardinality(SafeComplement(ds, {})) >= c
<1> DEFINE A == AllPoints3(ds)
           P == SafeComplement(ds, {})
           T == TeichmullerSet
<1>1. IsFiniteSet(T) /\ 0 \in T /\ T \in SUBSET Ring
  <2>1. T \in SUBSET Ring
    BY DEF TeichmullerSet
  <2>2. 0 \in T
    BY DEF TeichmullerSet, IsTeichmuller, RingLaws, Closed
  <2> QED
    BY <2>1, <2>2, RingFinite, FS_Subset
<1>2. A \in SUBSET T
  <2>1. /\ InTeichmullerUnits(ds.input) /\ InTeichmullerUnits(ds.shift)
        /\ InTeichmullerUnits(ds.folded)
    BY DEF PoolHasCapacity
  <2> QED
    BY <2>1, UnitPoints DEF AllPoints3
<1>3. Cardinality(T) - 1 - Cardinality(A) >= c
  BY DEF PoolHasCapacity
<1>4. P \in SUBSET T
  BY DEF SafeComplement
<1>5. IsFiniteSet(P)
  BY <1>1, <1>4, FS_Subset
<1>6. ASSUME NEW x \in (T \ {0}) \ A PROVE x \in P
  <2>1. \A y \in A : IsUnit(Minus(x, y))
    BY <1>2, TeichmullerAssumption
  <2> QED
    BY <2>1 DEF SafeComplement, ExceptionalAgainst
<1>7. (T \ {0}) \ A \in SUBSET P
  BY <1>6
<1> HIDE DEF A, P, T
<1>8. Cardinality(P) >= c
  BY <1>1, <1>2, <1>3, <1>5, <1>7, LeftOver
<1> QED
  BY <1>4, <1>5, <1>8 DEF P, T

(* ShakePoolNeverEmpty: validate's count of the Teichmueller units outside *)
(* a round's domains leaves, beyond the out-of-domain points of            *)
(* derive_ood_points, one for the shake, in every round that is answered.  *)
LEMMA PoolNeverEmpty ==
  ASSUME RingLaws, StirSetting
  PROVE  ShakePoolNeverEmpty
<1> SUFFICES ASSUME pc = "answer", Params.protocol_mode = "TheoremGr"
             PROVE  Cardinality(SafeComplement(RoundDomains(Params, DomainAt(round)), {}))
                      > Params.ood_samples
  BY DEF ShakePoolNeverEmpty
<1> DEFINE ds == RoundDomains(Params, DomainAt(round))
           n == Params.ood_samples
<1>1. /\ setup \in Setups /\ ValidStirInstance(Params, setup.domain, setup.degree)
      /\ round \in 0 .. Rounds - 1
  BY SettingAt DEF StirSetting
<1>2. RoundSettled(round, ds)
  BY <1>1, RoundIsSettled
<1>3. n \in Nat
  BY <1>1, SetupsAssumption DEF Params
<1>4. PoolHasCapacity(ds, n + 1)
  <2>1. ValidRound(Params, setup.domain, setup.degree, round)
    BY <1>2 DEF RoundSettled
  <2> QED
    BY <2>1 DEF ValidRound, DomainAt
<1> DEFINE c == n + 1
<1>5. c \in Nat /\ PoolHasCapacity(ds, c) /\ c > n
  BY <1>3, <1>4
<1>6. IsDomain(ds.input) /\ IsDomain(ds.shift) /\ IsDomain(ds.folded)
  BY <1>2 DEF RoundSettled
<1>7. Cardinality(SafeComplement(ds, {})) >= c /\ Cardinality(SafeComplement(ds, {})) \in Nat
  <2> HIDE DEF c, ds
  <2> QED
    BY <1>5, <1>6, PoolIsLarge, FS_CardinalityType
<1> QED
  BY <1>3, <1>5, <1>7

THEOREM ShakePoolLeavesOne ==
  ASSUME RingLaws
  PROVE  Spec => []ShakePoolNeverEmpty
<1>1. StirSetting => ShakePoolNeverEmpty
  BY PoolNeverEmpty
<1> QED
  BY <1>1, SettingHolds, PTL

-----------------------------------------------------------------------------
(* Sums, differences and products of polynomials *)

(* Terms of zero at the end of a sum count nothing.                        *)
LEMMA SumTrailingZeros ==
  ASSUME RingLaws, NEW n \in Nat, NEW m \in Nat, NEW f, \A i \in 0 .. n - 1 : f[i] \in Ring,
         \A i \in n .. n + m - 1 : f[i] = 0
  PROVE  RingSum(f, n + m) = RingSum(f, n)
<1> DEFINE g == [i \in 0 .. m - 1 |-> f[n + i]]
<1>1. \A i \in 0 .. n + m - 1 : f[i] \in Ring
  <2>1. 0 \in Ring
    BY DEF RingLaws, Closed
  <2>2. \A i \in 0 .. n + m - 1 : i \in 0 .. n - 1 \/ i \in n .. n + m - 1
    OBVIOUS
  <2> QED
    BY <2>1, <2>2
<1>2. \A i \in 0 .. m - 1 : g[i] = f[n + i] /\ g[i] = 0
  <2>1. \A i \in 0 .. m - 1 : n + i \in n .. n + m - 1
    OBVIOUS
  <2> QED
    BY <2>1
<1> HIDE DEF g
<1>3. RingSum(f, n + m) = Plus(RingSum(f, n), RingSum(g, m))
  BY <1>1, <1>2, SumSplit
<1>4. RingSum(g, m) = 0
  BY <1>2, SumOfZeros
<1>5. RingSum(f, n) \in Ring
  BY SumSteps
<1> QED
  BY <1>3, <1>4, <1>5 DEF RingLaws, Additive

(* A polynomial's value, from more coefficients than it has.               *)
LEMMA LongerValue ==
  ASSUME RingLaws, NEW f, IsPolynomial(f), NEW n \in Nat, f.size <= n, NEW z \in Ring
  PROVE  Value(Coefficients(f), n, z) = Evaluate(f, z) /\ Evaluate(f, z) \in Ring
<1>1. Coefficients(f) \in Coeffs /\ f.size \in Nat
  BY CoefficientsInRing DEF IsPolynomial
<1>2. \A i \in f.size .. n - 1 : Coefficients(f)[i] = 0
  BY <1>1 DEF Coefficients
<1>3. Value(Coefficients(f), n, z) = Value(Coefficients(f), f.size, z)
  BY <1>1, <1>2, ValueLeadingZeros
<1> QED
  BY <1>3, EvaluateIsValue

LEMMA CoefficientIs ==
  ASSUME NEW f, NEW i \in Nat
  PROVE  Coefficient(f, i) = Coefficients(f)[i]
BY DEF Coefficient, Coefficients

LEMMA LongerIs ==
  ASSUME NEW f, IsPolynomial(f), NEW g, IsPolynomial(g)
  PROVE  Longer(f, g) \in Nat /\ f.size <= Longer(f, g) /\ g.size <= Longer(f, g)
         /\ (Longer(f, g) = f.size \/ Longer(f, g) = g.size)
BY DEF Longer, IsPolynomial

(* SubtractPolynomials subtracts the values.                               *)
LEMMA DifferenceOfPolynomials ==
  ASSUME RingLaws, NEW f, IsPolynomial(f), NEW g, IsPolynomial(g)
  PROVE  /\ IsPolynomial(SubtractPolynomials(f, g))
         /\ SubtractPolynomials(f, g).size <= Longer(f, g)
         /\ \A z \in Ring : Evaluate(SubtractPolynomials(f, g), z) = Minus(Evaluate(f, z), Evaluate(g, z))
<1> DEFINE n  == Longer(f, g)
           F  == Coefficients(f)
           G  == Coefficients(g)
           c  == [i \in Nat |-> Minus(F[i], G[i])]
           at == [i \in 0 .. n - 1 |-> Minus(Coefficient(f, i), Coefficient(g, i))]
           h  == Trim(n, at)
<1>1. n \in Nat /\ f.size <= n /\ g.size <= n
  BY LongerIs
<1>2. F \in Coeffs /\ G \in Coeffs
  BY CoefficientsInRing
<1>3. c \in Coeffs /\ \A i \in Nat : F[i] = Plus(c[i], G[i])
  <2>1. \A i \in Nat : F[i] \in Ring /\ G[i] \in Ring
    BY <1>2 DEF Coeffs
  <2> HIDE DEF F, G
  <2> QED
    BY <2>1 DEF Coeffs, RingLaws, Closed, Additive
<1>4. \A i \in Nat : i < n => at[i] = c[i]
  <2> HIDE DEF n
  <2> QED
    BY <1>1, CoefficientIs
<1>5. SubtractPolynomials(f, g) = h
  BY DEF SubtractPolynomials
<1> HIDE DEF n, F, G, c, at
<1>6. IsPolynomial(h) /\ h.size <= n
  <2>1. IsPolynomial(h)
    BY <1>1, <1>3, <1>4, TrimCoefficients
  <2>2. h.size \in 0 .. n
    BY <1>1, TrimIs
  <2> QED
    BY <1>1, <2>1, <2>2
<1>7. ASSUME NEW z \in Ring PROVE Evaluate(h, z) = Minus(Evaluate(f, z), Evaluate(g, z))
  <2>1. Evaluate(h, z) = Value(c, n, z)
    BY <1>1, <1>3, <1>4, TrimCoefficients
  <2>2. /\ Value(F, n, z) = Evaluate(f, z) /\ Evaluate(f, z) \in Ring
        /\ Value(G, n, z) = Evaluate(g, z) /\ Evaluate(g, z) \in Ring
    BY <1>1, LongerValue DEF F, G
  <2>3. Value(F, n, z) = Plus(Value(c, n, z), Value(G, n, z))
    BY <1>1, <1>2, <1>3, ValueOfSum
  <2>4. Value(c, n, z) \in Ring
    BY <1>1, <1>3, ValueSteps
  <2> QED
    BY <2>1, <2>2, <2>3, <2>4, DifferenceIs
<1> QED
  BY <1>5, <1>6, <1>7 DEF n

(* AddPolynomials adds them.                                               *)
LEMMA SumOfPolynomials ==
  ASSUME RingLaws, NEW f, IsPolynomial(f), NEW g, IsPolynomial(g)
  PROVE  /\ IsPolynomial(AddPolynomials(f, g)) /\ AddPolynomials(f, g).size <= Longer(f, g)
         /\ \A z \in Ring : Evaluate(AddPolynomials(f, g), z) = Plus(Evaluate(f, z), Evaluate(g, z))
<1> DEFINE n  == Longer(f, g)
           F  == Coefficients(f)
           G  == Coefficients(g)
           c  == [i \in Nat |-> Plus(F[i], G[i])]
           at == [i \in 0 .. n - 1 |-> Plus(Coefficient(f, i), Coefficient(g, i))]
           h  == Trim(n, at)
<1>1. n \in Nat /\ f.size <= n /\ g.size <= n
  BY LongerIs
<1>2. F \in Coeffs /\ G \in Coeffs
  BY CoefficientsInRing
<1>3. c \in Coeffs /\ \A i \in Nat : c[i] = Plus(F[i], G[i])
  <2>1. \A i \in Nat : F[i] \in Ring /\ G[i] \in Ring
    BY <1>2 DEF Coeffs
  <2> HIDE DEF F, G
  <2> QED
    BY <2>1 DEF Coeffs, RingLaws, Closed
<1>4. \A i \in Nat : i < n => at[i] = c[i]
  <2> HIDE DEF n
  <2> QED
    BY <1>1, CoefficientIs
<1>5. AddPolynomials(f, g) = h
  BY DEF AddPolynomials
<1> HIDE DEF n, F, G, c, at
<1>6. IsPolynomial(h) /\ h.size <= n
  <2>1. IsPolynomial(h)
    BY <1>1, <1>3, <1>4, TrimCoefficients
  <2>2. h.size \in 0 .. n
    BY <1>1, TrimIs
  <2> QED
    BY <1>1, <2>1, <2>2
<1>7. ASSUME NEW z \in Ring PROVE Evaluate(h, z) = Plus(Evaluate(f, z), Evaluate(g, z))
  <2>1. Evaluate(h, z) = Value(c, n, z)
    BY <1>1, <1>3, <1>4, TrimCoefficients
  <2>2. Value(F, n, z) = Evaluate(f, z) /\ Value(G, n, z) = Evaluate(g, z)
    BY <1>1, LongerValue DEF F, G
  <2>3. Value(c, n, z) = Plus(Value(F, n, z), Value(G, n, z))
    BY <1>1, <1>2, <1>3, ValueOfSum
  <2> QED
    BY <2>1, <2>2, <2>3
<1> QED
  BY <1>5, <1>6, <1>7 DEF n

(* Coefficients j places further up.                                       *)
Delayed(G, j) == [t \in Nat |-> IF t < j THEN 0 ELSE G[t - j]]

LEMMA DelayedValue ==
  ASSUME RingLaws, NEW G \in Coeffs, NEW j \in Nat, NEW m \in Nat, NEW z \in Ring
  PROVE  /\ Delayed(G, j) \in Coeffs
         /\ Value(Delayed(G, j), j + m, z) = Times(Power(z, j), Value(G, m, z))
<1> DEFINE c == Delayed(G, j)
<1>1. c \in Coeffs
  <2>1. \A t \in Nat : ~(t < j) => t - j \in Nat
    OBVIOUS
  <2> QED
    BY <2>1 DEF Delayed, Coeffs, RingLaws, Closed
<1>2. \A i \in 0 .. j - 1 : c[i] = 0
  BY DEF Delayed
<1>3. Shift(c, j) \in Coeffs /\ \A t \in Nat : Shift(c, j)[t] = G[t]
  <2>1. Shift(c, j) \in Coeffs /\ \A t \in Nat : Shift(c, j)[t] = c[j + t]
    <3> HIDE DEF c
    <3> QED
      BY <1>1, ShiftInRing
  <2>2. \A t \in Nat : c[j + t] = G[t]
    <3>1. \A t \in Nat : j + t \in Nat /\ ~(j + t < j) /\ (j + t) - j = t
      OBVIOUS
    <3> QED
      BY <3>1 DEF Delayed
  <2> QED
    BY <2>1, <2>2
<1> HIDE DEF c
<1>4. Value(c, j + m, z) = Plus(Value(c, j, z), Times(Power(z, j), Value(Shift(c, j), m, z)))
  BY <1>1, ValueSplit
<1>5. Value(c, j, z) = 0
  <2>1. 0 \in Nat /\ 0 <= j
    OBVIOUS
  <2>2. Value(c, j, z) = Value(c, 0, z)
    BY <1>1, <1>2, <2>1, ValueLeadingZeros
  <2> QED
    BY <1>1, <2>1, <2>2, ValueSteps
<1>6. Value(Shift(c, j), m, z) = Value(G, m, z)
  BY <1>3, ValueSame
<1>7. Times(Power(z, j), Value(G, m, z)) \in Ring
  <2>1. Power(z, j) \in Ring /\ Value(G, m, z) \in Ring
    BY PowerSteps, ValueSteps
  <2> QED
    BY <2>1 DEF RingLaws, Closed
<1>8. \A x \in Ring : Plus(0, x) = x
  BY DEF RingLaws, Closed, Additive
<1> QED
  BY <1>1, <1>4, <1>5, <1>6, <1>7, <1>8 DEF c

(* The coefficients of a product: as a sum of multiples of one factor.     *)
LEMMA ProductCoefficient ==
  ASSUME RingLaws, NEW F \in Coeffs, NEW n \in Nat, \A i \in Nat : n <= i => F[i] = 0,
         NEW G \in Coeffs, NEW t \in Nat, NEW prods,
         \A j \in 0 .. t : prods[j] = Times(F[j], G[t - j]),
         NEW parts, \A j \in 0 .. n - 1 : parts[j] = Times(Delayed(G, j)[t], F[j])
  PROVE  RingSum(prods, t + 1) = RingSum(parts, n)
<1> DEFINE H == [j \in Nat |-> IF j <= t THEN Times(F[j], G[t - j]) ELSE 0]
           T1 == t + 1
<1>1. 0 \in Ring /\ \A j \in Nat : F[j] \in Ring /\ G[j] \in Ring
  BY DEF RingLaws, Closed, Coeffs
<1>2. \A j \in Nat : H[j] \in Ring
  <2>1. ASSUME NEW j \in Nat PROVE H[j] \in Ring
    <3>1. CASE j <= t
      <4>1. t - j \in Nat
        BY <3>1
      <4>2. Times(F[j], G[t - j]) \in Ring
        BY <1>1, <4>1 DEF RingLaws, Closed
      <4> QED
        BY <3>1, <4>2
    <3>2. CASE ~(j <= t)
      BY <1>1, <3>2
    <3> QED
      BY <3>1, <3>2
  <2> QED
    BY <2>1
<1>3. \A j \in Nat : n <= j => H[j] = 0
  <2>1. ASSUME NEW j \in Nat, n <= j, j <= t PROVE H[j] = 0
    <3>1. t - j \in Nat /\ F[j] = 0
      BY <2>1
    <3>2. Times(0, G[t - j]) = 0
      BY <1>1, <3>1, TimesZero
    <3> QED
      BY <2>1, <3>1, <3>2
  <2>2. ASSUME NEW j \in Nat, ~(j <= t) PROVE H[j] = 0
    BY <2>2
  <2> QED
    BY <2>1, <2>2
<1>4. \A j \in Nat : T1 <= j => H[j] = 0
  OBVIOUS
<1>5. T1 \in Nat
  OBVIOUS
<1>6. RingSum(prods, T1) = RingSum(H, T1)
  <2>1. \A j \in 0 .. T1 - 1 : H[j] = prods[j] /\ H[j] \in Ring
    <3>1. \A j \in 0 .. T1 - 1 : j \in 0 .. t /\ j \in Nat /\ j <= t
      OBVIOUS
    <3> QED
      BY <1>2, <3>1
  <2> HIDE DEF H, T1
  <2> QED
    BY <1>5, <2>1, SumSame
<1>7. RingSum(parts, n) = RingSum(H, n)
  <2>1. ASSUME NEW j \in 0 .. n - 1 PROVE H[j] = parts[j]
    <3>1. j \in Nat /\ parts[j] = Times(Delayed(G, j)[t], F[j])
      OBVIOUS
    <3>2. CASE j <= t
      <4>1. t - j \in Nat /\ Delayed(G, j)[t] = G[t - j]
        BY <3>1, <3>2 DEF Delayed
      <4>2. Times(F[j], G[t - j]) = Times(G[t - j], F[j])
        BY <1>1, <3>1, <4>1 DEF RingLaws, Multiplicative
      <4> QED
        BY <3>1, <3>2, <4>1, <4>2
    <3>3. CASE ~(j <= t)
      <4>1. Delayed(G, j)[t] = 0
        BY <3>1, <3>3 DEF Delayed
      <4>2. Times(0, F[j]) = 0
        BY <1>1, <3>1, TimesZero
      <4> QED
        BY <3>1, <3>3, <4>1, <4>2
    <3> QED
      BY <3>2, <3>3
  <2>2. \A j \in 0 .. n - 1 : H[j] \in Ring /\ H[j] = parts[j]
    BY <1>2, <2>1
  <2> HIDE DEF H
  <2> QED
    BY <2>2, SumSame
<1> HIDE DEF H, T1
<1>8. RingSum(H, n + T1) = RingSum(H, n)
  <2>1. \A i \in 0 .. n - 1 : H[i] \in Ring
    BY <1>2
  <2>2. \A i \in n .. n + T1 - 1 : H[i] = 0
    BY <1>3, <1>5
  <2> QED
    BY <1>5, <2>1, <2>2, SumTrailingZeros
<1>9. RingSum(H, T1 + n) = RingSum(H, T1)
  <2>1. \A i \in 0 .. T1 - 1 : H[i] \in Ring
    BY <1>2, <1>5
  <2>2. \A i \in T1 .. T1 + n - 1 : H[i] = 0
    BY <1>4, <1>5
  <2> QED
    BY <1>5, <2>1, <2>2, SumTrailingZeros
<1>10. n + T1 = T1 + n
  BY <1>5
<1> QED
  BY <1>6, <1>7, <1>8, <1>9, <1>10 DEF T1

(* Multiply multiplies the values; the degrees add up.                     *)
LEMMA ProductOfPolynomials ==
  ASSUME RingLaws, NEW f, IsPolynomial(f), NEW g, IsPolynomial(g)
  PROVE  /\ IsPolynomial(Multiply(f, g))
         /\ \/ Multiply(f, g).size = 0
            \/ f.size # 0 /\ g.size # 0 /\ Multiply(f, g).size + 1 <= f.size + g.size
         /\ \A z \in Ring : Evaluate(Multiply(f, g), z) = Times(Evaluate(f, z), Evaluate(g, z))
<1>0. f.size \in Nat /\ g.size \in Nat
  BY DEF IsPolynomial
<1>1. CASE f.size = 0 \/ g.size = 0
  <2>1. Multiply(f, g) = ZeroPolynomial /\ ZeroPolynomial.size = 0
    BY <1>1 DEF Multiply, ZeroPolynomial
  <2>2. IsPolynomial(ZeroPolynomial)
    BY <2>1 DEF IsPolynomial
  <2>3. \A p : IsPolynomial(p) /\ p.size = 0 => \A z \in Ring : Evaluate(p, z) = 0
    BY CoefficientsInRing, EvaluateIsValue, ValueSteps
  <2>4. ASSUME NEW z \in Ring PROVE Evaluate(ZeroPolynomial, z) = Times(Evaluate(f, z), Evaluate(g, z))
    <3>1. Evaluate(f, z) = 0 \/ Evaluate(g, z) = 0
      BY <1>1, <2>3
    <3>2. Evaluate(f, z) \in Ring /\ Evaluate(g, z) \in Ring
      BY EvaluateIsValue
    <3>3. Evaluate(ZeroPolynomial, z) = 0
      BY <2>1, <2>2, <2>3
    <3> QED
      BY <3>1, <3>2, <3>3, TimesZero
  <2> QED
    BY <2>1, <2>2, <2>4
<1>2. CASE f.size # 0 /\ g.size # 0
  <2> DEFINE n == f.size + g.size - 1
             N == f.size
             F == Coefficients(f)
             G == Coefficients(g)
             prods(i) == [j \in 0 .. i |-> Times(Coefficient(f, j), Coefficient(g, i - j))]
             at == [i \in 0 .. n - 1 |-> RingSum(prods(i), i + 1)]
             basis == [j \in 0 .. N - 1 |-> Delayed(G, j)]
             scale == [j \in 0 .. N - 1 |-> F[j]]
             c == Combined(basis, scale, N, N)
             h == Trim(n, at)
  <2>1. n \in Nat /\ N \in Nat
    BY <1>0, <1>2
  <2>2. F \in Coeffs /\ G \in Coeffs /\ \A i \in Nat : N <= i => F[i] = 0
    <3>1. \A i \in Nat : N <= i => F[i] = 0
      BY <1>0 DEF Coefficients
    <3> QED
      BY <3>1, CoefficientsInRing
  <2>3. Multiply(f, g) = h
    BY <1>2, TabulatedIs DEF Multiply
  <2>4. \A j \in 0 .. N - 1 : /\ basis[j] = Delayed(G, j) /\ basis[j] \in Coeffs
                              /\ scale[j] = F[j] /\ scale[j] \in Ring
    <3>1. ASSUME NEW j \in 0 .. N - 1 PROVE Delayed(G, j) \in Coeffs /\ F[j] \in Ring
      <4>1. j \in Nat /\ 0 \in Nat /\ 0 \in Ring
        BY DEF RingLaws, Closed
      <4>2. Delayed(G, j) \in Coeffs
        <5> HIDE DEF G
        <5> QED
          BY <2>2, <4>1, DelayedValue
      <4>3. F[j] \in Ring
        <5> HIDE DEF F
        <5> QED
          BY <2>2, <4>1 DEF Coeffs
      <4> QED
        BY <4>2, <4>3
    <3> QED
      BY <3>1
  <2>5. ASSUME NEW t \in Nat, t < n PROVE at[t] = c[t]
    <3> DEFINE parts == [i \in 0 .. N - 1 |-> Times(basis[i][t], scale[i])]
               pt == prods(t)
    <3>1. at[t] = RingSum(pt, t + 1)
      <4>1. t \in 0 .. n - 1
        BY <2>1, <2>5
      <4> HIDE DEF n
      <4> QED
        BY <4>1
    <3>2. c[t] = RingSum(parts, N)
      BY DEF Combined
    <3>3. \A j \in 0 .. t : pt[j] = Times(F[j], G[t - j])
      <4>1. \A j \in 0 .. t : j \in Nat /\ t - j \in Nat
        OBVIOUS
      <4> HIDE DEF F, G
      <4> QED
        BY <4>1, CoefficientIs DEF F, G
    <3>4. \A j \in 0 .. N - 1 : parts[j] = Times(Delayed(G, j)[t], F[j])
      <4> HIDE DEF basis, scale
      <4> QED
        BY <2>4
    <3> HIDE DEF parts, pt, F, G, N, n, at, c
    <3>5. RingSum(pt, t + 1) = RingSum(parts, N)
      BY <2>1, <2>2, <3>3, <3>4, ProductCoefficient
    <3> QED
      BY <3>1, <3>2, <3>5
  <2> HIDE DEF basis, scale, c, at, F, G
  <2>6. c \in Coeffs
    <3>1. 0 \in Ring
      BY DEF RingLaws, Closed
    <3> HIDE DEF n, N
    <3>2. \A j \in 0 .. N - 1 : basis[j] \in Coeffs /\ scale[j] \in Ring
      BY <2>4
    <3> QED
      BY <2>1, <3>1, <3>2, CombinedValue DEF c
  <2>7. IsPolynomial(h) /\ h.size <= n
    <3> HIDE DEF n, N
    <3>1. IsPolynomial(h)
      BY <2>1, <2>5, <2>6, TrimCoefficients
    <3>2. h.size \in 0 .. n
      BY <2>1, TrimIs
    <3> QED
      BY <2>1, <3>1, <3>2
  <2>8. ASSUME NEW z \in Ring PROVE Evaluate(h, z) = Times(Evaluate(f, z), Evaluate(g, z))
    <3> DEFINE V == Evaluate(g, z)
               terms == [i \in 0 .. N - 1 |-> Times(scale[i], Value(basis[i], n, z))]
    <3>1. Evaluate(h, z) = Value(c, n, z)
      <4> HIDE DEF n, N
      <4> QED
        BY <2>1, <2>5, <2>6, TrimCoefficients
    <3>2. Value(c, n, z) = RingSum(terms, N)
      <4> HIDE DEF n, N
      <4>1. \A j \in 0 .. N - 1 : basis[j] \in Coeffs /\ scale[j] \in Ring
        BY <2>4
      <4> QED
        BY <2>1, <4>1, CombinedValue DEF c
    <3>3. V \in Ring
      BY EvaluateIsValue
    <3>4. ASSUME NEW j \in 0 .. N - 1
          PROVE  Terms(F, z)[j] \in Ring /\ terms[j] = Times(V, Terms(F, z)[j])
      <4> DEFINE m == n - j
      <4>1. j \in Nat /\ m \in Nat /\ g.size <= m /\ j + m = n
        BY <1>0, <1>2
      <4>2. Value(Delayed(G, j), j + m, z) = Times(Power(z, j), Value(G, m, z))
        <5> HIDE DEF m
        <5> QED
          BY <2>2, <4>1, DelayedValue
      <4>3. Value(G, m, z) = V
        <5> HIDE DEF m
        <5> QED
          BY <4>1, LongerValue DEF G
      <4>4. Power(z, j) \in Ring /\ F[j] \in Ring
        <5>1. F[j] \in Ring
          BY <2>2, <4>1 DEF Coeffs
        <5> QED
          BY <4>1, <5>1, PowerSteps
      <4>5. terms[j] = Times(F[j], Value(Delayed(G, j), n, z))
        BY <2>4
      <4>6. terms[j] = Times(F[j], Times(Power(z, j), V))
        BY <4>1, <4>2, <4>3, <4>5
      <4>7. Terms(F, z)[j] = Times(F[j], Power(z, j)) /\ Terms(F, z)[j] \in Ring
        BY <2>2, <4>1, TermsInRing
      <4>8. Times(F[j], Times(Power(z, j), V)) = Times(V, Times(F[j], Power(z, j)))
        <5>1. \A a, b \in Ring : Times(a, b) \in Ring /\ Times(a, b) = Times(b, a)
          BY DEF RingLaws, Closed, Multiplicative
        <5>2. \A a, b, d \in Ring : Times(Times(a, b), d) = Times(a, Times(b, d))
          BY DEF RingLaws, Multiplicative
        <5> DEFINE a == F[j]
                   b == Power(z, j)
        <5> HIDE DEF V, a, b
        <5>3. V \in Ring /\ a \in Ring /\ b \in Ring
          BY <3>3, <4>4 DEF a, b
        <5>4. Times(b, V) \in Ring /\ Times(a, b) \in Ring /\ Times(Times(a, b), V) = Times(V, Times(a, b))
          BY <5>1, <5>3
        <5>5. Times(a, Times(b, V)) = Times(Times(a, b), V)
          BY <5>2, <5>3
        <5> QED
          BY <5>4, <5>5 DEF a, b
      <4> QED
        BY <4>6, <4>7, <4>8
    <3>5. RingSum(terms, N) = Times(V, RingSum(Terms(F, z), N))
      <4> HIDE DEF V, terms, N
      <4> QED
        BY <2>1, <3>3, <3>4, SumOfMultiples
    <3>6. RingSum(Terms(F, z), N) = Evaluate(f, z) /\ Evaluate(f, z) \in Ring
      BY EvaluateIsValue DEF F, Value
    <3>7. Times(V, Evaluate(f, z)) = Times(Evaluate(f, z), V)
      BY <3>3, <3>6 DEF RingLaws, Multiplicative
    <3> QED
      BY <3>1, <3>2, <3>5, <3>6, <3>7
  <2>9. h.size + 1 <= f.size + g.size
    <3>1. h.size \in Nat
      BY <2>7 DEF IsPolynomial
    <3> HIDE DEF h
    <3> QED
      BY <1>0, <1>2, <2>7, <3>1
  <2> HIDE DEF h, n, N
  <2> QED
    BY <1>2, <2>3, <2>7, <2>8, <2>9
<1> QED
  BY <1>1, <1>2

-----------------------------------------------------------------------------
(* Scaling, vanishing polynomial, answers and their quotient *)

(* 1 + y + ... + y^gap. *)
Geometric(y, gap) == RingSum([e \in 0 .. gap |-> Power(y, e)], gap + 1)

(* ScalingPolynomial is the geometric sum at x r.                          *)
LEMMA ScalingIs ==
  ASSUME RingLaws, NEW target \in Nat, NEW low \in Nat, low <= target, NEW r \in Ring
  PROVE  /\ IsPolynomial(ScalingPolynomial(target, low, r))
         /\ ScalingPolynomial(target, low, r).size <= target - low + 1
         /\ \A z \in Ring : /\ Evaluate(ScalingPolynomial(target, low, r), z)
                                 = Geometric(Times(z, r), target - low)
                            /\ Geometric(Times(z, r), target - low) \in Ring
<1> DEFINE gap == target - low
           n   == gap + 1
           at  == [i \in 0 .. gap |-> Power(r, i)]
           c   == [i \in Nat |-> Power(r, i)]
           h   == Trim(n, at)
<1>1. gap \in Nat /\ n \in Nat
  OBVIOUS
<1>2. \A e \in Nat : Power(r, e) \in Ring
  BY PowerSteps
<1>3. c \in Coeffs /\ \A i \in Nat : c[i] = Power(r, i)
  BY <1>2 DEF Coeffs
<1>4. \A i \in Nat : i < n => at[i] = c[i]
  OBVIOUS
<1>5. ScalingPolynomial(target, low, r) = h
  BY DEF ScalingPolynomial
<1> HIDE DEF c, at
<1>6. IsPolynomial(h) /\ h.size <= n
  <2> HIDE DEF n
  <2>1. IsPolynomial(h)
    BY <1>1, <1>3, <1>4, TrimCoefficients
  <2>2. h.size \in 0 .. n
    BY <1>1, TrimIs
  <2> QED
    BY <1>1, <2>1, <2>2
<1>7. ASSUME NEW z \in Ring
      PROVE  Evaluate(h, z) = Geometric(Times(z, r), gap) /\ Geometric(Times(z, r), gap) \in Ring
  <2> DEFINE y == Times(z, r)
             f == [e \in 0 .. gap |-> Power(y, e)]
  <2>1. Evaluate(h, z) = Value(c, n, z)
    <3> HIDE DEF n
    <3> QED
      BY <1>1, <1>3, <1>4, TrimCoefficients
  <2>2. y \in Ring
    BY DEF RingLaws, Closed
  <2>3. ASSUME NEW e \in 0 .. n - 1 PROVE f[e] = Terms(c, z)[e] /\ f[e] \in Ring
    <3>1. e \in Nat /\ e \in 0 .. gap
      OBVIOUS
    <3>2. Power(z, e) \in Ring /\ Power(r, e) \in Ring /\ Power(y, e) \in Ring
      <4> HIDE DEF y
      <4> QED
        BY <2>2, <3>1, PowerSteps
    <3>3. Power(y, e) = Times(Power(z, e), Power(r, e))
      BY <3>1, PowerOfProduct
    <3>4. Times(Power(z, e), Power(r, e)) = Times(Power(r, e), Power(z, e))
      BY <3>2 DEF RingLaws, Multiplicative
    <3>5. Terms(c, z)[e] = Times(c[e], Power(z, e))
      BY <1>3, <3>1, TermsInRing
    <3> QED
      BY <1>3, <3>1, <3>2, <3>3, <3>4, <3>5
  <2>4. RingSum(f, n) = RingSum(Terms(c, z), n)
    <3> HIDE DEF f, n
    <3> QED
      BY <1>1, <2>3, SumSame
  <2>5. RingSum(f, n) \in Ring
    <3>1. \A i \in 0 .. n - 1 : f[i] \in Ring
      BY <2>3
    <3>2. n \in 0 .. n
      OBVIOUS
    <3> HIDE DEF f, n
    <3> QED
      BY <1>1, <3>1, <3>2, SumSteps
  <2>6. Geometric(y, gap) = RingSum(f, n)
    BY DEF Geometric
  <2> QED
    BY <2>1, <2>4, <2>5, <2>6 DEF Value
<1> QED
  BY <1>5, <1>6, <1>7

(* The factors of the vanishing polynomial of a sequence of points.        *)
Below(points, z) == [i \in 0 .. Len(points) - 1 |-> Minus(z, points[i + 1])]
BelowAt(points, z) == RingProduct(Below(points, z), Len(points))

PointsInRing(points) == points \in Seq(Ring)

LEMMA FromZeroIs ==
  ASSUME NEW S, NEW points \in Seq(S)
  PROVE  /\ Len(points) \in Nat /\ DOMAIN points = 1 .. Len(points)
         /\ \A i \in 0 .. Len(points) - 1 : /\ i + 1 \in 1 .. Len(points)
                                            /\ FromZero(points)[i] = points[i + 1]
                                            /\ points[i + 1] \in S
BY DEF FromZero

LEMMA BelowInRing ==
  ASSUME RingLaws, NEW points \in Seq(Ring), NEW z \in Ring
  PROVE  /\ Len(points) \in Nat
         /\ \A i \in 0 .. Len(points) - 1 : /\ Below(points, z)[i] \in Ring
                                            /\ Below(points, z)[i] = Minus(z, points[i + 1])
         /\ \A m \in 0 .. Len(points) : RingProduct(Below(points, z), m) \in Ring
         /\ BelowAt(points, z) \in Ring
<1> DEFINE n == Len(points)
           b == Below(points, z)
<1>1. n \in Nat /\ n \in 0 .. n
  OBVIOUS
<1>2. ASSUME NEW i \in 0 .. n - 1 PROVE b[i] \in Ring /\ b[i] = Minus(z, points[i + 1])
  <2>1. points[i + 1] \in Ring
    BY FromZeroIs
  <2> QED
    BY <2>1 DEF Below, RingLaws, Closed
<1> HIDE DEF b, n
<1>3. \A m \in 0 .. n : RingProduct(b, m) \in Ring
  BY <1>1, <1>2, ProductSteps
<1> QED
  BY <1>1, <1>2, <1>3 DEF b, n, BelowAt

(* VanishingPolynomial has the product of its factors for values.          *)
LEMMA VanishingValue ==
  ASSUME RingLaws, NEW points \in Seq(Ring), NEW z \in Ring
  PROVE  Evaluate(VanishingPolynomial(points), z) = BelowAt(points, z)
<1> DEFINE n == Len(points)
           x == FromZero(points)
           f == VanishingPolynomial(points)
<1>1. n \in Nat /\ \A i \in 0 .. n - 1 : x[i] = points[i + 1] /\ x[i] \in Ring
  BY FromZeroIs
<1>2. f.size = n + 1 /\ f.at = Vanishing(x, n)
  BY TabulatedIs DEF VanishingPolynomial
<1> HIDE DEF n, x, f
<1> PICK P : Building(P, x, n, n)
  BY <1>1, BuildingExists
<1>3. Vanishing(x, n) = [j \in 0 .. n |-> P[n][j]] /\ P[n] \in Coeffs
  <2>1. P[n] \in Coeffs
    BY <1>1 DEF Building
  <2> QED
    BY <1>1, <2>1, VanishingIs
<1>4. BuiltSoFar(P, x, n, n, n)
  <2>1. n \in 0 .. n /\ \A i \in 0 .. n - 1 : x[i] \in Ring
    BY <1>1
  <2> DEFINE skip == n
  <2>2. Building(P, x, n, skip)
    OBVIOUS
  <2> HIDE DEF skip
  <2>3. \A m \in 0 .. n : BuiltSoFar(P, x, n, skip, m)
    BY <1>1, <2>1, <2>2, BuildingFacts
  <2> QED
    BY <2>1, <2>3 DEF skip
<1>5. Value(P[n], n + 1, z) = RingProduct(FactorsOf(x, n, n, z), n)
  BY <1>4 DEF BuiltSoFar
<1>6. RingProduct(FactorsOf(x, n, n, z), n) = BelowAt(points, z)
  <2>1. ASSUME NEW i \in 0 .. n - 1
        PROVE  /\ FactorsOf(x, n, n, z)[i] = Below(points, z)[i]
               /\ FactorsOf(x, n, n, z)[i] \in Ring
    <3>1. i # n
      BY <1>1
    <3>2. FactorsOf(x, n, n, z)[i] = Minus(z, points[i + 1])
      BY <1>1, <3>1 DEF FactorsOf
    <3> QED
      BY <3>2, BelowInRing DEF n
  <2>2. RingProduct(FactorsOf(x, n, n, z), n) = RingProduct(Below(points, z), n)
    BY <1>1, <2>1, ProductSame
  <2> QED
    BY <2>2 DEF BelowAt, n
<1>7. \A i \in 0 .. n : f.at[i] = P[n][i] /\ P[n][i] \in Ring
  BY <1>1, <1>2, <1>3 DEF Coeffs
<1>8. IsPolynomial(f)
  BY <1>1, <1>2, <1>7 DEF IsPolynomial
<1>9. Evaluate(f, z) = Value(Coefficients(f), f.size, z)
  BY <1>8, EvaluateIsValue
<1>10. Value(Coefficients(f), f.size, z) = Value(P[n], f.size, z)
  <2>1. Coefficients(f) \in Coeffs
    BY <1>8, CoefficientsInRing
  <2>2. f.size \in Nat /\ \A i \in 0 .. f.size - 1 : Coefficients(f)[i] = P[n][i]
    BY <1>1, <1>2, <1>7 DEF Coefficients
  <2> QED
    BY <1>3, <2>1, <2>2, ValueSame
<1> QED
  BY <1>2, <1>5, <1>6, <1>9, <1>10 DEF f

(* Points that differ pairwise by units, and values for them.              *)
PointsApart(points) == points \in Seq(Ring) /\ Apart(FromZero(points), Len(points))

(* AnswerPolynomial takes the values, with a coefficient for each at most. *)
LEMMA AnswerIs ==
  ASSUME RingLaws, NEW points, PointsApart(points), NEW values \in Seq(Ring), Len(values) = Len(points)
  PROVE  LET f == AnswerPolynomial(points, values)
         IN  /\ IsPolynomial(f) /\ f.size <= Len(points)
             /\ \A i \in 1 .. Len(points) : Evaluate(f, points[i]) = values[i]
<1> DEFINE n == Len(points)
           x == FromZero(points)
           v == FromZero(values)
           f == Interpolate(x, v, n)
<1>1. n \in Nat /\ points \in Seq(Ring) /\ Apart(x, n)
  BY DEF PointsApart
<1>2. \A i \in 0 .. n - 1 : x[i] = points[i + 1] /\ v[i] = values[i + 1] /\ v[i] \in Ring
  BY <1>1, FromZeroIs
<1>3. AnswerPolynomial(points, values) = f
  BY DEF AnswerPolynomial
<1> HIDE DEF n, x, v
<1>4. IsPolynomial(f) /\ f.size <= n /\ \A i \in 0 .. n - 1 : Evaluate(f, x[i]) = v[i]
  BY <1>1, <1>2, InterpolateFacts
<1> HIDE DEF f
<1>5. ASSUME NEW i \in 1 .. n PROVE Evaluate(f, points[i]) = values[i]
  <2>1. i - 1 \in 0 .. n - 1 /\ (i - 1) + 1 = i
    BY <1>1
  <2> QED
    BY <1>2, <1>4, <2>1
<1> QED
  BY <1>3, <1>4, <1>5 DEF n

(* What QuotientFromAnswers computes. *)
QuotientValues(q, f, ans, points) ==
  q = [i \in 0 .. Len(points) |->
         IF i = 0 THEN SubtractPolynomials(f, ans) ELSE QuotientAt(q[i - 1], points[i], 0)]

(* After the first m divisions. *)
Divided(f, ans, points, m, p) ==
  /\ IsPolynomial(p) /\ (p.size = 0 \/ p.size + m <= Longer(f, ans))
  /\ \A z \in Ring : Minus(Evaluate(f, z), Evaluate(ans, z))
                       = Times(RingProduct(Below(points, z), m), Evaluate(p, z))

(* At its points the dividend is zero.                                     *)
LEMMA DividedAtPoint ==
  ASSUME RingLaws, NEW f, IsPolynomial(f), NEW ans, IsPolynomial(ans), NEW points, PointsApart(points),
         NEW m \in 0 .. Len(points) - 1, NEW p, Divided(f, ans, points, m, p),
         Evaluate(f, points[m + 1]) = Evaluate(ans, points[m + 1])
  PROVE  points[m + 1] \in Ring /\ Evaluate(p, points[m + 1]) = 0
<1> DEFINE n == Len(points)
           x == FromZero(points)
           a == points[m + 1]
           b == Below(points, a)
<1>1. points \in Seq(Ring) /\ n \in Nat /\ Exceptional(x, n)
  BY DEF PointsApart, Apart
<1>2. \A i \in 0 .. n - 1 : x[i] = points[i + 1] /\ points[i + 1] \in Ring
  BY <1>1, FromZeroIs
<1>3. a \in Ring /\ m \in Nat /\ m \in 0 .. n
  BY <1>1, <1>2
<1>4. \A i \in 0 .. m - 1 : b[i] \in Ring /\ IsUnit(b[i])
  <2>1. ASSUME NEW i \in 0 .. m - 1 PROVE b[i] \in Ring /\ IsUnit(b[i])
    <3>1. i \in 0 .. n - 1 /\ m \in 0 .. n - 1 /\ i # m
      BY <1>1, <1>3
    <3>2. IsUnit(Minus(x[m], x[i]))
      BY <1>1, <3>1 DEF Exceptional
    <3>3. b[i] = Minus(a, points[i + 1]) /\ b[i] \in Ring
      <4> HIDE DEF a
      <4> QED
        BY <1>1, <1>3, <3>1, BelowInRing DEF n, b
    <3> QED
      BY <1>2, <3>1, <3>2, <3>3
  <2> QED
    BY <2>1
<1>5. Minus(Evaluate(f, a), Evaluate(ans, a)) = Times(RingProduct(b, m), Evaluate(p, a))
  BY <1>3 DEF Divided
<1>6. Evaluate(f, a) = Evaluate(ans, a)
  OBVIOUS
<1> HIDE DEF a, b, x, n
<1>7. IsUnit(RingProduct(b, m)) /\ RingProduct(b, m) \in Ring
  <2>1. m \in 0 .. m
    BY <1>3
  <2> QED
    BY <1>3, <1>4, <2>1, ProductOfUnits, ProductSteps
<1>8. Evaluate(f, a) \in Ring /\ Evaluate(ans, a) \in Ring /\ Evaluate(p, a) \in Ring
  BY <1>3, EvaluateIsValue DEF Divided
<1>9. Times(RingProduct(b, m), Evaluate(p, a)) = 0
  BY <1>5, <1>6, <1>8, DifferenceZero
<1>10. Times(RingProduct(b, m), 0) = 0 /\ 0 \in Ring
  BY <1>7, TimesZero DEF RingLaws, Closed
<1>11. Evaluate(p, a) = 0
  BY <1>7, <1>8, <1>9, <1>10, UnitCancels
<1> QED
  BY <1>3, <1>11 DEF a

(* A division more. *)
LEMMA DividedStep ==
  ASSUME RingLaws, NEW f, IsPolynomial(f), NEW ans, IsPolynomial(ans), NEW points, PointsApart(points),
         NEW m \in 0 .. Len(points) - 1, NEW p, Divided(f, ans, points, m, p),
         Evaluate(f, points[m + 1]) = Evaluate(ans, points[m + 1])
  PROVE  Divided(f, ans, points, m + 1, QuotientAt(p, points[m + 1], 0))
<1> DEFINE n == Len(points)
           a == points[m + 1]
           v == 0
           q == QuotientAt(p, a, v)
           L == Longer(f, ans)
<1>1. points \in Seq(Ring) /\ n \in Nat /\ m \in Nat
  BY DEF PointsApart
<1>2. a \in Ring /\ v = Evaluate(p, a)
  BY DividedAtPoint
<1>3. IsPolynomial(p) /\ (p.size = 0 \/ p.size + m <= L) /\ p.size \in Nat /\ L \in Nat
  BY LongerIs DEF Divided, IsPolynomial
<1> HIDE DEF a, q, L
<1>4. /\ IsPolynomial(q)
      /\ q.size = 0 \/ q.size + 1 <= p.size
      /\ \A z \in Ring : Evaluate(p, z) = Plus(Times(Minus(z, a), Evaluate(q, z)), v)
  <2> HIDE DEF v
  <2> QED
    BY <1>2, <1>3, QuotientFacts DEF q
<1>5. q.size \in Nat
  BY <1>4 DEF IsPolynomial
<1>6. q.size = 0 \/ q.size + (m + 1) <= L
  BY <1>1, <1>3, <1>4, <1>5
<1>7. ASSUME NEW z \in Ring
      PROVE  Minus(Evaluate(f, z), Evaluate(ans, z))
               = Times(RingProduct(Below(points, z), m + 1), Evaluate(q, z))
  <2> DEFINE b == Below(points, z)
             u == RingProduct(b, m)
             w == Evaluate(q, z)
             c == Minus(z, a)
  <2>1. /\ \A i \in 0 .. n - 1 : b[i] \in Ring /\ b[i] = Minus(z, points[i + 1])
        /\ \A i \in 0 .. n : RingProduct(b, i) \in Ring
    BY <1>1, BelowInRing
  <2>2. u \in Ring /\ b[m] = c /\ c \in Ring /\ w \in Ring
    <3>1. m \in 0 .. n /\ m \in 0 .. n - 1
      BY <1>1
    <3>2. b[m] = c /\ b[m] \in Ring
      BY <2>1, <3>1 DEF a
    <3>3. w \in Ring
      BY <1>4, EvaluateIsValue
    <3> QED
      BY <2>1, <3>1, <3>2, <3>3
  <2>3. RingProduct(b, m + 1) = Times(u, c)
    <3>1. m \in 0 .. n - 1
      OBVIOUS
    <3>2. \A i \in 0 .. n - 1 : b[i] \in Ring
      BY <2>1
    <3> HIDE DEF b, n
    <3>3. RingProduct(b, m + 1) = Times(RingProduct(b, m), b[m])
      BY <1>1, <3>1, <3>2, ProductSteps
    <3> QED
      BY <2>2, <3>3
  <2>4. Minus(Evaluate(f, z), Evaluate(ans, z)) = Times(u, Evaluate(p, z))
    BY DEF Divided
  <2>5. Evaluate(p, z) = Plus(Times(c, w), v)
    BY <1>4
  <2> HIDE DEF u, w, c, b
  <2>6. Plus(Times(c, w), v) = Times(c, w) /\ Times(c, w) \in Ring
    BY <2>2 DEF RingLaws, Closed, Additive
  <2>7. Times(u, Times(c, w)) = Times(Times(u, c), w)
    BY <2>2 DEF RingLaws, Multiplicative
  <2>8. Minus(Evaluate(f, z), Evaluate(ans, z)) = Times(RingProduct(b, m + 1), w)
    BY <2>3, <2>4, <2>5, <2>6, <2>7
  <2> QED
    BY <2>8 DEF b, w
<1> QED
  BY <1>4, <1>6, <1>7 DEF Divided, q, a, L

(* The set of the polynomials a division gives.                            *)
PolynomialRecords == {[size |-> n, at |-> t] : n \in Nat, t \in AnyTable}

LEMMA TrimRecord ==
  ASSUME NEW size, NEW at, IsPolynomial(Trim(size, at))
  PROVE  Trim(size, at) \in PolynomialRecords
<1> DEFINE f == Trim(size, at)
           t == [i \in 0 .. f.size - 1 |-> at[i]]
<1>1. f = [size |-> f.size, at |-> t]
  <2>1. PICK top : f = [size |-> top, at |-> Tabulated([i \in 0 .. top - 1 |-> at[i]])]
    BY DEF Trim
  <2>2. f = [size |-> top, at |-> [i \in 0 .. top - 1 |-> at[i]]]
    BY <2>1, TabulatedIs
  <2> HIDE DEF f
  <2>3. f.size = top
    BY <2>2
  <2> QED
    BY <2>2, <2>3
<1>2. f.size \in Nat /\ \A i \in 0 .. f.size - 1 : f.at[i] \in Ring
  BY DEF IsPolynomial
<1> HIDE DEF f
<1>3. f.at = t
  BY <1>1
<1>4. t \in [0 .. f.size - 1 -> Ring]
  <2>1. \A i \in 0 .. f.size - 1 : t[i] = at[i]
    OBVIOUS
  <2> QED
    BY <1>2, <1>3, <2>1
<1> HIDE DEF t
<1>5. t \in AnyTable
  BY <1>2, <1>4 DEF AnyTable
<1>6. f \in PolynomialRecords
  BY <1>1, <1>2, <1>5 DEF PolynomialRecords
<1> QED
  BY <1>6 DEF f

LEMMA QuotientRecord ==
  ASSUME NEW p, NEW x, NEW v, IsPolynomial(QuotientAt(p, x, v))
  PROVE  QuotientAt(p, x, v) \in PolynomialRecords
<1>1. \E size, at : QuotientAt(p, x, v) = Trim(size, at)
  BY DEF QuotientAt
<1> QED
  BY <1>1, TrimRecord

(* QuotientFromAnswers divides by all factors of the vanishing polynomial. *)
LEMMA QuotientIs ==
  ASSUME RingLaws, NEW f, IsPolynomial(f), NEW ans, IsPolynomial(ans), NEW points, PointsApart(points),
         \A i \in 1 .. Len(points) : Evaluate(f, points[i]) = Evaluate(ans, points[i])
  PROVE  LET q == QuotientFromAnswers(f, ans, points)
         IN  /\ IsPolynomial(q) /\ (q.size = 0 \/ q.size + Len(points) <= Longer(f, ans))
             /\ \A z \in Ring : Minus(Evaluate(f, z), Evaluate(ans, z))
                                  = Times(BelowAt(points, z), Evaluate(q, z))
<1> DEFINE n == Len(points)
           V == PolynomialRecords
           first == SubtractPolynomials(f, ans)
           Next1(i, p) == QuotientAt(p, points[i + 1], 0)
           step == [e \in Nat \X V |-> IF Next1(e[1], e[2]) \in V THEN Next1(e[1], e[2]) ELSE e[2]]
           good(i, p) == Divided(f, ans, points, i, p)
<1>1. n \in Nat /\ points \in Seq(Ring)
  BY DEF PointsApart
<1>2. first \in V /\ good(0, first)
  <2>1. /\ IsPolynomial(first) /\ first.size <= Longer(f, ans)
        /\ \A z \in Ring : Evaluate(first, z) = Minus(Evaluate(f, z), Evaluate(ans, z))
    BY DifferenceOfPolynomials
  <2>2. first \in V
    BY <2>1, TrimRecord DEF SubtractPolynomials
  <2>3. first.size + 0 <= Longer(f, ans)
    <3>1. first.size \in Nat
      BY <2>1 DEF IsPolynomial
    <3> HIDE DEF first
    <3> QED
      BY <2>1, <3>1
  <2>4. ASSUME NEW z \in Ring PROVE Evaluate(first, z) = Times(RingProduct(Below(points, z), 0), Evaluate(first, z))
    <3>1. RingProduct(Below(points, z), 0) = OfInteger(1)
      <4> DEFINE b == Below(points, z)
      <4>1. \A i \in 0 .. n - 1 : b[i] \in Ring
        BY <1>1, BelowInRing
      <4> HIDE DEF b, n
      <4> QED
        BY <1>1, <4>1, ProductSteps DEF b
    <3>2. Evaluate(first, z) \in Ring
      BY <2>1, EvaluateIsValue
    <3>3. \A x \in Ring : Times(OfInteger(1), x) = x
      BY DEF RingLaws, Closed, Multiplicative
    <3> QED
      BY <3>1, <3>2, <3>3
  <2> HIDE DEF first
  <2> QED
    BY <2>1, <2>2, <2>3, <2>4 DEF Divided
<1>3. ASSUME NEW i \in 0 .. n - 1, NEW p \in V, good(i, p)
      PROVE  Next1(i, p) \in V /\ good(i + 1, Next1(i, p))
  <2>1. i + 1 \in 1 .. n
    BY <1>1
  <2>2. good(i + 1, Next1(i, p))
    BY <1>3, <2>1, DividedStep
  <2>3. IsPolynomial(Next1(i, p))
    BY <2>2 DEF Divided
  <2> QED
    BY <2>2, <2>3, QuotientRecord
<1>4. step \in [Nat \X V -> V]
      /\ \A i \in Nat : \A p \in V : Next1(i, p) \in V => step[<<i, p>>] = Next1(i, p)
  <2> HIDE DEF Next1, V
  <2> QED
    OBVIOUS
<1> HIDE DEF step, V, first, n
<1>5. HasSequence(V, first, step)
  BY <1>2, <1>4, RecursionExists
<1>6. PICK T \in [Nat -> V] : T[0] = first /\ \A i \in Nat : T[i + 1] = step[<<i, T[i]>>]
  BY <1>5 DEF HasSequence
<1>7. \A i \in 0 .. n : good(i, T[i])
  <2> DEFINE P == {i \in 0 .. n : good(i, T[i])}
  <2>1. P \in SUBSET (0 .. n) /\ 0 \in P
    BY <1>1, <1>2, <1>6
  <2>2. ASSUME NEW i \in P, i < n PROVE i + 1 \in P
    <3>1. i \in 0 .. n - 1 /\ i \in Nat /\ i + 1 \in 0 .. n /\ T[i] \in V /\ good(i, T[i])
      BY <1>1, <1>6, <2>2
    <3> HIDE DEF good, Next1
    <3>2. Next1(i, T[i]) \in V /\ good(i + 1, Next1(i, T[i]))
      BY <1>3, <3>1
    <3>3. T[i + 1] = Next1(i, T[i])
      BY <1>4, <1>6, <3>1, <3>2
    <3> QED
      BY <3>1, <3>2, <3>3
  <2> HIDE DEF P
  <2>3. P = 0 .. n
    BY <1>1, <2>1, <2>2, InductionUpTo
  <2> QED
    BY <2>3 DEF P
<1>8. ASSUME NEW i \in 0 .. n - 1 PROVE T[i + 1] = Next1(i, T[i])
  <2>1. i \in Nat /\ i \in 0 .. n /\ T[i] \in V
    BY <1>1, <1>6
  <2> HIDE DEF good, Next1
  <2>2. Next1(i, T[i]) \in V
    BY <1>3, <1>7, <2>1
  <2> QED
    BY <1>4, <1>6, <2>1, <2>2
<1>9. QuotientValues([i \in 0 .. n |-> T[i]], f, ans, points)
  <2> DEFINE t == [i \in 0 .. n |-> T[i]]
  <2>1. ASSUME NEW i \in 0 .. n
        PROVE  t[i] = IF i = 0 THEN first ELSE QuotientAt(t[i - 1], points[i], 0)
    <3>1. CASE i = 0
      BY <1>6, <3>1
    <3>2. CASE i # 0
      <4>1. i - 1 \in 0 .. n - 1 /\ i - 1 \in 0 .. n /\ (i - 1) + 1 = i
        BY <1>1, <3>2
      <4>2. T[(i - 1) + 1] = QuotientAt(T[i - 1], points[(i - 1) + 1], 0)
        BY <1>8, <4>1
      <4> QED
        BY <3>2, <4>1, <4>2
    <3> QED
      BY <3>1, <3>2
  <2>2. t = [i \in 0 .. n |-> t[i]]
    OBVIOUS
  <2> HIDE DEF t
  <2>3. t = [i \in 0 .. n |-> IF i = 0 THEN first ELSE QuotientAt(t[i - 1], points[i], 0)]
    BY <2>1, <2>2
  <2> QED
    BY <2>3 DEF QuotientValues, n, t, first
<1>10. ASSUME NEW q, QuotientValues(q, f, ans, points) PROVE q[n] = T[n]
  <2>1. \A i \in 0 .. n : q[i] = IF i = 0 THEN first ELSE QuotientAt(q[i - 1], points[i], 0)
    BY <1>10 DEF QuotientValues, n, first
  <2>2. ASSUME NEW i \in 0 .. n - 1, q[i] = T[i] PROVE q[i + 1] = T[i + 1]
    <3>1. i + 1 \in 0 .. n /\ i + 1 # 0 /\ (i + 1) - 1 = i
      BY <1>1
    <3>2. q[i + 1] = QuotientAt(q[(i + 1) - 1], points[i + 1], 0)
      BY <2>1, <3>1
    <3> QED
      BY <1>8, <2>2, <3>1, <3>2
  <2>3. q[0] = T[0] /\ n \in 0 .. n
    BY <1>1, <1>6, <2>1
  <2>4. \A i \in 0 .. n : q[i] = T[i]
    BY <1>1, <2>2, <2>3, GoesOnAlike, ZenonT(60)
  <2> QED
    BY <2>3, <2>4
<1>11. QuotientFromAnswers(f, ans, points) = (CHOOSE q : QuotientValues(q, f, ans, points))[n]
  BY DEF QuotientFromAnswers, QuotientValues, n
<1>12. QuotientFromAnswers(f, ans, points) = T[n]
  BY <1>9, <1>10, <1>11
<1>13. good(n, T[n])
  BY <1>1, <1>7
<1> QED
  BY <1>12, <1>13 DEF Divided, BelowAt, n

-----------------------------------------------------------------------------
(* What the oracle answers *)

IsSequence(s) == \E S : s \in Seq(S)

RoundAt(r) == RoundDomains(Params, DomainAt(r))
CountAt(r) == EffectiveQueries(Params, setup.domain.size, setup.degree, r)

(* What an answer to a question of this label is one of.                   *)
AnswersTo(label) ==
  CASE label[1] = "ood" -> FewOf(OodPool(Params, RoundAt(label[2])), Params.ood_samples) \cup {<<>>}
    [] label[1] = "comb" -> Ring
    [] label[1] = "alpha" -> Ring
    [] label[1] = "query" -> PositionDraws(CountAt(label[2]), RoundAt(label[2]).folded.size)
    [] label[1] = "shake" -> Seq(Ring)
    [] label[1] = "final" -> PositionDraws(FinalCount, FinalDomain.size)

(* A memory holds answers to questions asked at the end of a transcript.   *)
Answers(m) ==
  \A key \in DOMAIN m : \E t, label : /\ IsSequence(t) /\ key = Append(t, label)
                                      /\ m[key] \in AnswersTo(label)

LEMMA SameEnd ==
  ASSUME NEW s, IsSequence(s), NEW t, IsSequence(t), NEW a, NEW b, Append(s, a) = Append(t, b)
  PROVE  a = b
<1>1. /\ Len(s) \in Nat /\ Len(Append(s, a)) = Len(s) + 1 /\ Append(s, a)[Len(s) + 1] = a
  BY AppendAnything DEF IsSequence
<1>2. /\ Len(t) \in Nat /\ Len(Append(t, b)) = Len(t) + 1 /\ Append(t, b)[Len(t) + 1] = b
  BY AppendAnything DEF IsSequence
<1>3. Len(s) = Len(t)
  BY <1>1, <1>2
<1> QED
  BY <1>1, <1>2, <1>3

(* A question and its answer. *)
Asked(d, label, e, v) ==
  /\ e.t = Append(d.t, label) /\ IsSequence(e.t) /\ Answers(e.m)
  /\ v \in AnswersTo(label) /\ e.got = Append(d.got, v) /\ IsSequence(e.got)

LEMMA AskGives ==
  ASSUME NEW d, IsSequence(d.t), Answers(d.m), IsSequence(d.got), NEW label,
         NEW S \in SUBSET AnswersTo(label), NEW e \in Ask(d, label, S)
  PROVE  \E v : Asked(d, label, e, v)
<1> DEFINE asked == Append(d.t, label)
           memory(v) == [key \in DOMAIN d.m \cup {asked} |-> IF key = asked THEN v ELSE d.m[key]]
<1>1. PICK v \in IF asked \in DOMAIN d.m THEN {d.m[asked]} ELSE S :
        e = [t |-> asked, m |-> memory(v), got |-> Append(d.got, v)]
  BY DEF Ask
<1>2. e.t = asked /\ e.m = memory(v) /\ e.got = Append(d.got, v)
  BY <1>1
<1>3. IsSequence(asked) /\ IsSequence(e.got)
  <2>1. IsSequence(asked)
    BY AppendAnything DEF IsSequence
  <2>2. IsSequence(Append(d.got, v))
    BY AppendAnything DEF IsSequence
  <2> QED
    BY <1>2, <2>1, <2>2
<1>4. v \in AnswersTo(label)
  <2>1. CASE asked \in DOMAIN d.m
    <3>1. v = d.m[asked]
      BY <1>1, <2>1
    <3>2. PICK t, l : IsSequence(t) /\ asked = Append(t, l) /\ d.m[asked] \in AnswersTo(l)
      BY <2>1 DEF Answers
    <3>3. l = label
      BY <3>2, SameEnd
    <3> QED
      BY <3>1, <3>2, <3>3
  <2>2. CASE asked \notin DOMAIN d.m
    BY <1>1, <2>2
  <2> QED
    BY <2>1, <2>2
<1>5. Answers(e.m)
  <2> SUFFICES ASSUME NEW key \in DOMAIN e.m
               PROVE  \E t, l : /\ IsSequence(t) /\ key = Append(t, l)
                                /\ e.m[key] \in AnswersTo(l)
    BY DEF Answers
  <2>1. DOMAIN e.m = DOMAIN d.m \cup {asked}
        /\ \A k \in DOMAIN e.m : e.m[k] = IF k = asked THEN v ELSE d.m[k]
    BY <1>2
  <2>2. CASE key # asked
    BY <2>1, <2>2 DEF Answers
  <2>3. CASE key = asked
    BY <1>4, <2>1, <2>3
  <2> QED
    BY <2>2, <2>3
<1> QED
  BY <1>2, <1>3, <1>4, <1>5 DEF Asked

LEMMA EmptySequence == IsSequence(<<>>) /\ Len(<<>>) = 0
BY DEF IsSequence

-----------------------------------------------------------------------------
(* The points of a round *)

LEMMA LeastIs ==
  ASSUME NEW a \in Nat, NEW b \in Nat
  PROVE  Least(a, b) \in Nat /\ Least(a, b) <= a /\ Least(a, b) <= b /\ (Least(a, b) = a \/ Least(a, b) = b)
BY DEF Least

(* Some of a pool are points of it, exceptional among themselves.          *)
LEMMA FewOfAre ==
  ASSUME NEW S \in SUBSET Nat, IsFiniteSet(S), NEW n \in Nat, NEW x \in FewOf(S, n)
  PROVE  /\ x \in [1 .. n -> S]
         /\ \A i \in 1 .. n : \A j \in 1 .. n : i < j => IsUnit(Minus(x[i], x[j]))
<1> DEFINE s == Ascending(S)
           few == {s[i] : i \in 1 .. Least(PoolBound + n - 1, Len(s))}
<1>1. s \in Seq(Nat) /\ Range(s) = S
  BY AscendingSorts
<1> HIDE DEF s
<1>2. few \in SUBSET S
  <2>1. Len(s) \in Nat /\ PoolBound + n - 1 \in Nat
    BY <1>1, InputsAssumption
  <2> DEFINE a == PoolBound + n - 1
             b == Len(s)
  <2>2. Least(a, b) \in Nat /\ Least(a, b) <= b
    <3> HIDE DEF a, b
    <3> QED
      BY <2>1, LeastIs DEF a, b
  <2>3. \A i \in 1 .. Least(a, b) : i \in DOMAIN s
    BY <1>1, <2>1, <2>2
  <2> QED
    BY <1>1, <2>3 DEF Range
<1>3. x \in OodSamples(few, n)
  BY DEF FewOf, s
<1> HIDE DEF few
<1> QED
  BY <1>2, <1>3 DEF OodSamples

(* Drawn positions are so many different ones of a domain, in order.       *)
LEMMA PositionsAre ==
  ASSUME NEW count \in Nat, NEW size \in Nat, NEW x \in PositionDraws(count, size)
  PROVE  /\ x \in Seq(Nat) /\ Increasing(x) /\ Len(x) = Least(count, size)
         /\ Positions(x) \in SUBSET (0 .. size - 1) /\ IsFiniteSet(Positions(x))
         /\ x = Ascending(Positions(x))
         /\ \A i \in 1 .. Len(x) : x[i] \in 0 .. size - 1 /\ x[i] \in Nat
<1> DEFINE n == Least(count, size)
           m == Least(PositionBound + n - 1, size)
           tried == 0 .. m - 1
<1>1. n \in Nat
  BY LeastIs
<1>2. m \in Nat /\ m <= size
  <2> DEFINE a == PositionBound + n - 1
  <2>1. a \in Nat
    BY <1>1, InputsAssumption
  <2> HIDE DEF a
  <2> QED
    BY <2>1, LeastIs DEF a
<1>3. PICK S \in SUBSET tried : Cardinality(S) = n /\ x = Ascending(S)
  BY DEF PositionDraws
<1> HIDE DEF n, m
<1>4. IsFiniteSet(S) /\ S \in SUBSET Nat /\ S \in SUBSET (0 .. size - 1)
  <2>1. IsFiniteSet(0 .. m - 1)
    BY <1>2, FS_Interval
  <2>2. S \in SUBSET (0 .. m - 1)
    OBVIOUS
  <2>3. 0 .. m - 1 \in SUBSET Nat /\ 0 .. m - 1 \in SUBSET (0 .. size - 1)
    BY <1>2
  <2> QED
    BY <2>1, <2>2, <2>3, FS_Subset
<1>5. x \in Seq(Nat) /\ Increasing(x) /\ Range(x) = S
  BY <1>3, <1>4, AscendingSorts
<1>6. Len(x) = n
  BY <1>3, <1>5, IncreasingSize
<1>7. Positions(x) = S
  BY <1>5 DEF Positions, Range
<1>8. \A i \in 1 .. Len(x) : x[i] \in S
  BY <1>5 DEF Range
<1> QED
  BY <1>3, <1>4, <1>5, <1>6, <1>7, <1>8 DEF n

(* A pool's points are exceptional against the shifted and the folded      *)
(* domain.                                                                 *)
LEMMA PoolIsExceptional ==
  ASSUME RingLaws, NEW r, NEW ds, RoundSettled(r, ds), NEW x \in OodPool(Params, ds)
  PROVE  /\ x \in Ring
         /\ \A y \in DomainPoints(ds.shift) : IsUnit(Minus(x, y))
         /\ \A y \in DomainPoints(ds.folded) : IsUnit(Minus(x, y))
<1>1. CASE Params.protocol_mode = "TheoremGr"
  <2>1. x \in SafeComplement(ds, {})
    BY <1>1 DEF OodPool
  <2> QED
    BY <2>1 DEF SafeComplement, TeichmullerSet, ExceptionalAgainst, AllPoints3
<1>2. CASE Params.protocol_mode # "TheoremGr"
  <2>1. /\ x \in DomainPoints(ds.input)
        /\ ExceptionalAgainst(x, DomainPoints(ds.shift) \cup DomainPoints(ds.folded))
    BY <1>2 DEF OodPool
  <2>2. x \in Ring
    <3>1. IsDomain(ds.input)
      BY DEF RoundSettled
    <3>2. \A i \in 0 .. ds.input.size - 1 : ds.input.points[i] \in Ring
      BY <3>1, PointsOfDomain
    <3> QED
      BY <2>1, <3>2 DEF DomainPoints
  <2> QED
    BY <2>1, <2>2 DEF ExceptionalAgainst
<1> QED
  BY <1>1, <1>2

(* The draws of a round that go into its quotient.                         *)
Sampled(r, ds, d) ==
  /\ d.got[1] \in FewOf(OodPool(Params, ds), Params.ood_samples)
  /\ d.got[4] \in PositionDraws(CountAt(r), ds.folded.size)

CountFits(r, ds) ==
  /\ Params.ood_samples \in Nat \ {0} /\ CountAt(r) \in Nat \ {0}
  /\ CountAt(r) <= ds.folded.size
  /\ Params.ood_samples + CountAt(r) <= BoundAt(r + 1) + 1

LEMMA CountsFit ==
  ASSUME RingLaws, setup \in Setups, ValidStirInstance(Params, setup.domain, setup.degree),
         NEW r \in 0 .. Rounds - 1
  PROVE  CountFits(r, RoundAt(r))
<1> DEFINE ds == RoundAt(r)
           q  == CountAt(r)
           k  == Params.ood_samples
           b  == BundleCount(Params, setup.domain.size, r)
<1>1. /\ RoundSettled(r, ds) /\ BoundAt(r + 1) \in Nat
      /\ ValidRound(Params, setup.domain, setup.degree, r)
  BY RoundIsSettled DEF RoundAt, RoundSettled
<1>2. q \in 1 .. b /\ k + q <= BoundAt(r + 1) + 1
  BY <1>1 DEF ValidRound, CountAt, BoundAt
<1>3. k \in Nat \ {0}
  <2>1. k \in Nat
    BY SetupsAssumption DEF Params
  <2>2. k # 0
    BY DEF ValidStirInstance, ValidStirParameters
  <2> QED
    BY <2>1, <2>2
<1>4. b = ds.folded.size
  <2>1. K = 9 /\ Rounds \in Nat
    BY StirInstance
  <2>2. r \in 0 .. Rounds
    BY <2>1
  <2>3. DomainAt(r).size = SizeAfter(Params, setup.domain.size, r)
    BY <2>2, StirInstance DEF DomainHolds
  <2>4. ds.folded.size = DomainAt(r).size \div 9
    BY <1>1 DEF RoundSettled
  <2> QED
    BY <2>1, <2>3, <2>4 DEF BundleCount, K
<1> HIDE DEF ds, q, k, b
<1>5. ds.folded.size \in Nat
  BY <1>1 DEF RoundSettled
<1>6. q \in Nat \ {0} /\ q <= ds.folded.size
  BY <1>2, <1>4, <1>5
<1> QED
  BY <1>2, <1>3, <1>6 DEF CountFits, ds, q, k

(* The points a round's quotient is by.                                    *)
PointsHold(r, ds, points) ==
  /\ PointsApart(points) /\ points \in Seq(Ring) /\ Len(points) <= BoundAt(r + 1) + 1
  /\ \A x \in DomainPoints(ds.shift) : \A i \in 1 .. Len(points) :
       IsUnit(Minus(x, points[i]))

(* They are the out-of-domain points, then the points at the positions.    *)
SplitInto(points, o, p, F) ==
  /\ o \in Seq(Ring) /\ Len(o) = Params.ood_samples
  /\ p \in Seq(Nat) /\ \A i \in 1 .. Len(p) : p[i] \in 0 .. F.size - 1
  /\ Len(points) = Len(o) + Len(p)
  /\ \A i \in 1 .. Len(o) : points[i] = o[i]
  /\ \A i \in 1 .. Len(p) : points[Len(o) + i] = F.points[p[i]]
PointsSplit(ds, d, points) == SplitInto(points, d.got[1], d.got[4], ds.folded)

LEMMA RoundPoints ==
  ASSUME RingLaws, setup \in Setups, ValidStirInstance(Params, setup.domain, setup.degree),
         NEW r \in 0 .. Rounds - 1, NEW d, Sampled(r, RoundAt(r), d)
  PROVE  /\ PointsHold(r, RoundAt(r), QuotientPoints(RoundAt(r), d))
         /\ PointsSplit(RoundAt(r), d, QuotientPoints(RoundAt(r), d))
<1> DEFINE ds == RoundAt(r)
           F  == ds.folded
           o  == d.got[1]
           p  == d.got[4]
           k  == Params.ood_samples
           on == PointsAt(F, p)
           points == QuotientPoints(ds, d)
<1>1. RoundSettled(r, ds) /\ CountFits(r, ds) /\ BoundAt(r + 1) \in Nat
  BY RoundIsSettled, CountsFit DEF RoundAt
<1>2. o \in FewOf(OodPool(Params, ds), k) /\ p \in PositionDraws(CountAt(r), F.size)
  BY DEF Sampled
<1>3. points = o \o on
  BY DEF QuotientPoints
<1>4. ValidRound(Params, setup.domain, setup.degree, r)
  BY <1>1 DEF RoundSettled
<1>5. \A x \in DomainPoints(F) : \A y \in DomainPoints(ds.shift) : IsUnit(Minus(x, y))
  <2>1. UnitDifferences(ds.shift, F)
    BY <1>4 DEF ValidRound, RoundAt, DomainAt
  <2> QED
    BY <2>1 DEF UnitDifferences, ExceptionalAgainst
<1> HIDE DEF ds, points, on, k
<1>6. IsDomain(F) /\ IsTeichmuller(F.root) /\ F.size \in Nat \ {0}
  BY <1>1 DEF RoundSettled
<1>7. k \in Nat \ {0} /\ CountAt(r) \in Nat /\ k + CountAt(r) <= BoundAt(r + 1) + 1
  BY <1>1 DEF CountFits, k
<1>8. /\ o \in [1 .. k -> Ring]
      /\ \A i \in 1 .. k : o[i] \in OodPool(Params, ds)
      /\ \A i \in 1 .. k : \A j \in 1 .. k : i < j => IsUnit(Minus(o[i], o[j]))
  <2> DEFINE S == OodPool(Params, ds)
  <2>1. S \in SUBSET Ring
    BY <1>1, PoolIsExceptional
  <2>2. S \in SUBSET Nat /\ IsFiniteSet(S)
    BY <2>1, RingFinite, FS_Subset
  <2> HIDE DEF S, o
  <2>3. /\ o \in [1 .. k -> S]
        /\ \A i \in 1 .. k : \A j \in 1 .. k : i < j => IsUnit(Minus(o[i], o[j]))
    BY <1>2, <1>7, <2>2, FewOfAre DEF S
  <2> QED
    BY <2>1, <2>3 DEF S
<1>9. /\ p \in Seq(Nat) /\ Increasing(p) /\ Len(p) = Least(CountAt(r), F.size)
      /\ \A i \in 1 .. Len(p) : p[i] \in 0 .. F.size - 1
  <2> HIDE DEF p, F
  <2> QED
    BY <1>2, <1>6, <1>7, PositionsAre
<1>10. Len(p) \in Nat /\ Len(p) <= CountAt(r)
  BY <1>6, <1>7, <1>9, LeastIs
<1> HIDE DEF o, p, F
<1>11. o \in Seq(Ring) /\ Len(o) = k
  BY <1>7, <1>8
<1>12. \A i \in 0 .. F.size - 1 : F.points[i] \in Ring /\ F.points[i] \in DomainPoints(F)
  BY <1>6, PointsOfDomain DEF DomainPoints
<1>13. on \in Seq(Ring) /\ Len(on) = Len(p) /\ \A i \in 1 .. Len(p) : on[i] = F.points[p[i]]
  <2>1. DOMAIN p = 1 .. Len(p)
    BY <1>9
  <2>2. \A i \in 1 .. Len(p) : F.points[p[i]] \in Ring
    BY <1>9, <1>12
  <2>3. on = [i \in 1 .. Len(p) |-> F.points[p[i]]]
    BY <2>1 DEF on, PointsAt
  <2> QED
    BY <1>10, <2>2, <2>3
<1>14. /\ points \in Seq(Ring) /\ Len(points) = k + Len(p)
       /\ \A i \in 1 .. k : points[i] = o[i]
       /\ \A i \in 1 .. Len(p) : points[k + i] = F.points[p[i]]
  <2>1. points \in Seq(Ring) /\ Len(points) = Len(o) + Len(on)
    BY <1>3, <1>11, <1>13, ConcatProperties
  <2>2. ASSUME NEW i \in 1 .. Len(o) PROVE points[i] = o[i]
    <3>1. i \in 1 .. Len(o) + Len(on) /\ i <= Len(o)
      BY <1>11, <1>13
    <3> QED
      BY <1>3, <1>11, <1>13, <3>1, ConcatProperties
  <2>3. ASSUME NEW i \in 1 .. Len(on) PROVE points[Len(o) + i] = on[i]
    <3> DEFINE j == Len(o) + i
    <3>1. j \in 1 .. Len(o) + Len(on) /\ j > Len(o) /\ j - Len(o) = i
      BY <1>11, <1>13
    <3> HIDE DEF j
    <3>2. points[j] = on[j - Len(o)]
      BY <1>3, <1>11, <1>13, <3>1, ConcatProperties, SMTT(30)
    <3> QED
      BY <3>1, <3>2 DEF j
  <2> QED
    BY <1>11, <1>13, <2>1, <2>2, <2>3
<1>15. \A i \in 1 .. Len(points) : i \in 1 .. k \/ (i - k \in 1 .. Len(p) /\ k + (i - k) = i)
  BY <1>7, <1>10, <1>14
<1>16. \A i \in 1 .. Len(p) : points[k + i] \in DomainPoints(F)
  BY <1>9, <1>12, <1>14
<1>17. ASSUME NEW i \in 1 .. Len(points), NEW j \in 1 .. Len(points), i < j
       PROVE  IsUnit(Minus(points[i], points[j]))
  <2>1. CASE j \in 1 .. k
    <3>1. i \in 1 .. k
      BY <1>7, <1>17, <2>1
    <3> QED
      BY <1>8, <1>14, <1>17, <2>1, <3>1
  <2>2. CASE j \notin 1 .. k
    <3> DEFINE t == j - k
    <3>1. t \in 1 .. Len(p) /\ k + t = j
      BY <1>15, <2>2
    <3>2. CASE i \in 1 .. k
      <4>1. points[i] = o[i] /\ o[i] \in OodPool(Params, ds)
        BY <1>8, <1>14, <3>2
      <4>2. points[j] \in DomainPoints(F)
        BY <1>16, <3>1
      <4> QED
        BY <1>1, <4>1, <4>2, PoolIsExceptional DEF F
    <3>3. CASE i \notin 1 .. k
      <4> DEFINE s == i - k
      <4>1. s \in 1 .. Len(p) /\ k + s = i
        BY <1>15, <3>3
      <4>2. s < t
        BY <1>7, <1>17
      <4>3. DOMAIN p = 1 .. Len(p)
        BY <1>9
      <4> HIDE DEF s, t
      <4>4. p[s] < p[t] /\ p[s] \in 0 .. F.size - 1 /\ p[t] \in 0 .. F.size - 1
        BY <1>9, <3>1, <4>1, <4>2, <4>3 DEF Increasing
      <4>5. p[s] # p[t]
        BY <1>6, <4>4
      <4>6. points[i] = F.points[p[s]] /\ points[j] = F.points[p[t]]
        BY <1>14, <3>1, <4>1
      <4>7. Exceptional(F.points, F.size)
        BY <1>6, CosetApart DEF Apart
      <4> QED
        BY <4>4, <4>5, <4>6, <4>7 DEF Exceptional
    <3> QED
      BY <3>2, <3>3
  <2> QED
    BY <2>1, <2>2
<1>18. PointsApart(points)
  <2> DEFINE x == FromZero(points)
             n == Len(points)
  <2>1. n \in Nat /\ \A i \in 0 .. n - 1 : i + 1 \in 1 .. n /\ x[i] = points[i + 1] /\ points[i + 1] \in Ring
    BY <1>14, FromZeroIs
  <2> HIDE DEF x, n
  <2>2. ASSUME NEW i \in 0 .. n - 1, NEW j \in 0 .. n - 1, i # j PROVE IsUnit(Minus(x[i], x[j]))
    <3> DEFINE s == i + 1
               t == j + 1
    <3>1. s \in 1 .. n /\ t \in 1 .. n /\ x[i] = points[s] /\ x[j] = points[t]
          /\ points[s] \in Ring /\ points[t] \in Ring /\ (s < t \/ t < s)
      BY <2>1, <2>2
    <3> HIDE DEF s, t
    <3>2. CASE s < t
      BY <1>17, <3>1, <3>2 DEF n
    <3>3. CASE t < s
      BY <1>17, <3>1, <3>3, DifferenceTurned DEF n
    <3> QED
      BY <3>1, <3>2, <3>3
  <2>3. Apart(x, n)
    BY <2>1, <2>2 DEF Apart, Exceptional
  <2> QED
    BY <1>14, <2>3 DEF PointsApart, x, n
<1>19. ASSUME NEW x \in DomainPoints(ds.shift), NEW i \in 1 .. Len(points)
       PROVE  IsUnit(Minus(x, points[i]))
  <2>1. x \in Ring
    <3>1. IsDomain(ds.shift)
      BY <1>1 DEF RoundSettled
    <3>2. \A j \in 0 .. ds.shift.size - 1 : ds.shift.points[j] \in Ring
      BY <3>1, PointsOfDomain
    <3> QED
      BY <3>2 DEF DomainPoints
  <2>2. points[i] \in Ring /\ IsUnit(Minus(points[i], x))
    <3>1. CASE i \in 1 .. k
      <4>1. points[i] = o[i] /\ o[i] \in OodPool(Params, ds)
        BY <1>8, <1>14, <3>1
      <4> QED
        BY <1>1, <4>1, PoolIsExceptional
    <3>2. CASE i \notin 1 .. k
      <4> DEFINE t == i - k
      <4>1. t \in 1 .. Len(p) /\ k + t = i
        BY <1>15, <3>2
      <4> HIDE DEF t
      <4>2. points[i] \in DomainPoints(F)
        BY <1>16, <4>1
      <4>3. points[i] \in Ring
        BY <1>14
      <4> QED
        BY <1>5, <4>2, <4>3
    <3> QED
      BY <3>1, <3>2
  <2> QED
    BY <2>1, <2>2, DifferenceTurned
<1>20. Len(points) <= BoundAt(r + 1) + 1
  BY <1>1, <1>7, <1>10, <1>14
<1>21. PointsHold(r, ds, points)
  BY <1>14, <1>18, <1>19, <1>20 DEF PointsHold
<1>22. /\ o \in Seq(Ring) /\ Len(o) = k /\ Len(points) = Len(o) + Len(p)
       /\ p \in Seq(Nat) /\ \A i \in 1 .. Len(p) : p[i] \in 0 .. F.size - 1
       /\ \A i \in 1 .. Len(o) : points[i] = o[i]
       /\ \A i \in 1 .. Len(p) : points[Len(o) + i] = F.points[p[i]]
  BY <1>9, <1>11, <1>14
<1>23. PointsSplit(ds, d, points)
  <2>1. Len(o) = Params.ood_samples
    BY <1>22 DEF k
  <2>2. SplitInto(points, o, p, F)
    BY <1>22, <2>1 DEF SplitInto
  <2> QED
    BY <2>2 DEF PointsSplit, o, p, F
<1> QED
  BY <1>21, <1>23 DEF ds, points

-----------------------------------------------------------------------------
(* The draws of a round *)

(* The pools are finite sets of ring elements.                             *)
LEMMA PoolsInRing ==
  ASSUME RingLaws, NEW r, NEW ds, RoundSettled(r, ds), NEW points
  PROVE  /\ OodPool(Params, ds) \in SUBSET Nat /\ IsFiniteSet(OodPool(Params, ds))
         /\ OodPool(Params, ds) \in SUBSET Ring
         /\ ShakePool(Params, ds, points) \in SUBSET Nat
         /\ IsFiniteSet(ShakePool(Params, ds, points))
         /\ ShakePool(Params, ds, points) \in SUBSET Ring
<1>1. OodPool(Params, ds) \in SUBSET Ring
  BY PoolIsExceptional
<1>2. DomainPoints(ds.input) \in SUBSET Ring
  <2>1. IsDomain(ds.input)
    BY DEF RoundSettled
  <2>2. \A i \in 0 .. ds.input.size - 1 : ds.input.points[i] \in Ring
    BY <2>1, PointsOfDomain
  <2> QED
    BY <2>2 DEF DomainPoints
<1>3. ShakePool(Params, ds, points) \in SUBSET Ring
  <2>1. CASE Params.protocol_mode = "TheoremGr"
    BY <2>1 DEF ShakePool, SafeComplement, TeichmullerSet
  <2>2. CASE Params.protocol_mode # "TheoremGr"
    BY <1>2, <2>2 DEF ShakePool
  <2> QED
    BY <2>1, <2>2
<1> QED
  BY <1>1, <1>3, RingFinite, FS_Subset

(* Some of a pool are a sequence of ring elements.                         *)
LEMMA FewOfInRing ==
  ASSUME NEW S \in SUBSET Ring, NEW n \in Nat
  PROVE  FewOf(S, n) \in SUBSET Seq(Ring)
<1> SUFFICES ASSUME NEW x \in FewOf(S, n) PROVE x \in Seq(Ring)
  OBVIOUS
<1>1. S \in SUBSET Nat /\ IsFiniteSet(S)
  BY RingFinite, FS_Subset
<1>2. x \in [1 .. n -> S]
  BY <1>1, FewOfAre
<1>3. x \in [1 .. n -> Ring]
  BY <1>2
<1> QED
  BY <1>3

(* What a party knows that is in a round.                                  *)
Drawing ==
  /\ setup \in Setups /\ ValidStirInstance(Params, setup.domain, setup.degree)
  /\ round \in 0 .. Rounds - 1 /\ IsSequence(transcript) /\ Answers(memo)

(* After the out-of-domain points.                                         *)
OodDrawn(o) ==
  /\ IsSequence(o.t) /\ Answers(o.m) /\ o = [t |-> o.t, m |-> o.m, got |-> o.got]
  /\ \E v : /\ o.got = <<v>>
            /\ v \in FewOf(OodPool(Params, RoundAt(round)), Params.ood_samples) \cup {<<>>}

LEMMA OodGives ==
  ASSUME RingLaws, Drawing, NEW o \in OodDraws(RoundAt(round))
  PROVE  /\ OodDrawn(o)
         /\ ~RanOut(o) => o.got[1] \in FewOf(OodPool(Params, RoundAt(round)), Params.ood_samples)
<1> DEFINE label == <<"ood", round>>
           S == FewOf(OodPool(Params, RoundAt(round)), Params.ood_samples) \cup {<<>>}
<1>1. IsSequence(Started.t) /\ Answers(Started.m) /\ IsSequence(Started.got) /\ Started.got = <<>>
  BY EmptySequence DEF Started, Drawing
<1>2. AnswersTo(label) = S
  BY DEF AnswersTo
<1>3. o \in Ask(Started, label, S)
  BY DEF OodDraws
<1> HIDE DEF label, S
<1>8. o = [t |-> o.t, m |-> o.m, got |-> o.got]
  BY <1>3 DEF Ask
<1>4. PICK v : Asked(Started, label, o, v)
  BY <1>1, <1>2, <1>3, AskGives
<1>5. o.got = <<v>> /\ v \in S /\ IsSequence(o.t) /\ Answers(o.m)
  BY <1>1, <1>2, <1>4 DEF Asked
<1>6. OodDrawn(o)
  BY <1>5, <1>8 DEF OodDrawn, S
<1>7. ASSUME ~RanOut(o) PROVE o.got[1] \in FewOf(OodPool(Params, RoundAt(round)), Params.ood_samples)
  <2>1. Len(o.got) = 1 /\ o.got[1] = v
    BY <1>5
  <2>2. v # <<>>
    BY <1>7, <2>1 DEF RanOut
  <2> QED
    BY <1>5, <2>1, <2>2 DEF S
<1> QED
  BY <1>6, <1>7

(* What a round drew in all.                                               *)
RoundDrawn(d) ==
  /\ IsSequence(d.t) /\ Answers(d.m)
  /\ d.got[2] \in Ring /\ d.got[3] \in Ring
  /\ d.got[4] \in PositionDraws(CountAt(round), RoundAt(round).folded.size)
  /\ d.got[5] \in Seq(Ring)

LEMMA DrawsGive ==
  ASSUME RingLaws, Drawing, NEW o, OodDrawn(o), NEW betas,
         NEW d \in RoundDraws(RoundAt(round), CountAt(round), o, betas)
  PROVE  RoundDrawn(d) /\ d.got[1] = o.got[1]
<1> DEFINE ds == RoundAt(round)
           b  == Absorb(o, <<"betas", betas>>)
           x  == <<"comb", round>>
           y  == <<"alpha", round + 1>>
           z  == <<"query", round>>
           w  == <<"shake", round>>
           S  == PositionDraws(CountAt(round), ds.folded.size)
<1>1. PICK c \in CombDraws(b) : \E a \in AlphaDraws(c) : \E q \in QueryDraws(ds, CountAt(round), a) :
        d \in ShakeDraws(ds, q)
  BY DEF RoundDraws
<1>2. PICK a \in AlphaDraws(c) : \E q \in QueryDraws(ds, CountAt(round), a) : d \in ShakeDraws(ds, q)
  BY <1>1
<1>3. PICK q \in QueryDraws(ds, CountAt(round), a) : d \in ShakeDraws(ds, q)
  BY <1>2
<1>4. PICK v : o.got = <<v>>
  BY DEF OodDrawn
<1>5. IsSequence(b.t) /\ Answers(b.m) /\ IsSequence(b.got) /\ b.got = <<v>>
  <2>1. b.t = Append(o.t, <<"betas", betas>>) /\ b.m = o.m /\ b.got = o.got
    BY DEF Absorb, OodDrawn
  <2>2. IsSequence(Append(o.t, <<"betas", betas>>))
    BY AppendAnything DEF OodDrawn, IsSequence
  <2>3. IsSequence(<<v>>)
    <3>1. <<v>> \in Seq({v})
      OBVIOUS
    <3> QED
      BY <3>1 DEF IsSequence
  <2> QED
    BY <1>4, <2>1, <2>2, <2>3, AppendAnything DEF OodDrawn
<1>6. Challenges \in SUBSET Ring
  BY DEF Challenges, TeichmullerSet
<1>7. /\ AnswersTo(x) = Ring /\ AnswersTo(y) = Ring /\ AnswersTo(z) = S /\ AnswersTo(w) = Seq(Ring)
  BY DEF AnswersTo
<1>8. c \in Ask(b, x, Challenges) /\ a \in Ask(c, y, Challenges) /\ q \in Ask(a, z, S)
  BY DEF CombDraws, AlphaDraws, QueryDraws
<1>9. d \in Ask(q, w, FewOf(ShakePool(Params, ds, {QuotientPoints(ds, q)[i] : i \in DOMAIN QuotientPoints(ds, q)}), 1) \cup {<<>>})
  BY <1>3 DEF ShakeDraws
<1> HIDE DEF x, y, z, w, b, S
<1>10. PICK v2 : Asked(b, x, c, v2)
  BY <1>5, <1>6, <1>7, <1>8, AskGives
<1>11. PICK v3 : Asked(c, y, a, v3)
  BY <1>6, <1>7, <1>8, <1>10, AskGives DEF Asked
<1>12. PICK v4 : Asked(a, z, q, v4)
  <2>1. S \in SUBSET AnswersTo(z)
    BY <1>7
  <2> QED
    BY <1>8, <1>11, <2>1, AskGives DEF Asked
<1>13. PICK v5 : Asked(q, w, d, v5)
  <2> DEFINE P == {QuotientPoints(ds, q)[i] : i \in DOMAIN QuotientPoints(ds, q)}
             F == FewOf(ShakePool(Params, ds, P), 1)
  <2>1. RoundSettled(round, ds)
    BY RoundIsSettled DEF Drawing, RoundAt
  <2>2. ShakePool(Params, ds, P) \in SUBSET Ring
    BY <2>1, PoolsInRing
  <2>3. F \in SUBSET Seq(Ring)
    BY <2>2, FewOfInRing
  <2>4. d \in Ask(q, w, F \cup {<<>>})
    BY <1>9
  <2> HIDE DEF F
  <2>5. F \cup {<<>>} \in SUBSET AnswersTo(w)
    <3>1. <<>> \in Seq(Ring)
      OBVIOUS
    <3> QED
      BY <1>7, <2>3, <3>1
  <2> QED
    BY <1>12, <2>4, <2>5, AskGives DEF Asked
<1>14. c.got = Append(<<v>>, v2) /\ a.got = Append(c.got, v3) /\ q.got = Append(a.got, v4)
       /\ d.got = Append(q.got, v5)
  BY <1>5, <1>10, <1>11, <1>12, <1>13 DEF Asked
<1>17. Len(<<v>>) = 1 /\ IsSequence(<<v>>) /\ IsSequence(c.got) /\ IsSequence(a.got) /\ IsSequence(q.got)
  BY <1>5, <1>10, <1>11, <1>12 DEF Asked
<1>15. d.got[1] = v /\ d.got[2] = v2 /\ d.got[3] = v3 /\ d.got[4] = v4 /\ d.got[5] = v5
  <2>1. Len(c.got) = 2 /\ c.got[1] = v /\ c.got[2] = v2
    BY <1>14, <1>17, AppendAnything DEF IsSequence
  <2>2. Len(a.got) = 3 /\ a.got[1] = v /\ a.got[2] = v2 /\ a.got[3] = v3
    BY <1>14, <1>17, <2>1, AppendAnything DEF IsSequence
  <2>3. Len(q.got) = 4 /\ q.got[1] = v /\ q.got[2] = v2 /\ q.got[3] = v3 /\ q.got[4] = v4
    BY <1>14, <1>17, <2>2, AppendAnything DEF IsSequence
  <2> QED
    BY <1>14, <1>17, <2>3, AppendAnything DEF IsSequence
<1>16. v2 \in Ring /\ v3 \in Ring /\ v4 \in S /\ v5 \in Seq(Ring) /\ IsSequence(d.t) /\ Answers(d.m)
  BY <1>7, <1>10, <1>11, <1>12, <1>13 DEF Asked
<1> QED
  BY <1>4, <1>15, <1>16 DEF RoundDrawn, S

(* Both together: what a round that goes on has drawn.                     *)
LEMMA DrawnIsSampled ==
  ASSUME RingLaws, Drawing, NEW o \in OodDraws(RoundAt(round)), ~RanOut(o), NEW betas,
         NEW d \in RoundDraws(RoundAt(round), CountAt(round), o, betas)
  PROVE  RoundDrawn(d) /\ Sampled(round, RoundAt(round), d)
<1>1. OodDrawn(o) /\ o.got[1] \in FewOf(OodPool(Params, RoundAt(round)), Params.ood_samples)
  BY OodGives
<1>2. RoundDrawn(d) /\ d.got[1] = o.got[1]
  BY <1>1, DrawsGive
<1> QED
  BY <1>1, <1>2 DEF RoundDrawn, Sampled

-----------------------------------------------------------------------------
(* The polynomials of a round *)

(* The folded polynomial, through the folded table.                        *)
FoldedBy(d, table, a) == Interpolate(PowMap(d, 9).points, FoldTableK(d, table, 9, a), PowMap(d, 9).size)

LEMMA FoldedPolynomial ==
  ASSUME RingLaws, NEW d, IsDomain(d), IsTeichmuller(d.root), d.size % 9 = 0,
         NEW f, IsPolynomial(f), NEW B \in Nat, f.size <= B + 1, B < d.size, NEW a \in Ring
  PROVE  LET table == FoldTableK(d, Encode(d, f), 9, a)
             g == FoldedBy(d, Encode(d, f), a)
         IN  /\ IsPolynomial(g) /\ g.size <= B \div 9 + 1
             /\ \A i \in 0 .. PowMap(d, 9).size - 1 :
                  table[i] = Evaluate(g, PowMap(d, 9).points[i]) /\ table[i] \in Ring
<1> DEFINE k == 9
           e == PowMap(d, 9)
           p == PolyFold(f, 9, a)
           table == FoldTableK(d, Encode(d, f), 9, a)
           g == FoldedBy(d, Encode(d, f), a)
<1>1. k \in Nat /\ k # 0 /\ k \in Nat \ {0} /\ d.size % k = 0
  OBVIOUS
<1>2. IsDomain(e) /\ IsTeichmuller(e.root) /\ e.size = d.size \div 9 /\ e.size \in Nat \ {0}
  BY FoldedDomain
<1>3. d.size \in Nat \ {0}
  BY PointsOfDomain
<1>4. table = Encode(e, p)
  <2> HIDE DEF k
  <2>1. FoldTableK(d, Encode(d, f), k, a) = Encode(PowMap(d, k), PolyFold(f, k, a))
    BY <1>1, FoldOfEncoding
  <2> QED
    BY <2>1 DEF k
<1>5. PICK m \in Nat, c \in Coeffs : FoldsInto(f, 9, a, m, c)
  <2> HIDE DEF k
  <2>1. \E m \in Nat : \E c \in Coeffs : FoldsInto(f, k, a, m, c)
    BY <1>1, PolyFoldIs
  <2> QED
    BY <2>1 DEF k
<1>6. IsPolynomial(p) /\ p.size <= m /\ m = (f.size + 8) \div 9
  <2>1. /\ IsPolynomial(p) /\ p.size <= m /\ m = (f.size + 9 - 1) \div 9
    BY <1>5 DEF FoldsInto
  <2>2. f.size \in Nat
    BY DEF IsPolynomial
  <2> QED
    BY <2>1, <2>2
<1>7. p.size \in Nat /\ p.size <= B \div 9 + 1 /\ p.size <= e.size
  <2>1. f.size \in Nat /\ p.size \in Nat
    BY <1>6 DEF IsPolynomial
  <2>2. m <= B \div 9 + 1
    BY <1>6, <2>1
  <2>3. B \div 9 + 1 <= d.size \div 9
    BY <1>3
  <2> QED
    BY <1>2, <1>6, <2>1, <2>2, <2>3
<1> HIDE DEF e, p, table
<1>8. /\ \A i \in 0 .. e.size - 1 : table[i] = Evaluate(p, e.points[i]) /\ table[i] \in Ring
  BY <1>2, <1>4, <1>6, EncodeIsTable
<1>9. Apart(e.points, e.size)
  BY <1>2, CosetApart
<1>10. g = Interpolate(e.points, table, e.size)
  BY DEF FoldedBy, e, table
<1> HIDE DEF g
<1>11. IsPolynomial(g)
  BY <1>2, <1>8, <1>9, <1>10, InterpolateFacts
<1>12. g.size <= p.size /\ \A z \in Ring : Evaluate(g, z) = Evaluate(p, z)
  BY <1>2, <1>6, <1>7, <1>8, <1>10, InterpolantOfEncoding
<1>13. g.size <= B \div 9 + 1
  <2>1. g.size \in Nat
    BY <1>11 DEF IsPolynomial
  <2> QED
    BY <1>7, <1>12, <2>1
<1>14. ASSUME NEW i \in 0 .. e.size - 1
       PROVE  table[i] = Evaluate(g, e.points[i]) /\ table[i] \in Ring
  <2>1. e.points[i] \in Ring
    BY <1>9 DEF Apart
  <2> QED
    BY <1>8, <1>12, <2>1
<1> QED
  BY <1>11, <1>13, <1>14 DEF g, e, table

(* The prover's witness of a round up to its commitment.                   *)
WitnessAt(r, ds) ==
  /\ IsPolynomial(witness.folded) /\ witness.folded.size <= BoundAt(r + 1) + 1
  /\ \A i \in 0 .. ds.folded.size - 1 :
       /\ witness.answers[i] = Evaluate(witness.folded, ds.folded.points[i])
       /\ witness.answers[i] \in Ring
  /\ witness.shifted = Encode(ds.shift, witness.folded)

(* What a concatenation holds.                                             *)
LEMMA ConcatIs ==
  ASSUME NEW S, NEW a \in Seq(S), NEW b \in Seq(S), NEW c, c = a \o b
  PROVE  /\ c \in Seq(S) /\ Len(c) = Len(a) + Len(b) /\ Len(a) \in Nat /\ Len(b) \in Nat
         /\ \A i \in 1 .. Len(a) : c[i] = a[i]
         /\ \A i \in 1 .. Len(b) : c[Len(a) + i] = b[i]
<1>1. Len(a) \in Nat /\ Len(b) \in Nat
  OBVIOUS
<1>2. c \in Seq(S) /\ Len(c) = Len(a) + Len(b)
  BY ConcatProperties
<1>3. ASSUME NEW i \in 1 .. Len(a) PROVE c[i] = a[i]
  <2>1. i \in 1 .. Len(a) + Len(b) /\ i <= Len(a)
    BY <1>1
  <2> QED
    BY <2>1, ConcatProperties
<1>4. ASSUME NEW i \in 1 .. Len(b) PROVE c[Len(a) + i] = b[i]
  <2> DEFINE j == Len(a) + i
  <2>1. j \in 1 .. Len(a) + Len(b) /\ j > Len(a) /\ j - Len(a) = i
    BY <1>1
  <2> HIDE DEF j
  <2>2. c[j] = b[j - Len(a)]
    BY <2>1, ConcatProperties
  <2> QED
    BY <2>1, <2>2 DEF j
<1> QED
  BY <1>1, <1>2, <1>3, <1>4

RoundValues(d) ==
  Betas(witness.folded, d.got[1]) \o [i \in DOMAIN d.got[4] |-> witness.answers[d.got[4][i]]]

(* The values a round's quotient is by are those of the folded polynomial. *)
LEMMA AnswersAre ==
  ASSUME RingLaws, setup \in Setups, ValidStirInstance(Params, setup.domain, setup.degree),
         NEW r \in 0 .. Rounds - 1, WitnessAt(r, RoundAt(r)), NEW d, Sampled(r, RoundAt(r), d),
         NEW values, values = RoundValues(d),
         NEW points, points = QuotientPoints(RoundAt(r), d)
  PROVE  /\ values \in Seq(Ring) /\ Len(values) = Len(points)
         /\ \A i \in 1 .. Len(points) : values[i] = Evaluate(witness.folded, points[i])
<1> DEFINE ds == RoundAt(r)
           f  == witness.folded
           F  == ds.folded
           o  == d.got[1]
           p  == d.got[4]
           bo == Betas(f, o)
           bp == [i \in DOMAIN p |-> witness.answers[p[i]]]
<1>1. /\ points \in Seq(Ring)
      /\ o \in Seq(Ring) /\ p \in Seq(Nat) /\ \A i \in 1 .. Len(p) : p[i] \in 0 .. F.size - 1
      /\ Len(points) = Len(o) + Len(p)
      /\ \A i \in 1 .. Len(o) : points[i] = o[i]
      /\ \A i \in 1 .. Len(p) : points[Len(o) + i] = F.points[p[i]]
  <2>1. PointsHold(r, ds, points) /\ PointsSplit(ds, d, points)
    BY RoundPoints
  <2> HIDE DEF ds
  <2>2. points \in Seq(Ring)
    BY <2>1 DEF PointsHold
  <2>3. /\ o \in Seq(Ring) /\ p \in Seq(Nat) /\ \A i \in 1 .. Len(p) : p[i] \in 0 .. F.size - 1
        /\ Len(points) = Len(o) + Len(p)
        /\ \A i \in 1 .. Len(o) : points[i] = o[i]
        /\ \A i \in 1 .. Len(p) : points[Len(o) + i] = F.points[p[i]]
    BY <2>1 DEF PointsSplit, SplitInto
  <2> QED
    BY <2>2, <2>3
<1>2. /\ IsPolynomial(f)
      /\ \A i \in 0 .. F.size - 1 : /\ witness.answers[i] = Evaluate(f, F.points[i])
                                    /\ witness.answers[i] \in Ring
  BY SMTT(30) DEF WitnessAt
<1>3. values = bo \o bp
  BY DEF RoundValues
<1> HIDE DEF f, F, o, p, ds
<1>4. bo \in Seq(Ring) /\ Len(bo) = Len(o) /\ \A i \in 1 .. Len(o) : bo[i] = Evaluate(f, o[i])
  <2>1. \A i \in 1 .. Len(o) : o[i] \in Ring /\ Evaluate(f, o[i]) \in Ring
    <3>1. \A i \in 1 .. Len(o) : o[i] \in Ring
      BY <1>1
    <3>2. \A z \in Ring : Evaluate(f, z) \in Ring
      BY <1>2, EvaluateIsValue
    <3> QED
      BY <3>1, <3>2
  <2>2. DOMAIN o = 1 .. Len(o) /\ Len(o) \in Nat
    BY <1>1
  <2>3. bo = [i \in 1 .. Len(o) |-> Evaluate(f, o[i])]
    BY <2>2 DEF Betas
  <2> QED
    BY <2>1, <2>2, <2>3
<1>5. bp \in Seq(Ring) /\ Len(bp) = Len(p) /\ \A i \in 1 .. Len(p) : bp[i] = Evaluate(f, F.points[p[i]])
  <2>1. \A i \in 1 .. Len(p) : witness.answers[p[i]] \in Ring
                               /\ witness.answers[p[i]] = Evaluate(f, F.points[p[i]])
    BY <1>1, <1>2
  <2>2. DOMAIN p = 1 .. Len(p) /\ Len(p) \in Nat
    BY <1>1
  <2>3. bp = [i \in 1 .. Len(p) |-> witness.answers[p[i]]]
    BY <2>2
  <2> QED
    BY <2>1, <2>2, <2>3
<1> HIDE DEF bo, bp
<1>6. /\ values \in Seq(Ring) /\ Len(values) = Len(o) + Len(p) /\ Len(o) \in Nat /\ Len(p) \in Nat
      /\ \A i \in 1 .. Len(o) : values[i] = bo[i]
      /\ \A i \in 1 .. Len(p) : values[Len(o) + i] = bp[i]
  <2>1. bo \in Seq(Ring) /\ bp \in Seq(Ring)
    BY <1>4, <1>5
  <2>2. /\ values \in Seq(Ring) /\ Len(values) = Len(bo) + Len(bp) /\ Len(bo) \in Nat /\ Len(bp) \in Nat
        /\ \A i \in 1 .. Len(bo) : values[i] = bo[i]
        /\ \A i \in 1 .. Len(bp) : values[Len(bo) + i] = bp[i]
    BY <1>3, <2>1, ConcatIs
  <2> QED
    BY <1>4, <1>5, <2>2
<1>7. ASSUME NEW i \in 1 .. Len(points) PROVE values[i] = Evaluate(f, points[i])
  <2>1. CASE i <= Len(o)
    <3>1. i \in 1 .. Len(o)
      BY <1>6, <2>1
    <3> QED
      BY <1>1, <1>4, <1>6, <3>1
  <2>2. CASE ~(i <= Len(o))
    <3> DEFINE j == i - Len(o)
    <3>1. j \in 1 .. Len(p) /\ Len(o) + j = i
      BY <1>1, <1>6, <2>2
    <3> HIDE DEF j
    <3>2. values[i] = bp[j] /\ points[i] = F.points[p[j]]
      BY <1>1, <1>6, <3>1
    <3> QED
      BY <1>5, <3>1, <3>2
  <2> QED
    BY <2>1, <2>2
<1> QED
  BY <1>1, <1>6, <1>7 DEF f

(* The gap the degree correction fills, and what it leaves room for.       *)
LEMMA GapFits ==
  ASSUME NEW B \in Nat, NEW n \in Nat, n <= B + 1
  PROVE  LET low == SaturatingSubtract(B, n)
         IN  low \in Nat /\ low <= B /\ B - low \in Nat /\ B - low <= n
BY DEF SaturatingSubtract

(* A quotient by n points, corrected, is within its bound.                 *)
LEMMA CorrectedFits ==
  ASSUME RingLaws, NEW B \in Nat, NEW n \in Nat, n <= B + 1, NEW q, IsPolynomial(q),
         q.size = 0 \/ q.size + n <= B + 1, NEW comb \in Ring
  PROVE  LET low == SaturatingSubtract(B, n)
             f == DegreeCorrection(q, B, low, comb)
         IN  /\ IsPolynomial(f) /\ f.size <= B + 1
             /\ \A z \in Ring : Evaluate(f, z)
                                  = Times(Evaluate(q, z), Geometric(Times(z, comb), B - low))
<1> DEFINE low == SaturatingSubtract(B, n)
           s == ScalingPolynomial(B, low, comb)
           f == DegreeCorrection(q, B, low, comb)
<1>1. low \in Nat /\ low <= B /\ B - low \in Nat /\ B - low <= n
  BY GapFits
<1> HIDE DEF low
<1>2. /\ IsPolynomial(s) /\ s.size <= B - low + 1
      /\ \A z \in Ring : Evaluate(s, z) = Geometric(Times(z, comb), B - low)
  BY <1>1, ScalingIs
<1>3. f = Multiply(q, s)
  BY DEF DegreeCorrection
<1> HIDE DEF s, f
<1>4. /\ IsPolynomial(f)
      /\ f.size = 0 \/ (q.size # 0 /\ s.size # 0 /\ f.size + 1 <= q.size + s.size)
      /\ \A z \in Ring : Evaluate(f, z) = Times(Evaluate(q, z), Evaluate(s, z))
  BY <1>2, <1>3, ProductOfPolynomials
<1>5. f.size <= B + 1
  <2>1. f.size \in Nat /\ q.size \in Nat /\ s.size \in Nat
    BY <1>2, <1>4 DEF IsPolynomial
  <2>2. CASE f.size = 0
    BY <2>1, <2>2
  <2>3. CASE f.size # 0
    <3>1. q.size # 0 /\ f.size + 1 <= q.size + s.size
      BY <1>4, <2>3
    <3>2. q.size + n <= B + 1
      BY <3>1
    <3> QED
      BY <1>1, <1>2, <2>1, <3>1, <3>2
  <2> QED
    BY <2>2, <2>3
<1>6. \A z \in Ring : Evaluate(f, z) = Times(Evaluate(q, z), Geometric(Times(z, comb), B - low))
  BY <1>2, <1>4
<1> QED
  BY <1>4, <1>5, <1>6 DEF f, low

(* On a domain d where all points have a unit below, q is the quotient of  *)
(* f - ans, and next its correction from low to B.                         *)
Reusable(d, f, ans, q, points, B, low, comb, next) ==
  /\ IsDomain(d) /\ IsPolynomial(f) /\ IsPolynomial(ans) /\ IsPolynomial(q) /\ points \in Seq(Ring)
  /\ B \in Nat /\ low \in Nat /\ low <= B /\ comb \in Ring
  /\ \A x \in DomainPoints(d) : IsUnit(BelowAt(points, x))
  /\ \A z \in Ring : /\ Minus(Evaluate(f, z), Evaluate(ans, z)) = Times(BelowAt(points, z), Evaluate(q, z))
                      /\ Evaluate(next, z) = Times(Evaluate(q, z), Geometric(Times(z, comb), B - low))

(* The table computed point by point is the encoding of the corrected      *)
(* quotient wherever it can be computed.                                   *)
LEMMA ReusedIsEncoding ==
  ASSUME RingLaws, NEW d, NEW f, NEW ans, NEW q, NEW points, NEW B, NEW low, NEW comb, NEW next,
         Reusable(d, f, ans, q, points, B, low, comb, next)
  PROVE  /\ CanReuse(d, VanishingPolynomial(points))
         /\ ReusedOracle(d, Encode(d, f), ans, VanishingPolynomial(points), q, comb, B, low)
              = Encode(d, next)
<1> DEFINE shifted == Encode(d, f)
           vanishing == VanishingPolynomial(points)
<1>0. /\ IsDomain(d) /\ IsPolynomial(f) /\ IsPolynomial(ans) /\ IsPolynomial(q) /\ points \in Seq(Ring)
      /\ B \in Nat /\ low \in Nat /\ low <= B /\ comb \in Ring
      /\ \A x \in DomainPoints(d) : IsUnit(BelowAt(points, x))
  BY DEF Reusable
<1>1. /\ \A i \in 0 .. d.size - 1 : d.points[i] \in Ring /\ d.points[i] \in DomainPoints(d)
      /\ \A i \in 0 .. d.size - 1 : shifted[i] = Evaluate(f, d.points[i])
  BY <1>0, PointsOfDomain, EncodeIsTable DEF DomainPoints
<1>2. ASSUME NEW x \in DomainPoints(d)
      PROVE  x \in Ring /\ IsUnit(Evaluate(vanishing, x)) /\ Evaluate(vanishing, x) = BelowAt(points, x)
  <2>1. x \in Ring
    BY <1>1 DEF DomainPoints
  <2>2. Evaluate(vanishing, x) = BelowAt(points, x)
    BY <1>0, <2>1, VanishingValue
  <2> QED
    BY <1>0, <2>1, <2>2
<1> HIDE DEF shifted, vanishing
<1>3. CanReuse(d, vanishing)
  BY <1>2 DEF CanReuse
<1>4. ASSUME NEW i \in 0 .. d.size - 1
      PROVE  LET x     == d.points[i]
                 below == Evaluate(vanishing, x)
                 value == IF below = 0 THEN Evaluate(q, x)
                          ELSE Times(Minus(shifted[i], Evaluate(ans, x)), Inv(below))
             IN  Times(value, RingSum([e \in 0 .. B - low |-> Power(Times(x, comb), e)], B - low + 1))
                   = Evaluate(next, x)
  <2> DEFINE x == d.points[i]
             below == Evaluate(vanishing, x)
             w == Evaluate(q, x)
             top == Minus(shifted[i], Evaluate(ans, x))
             value == IF below = 0 THEN w ELSE Times(top, Inv(below))
  <2>1. /\ x \in Ring /\ IsUnit(below) /\ below = BelowAt(points, x) /\ shifted[i] = Evaluate(f, x)
    BY <1>1, <1>2
  <2>2. below \in Ring /\ w \in Ring
    BY <1>0, <2>1, BelowInRing, EvaluateIsValue
  <2>3. below # 0
    BY <2>1 DEF RingLaws, Counting
  <2>4. top = Times(below, w)
    BY <2>1 DEF Reusable
  <2>5. Evaluate(next, x) = Times(w, Geometric(Times(x, comb), B - low))
    BY <2>1 DEF Reusable
  <2> HIDE DEF x, below, w, top
  <2>6. Times(top, Inv(below)) = w
    <3> DEFINE v == Inv(below)
    <3>1. v \in Ring /\ Times(below, v) = OfInteger(1)
      BY <2>1, <2>2, InverseAssumption
    <3> HIDE DEF v
    <3>2. Times(Times(below, w), v) = Times(w, Times(below, v))
      BY <2>2, <3>1 DEF RingLaws, Closed, Multiplicative
    <3> QED
      BY <2>2, <2>4, <3>1, <3>2 DEF RingLaws, Multiplicative, v
  <2>7. value = w
    BY <2>3, <2>6
  <2> QED
    BY <2>5, <2>7 DEF Geometric, x, below, w, top
<1>5. ReusedOracle(d, shifted, ans, vanishing, q, comb, B, low)
        = [i \in 0 .. d.size - 1 |-> Evaluate(next, d.points[i])]
  BY <1>4 DEF ReusedOracle
<1> QED
  BY <1>3, <1>5 DEF Encode, shifted, vanishing

(* Points a unit away from each of the points have a unit below.           *)
LEMMA BelowIsUnit ==
  ASSUME RingLaws, NEW points \in Seq(Ring), NEW x \in Ring,
         \A i \in 1 .. Len(points) : IsUnit(Minus(x, points[i]))
  PROVE  IsUnit(BelowAt(points, x))
<1>1. /\ Len(points) \in Nat
      /\ \A i \in 0 .. Len(points) - 1 : /\ Below(points, x)[i] \in Ring
                                         /\ Below(points, x)[i] = Minus(x, points[i + 1])
  BY BelowInRing
<1>2. ASSUME NEW i \in 0 .. Len(points) - 1
      PROVE  Below(points, x)[i] \in Ring /\ IsUnit(Below(points, x)[i])
  <2> DEFINE j == i + 1
  <2>1. j \in 1 .. Len(points) /\ Below(points, x)[i] = Minus(x, points[j])
    BY <1>1
  <2> HIDE DEF j
  <2> QED
    BY <1>1, <2>1
<1> HIDE DEF Below
<1>3. IsUnit(RingProduct(Below(points, x), Len(points)))
  <2> DEFINE f == Below(points, x)
             n == Len(points)
  <2>1. n \in Nat /\ \A i \in 0 .. n - 1 : f[i] \in Ring /\ IsUnit(f[i])
    BY <1>1, <1>2
  <2> HIDE DEF f, n
  <2>2. IsUnit(RingProduct(f, n))
    BY <2>1, ProductOfUnits
  <2> QED
    BY <2>2 DEF f, n
<1> QED
  BY <1>3 DEF BelowAt

(* What holds of a round's polynomials, whatever was drawn.                *)
Fits(r, a) ==
  LET bound == BoundAt(r + 1)
  IN  /\ IsPolynomial(a.next) /\ a.next.size <= bound + 1
      /\ CanReuse(DomainAt(r + 1), a.vanishing)
      /\ ReusedOracle(DomainAt(r + 1), a.shifted, a.answer, a.vanishing, a.quotient, a.comb, bound,
                      SaturatingSubtract(bound, Len(a.points)))
           = Encode(DomainAt(r + 1), a.next)

(* What a round's polynomials are, whatever was drawn.                     *)
AnswerHolds(d, a, points, values, B, low) ==
  /\ points = QuotientPoints(RoundAt(round), d) /\ PointsHold(round, RoundAt(round), points)
  /\ values = RoundValues(d) /\ values \in Seq(Ring) /\ Len(values) = Len(points)
  /\ \A i \in 1 .. Len(points) : /\ values[i] = Evaluate(a.answer, points[i])
                                 /\ Evaluate(witness.folded, points[i]) = Evaluate(a.answer, points[i])
  /\ B = BoundAt(round + 1) /\ low = SaturatingSubtract(B, Len(points))
  /\ a.shifted = Encode(DomainAt(round + 1), witness.folded)
  /\ a.vanishing = VanishingPolynomial(points) /\ a.shake = ShakePolynomial(a.answer, points, values)
  /\ a.exact = DividesExactly(witness.folded, a.answer, points)
  /\ a.comb = d.got[2] /\ a.points = points
  /\ IsPolynomial(a.next) /\ a.next.size <= B + 1
  /\ Reusable(DomainAt(round + 1), witness.folded, a.answer, a.quotient, points, B, low, a.comb, a.next)

LEMMA AnsweredHolds ==
  ASSUME RingLaws, setup \in Setups, ValidStirInstance(Params, setup.domain, setup.degree),
         round \in 0 .. Rounds - 1, WitnessAt(round, RoundAt(round)),
         NEW d, Sampled(round, RoundAt(round), d), d.got[2] \in Ring,
         NEW a, a = Answered(RoundAt(round), d)
  PROVE  \E points, values, B, low : AnswerHolds(d, a, points, values, B, low)
<1> DEFINE ds == RoundAt(round)
           f  == witness.folded
           B  == BoundAt(round + 1)
           points == QuotientPoints(ds, d)
           values == RoundValues(d)
           ans == AnswerPolynomial(points, values)
           q   == QuotientFromAnswers(f, ans, points)
           n   == Len(points)
           low == SaturatingSubtract(B, n)
           comb == d.got[2]
           next == DegreeCorrection(q, B, low, comb)
<1>1. RoundSettled(round, ds) /\ B \in Nat
  BY RoundIsSettled DEF RoundAt
<1>2. PointsHold(round, ds, points)
  BY RoundPoints
<1>3. values \in Seq(Ring) /\ Len(values) = n /\ \A i \in 1 .. n : values[i] = Evaluate(f, points[i])
  <2> HIDE DEF values, points
  <2>1. values = RoundValues(d) /\ points = QuotientPoints(RoundAt(round), d)
    BY DEF values, points
  <2> QED
    BY <2>1, AnswersAre
<1>4. IsPolynomial(f) /\ f.size <= B + 1 /\ witness.shifted = Encode(ds.shift, f)
  BY DEF WitnessAt
<1>5. /\ a.shifted = witness.shifted /\ a.answer = ans /\ a.vanishing = VanishingPolynomial(points)
      /\ a.quotient = q /\ a.exact = DividesExactly(f, ans, points) /\ a.comb = comb
      /\ a.next = next /\ a.points = points /\ a.shake = ShakePolynomial(ans, points, values)
  BY DEF Answered, RoundValues
<1>6. ds.shift = DomainAt(round + 1) /\ IsDomain(ds.shift)
  BY <1>1 DEF RoundSettled
<1>7. /\ PointsApart(points) /\ points \in Seq(Ring) /\ n <= B + 1
      /\ \A x \in DomainPoints(ds.shift) : \A i \in 1 .. n : IsUnit(Minus(x, points[i]))
  BY <1>2 DEF PointsHold
<1>21. /\ points = QuotientPoints(RoundAt(round), d) /\ values = RoundValues(d)
       /\ B = BoundAt(round + 1) /\ low = SaturatingSubtract(B, Len(points)) /\ comb = d.got[2]
  OBVIOUS
<1> HIDE DEF ds, f, values, points, B, comb
<1>8. n \in Nat
  BY <1>7
<1>9. /\ IsPolynomial(ans) /\ ans.size <= n
      /\ \A i \in 1 .. n : Evaluate(ans, points[i]) = values[i]
  BY <1>3, <1>7, AnswerIs
<1> HIDE DEF ans
<1>10. \A i \in 1 .. n : Evaluate(f, points[i]) = Evaluate(ans, points[i])
  BY <1>3, <1>9
<1>11. /\ IsPolynomial(q) /\ (q.size = 0 \/ q.size + n <= Longer(f, ans))
       /\ \A z \in Ring : Minus(Evaluate(f, z), Evaluate(ans, z)) = Times(BelowAt(points, z), Evaluate(q, z))
  BY <1>4, <1>7, <1>9, <1>10, QuotientIs
<1> HIDE DEF q
<1>12. q.size = 0 \/ q.size + n <= B + 1
  <2>1. Longer(f, ans) \in Nat /\ Longer(f, ans) <= B + 1
    <3>1. Longer(f, ans) = f.size \/ Longer(f, ans) = ans.size
      BY <1>4, <1>9, LongerIs
    <3>2. f.size \in Nat /\ ans.size \in Nat
      BY <1>4, <1>9 DEF IsPolynomial
    <3> QED
      BY <1>1, <1>4, <1>7, <1>8, <1>9, <3>1, <3>2
  <2>2. q.size \in Nat
    BY <1>11 DEF IsPolynomial
  <2> HIDE DEF n
  <2> QED
    BY <1>1, <1>8, <1>11, <2>1, <2>2
<1>13. comb \in Ring
  BY DEF comb
<1> HIDE DEF n
<1>14. /\ IsPolynomial(next) /\ next.size <= B + 1
       /\ \A z \in Ring : Evaluate(next, z) = Times(Evaluate(q, z), Geometric(Times(z, comb), B - low))
  BY <1>1, <1>7, <1>8, <1>11, <1>12, <1>13, CorrectedFits, SMTT(30)
<1>15. low \in Nat /\ low <= B
  BY <1>1, <1>7, <1>8, GapFits
<1> HIDE DEF low, next
<1>16. \A x \in DomainPoints(ds.shift) : IsUnit(BelowAt(points, x))
  <2> SUFFICES ASSUME NEW x \in DomainPoints(ds.shift) PROVE IsUnit(BelowAt(points, x))
    OBVIOUS
  <2>1. x \in Ring
    <3>1. \A i \in 0 .. ds.shift.size - 1 : ds.shift.points[i] \in Ring
      BY <1>6, PointsOfDomain
    <3> QED
      BY <3>1 DEF DomainPoints
  <2>2. \A i \in 1 .. Len(points) : IsUnit(Minus(x, points[i]))
    BY <1>7 DEF n
  <2> QED
    BY <1>7, <2>1, <2>2, BelowIsUnit
<1>17. Reusable(ds.shift, f, ans, q, points, B, low, comb, next)
  <2> DEFINE D == ds.shift
  <2>2. IsDomain(D) /\ IsPolynomial(f) /\ IsPolynomial(ans) /\ IsPolynomial(q) /\ points \in Seq(Ring)
    BY <1>4, <1>6, <1>7, <1>9, <1>11
  <2>3. B \in Nat /\ low \in Nat /\ low <= B /\ comb \in Ring
    BY <1>1, <1>13, <1>15
  <2>4. \A z \in Ring : /\ Minus(Evaluate(f, z), Evaluate(ans, z)) = Times(BelowAt(points, z), Evaluate(q, z))
                        /\ Evaluate(next, z) = Times(Evaluate(q, z), Geometric(Times(z, comb), B - low))
    BY <1>11, <1>14
  <2>5. \A x \in DomainPoints(D) : IsUnit(BelowAt(points, x))
    BY <1>16
  <2> HIDE DEF D
  <2>6. Reusable(D, f, ans, q, points, B, low, comb, next)
    BY <2>2, <2>3, <2>4, <2>5 DEF Reusable
  <2> QED
    BY <2>6 DEF D
<1>18. \A i \in 1 .. Len(points) : /\ values[i] = Evaluate(a.answer, points[i])
                                   /\ Evaluate(f, points[i]) = Evaluate(a.answer, points[i])
  BY <1>5, <1>9, <1>10 DEF n
<1>19. /\ a.shifted = Encode(DomainAt(round + 1), f)
       /\ IsPolynomial(a.next) /\ a.next.size <= B + 1
       /\ Reusable(DomainAt(round + 1), f, a.answer, a.quotient, points, B, low, a.comb, a.next)
  BY <1>4, <1>5, <1>6, <1>14, <1>17
<1>20. /\ a.vanishing = VanishingPolynomial(points) /\ a.shake = ShakePolynomial(a.answer, points, values)
       /\ a.exact = DividesExactly(f, a.answer, points) /\ a.comb = d.got[2] /\ a.points = points
       /\ PointsHold(round, RoundAt(round), points) /\ values \in Seq(Ring) /\ Len(values) = Len(points)
  BY <1>2, <1>3, <1>5, <1>21 DEF ds, n
<1>22. AnswerHolds(d, a, points, values, B, low)
  BY <1>18, <1>19, <1>20, <1>21 DEF AnswerHolds, f
<1> QED
  BY <1>22

LEMMA AnsweredFits ==
  ASSUME RingLaws, setup \in Setups, ValidStirInstance(Params, setup.domain, setup.degree),
         round \in 0 .. Rounds - 1, WitnessAt(round, RoundAt(round)),
         NEW d, Sampled(round, RoundAt(round), d), d.got[2] \in Ring
  PROVE  LET a == Answered(RoundAt(round), d)
         IN  a.exact /\ Fits(round, a) /\ Degree(a.next) <= BoundAt(round + 1)
<1>1. PICK a : a = Answered(RoundAt(round), d)
  OBVIOUS
<1>2. PICK points, values, B, low : AnswerHolds(d, a, points, values, B, low)
  BY <1>1, AnsweredHolds
<1>3. PICK D, f, ans, q : D = DomainAt(round + 1) /\ f = witness.folded /\ ans = a.answer /\ q = a.quotient
  OBVIOUS
<1>4. Reusable(D, f, ans, q, points, B, low, a.comb, a.next)
  BY <1>2, <1>3 DEF AnswerHolds
<1>5. /\ CanReuse(D, VanishingPolynomial(points))
      /\ ReusedOracle(D, Encode(D, f), ans, VanishingPolynomial(points), q, a.comb, B, low)
           = Encode(D, a.next)
  BY <1>4, ReusedIsEncoding
<1>6. Fits(round, a)
  BY <1>2, <1>3, <1>5 DEF AnswerHolds, Fits
<1>7. a.exact
  <2> SUFFICES ASSUME NEW i \in DOMAIN points
               PROVE  Evaluate(SubtractPolynomials(f, ans), points[i]) = 0
    BY <1>2, <1>3 DEF AnswerHolds, DividesExactly
  <2>1. IsPolynomial(f) /\ IsPolynomial(ans) /\ points \in Seq(Ring)
    BY <1>4 DEF Reusable
  <2>2. i \in 1 .. Len(points) /\ points[i] \in Ring
    BY <2>1
  <2>3. Evaluate(SubtractPolynomials(f, ans), points[i])
          = Minus(Evaluate(f, points[i]), Evaluate(ans, points[i]))
    BY <2>1, <2>2, DifferenceOfPolynomials
  <2>4. Evaluate(f, points[i]) \in Ring /\ Evaluate(f, points[i]) = Evaluate(ans, points[i])
    BY <1>2, <1>3, <2>1, <2>2, EvaluateIsValue DEF AnswerHolds
  <2> QED
    BY <2>3, <2>4, DifferenceZero
<1>8. Degree(a.next) <= B /\ B = BoundAt(round + 1)
  <2>1. a.next.size \in Nat /\ a.next.size <= B + 1 /\ B \in Nat /\ B = BoundAt(round + 1)
    BY <1>2, <1>4 DEF AnswerHolds, IsPolynomial, Reusable
  <2> QED
    BY <2>1 DEF Degree
<1> QED
  BY <1>1, <1>6, <1>7, <1>8

-----------------------------------------------------------------------------
(* What the prover keeps *)

(* What an answer may be depends on the setup alone.                       *)
LEMMA AnswersStay ==
  ASSUME SameSetup, Answers(memo')
  PROVE  Answers(memo)'
<1>1. \A label : AnswersTo(label)' = AnswersTo(label)
  <2>1. /\ Params' = Params /\ FinalDomain' = FinalDomain /\ FinalCount' = FinalCount
        /\ \A r : RoundAt(r)' = RoundAt(r) /\ CountAt(r)' = CountAt(r)
    BY SetupStays DEF RoundAt, CountAt, FinalCount, SameSetup
  <2> QED
    BY <2>1 DEF AnswersTo
<1> QED
  BY <1>1 DEF Answers

(* The first folding challenge, and the last positions.                    *)
LEMMA FirstChallenge ==
  ASSUME IsSequence(transcript), Answers(memo), NEW what,
         NEW d \in Ask(Absorb(Started, what), <<"alpha", 0>>, Challenges)
  PROVE  IsSequence(d.t) /\ Answers(d.m) /\ d.got[1] \in Ring
<1> DEFINE b == Absorb(Started, what)
           label == <<"alpha", 0>>
<1>1. b.t = Append(transcript, what) /\ b.m = memo /\ b.got = <<>>
  BY DEF Absorb, Started
<1>2. IsSequence(b.t) /\ Answers(b.m) /\ IsSequence(b.got)
  <2>1. IsSequence(Append(transcript, what))
    BY AppendAnything DEF IsSequence
  <2> QED
    BY <1>1, <2>1, EmptySequence
<1>3. AnswersTo(label) = Ring
  BY DEF AnswersTo
<1>4. Challenges \in SUBSET Ring
  BY DEF Challenges, TeichmullerSet
<1> HIDE DEF b, label
<1>5. PICK v : Asked(b, label, d, v)
  BY <1>2, <1>3, <1>4, AskGives DEF b, label
<1>6. d.got[1] = v
  BY <1>1, <1>5 DEF Asked
<1> QED
  BY <1>3, <1>5, <1>6 DEF Asked

LEMMA LastPositions ==
  ASSUME IsSequence(transcript), Answers(memo), NEW d \in FinalDraws
  PROVE  Answers(d.m) /\ d.got[1] \in PositionDraws(FinalCount, FinalDomain.size)
<1> DEFINE label == <<"final", Rounds>>
           S == PositionDraws(FinalCount, FinalDomain.size)
<1>1. IsSequence(Started.t) /\ Answers(Started.m) /\ IsSequence(Started.got) /\ Started.got = <<>>
  BY EmptySequence DEF Started
<1>2. AnswersTo(label) = S
  BY DEF AnswersTo
<1>3. d \in Ask(Started, label, S)
  BY DEF FinalDraws
<1> HIDE DEF label, S
<1>4. PICK v : Asked(Started, label, d, v)
  BY <1>1, <1>2, <1>3, AskGives
<1>5. d.got[1] = v
  BY <1>1, <1>4 DEF Asked
<1> QED
  BY <1>2, <1>4, <1>5 DEF Asked, S

(* The polynomial the prover goes on from is within the round's bound; its *)
(* witness is what AnsweredFits needs.                                     *)
CurrentFits ==
  /\ alpha \in Ring /\ IsPolynomial(current.polynomial)
  /\ current.polynomial.size <= BoundAt(round) + 1

ProverState ==
  /\ IsSequence(transcript) /\ Answers(memo)
  /\ pc \in {"fold", "finish"} => CurrentFits
  /\ pc = "answer" => WitnessAt(round, RoundAt(round))
  /\ ProverKeepsBounds /\ ReuseIsEncoding

(* A step after which nobody proves.                                       *)
LEMMA NotProving ==
  ASSUME SameSetup, IsSequence(transcript)', Answers(memo'),
         pc' \notin {"fold", "answer", "finish"}, verdict' # "overflow"
  PROVE  ProverState'
<1>1. Answers(memo)'
  BY AnswersStay
<1>2. ReuseIsEncoding'
  BY DEF ReuseIsEncoding
<1> QED
  BY <1>1, <1>2 DEF ProverState, ProverKeepsBounds

LEMMA ProverInit == Init => ProverState
<1> SUFFICES ASSUME Init PROVE ProverState
  OBVIOUS
<1>1. transcript = <<>> /\ memo = <<>> /\ pc = "prove" /\ verdict = "none"
  BY DEF Init
<1>2. IsSequence(transcript) /\ Answers(memo)
  BY <1>1, EmptySequence DEF Answers
<1>3. ReuseIsEncoding
  BY <1>1 DEF ReuseIsEncoding
<1> QED
  BY <1>1, <1>2, <1>3 DEF ProverState, ProverKeepsBounds

LEMMA ProverStop ==
  ASSUME ProverState, NEW v, v # "overflow", Stop(v)
  PROVE  ProverState'
<1>1. SameSetup /\ transcript' = transcript /\ memo' = memo /\ pc' = "done" /\ verdict' = v
  BY DEF Stop, SameSetup
<1>2. IsSequence(transcript)' /\ Answers(memo')
  BY <1>1 DEF ProverState, IsSequence
<1> QED
  BY <1>1, <1>2, NotProving

LEMMA ProverStart ==
  ASSUME RingLaws, StirSetting, ProverState, ProveStart
  PROVE  ProverState'
<1>1. CASE ~MayProve
  <2>1. Stop("refused")
    BY <1>1 DEF ProveStart
  <2> QED
    BY <2>1, ProverStop
<1>2. CASE MayProve
  <2>1. PICK d \in Ask(Absorb(Started, <<"root", Root(Bundles(Tabulated(Encode(setup.domain, polynomial)), K))>>),
                       <<"alpha", 0>>, Challenges) :
          transcript' = d.t /\ memo' = d.m /\ alpha' = d.got[1]
    BY <1>2 DEF ProveStart
  <2>2. /\ SameSetup /\ round' = round /\ verdict' = verdict /\ round = 0
        /\ current' = [polynomial |-> polynomial, committed |-> Tabulated(Encode(setup.domain, polynomial))]
        /\ pc' \in {"fold", "finish"}
    BY <1>2 DEF ProveStart, SameSetup, StirSetting
  <2>3. IsSequence(d.t) /\ Answers(d.m) /\ d.got[1] \in Ring
    BY <2>1, FirstChallenge DEF ProverState
  <2>4. IsSequence(transcript)' /\ Answers(memo') /\ alpha' \in Ring
    BY <2>1, <2>3 DEF IsSequence
  <2>5. IsPolynomial(polynomial) /\ polynomial.size <= setup.degree + 1
    <3>1. polynomial \in Polynomials /\ setup \in Setups /\ Degree(polynomial) <= setup.degree
      BY <1>2 DEF StirSetting, MayProve
    <3>2. IsPolynomial(polynomial)
      BY <3>1, InputsAssumption DEF IsPolynomial
    <3>3. polynomial.size \in Nat /\ setup.degree \in Nat
      BY <3>1, <3>2, SetupsAssumption DEF IsPolynomial
    <3> QED
      BY <3>1, <3>2, <3>3 DEF Degree
  <2>6. BoundAt(0) = setup.degree
    BY <1>2, StirInstance DEF StirSetting, MayProve
  <2>7. CurrentFits'
    <3>1. BoundAt(0)' = BoundAt(0) /\ round' = 0
      BY <2>2, SetupStays
    <3>2. BoundAt(round)' = setup.degree
      BY <2>6, <3>1
    <3>3. current'.polynomial = polynomial
      BY <2>2
    <3> QED
      BY <2>4, <2>5, <3>2, <3>3 DEF CurrentFits, IsPolynomial
  <2>8. Answers(memo)'
    BY <2>2, <2>4, AnswersStay
  <2>9. ReuseIsEncoding'
    BY <2>2 DEF ReuseIsEncoding
  <2> QED
    BY <2>2, <2>4, <2>7, <2>8, <2>9 DEF ProverState, ProverKeepsBounds
<1> QED
  BY <1>1, <1>2

LEMMA ProverFold ==
  ASSUME RingLaws, StirSetting, ProverState, FoldRound
  PROVE  ProverState'
<1> DEFINE ds == RoundAt(round)
           f  == current.polynomial
           table == FoldTableK(ds.input, Encode(ds.input, f), 9, alpha)
           folded == FoldedBy(ds.input, Encode(ds.input, f), alpha)
           what == <<"root", Root(Bundles(Tabulated(Encode(ds.shift, folded)), K))>>
<1>1. /\ pc = "fold" /\ setup \in Setups /\ ValidStirInstance(Params, setup.domain, setup.degree)
      /\ K = 9 /\ Rounds \in Nat /\ round \in 0 .. Rounds - 1
  <2>1. pc = "fold"
    BY DEF FoldRound
  <2>2. /\ setup \in Setups /\ ValidStirInstance(Params, setup.domain, setup.degree)
        /\ K = 9 /\ Rounds \in Nat /\ round \in 0 .. Rounds
    BY <2>1, SettingAt
  <2>3. round < Rounds
    BY <2>1 DEF StirSetting
  <2> QED
    BY <2>1, <2>2, <2>3
<1>2. /\ RoundSettled(round, ds) /\ BoundAt(round) \in Nat /\ BoundAt(round) < ds.input.size
      /\ BoundAt(round + 1) = BoundAt(round) \div 9
  <2>1. /\ RoundSettled(round, ds) /\ BoundAt(round) \in Nat /\ BoundAt(round) < DomainAt(round).size
        /\ BoundAt(round + 1) = BoundAt(round) \div 9
    BY <1>1, RoundIsSettled DEF RoundAt
  <2> QED
    BY <2>1 DEF RoundSettled
<1>3. alpha \in Ring /\ IsPolynomial(f) /\ f.size <= BoundAt(round) + 1
  BY <1>1 DEF ProverState, CurrentFits
<1>4. /\ IsDomain(ds.input) /\ IsTeichmuller(ds.input.root) /\ ds.input.size % 9 = 0
      /\ ds.folded = PowMap(ds.input, 9) /\ IsDomain(ds.shift)
  BY <1>2 DEF RoundSettled
<1>5. /\ witness' = [folded |-> folded, answers |-> table, shifted |-> Encode(ds.shift, folded)]
      /\ transcript' = Append(transcript, what)
      /\ SameSetup /\ round' = round /\ memo' = memo /\ pc' = "answer" /\ verdict' = verdict
  <2>1. /\ witness' = [folded  |-> Interpolate(ds.folded.points, table, ds.folded.size),
                       answers |-> table,
                       shifted |-> Encode(ds.shift, Interpolate(ds.folded.points, table, ds.folded.size))]
        /\ transcript' = Append(transcript, <<"root",
             Root(Bundles(Tabulated(Encode(ds.shift, Interpolate(ds.folded.points, table, ds.folded.size))), K))>>)
    BY <1>1, TabulatedIs DEF FoldRound, RoundAt
  <2>2. Interpolate(ds.folded.points, table, ds.folded.size) = folded
    BY <1>4 DEF FoldedBy
  <2>3. SameSetup /\ round' = round /\ memo' = memo /\ pc' = "answer" /\ verdict' = verdict
    BY DEF FoldRound, SameSetup
  <2> HIDE DEF table, folded, ds
  <2> QED
    BY <2>1, <2>2, <2>3 DEF what
<1> HIDE DEF what
<1>6. /\ IsPolynomial(folded) /\ folded.size <= BoundAt(round + 1) + 1
      /\ \A i \in 0 .. ds.folded.size - 1 :
           table[i] = Evaluate(folded, ds.folded.points[i]) /\ table[i] \in Ring
  <2> DEFINE d == ds.input
             B == BoundAt(round)
  <2>1. IsDomain(d) /\ IsTeichmuller(d.root) /\ d.size % 9 = 0 /\ B \in Nat /\ f.size <= B + 1 /\ B < d.size
    BY <1>2, <1>3, <1>4
  <2> HIDE DEF d, B, f
  <2>2. LET t == FoldTableK(d, Encode(d, f), 9, alpha)
            g == FoldedBy(d, Encode(d, f), alpha)
        IN  /\ IsPolynomial(g) /\ g.size <= B \div 9 + 1
            /\ \A i \in 0 .. PowMap(d, 9).size - 1 :
                 t[i] = Evaluate(g, PowMap(d, 9).points[i]) /\ t[i] \in Ring
    BY <1>3, <2>1, FoldedPolynomial
  <2> QED
    BY <1>2, <1>4, <2>2 DEF d, B
<1> HIDE DEF ds, table, folded
<1>7. WitnessAt(round, RoundAt(round))'
  <2>1. BoundAt(round + 1)' = BoundAt(round + 1) /\ RoundAt(round)' = ds
    BY <1>5, SetupStays DEF RoundAt, ds
  <2>2. witness'.folded = folded /\ witness'.answers = table /\ witness'.shifted = Encode(ds.shift, folded)
    BY <1>5
  <2> QED
    BY <1>6, <2>1, <2>2 DEF WitnessAt, IsPolynomial
<1>8. IsSequence(transcript)' /\ Answers(memo')
  <2>1. IsSequence(Append(transcript, what))
    BY AppendAnything DEF IsSequence, ProverState
  <2> QED
    BY <1>5, <2>1 DEF IsSequence, ProverState
<1>9. Answers(memo)'
  BY <1>5, <1>8, AnswersStay
<1>10. ReuseIsEncoding'
  BY <1>5 DEF ReuseIsEncoding
<1> QED
  BY <1>5, <1>7, <1>8, <1>9, <1>10 DEF ProverState, ProverKeepsBounds

(* Where the prover is when it answers.                                    *)
LEMMA AnsweringSetting ==
  ASSUME RingLaws, StirSetting, pc = "answer" \/ pc = "draw", IsSequence(transcript), Answers(memo)
  PROVE  Drawing /\ Rounds \in Nat
<1>1. /\ setup \in Setups /\ ValidStirInstance(Params, setup.domain, setup.degree)
      /\ Rounds \in Nat /\ round \in 0 .. Rounds
  BY SettingAt
<1>2. round < Rounds
  BY DEF StirSetting
<1> QED
  BY <1>1, <1>2 DEF Drawing

(* Sending a round's message.                                              *)
LEMMA ProverSends ==
  ASSUME RingLaws, StirSetting, ProverState, pc = "answer", NEW d, RoundDrawn(d), Sampled(round, RoundAt(round), d),
         NEW a, a = Answered(RoundAt(round), d), SendRound(d, a, TRUE)
  PROVE  ProverState'
<1>1. Drawing /\ Rounds \in Nat
  BY AnsweringSetting DEF ProverState
<1>2. /\ SameSetup /\ round' = round + 1 /\ witness' = a /\ alpha' = d.got[3]
      /\ current' = [polynomial |-> a.next, committed |-> a.shifted]
      /\ transcript' = d.t /\ memo' = d.m /\ verdict' = "none"
      /\ pc' = IF round + 1 = Rounds THEN "finish" ELSE "fold"
  <2>1. round \in 0 .. Rounds - 1
    BY <1>1 DEF Drawing
  <2>2. pc' = CASE ~TRUE -> "done"
                [] TRUE /\ round + 1 = Rounds -> "finish"
                [] TRUE /\ round + 1 < Rounds -> "fold"
    BY DEF SendRound
  <2>3. pc' = IF round + 1 = Rounds THEN "finish" ELSE "fold"
    <3>1. CASE round + 1 = Rounds
      BY <1>1, <2>1, <2>2, <3>1
    <3>2. CASE round + 1 # Rounds
      <4>1. round + 1 < Rounds
        BY <1>1, <2>1, <3>2
      <4> QED
        BY <2>2, <3>2, <4>1
    <3> QED
      BY <3>1, <3>2
  <2> QED
    BY <2>3 DEF SendRound, SameSetup
<1>3. /\ setup \in Setups /\ ValidStirInstance(Params, setup.domain, setup.degree)
      /\ round \in 0 .. Rounds - 1
  BY <1>1 DEF Drawing
<1>4. /\ d.got[2] \in Ring /\ d.got[3] \in Ring /\ IsSequence(d.t) /\ Answers(d.m)
  BY DEF RoundDrawn
<1>5. Fits(round, a)
  <2>1. WitnessAt(round, RoundAt(round))
    BY DEF ProverState
  <2> QED
    BY <1>3, <1>4, <2>1, AnsweredFits
<1>6. \A r : BoundAt(r)' = BoundAt(r) /\ DomainAt(r)' = DomainAt(r)
  BY <1>2, SetupStays
<1>7. CurrentFits'
  <2>1. BoundAt(round)' = BoundAt(round + 1)
    BY <1>2, <1>6
  <2>2. current'.polynomial = a.next
    BY <1>2
  <2> QED
    BY <1>2, <1>4, <1>5, <2>1, <2>2 DEF CurrentFits, Fits, IsPolynomial
<1>8. ReuseIsEncoding'
  <2>1. BoundAt(round)' = BoundAt(round + 1) /\ DomainAt(round)' = DomainAt(round + 1)
    BY <1>2, <1>6
  <2>2. /\ CanReuse(DomainAt(round), witness.vanishing)'
        /\ (ReusedOracle(DomainAt(round), witness.shifted, witness.answer, witness.vanishing,
                         witness.quotient, witness.comb, BoundAt(round),
                         SaturatingSubtract(BoundAt(round), Len(witness.points)))
              = Encode(DomainAt(round), witness.next))'
    BY <1>2, <1>5, <2>1 DEF Fits
  <2> QED
    BY <2>2 DEF ReuseIsEncoding
<1>9. IsSequence(transcript)' /\ Answers(memo')
  BY <1>2, <1>4 DEF IsSequence
<1>10. Answers(memo)'
  BY <1>2, <1>9, AnswersStay
<1> QED
  BY <1>2, <1>7, <1>8, <1>9, <1>10 DEF ProverState, ProverKeepsBounds

LEMMA ProverAnswers ==
  ASSUME RingLaws, StirSetting, ProverState, AnswerRound
  PROVE  ProverState'
<1>1. pc = "answer"
  BY DEF AnswerRound
<1>2. Drawing
  BY <1>1, AnsweringSetting DEF ProverState
<1>3. PICK o \in OodDraws(RoundAt(round)) :
        IF RanOut(o) THEN Stop("no_sample")
        ELSE \E d \in RoundDraws(RoundAt(round), CountAt(round), o, Betas(witness.folded, o.got[1])) :
               IF RanOut(d) THEN Stop("no_sample")
               ELSE SendRound(d, Answered(RoundAt(round), d),
                              Answered(RoundAt(round), d).exact
                                /\ Degree(Answered(RoundAt(round), d).next) <= BoundAt(round + 1))
  BY DEF AnswerRound, RoundAt, CountAt
<1>4. CASE Stop("no_sample")
  BY <1>4, ProverStop
<1>5. CASE ~Stop("no_sample")
  <2> DEFINE betas == Betas(witness.folded, o.got[1])
  <2>1. ~RanOut(o)
    BY <1>3, <1>5
  <2>2. PICK d \in RoundDraws(RoundAt(round), CountAt(round), o, betas) :
          SendRound(d, Answered(RoundAt(round), d),
                    Answered(RoundAt(round), d).exact
                      /\ Degree(Answered(RoundAt(round), d).next) <= BoundAt(round + 1))
    BY <1>3, <1>5
  <2> HIDE DEF betas
  <2>3. RoundDrawn(d) /\ Sampled(round, RoundAt(round), d)
    BY <1>2, <2>1, DrawnIsSampled
  <2>4. PICK a : a = Answered(RoundAt(round), d)
    OBVIOUS
  <2>5. a.exact /\ Degree(a.next) <= BoundAt(round + 1)
    <3>1. WitnessAt(round, RoundAt(round))
      BY <1>1 DEF ProverState
    <3>2. /\ setup \in Setups /\ ValidStirInstance(Params, setup.domain, setup.degree)
          /\ round \in 0 .. Rounds - 1
      BY <1>2 DEF Drawing
    <3>3. d.got[2] \in Ring
      BY <2>3 DEF RoundDrawn
    <3> QED
      BY <2>3, <2>4, <3>1, <3>2, <3>3, AnsweredFits
  <2>6. SendRound(d, a, TRUE)
    <3>1. SendRound(d, a, a.exact /\ Degree(a.next) <= BoundAt(round + 1))
      BY <2>2, <2>4
    <3> QED
      BY <2>5, <3>1 DEF SendRound
  <2> QED
    BY <1>1, <2>3, <2>4, <2>6, ProverSends
<1> QED
  BY <1>4, <1>5

LEMMA ProverFinishes ==
  ASSUME RingLaws, StirSetting, ProverState, ProveFinish
  PROVE  ProverState'
<1> DEFINE d == DomainAt(Rounds)
           f == current.polynomial
           B == BoundAt(Rounds)
           final == FoldedBy(d, Encode(d, f), alpha)
<1>1. /\ pc = "finish" /\ setup \in Setups /\ ValidStirInstance(Params, setup.domain, setup.degree)
      /\ K = 9 /\ Rounds \in Nat /\ round = Rounds
  <2>1. pc = "finish"
    BY DEF ProveFinish
  <2>2. round = Rounds
    BY <2>1 DEF StirSetting
  <2> QED
    BY <2>1, <2>2, SettingAt
<1>2. DomainHolds(Rounds)
  <2>1. Rounds \in 0 .. Rounds
    BY <1>1
  <2> QED
    BY <1>1, <2>1, StirInstance
<1>3. alpha \in Ring /\ IsPolynomial(f) /\ f.size <= B + 1
  BY <1>1 DEF ProverState, CurrentFits
<1>4. IsDomain(d) /\ IsTeichmuller(d.root) /\ d.size % 9 = 0 /\ B \in Nat /\ B < d.size
  BY <1>2 DEF DomainHolds
<1>5. PICK e \in FinalDraws :
        /\ SameSetup /\ transcript' = transcript /\ memo' = e.m
        /\ verdict' = IF Degree(final) <= FoldedDegreeBound(B, 9) THEN "none" ELSE "overflow"
        /\ pc' = IF Degree(final) <= FoldedDegreeBound(B, 9) THEN "deliver" ELSE "done"
  <2>1. FinalDomain = PowMap(d, 9)
    BY <1>1 DEF FinalDomain
  <2>2. final = Interpolate(FinalDomain.points, FoldTableK(d, Tabulated(Encode(d, f)), K, alpha),
                            FinalDomain.size)
    <3>1. Tabulated(Encode(d, f)) = Encode(d, f)
      BY TabulatedIs
    <3> QED
      BY <1>1, <2>1, <3>1 DEF FoldedBy
  <2> HIDE DEF final
  <2> QED
    BY <1>1, <2>2 DEF ProveFinish, SameSetup
<1> HIDE DEF d, f, B
<1>6. IsPolynomial(final) /\ final.size <= B \div 9 + 1
  BY <1>3, <1>4, FoldedPolynomial
<1> HIDE DEF final
<1>7. Degree(final) <= FoldedDegreeBound(B, 9)
  <2>1. final.size \in Nat
    BY <1>6 DEF IsPolynomial
  <2>2. (B + 9) \div 9 - 1 = B \div 9 /\ B \div 9 \in Nat
    BY <1>4
  <2> QED
    BY <1>6, <2>1, <2>2 DEF Degree, FoldedDegreeBound
<1>8. Answers(e.m)
  BY LastPositions DEF ProverState
<1>9. IsSequence(transcript)' /\ Answers(memo')
  BY <1>5, <1>8 DEF IsSequence, ProverState
<1>10. pc' = "deliver" /\ verdict' = "none" /\ SameSetup
  BY <1>5, <1>7
<1> QED
  BY <1>9, <1>10, NotProving

LEMMA ProverDelivers ==
  ASSUME ProverState, NEW kind, Deliver(kind)
  PROVE  ProverState'
<1>1. SameSetup /\ transcript' = <<>> /\ memo' = memo /\ pc' = "verify" /\ verdict' = verdict
  BY DEF Deliver, SameSetup
<1>2. IsSequence(transcript)' /\ Answers(memo')
  BY <1>1, EmptySequence DEF ProverState, IsSequence
<1>3. verdict' # "overflow"
  BY <1>1 DEF ProverState, ProverKeepsBounds
<1> QED
  BY <1>1, <1>2, <1>3, NotProving

LEMMA ProverVerifies ==
  ASSUME ProverState, VerifyStart
  PROVE  ProverState'
<1>1. CASE ~EntryHolds
  <2>1. Stop("reject")
    BY <1>1 DEF VerifyStart
  <2> QED
    BY <2>1, ProverStop
<1>2. CASE EntryHolds
  <2>1. PICK d \in Ask(Absorb(Started, <<"root", proof.initial_root>>), <<"alpha", 0>>, Challenges) :
          transcript' = d.t /\ memo' = d.m /\ alpha' = d.got[1]
    BY <1>2 DEF VerifyStart
  <2>2. SameSetup /\ verdict' = verdict /\ pc' \in {"final", "check"}
    BY <1>2 DEF VerifyStart, SameSetup
  <2>3. IsSequence(d.t) /\ Answers(d.m)
    BY <2>1, FirstChallenge DEF ProverState
  <2>4. IsSequence(transcript)' /\ Answers(memo')
    BY <2>1, <2>3 DEF IsSequence
  <2>5. verdict' # "overflow"
    BY <2>2 DEF ProverState, ProverKeepsBounds
  <2> QED
    BY <2>2, <2>4, <2>5, NotProving
<1> QED
  BY <1>1, <1>2

LEMMA ProverChecked ==
  ASSUME ProverState, VerifyRound
  PROVE  ProverState'
<1>1. Stop("reject") \/ \E what : /\ SameSetup /\ transcript' = Append(transcript, what) /\ memo' = memo
                                  /\ pc' = "draw" /\ verdict' = verdict
  BY DEF VerifyRound, SameSetup
<1>2. CASE Stop("reject")
  BY <1>2, ProverStop
<1>3. ASSUME NEW what, SameSetup, transcript' = Append(transcript, what), memo' = memo,
             pc' = "draw", verdict' = verdict
      PROVE  ProverState'
  <2>1. IsSequence(Append(transcript, what))
    BY AppendAnything DEF IsSequence, ProverState
  <2>2. IsSequence(transcript)' /\ Answers(memo')
    BY <1>3, <2>1 DEF IsSequence, ProverState
  <2>3. verdict' # "overflow"
    BY <1>3 DEF ProverState, ProverKeepsBounds
  <2> QED
    BY <1>3, <2>2, <2>3, NotProving
<1> QED
  BY <1>1, <1>2, <1>3

LEMMA ProverDrawn ==
  ASSUME RingLaws, StirSetting, ProverState, DrawRound
  PROVE  ProverState'
<1>1. pc = "draw"
  BY DEF DrawRound
<1>2. Drawing
  BY <1>1, AnsweringSetting DEF ProverState
<1>3. PICK o \in OodDraws(RoundAt(round)) :
        IF BetasFit(proof.rounds[round + 1], o)
        THEN \E d \in RoundDraws(RoundAt(round), CountAt(round), o, proof.rounds[round + 1].betas) :
               IF RoundHolds(RoundAt(round), d) THEN AdvanceRound(RoundAt(round), d) ELSE Stop("reject")
        ELSE Stop("reject")
  BY DEF DrawRound, RoundAt, CountAt
<1>4. CASE Stop("reject")
  BY <1>4, ProverStop
<1>5. CASE ~Stop("reject")
  <2> DEFINE betas == proof.rounds[round + 1].betas
  <2>1. PICK d \in RoundDraws(RoundAt(round), CountAt(round), o, betas) : AdvanceRound(RoundAt(round), d)
    BY <1>3, <1>5
  <2> HIDE DEF betas
  <2>2. OodDrawn(o)
    BY <1>2, OodGives
  <2>3. RoundDrawn(d)
    BY <1>2, <2>2, DrawsGive
  <2>4. /\ SameSetup /\ transcript' = d.t /\ memo' = d.m /\ verdict' = verdict
        /\ pc' \in {"final", "check"}
    BY <2>1 DEF AdvanceRound, SameSetup
  <2>5. IsSequence(transcript)' /\ Answers(memo')
    BY <2>3, <2>4 DEF RoundDrawn, IsSequence
  <2>6. verdict' # "overflow"
    BY <2>4 DEF ProverState, ProverKeepsBounds
  <2> QED
    BY <2>4, <2>5, <2>6, NotProving
<1> QED
  BY <1>4, <1>5

LEMMA ProverEnds ==
  ASSUME ProverState, VerifyFinal
  PROVE  ProverState'
<1>1. CASE ~FinalBoundHolds
  <2>1. Stop("reject")
    BY <1>1 DEF VerifyFinal
  <2> QED
    BY <2>1, ProverStop
<1>2. CASE FinalBoundHolds
  <2>1. PICK d \in FinalDraws : memo' = d.m
    BY <1>2 DEF VerifyFinal
  <2>2. SameSetup /\ transcript' = transcript /\ pc' = "done" /\ verdict' \in {"accept", "reject"}
    BY <1>2 DEF VerifyFinal, SameSetup
  <2>3. Answers(d.m)
    BY <2>1, LastPositions DEF ProverState
  <2>4. IsSequence(transcript)' /\ Answers(memo')
    BY <2>1, <2>2, <2>3 DEF IsSequence, ProverState
  <2> QED
    BY <2>2, <2>4, NotProving
<1> QED
  BY <1>1, <1>2

LEMMA ProverStutters ==
  ASSUME ProverState, UNCHANGED vars
  PROVE  ProverState'
<1>1. /\ SameSetup /\ pc' = pc /\ round' = round /\ current' = current /\ alpha' = alpha
      /\ witness' = witness /\ transcript' = transcript /\ memo' = memo /\ verdict' = verdict
  BY DEF vars, proving, SameSetup
<1>2. /\ \A r : BoundAt(r)' = BoundAt(r) /\ DomainAt(r)' = DomainAt(r) /\ RoundAt(r)' = RoundAt(r)
      /\ Params' = Params
  BY <1>1, SetupStays DEF RoundAt
<1>3. BoundAt(round)' = BoundAt(round) /\ BoundAt(round + 1)' = BoundAt(round + 1)
      /\ DomainAt(round)' = DomainAt(round) /\ RoundAt(round)' = RoundAt(round)
  BY <1>1, <1>2
<1>4. CurrentFits => CurrentFits'
  BY <1>1, <1>3 DEF CurrentFits, IsPolynomial
<1>5. WitnessAt(round, RoundAt(round)) => WitnessAt(round, RoundAt(round))'
  BY <1>1, <1>3 DEF WitnessAt, IsPolynomial
<1>6. ReuseIsEncoding => ReuseIsEncoding'
  BY <1>1, <1>2, <1>3 DEF ReuseIsEncoding
<1>7. IsSequence(transcript)' /\ Answers(memo')
  BY <1>1 DEF IsSequence, ProverState
<1>8. Answers(memo)'
  BY <1>1, <1>7, AnswersStay
<1> QED
  BY <1>1, <1>4, <1>5, <1>6, <1>7, <1>8 DEF ProverState, ProverKeepsBounds

LEMMA ProverKeeps ==
  ASSUME RingLaws, StirSetting, ProverState, [Next]_vars
  PROVE  ProverState'
<1>1. CASE pc = "deliver" /\ \E kind \in DamageKinds : Deliver(kind)
  BY <1>1, ProverDelivers
<1>2. CASE UNCHANGED vars \/ Return
  BY <1>2, ProverStutters DEF Return
<1> QED
  BY <1>1, <1>2, ProverStart, ProverFold, ProverAnswers, ProverFinishes, ProverVerifies, ProverChecked,
     ProverDrawn, ProverEnds DEF Next

LEMMA ProverStateHolds ==
  ASSUME RingLaws
  PROVE  Spec => [](StirSetting /\ ProverState)
<1>1. Init => StirSetting /\ ProverState
  BY SettingInit, ProverInit
<1>2. StirSetting /\ ProverState /\ [Next]_vars => (StirSetting /\ ProverState)'
  BY SettingKeeps, ProverKeeps
<1> QED
  BY <1>1, <1>2, PTL DEF Spec

(* A validated instance and a polynomial within its degree bound: whatever *)
(* is drawn, no division of the honest prover leaves a remainder and no    *)
(* polynomial of it exceeds its round's bound (the exceptions of           *)
(* StirProver::prove are never thrown).                                    *)
THEOREM ProverStaysWithinBounds ==
  ASSUME RingLaws
  PROVE  Spec => []ProverKeepsBounds
<1>1. StirSetting /\ ProverState => ProverKeepsBounds
  BY DEF ProverState
<1> QED
  BY <1>1, ProverStateHolds, PTL

(* try_reuse_next_round_input_oracle: the table computed point by point    *)
(* from the committed one is the encoding of the next round's polynomial.  *)
THEOREM ReusedTableIsEncoding ==
  ASSUME RingLaws
  PROVE  Spec => []ReuseIsEncoding
<1>1. StirSetting /\ ProverState => ReuseIsEncoding
  BY DEF ProverState
<1> QED
  BY <1>1, ProverStateHolds, PTL

-----------------------------------------------------------------------------
(* Degree correction at a point *)

LEMMA DifferencesChain ==
  ASSUME RingLaws, NEW a \in Ring, NEW b \in Ring, NEW c \in Ring
  PROVE  Plus(Minus(a, b), Minus(b, c)) = Minus(a, c)
<1> DEFINE p == Minus(a, b)
           q == Minus(b, c)
<1>1. p \in Ring /\ q \in Ring /\ Plus(p, b) = a /\ Plus(q, c) = b
  BY DEF RingLaws, Closed, Additive
<1> HIDE DEF p, q
<1>2. Plus(p, q) \in Ring /\ Plus(Plus(p, q), c) = a
  BY <1>1 DEF RingLaws, Closed, Additive
<1>3. Minus(a, c) = Plus(p, q)
  BY <1>2, DifferenceIs
<1> QED
  BY <1>3 DEF p, q

(* 1 + y + ... + y^gap, times 1 - y; and with y = 1.                       *)
LEMMA GeometricSum ==
  ASSUME RingLaws, NEW y \in Ring, NEW gap \in Nat
  PROVE  /\ Geometric(y, gap) \in Ring
         /\ Times(Minus(1, y), Geometric(y, gap)) = Minus(1, Power(y, gap + 1))
         /\ y = 1 => Geometric(y, gap) = OfInteger(gap + 1)
<1> DEFINE p == [e \in 0 .. gap |-> Power(y, e)]
           n == gap + 1
           one == OfInteger(1)
           below == Minus(1, y)
<1>1. n \in Nat /\ n - 1 = gap
  OBVIOUS
<1>2. one = 1 /\ one \in Ring /\ below = Minus(one, y) /\ below \in Ring
  BY DEF RingLaws, Closed, Counting
<1>3. \A m \in Nat : Power(y, m) \in Ring /\ Power(y, m + 1) = Times(Power(y, m), y)
  BY PowerSteps
<1>4. Power(y, 0) = one
  BY PowerSteps
<1>5. \A i \in 0 .. n - 1 : p[i] \in Ring /\ p[i] = Power(y, i)
  BY <1>1, <1>3
<1> HIDE DEF p, n
<1>6. /\ RingSum(p, 0) = 0
      /\ \A m \in 0 .. n : RingSum(p, m) \in Ring
      /\ \A m \in 0 .. n - 1 : RingSum(p, m + 1) = Plus(RingSum(p, m), p[m])
  BY <1>1, <1>5, SumSteps
<1>7. Times(below, RingSum(p, n)) = Minus(one, Power(y, n))
  <2> DEFINE s == [m \in 0 .. n |-> Times(below, RingSum(p, m))]
             t == [m \in 0 .. n |-> Minus(one, Power(y, m))]
  <2>1. s[0] = t[0]
    <3>1. Times(below, 0) = 0
      BY <1>2, TimesZero
    <3>2. Minus(one, one) = 0
      BY <1>2, DifferenceZero
    <3> QED
      BY <1>1, <1>4, <1>6, <3>1, <3>2
  <2>2. ASSUME NEW i \in 0 .. n - 1, s[i] = t[i] PROVE s[i + 1] = t[i + 1]
    <3> DEFINE j == i + 1
               a == Power(y, i)
               b == RingSum(p, i)
    <3>1. j \in 0 .. n /\ i \in 0 .. n /\ i \in Nat
      BY <1>1
    <3>2. a \in Ring /\ b \in Ring /\ Power(y, j) = Times(a, y) /\ RingSum(p, j) = Plus(b, a)
      BY <1>3, <1>5, <1>6, <3>1
    <3>3. s[j] = Times(below, RingSum(p, j)) /\ t[j] = Minus(one, Power(y, j))
          /\ Times(below, b) = Minus(one, a)
      BY <2>2, <3>1
    <3> HIDE DEF j, a, b, s, t
    <3>4. Times(below, a) = Minus(a, Times(a, y))
      <4>1. Times(a, Minus(one, y)) = Minus(Times(a, one), Times(a, y))
        BY <1>2, <3>2, TimesDifference
      <4>2. Times(a, one) = a /\ Times(below, a) = Times(a, below)
        BY <1>2, <3>2 DEF RingLaws, Multiplicative
      <4> QED
        BY <1>2, <4>1, <4>2
    <3>5. Times(below, Plus(b, a)) = Plus(Times(below, b), Times(below, a))
      BY <1>2, <3>2 DEF RingLaws, Distributive
    <3>6. Times(a, y) \in Ring
      BY <3>2 DEF RingLaws, Closed
    <3>7. Plus(Minus(one, a), Minus(a, Times(a, y))) = Minus(one, Times(a, y))
      BY <1>2, <3>2, <3>6, DifferencesChain
    <3> QED
      BY <3>2, <3>3, <3>4, <3>5, <3>7 DEF j
  <2> HIDE DEF s, t
  <2>3. \A i \in 0 .. n : s[i] = t[i]
    BY <1>1, <2>1, <2>2, GoesOnAlike
  <2>4. s[n] = t[n]
    BY <1>1, <2>3
  <2> QED
    BY <1>1, <2>4 DEF s, t
<1>8. ASSUME y = 1 PROVE RingSum(p, n) = OfInteger(n)
  <2> DEFINE s == [m \in 0 .. n |-> RingSum(p, m)]
             t == [m \in 0 .. n |-> OfInteger(m)]
  <2>1. s[0] = t[0]
    BY <1>1, <1>6 DEF RingLaws, Counting
  <2>2. ASSUME NEW i \in 0 .. n - 1, s[i] = t[i] PROVE s[i + 1] = t[i + 1]
    <3> DEFINE j == i + 1
    <3>1. j \in 0 .. n /\ i \in 0 .. n /\ i \in Nat
      BY <1>1
    <3>2. p[i] = one
      BY <1>2, <1>5, <1>8, <3>1, PowerOfOne
    <3>3. RingSum(p, j) = Plus(RingSum(p, i), p[i])
      BY <1>6
    <3>4. OfInteger(j) = Plus(OfInteger(i), one)
      BY <3>1 DEF RingLaws, Counting
    <3>5. s[j] = RingSum(p, j) /\ t[j] = OfInteger(j) /\ RingSum(p, i) = OfInteger(i)
      BY <2>2, <3>1
    <3> QED
      BY <3>2, <3>3, <3>4, <3>5
  <2> HIDE DEF s, t
  <2>3. \A i \in 0 .. n : s[i] = t[i]
    BY <1>1, <2>1, <2>2, GoesOnAlike
  <2>4. s[n] = t[n]
    BY <1>1, <2>3
  <2> QED
    BY <1>1, <2>4 DEF s, t
<1>9. Geometric(y, gap) = RingSum(p, n)
  BY DEF Geometric, p, n
<1>10. RingSum(p, n) \in Ring
  BY <1>1, <1>6
<1> QED
  BY <1>2, <1>7, <1>8, <1>9, <1>10 DEF n

(* What degree_correction_eval gives, where it can divide.                 *)
LEMMA CorrectionIs ==
  ASSUME RingLaws, NEW x \in Ring, NEW v \in Ring, NEW comb \in Ring, NEW target \in Nat,
         NEW low \in Nat, low <= target, DegreeCorrectionEval(x, v, target, low, comb).ok
  PROVE  /\ DegreeCorrectionEval(x, v, target, low, comb).value
              = Times(v, Geometric(Times(x, comb), target - low))
         /\ Times(v, Geometric(Times(x, comb), target - low)) \in Ring
<1> DEFINE gap == target - low
           y == Times(x, comb)
           below == Minus(1, y)
           g == Geometric(y, gap)
           e == DegreeCorrectionEval(x, v, target, low, comb)
<1>1. gap \in Nat
  OBVIOUS
<1>2. y \in Ring /\ 1 \in Ring /\ OfInteger(1) = 1
  BY DEF RingLaws, Closed, Counting
<1>3. e = IF below = 0 THEN [ok |-> TRUE, value |-> Times(v, OfInteger(gap + 1))]
          ELSE [ok    |-> IsUnit(below),
                value |-> Times(Times(v, Minus(1, Power(y, gap + 1))), Inv(below))]
  BY DEF DegreeCorrectionEval
<1>4. /\ g \in Ring /\ Times(below, g) = Minus(1, Power(y, gap + 1))
      /\ y = 1 => g = OfInteger(gap + 1)
  <2> HIDE DEF y, gap
  <2> QED
    BY <1>1, <1>2, GeometricSum
<1>5. e.ok
  OBVIOUS
<1> HIDE DEF gap, y, g, e
<1>6. Times(v, g) \in Ring /\ below \in Ring
  BY <1>2, <1>4 DEF RingLaws, Closed
<1>7. CASE below = 0
  <2>1. y = 1
    BY <1>2, <1>7, DifferenceZero
  <2> QED
    BY <1>3, <1>4, <1>6, <1>7, <2>1 DEF e, g, y, gap
<1>8. CASE below # 0
  <2> DEFINE w == Inv(below)
  <2>1. IsUnit(below) /\ e.value = Times(Times(v, Times(below, g)), w)
    BY <1>3, <1>4, <1>5, <1>8
  <2>2. w \in Ring /\ Times(below, w) = OfInteger(1)
    BY <1>6, <2>1, InverseAssumption
  <2> HIDE DEF below, w
  <2>3. Times(Times(v, Times(below, g)), w) = Times(Times(v, g), Times(below, w))
    BY <1>4, <1>6, <2>2 DEF RingLaws, Closed, Multiplicative
  <2>4. e.value = Times(v, g)
    BY <1>6, <2>1, <2>2, <2>3 DEF RingLaws, Multiplicative
  <2> QED
    BY <1>6, <2>4 DEF e, g, y, gap
<1> QED
  BY <1>7, <1>8

(* What the verifier computes of an opened value at a point.               *)
Queried(f, bound, x, actual) ==
  IF f.initial THEN actual
  ELSE Times(Times(Minus(actual, Evaluate(f.ans_polynomial, x)), Inv(BelowAt(f.quotient_set, x))),
             Geometric(Times(x, f.comb_randomness),
                       bound - SaturatingSubtract(bound, Len(f.quotient_set))))

(* A function it can compute.                                              *)
Computable(f) ==
  f.initial \/ (/\ f.initial = FALSE /\ f.comb_randomness \in Ring
                /\ IsPolynomial(f.ans_polynomial) /\ f.quotient_set \in Seq(Ring))

LEMMA QueriedIs ==
  ASSUME RingLaws, NEW f, Computable(f), NEW bound \in Nat, NEW x \in Ring, NEW actual \in Ring,
         QueryCurrentFunction(f, bound, x, actual).ok
  PROVE  /\ QueryCurrentFunction(f, bound, x, actual).value = Queried(f, bound, x, actual)
         /\ Queried(f, bound, x, actual) \in Ring
<1>1. CASE f.initial
  BY <1>1 DEF QueryCurrentFunction, Queried
<1>2. CASE ~f.initial
  <2> DEFINE set == f.quotient_set
             ans == f.ans_polynomial
             comb == f.comb_randomness
             below == BelowAt(set, x)
             low == SaturatingSubtract(bound, Len(set))
             v == Times(Minus(actual, Evaluate(ans, x)), Inv(below))
             e == DegreeCorrectionEval(x, v, bound, low, comb)
  <2>1. comb \in Ring /\ IsPolynomial(ans) /\ set \in Seq(Ring)
    BY <1>2 DEF Computable
  <2>2. QueryCurrentFunction(f, bound, x, actual)
          = IF IsUnit(below) THEN e ELSE [ok |-> FALSE, value |-> 0]
    BY <1>2 DEF QueryCurrentFunction, BelowAt, Below
  <2>3. Queried(f, bound, x, actual) = Times(v, Geometric(Times(x, comb), bound - low))
    BY <1>2 DEF Queried
  <2> HIDE DEF set, ans, comb
  <2>4. below \in Ring /\ Evaluate(ans, x) \in Ring
    BY <2>1, BelowInRing, EvaluateIsValue
  <2>5. low \in Nat /\ low <= bound
    <3>1. Len(set) \in Nat
      BY <2>1
    <3> QED
      BY <3>1 DEF SaturatingSubtract
  <2> HIDE DEF below, low
  <2>6. v \in Ring
    <3>1. Inv(below) \in Ring
      BY <2>4, InverseInRing
    <3> QED
      BY <2>4, <3>1 DEF RingLaws, Closed
  <2> HIDE DEF v, e
  <2>7. e.ok /\ QueryCurrentFunction(f, bound, x, actual) = e
    BY <2>2
  <2> QED
    BY <2>1, <2>3, <2>5, <2>6, <2>7, CorrectionIs DEF e
<1> QED
  BY <1>1, <1>2


-----------------------------------------------------------------------------
(* What opened fibers fold to *)

(* On the fiber under c, the values of a function whose table is under a   *)
(* root, and their fold.                                                   *)
FiberValues(f, d, bound, root, c) ==
  [o \in 0 .. 8 |-> Queried(f, bound, d.points[c + o * (d.size \div 9)], root[c][o])]

FiberFold(f, d, bound, root, a, c) ==
  Evaluate(Interpolate(FiberPoints(d, c, d.size \div 9, 9), FiberValues(f, d, bound, root, c), 9), a)

(* A root of rows of elements of the ring.                                 *)
EntriesInRing(root) == \A c \in DOMAIN root : \A o \in DOMAIN root[c] : root[c][o] \in Ring

(* A domain the verifier queries, and how.                                 *)
Queryable(f, d, bound, a) ==
  /\ Computable(f) /\ IsDomain(d) /\ IsTeichmuller(d.root) /\ d.size % 9 = 0
  /\ bound \in Nat /\ a \in Ring

LEMMA DivModIs ==
  ASSUME NEW m \in Nat \ {0}, NEW c \in 0 .. m - 1, NEW o \in Nat, NEW x, x = m * o + c
  PROVE  x % m = c /\ x \div m = o
<1> DEFINE q == x \div m
           r == x % m
<1>1. m * o \in Nat
  OBVIOUS
<1>2. x \in Nat
  <2> DEFINE p == m * o
  <2> HIDE DEF p
  <2> QED
    BY <1>1 DEF p
<1>3. q \in Nat /\ r \in 0 .. m - 1 /\ x = m * q + r
  BY <1>2
<1> HIDE DEF q, r
<1>4. ASSUME NEW a \in Nat, NEW b \in Nat, a < b
      PROVE  m * a + m <= m * b /\ m * a \in Nat /\ m * b \in Nat
  <2>1. PICK e \in Nat : b = a + 1 + e
    <3>1. b - a - 1 \in Nat /\ b = a + 1 + (b - a - 1)
      BY <1>4
    <3> QED
      BY <3>1
  <2>2. m * b = m * a + m + m * e /\ m * e \in Nat /\ m * a \in Nat
    BY <2>1
  <2> QED
    BY <2>2
<1>5. q = o
  <2>1. ~(q < o)
    BY <1>1, <1>3, <1>4
  <2>2. ~(o < q)
    BY <1>1, <1>3, <1>4
  <2> QED
    BY <1>3, <2>1, <2>2
<1>6. r = c
  <2> DEFINE p == m * o
  <2>1. x = p + c /\ x = p + r /\ p \in Nat
    BY <1>1, <1>3, <1>5
  <2> HIDE DEF p
  <2> QED
    BY <1>3, <2>1
<1> QED
  BY <1>5, <1>6 DEF q, r

LEMMA FiberIndex ==
  ASSUME NEW n \in Nat, n % 9 = 0, NEW m, m = n \div 9, NEW c \in 0 .. m - 1, NEW o \in 0 .. 8
  PROVE  /\ m \in Nat /\ c + o * m \in 0 .. n - 1
         /\ (c + o * m) % m = c /\ (c + o * m) \div m = o
<1>1. m \in Nat /\ m > 0 /\ n = 9 * m /\ c \in Nat /\ c < m
  OBVIOUS
<1> DEFINE p == o * m
<1>2. p \in Nat /\ p <= 8 * m
  <2>1. \/ o = 0 \/ o = 1 \/ o = 2 \/ o = 3 \/ o = 4 \/ o = 5 \/ o = 6 \/ o = 7 \/ o = 8
    OBVIOUS
  <2> QED
    BY <1>1, <2>1
<1>3. c + p \in 0 .. n - 1
  <2> HIDE DEF p
  <2> QED
    BY <1>1, <1>2
<1>4. (c + p) % m = c /\ (c + p) \div m = o
  <2> DEFINE x == c + p
  <2>1. o \in Nat /\ x = m * o + c
    BY <1>1
  <2> HIDE DEF x
  <2> QED
    BY <1>1, <2>1, DivModIs DEF x
<1> QED
  BY <1>1, <1>3, <1>4

(* What a fiber's answers fold to.                                         *)
AnswersFold(d, c, e, a) ==
  FoldEvalK(FiberPoints(d, c, d.size \div 9, 9), [o \in 0 .. 8 |-> e[o].value], 9, a)

RowInRing(root, c) == \A o \in 0 .. 8 : root[c][o] \in Ring
AllAnswered(e) == \A o \in 0 .. 8 : e[o].ok

LEMMA AnswerFolds ==
  ASSUME RingLaws, NEW f, NEW d, NEW bound, NEW a, Queryable(f, d, bound, a),
         NEW root, NEW c \in 0 .. (d.size \div 9) - 1, RowInRing(root, c),
         NEW e, e = FiberAnswers(d, bound, f, 9, c, root[c]), AllAnswered(e)
  PROVE  AnswersFold(d, c, e, a) = FiberFold(f, d, bound, root, a, c)
<1> USE DEF RowInRing, AllAnswered
<1> DEFINE k == 9
           m == d.size \div 9
           points == FiberPoints(d, c, m, 9)
           v == [o \in 0 .. 8 |-> e[o].value]
<1>1. /\ Computable(f) /\ IsDomain(d) /\ IsTeichmuller(d.root) /\ d.size % 9 = 0
      /\ bound \in Nat /\ a \in Ring /\ d.size \in Nat \ {0}
  BY DEF Queryable, IsDomain
<1>2. \A o \in 0 .. 8 : c + o * m \in 0 .. d.size - 1
  BY <1>1, FiberIndex
<1>3. Apart(d.points, d.size) /\ \A i \in 0 .. d.size - 1 : d.points[i] \in Ring
  BY <1>1, CosetApart DEF Apart
<1>4. k \in Nat \ {0} /\ k # 0 /\ d.size % k = 0 /\ m = d.size \div k
  BY <1>1
<1>5. Apart(points, k)
  <2> HIDE DEF k, m
  <2>1. Apart(FiberOf(d, c, m, k), k)
    BY <1>1, <1>3, <1>4, FiberOfApart DEF m
  <2> QED
    BY <2>1 DEF FiberOf, FiberPoints, k
<1>6. ASSUME NEW o \in 0 .. 8
      PROVE  e[o].value = FiberValues(f, d, bound, root, c)[o] /\ e[o].value \in Ring
  <2> DEFINE x == d.points[c + o * m]
             r == root[c][o]
  <2>1. x \in Ring /\ r \in Ring
    BY <1>2, <1>3, <1>6, SMTT(30)
  <2>2. e[o] = QueryCurrentFunction(f, bound, x, r)
    BY <1>6 DEF FiberAnswers
  <2>3. FiberValues(f, d, bound, root, c)[o] = Queried(f, bound, x, r)
    BY <1>6 DEF FiberValues
  <2> HIDE DEF x, r
  <2>4. QueryCurrentFunction(f, bound, x, r).ok
    BY <1>6, <2>2
  <2> QED
    BY <1>1, <2>1, <2>2, <2>3, <2>4, QueriedIs
<1>7. v = FiberValues(f, d, bound, root, c)
  BY <1>6 DEF FiberValues
<1>8. \A i \in 0 .. k - 1 : v[i] \in Ring
  BY <1>6
<1>9. FoldEvalK(points, v, k, a) = Evaluate(Interpolate(points, v, k), a)
  <2> HIDE DEF k, points, v
  <2> QED
    BY <1>1, <1>4, <1>5, <1>8, FoldIsLagrange
<1> QED
  BY <1>7, <1>9 DEF FiberFold, AnswersFold

(* Reading a record whose field is a formula.                              *)
LEMMA AnswerParts ==
  ASSUME NEW k, NEW e, NEW y, NEW r, r = [ok |-> \A o \in 0 .. k - 1 : e[o].ok, value |-> y], r.ok
  PROVE  r.value = y /\ \A o \in 0 .. k - 1 : e[o].ok
<1>1. r.value = y
  BY Zenon
<1>2. \A o \in 0 .. k - 1 : e[o].ok
  BY Zenon
<1> QED
  BY <1>1, <1>2

(* An answer of ComputeFoldedAnswers, from the answers on its fiber.       *)
LEMMA FoldedAnswerIs ==
  ASSUME NEW d, NEW bound, NEW f, NEW a, NEW k, NEW positions, NEW opened,
         NEW answers, answers = FoldedAnswers(d, bound, f, a, k, positions, opened),
         NEW i \in DOMAIN positions,
         NEW g, g = FiberAnswers(d, bound, f, k, positions[i], opened.leaf_payloads[i]),
         NEW v, v = FoldEvalK(FiberPoints(d, positions[i], d.size \div k, k),
                              [o \in 0 .. k - 1 |-> g[o].value], k, a)
  PROVE  answers[i] = [ok |-> \A o \in 0 .. k - 1 : g[o].ok, value |-> v]
<1> DEFINE row(j)  == Tabulated(FiberAnswers(d, bound, f, k, positions[j], opened.leaf_payloads[j]))
           on(j)   == FiberPoints(d, positions[j], d.size \div k, k)
           fold(j) == [ok |-> \A o \in 0 .. k - 1 : row(j)[o].ok,
                       value |-> FoldEvalK(on(j), [o \in 0 .. k - 1 |-> row(j)[o].value], k, a)]
<1>1. answers = [j \in DOMAIN positions |-> fold(j)]
  BY ZenonT(30) DEF FoldedAnswers
<1>2. row(i) = g
  BY DEF Tabulated
<1>3. v = FoldEvalK(on(i), [o \in 0 .. k - 1 |-> g[o].value], k, a)
  OBVIOUS
<1> HIDE DEF row, on
<1>4. fold(i) = [ok |-> \A o \in 0 .. k - 1 : g[o].ok, value |-> v]
  BY <1>2, <1>3, ZenonT(30)
<1> HIDE DEF fold
<1> QED
  BY <1>1, <1>4, ZenonT(30)

(* With an accepted multiproof, every answer of ComputeFoldedAnswers is    *)
(* the fold of what is under the root.                                     *)
LEMMA FoldedAnswersAre ==
  ASSUME RingLaws, NEW f, NEW d, NEW bound, NEW a, Queryable(f, d, bound, a),
         NEW root, EntriesInRing(root), NEW positions \in Seq(Nat),
         \A i \in 1 .. Len(positions) : positions[i] \in 0 .. (d.size \div 9) - 1,
         NEW opened, TreeAccepts(root, d.size \div 9, opened), BundlesFit(positions, opened, 9),
         NEW answers, answers = FoldedAnswers(d, bound, f, a, 9, positions, opened), AllOk(answers)
  PROVE  /\ DOMAIN answers = DOMAIN positions /\ DOMAIN positions = 1 .. Len(positions)
         /\ \A i \in DOMAIN positions :
              answers[i].value = FiberFold(f, d, bound, root, a, positions[i])
<1> DEFINE m == d.size \div 9
<1>1. d.size \in Nat \ {0} /\ m \in Nat
  <2>1. d.size \in Nat \ {0}
    BY DEF Queryable, IsDomain
  <2> QED
    BY <2>1
<1>2. DOMAIN positions = 1 .. Len(positions) /\ DOMAIN answers = DOMAIN positions
  <2>1. DOMAIN answers = DOMAIN positions
    BY ZenonT(30) DEF FoldedAnswers
  <2> QED
    BY <2>1
<1>3. /\ opened.queried_indices = positions
      /\ \A i \in DOMAIN positions : DOMAIN opened.leaf_payloads[i] = 0 .. 8
  BY DEF BundlesFit
<1>4. /\ DOMAIN root = 0 .. NextPowerOfTwo(m) - 1
      /\ \A i \in 1 .. Len(positions) : root[positions[i]] = opened.leaf_payloads[i]
  BY <1>3 DEF TreeAccepts
<1>5. NextPowerOfTwo(m) \in Nat /\ m <= NextPowerOfTwo(m)
  BY <1>1, PaddedWidth, PowerType
<1>6. ASSUME NEW i \in DOMAIN positions
      PROVE  answers[i].value = FiberFold(f, d, bound, root, a, positions[i])
  <2> DEFINE c == positions[i]
             e == FiberAnswers(d, bound, f, 9, c, opened.leaf_payloads[i])
  <2>1. c \in 0 .. m - 1 /\ root[c] = opened.leaf_payloads[i]
    BY <1>2, <1>4, <1>6
  <2>2. \A o \in 0 .. 8 : root[c][o] \in Ring
    <3>1. c \in DOMAIN root /\ DOMAIN root[c] = 0 .. 8
      BY <1>1, <1>3, <1>4, <1>5, <1>6, <2>1
    <3> QED
      BY <3>1 DEF EntriesInRing
  <2>3. AllAnswered(e) /\ answers[i].value = AnswersFold(d, c, e, a)
    <3> DEFINE k == 9
               g == FiberAnswers(d, bound, f, k, c, opened.leaf_payloads[i])
               v == FoldEvalK(FiberPoints(d, c, d.size \div k, k),
                              [o \in 0 .. k - 1 |-> g[o].value], k, a)
    <3> HIDE DEF k, m, e
    <3>1. answers = FoldedAnswers(d, bound, f, a, k, positions, opened)
      BY DEF k
    <3>2. answers[i] = [ok |-> \A o \in 0 .. k - 1 : g[o].ok, value |-> v]
      BY <1>6, <3>1, FoldedAnswerIs
    <3> HIDE DEF v, c, g
    <3>3. answers[i].ok
      BY <1>2, <1>6 DEF AllOk
    <3>4. answers[i].value = v /\ \A o \in 0 .. k - 1 : g[o].ok
      BY <3>2, <3>3, AnswerParts
    <3>5. k - 1 = 8 /\ k = 9
      BY DEF k
    <3>6. g = e
      BY <3>5 DEF g, e
    <3> QED
      BY <3>4, <3>5, <3>6, Zenon DEF v, AllAnswered, AnswersFold
  <2>4. e = FiberAnswers(d, bound, f, 9, c, root[c])
    BY <2>1
  <2>5. RowInRing(root, c)
    BY <2>2 DEF RowInRing
  <2> HIDE DEF e, c
  <2> QED
    BY <2>1, <2>3, <2>4, <2>5, AnswerFolds DEF c
<1> QED
  BY <1>2, <1>6
-----------------------------------------------------------------------------
(* What the messages consist of *)

(* A message as anyone can read it: a root of rows of ring elements, a     *)
(* polynomial over the ring, a sequence of evaluations.                    *)
IsMessage(m) == EntriesInRing(m.g_root) /\ IsPolynomial(m.ans_polynomial) /\ IsSequence(m.betas)

Readable(p) ==
  /\ EntriesInRing(p.initial_root) /\ IsSequence(p.rounds)
  /\ \A r \in 1 .. Len(p.rounds) : IsMessage(p.rounds[r])

(* As the prover sends them.                                               *)
SentMessage(m) ==
  /\ IsMessage(m) /\ m.betas # <<>>
  /\ m = [g_root |-> m.g_root, betas |-> m.betas, ans_polynomial |-> m.ans_polynomial,
          queries_to_prev |-> m.queries_to_prev, shake_polynomial |-> m.shake_polynomial]

Sent(p) ==
  /\ EntriesInRing(p.initial_root) /\ IsSequence(p.rounds)
  /\ \A r \in 1 .. Len(p.rounds) : SentMessage(p.rounds[r])
  /\ p = [initial_root |-> p.initial_root, rounds |-> p.rounds,
          final_polynomial |-> p.final_polynomial, queries_to_final |-> p.queries_to_final,
          prover_rounds |-> p.prover_rounds]

LEMMA SentIsReadable ==
  ASSUME NEW p, Sent(p)
  PROVE  Readable(p)
BY DEF Sent, Readable, SentMessage

(* A damaged root still has rows of ring elements.                         *)
LEMMA DamagedRoot ==
  ASSUME RingLaws, NEW root, EntriesInRing(root)
  PROVE  EntriesInRing([root EXCEPT ![0][0] = Plus(@, 1)])
<1> DEFINE q == [root EXCEPT ![0][0] = Plus(@, 1)]
<1>1. \A x \in Ring : Plus(x, 1) \in Ring
  BY DEF RingLaws, Closed, Counting
<1>2. DOMAIN q = DOMAIN root /\ \A c \in DOMAIN root : c # 0 => q[c] = root[c]
  OBVIOUS
<1>3. 0 \in DOMAIN root => q[0] = [root[0] EXCEPT ![0] = Plus(root[0][0], 1)]
  OBVIOUS
<1> SUFFICES ASSUME NEW c \in DOMAIN q, NEW o \in DOMAIN q[c] PROVE q[c][o] \in Ring
  BY DEF EntriesInRing
<1> HIDE DEF q
<1>4. CASE c # 0
  BY <1>2, <1>4 DEF EntriesInRing
<1>5. CASE c = 0
  <2>1. q[c] = [root[0] EXCEPT ![0] = Plus(root[0][0], 1)] /\ 0 \in DOMAIN root
    BY <1>2, <1>3, <1>5
  <2>2. o \in DOMAIN root[0] /\ q[c][o] = IF o = 0 THEN Plus(root[0][0], 1) ELSE root[0][o]
    BY <2>1
  <2> QED
    BY <1>1, <2>1, <2>2 DEF EntriesInRing
<1> QED
  BY <1>4, <1>5

LEMMA ChangedElement ==
  ASSUME NEW s, IsSequence(s), NEW e
  PROVE  LET q == [s EXCEPT ![1] = e]
         IN  /\ IsSequence(q) /\ Len(q) = Len(s) /\ Len(s) \in Nat
             /\ \A i \in 1 .. Len(s) : q[i] = IF i = 1 THEN e ELSE s[i]
<1>1. PICK S : s \in Seq(S)
  BY DEF IsSequence
<1> DEFINE q == [s EXCEPT ![1] = e]
           n == Len(s)
<1>2. n \in Nat /\ DOMAIN s = 1 .. n /\ \A i \in 1 .. n : s[i] \in S
  BY <1>1
<1>3. DOMAIN q = 1 .. n /\ \A i \in 1 .. n : q[i] = IF i = 1 THEN e ELSE s[i]
  BY <1>2
<1>4. q \in [1 .. n -> S \cup {e}]
  BY <1>2, <1>3
<1> HIDE DEF q
<1>5. q \in Seq(S \cup {e}) /\ Len(q) = n
  BY <1>2, <1>4
<1> QED
  BY <1>2, <1>3, <1>5 DEF IsSequence, q

LEMMA OneMessageChanged ==
  ASSUME NEW p, Sent(p), NEW m, IsMessage(m),
         NEW q, q.initial_root = p.initial_root, q.rounds = [p.rounds EXCEPT ![1] = m]
  PROVE  Readable(q)
<1>1. /\ IsSequence(q.rounds) /\ Len(q.rounds) = Len(p.rounds) /\ Len(p.rounds) \in Nat
      /\ \A i \in 1 .. Len(p.rounds) : q.rounds[i] = IF i = 1 THEN m ELSE p.rounds[i]
  BY ChangedElement DEF Sent
<1> QED
  BY <1>1 DEF Sent, SentMessage, Readable

LEMMA TailIsSequence ==
  ASSUME NEW s, IsSequence(s), s # <<>>
  PROVE  /\ IsSequence(Tail(s)) /\ Len(Tail(s)) + 1 = Len(s) /\ Len(s) \in Nat
         /\ \A i \in 1 .. Len(Tail(s)) : Tail(s)[i] = s[i + 1] /\ i + 1 \in 1 .. Len(s)
<1>1. PICK S : s \in Seq(S)
  BY DEF IsSequence
<1>2. Tail(s) \in Seq(S) /\ Len(Tail(s)) = Len(s) - 1 /\ Len(s) \in Nat
  BY <1>1
<1>3. \A i \in 1 .. Len(Tail(s)) : Tail(s)[i] = s[i + 1] /\ i + 1 \in 1 .. Len(s)
  BY <1>1, <1>2
<1> QED
  BY <1>2, <1>3 DEF IsSequence

(* Small polynomials that damage adds.                                     *)
LEMMA AddedOne ==
  ASSUME RingLaws, NEW f, IsPolynomial(f)
  PROVE  IsPolynomial(AddPolynomials(f, One))
<1>1. 1 \in Ring
  BY DEF RingLaws, Closed, Counting
<1>2. IsPolynomial(One)
  <2> DEFINE at == [i \in {0} |-> 1]
             s == 1
             f1 == Trim(s, at)
  <2>1. /\ f1.size \in 0 .. s /\ f1.at = [i \in 0 .. f1.size - 1 |-> at[i]]
    <3>1. s \in Nat
      OBVIOUS
    <3> HIDE DEF s, at
    <3> QED
      BY <3>1, TrimIs
  <2>2. s = 1
    OBVIOUS
  <2> HIDE DEF f1, s
  <2>3. \A i \in 0 .. f1.size - 1 : f1.at[i] \in Ring
    <3>1. \A i \in 0 .. f1.size - 1 : i = 0
      BY <2>1, <2>2
    <3>2. at[0] = 1
      OBVIOUS
    <3> QED
      BY <1>1, <2>1, <3>1, <3>2
  <2>4. IsPolynomial(f1)
    BY <2>1, <2>2, <2>3, SMTT(30) DEF IsPolynomial
  <2> QED
    BY <2>4 DEF One, f1, s
<1> QED
  BY <1>2, SumOfPolynomials

(* Whatever is damaged can still be read.                                  *)
LEMMA ReceivedIsReadable ==
  ASSUME RingLaws, Sent(proof), NEW kind \in DamageKinds, Rounds # 0 => proof.rounds # <<>>
  PROVE  Readable(Received(kind))
<1> DEFINE first == proof.rounds[1]
           tampered(m) == [proof EXCEPT !.rounds = [proof.rounds EXCEPT ![1] = m]]
<1>1. Readable(proof)
  BY SentIsReadable
<1>2. kind \in {"none", "root", "stats", "final", "longer", "last", "index"}
      \/ (/\ Rounds # 0
          /\ kind \in {"g_root", "beta", "betas", "ans", "shake", "payload", "siblings", "round"})
  BY DEF DamageKinds
<1>3. CASE kind = "none"
  BY <1>1, <1>3 DEF Received
<1>4. CASE kind = "root"
  <2>1. Received(kind) = [proof EXCEPT !.initial_root[0][0] = Plus(@, 1)]
    BY <1>4 DEF Received
  <2> DEFINE root == proof.initial_root
             q == Received(kind)
  <2>2. q.initial_root = [root EXCEPT ![0][0] = Plus(@, 1)] /\ q.rounds = proof.rounds
    BY <2>1 DEF Sent
  <2>3. EntriesInRing(root)
    BY DEF Sent
  <2>4. EntriesInRing([root EXCEPT ![0][0] = Plus(@, 1)])
    BY <2>3, DamagedRoot
  <2> HIDE DEF q, root
  <2>5. Readable(q)
    BY <1>1, <2>2, <2>4 DEF Readable
  <2> QED
    BY <2>5 DEF q
<1>5. ASSUME NEW q, q.initial_root = proof.initial_root, q.rounds = proof.rounds
      PROVE  Readable(q)
  BY <1>1, <1>5 DEF Readable
<1>6. CASE kind \in {"stats", "final", "longer", "last", "index"}
  <2>1. \E v : \/ Received(kind) = [proof EXCEPT !.prover_rounds = v]
               \/ Received(kind) = [proof EXCEPT !.final_polynomial = v]
               \/ Received(kind) = [proof EXCEPT !.queries_to_final = v]
    BY <1>6 DEF Received
  <2>2. Received(kind).initial_root = proof.initial_root /\ Received(kind).rounds = proof.rounds
    BY <2>1 DEF Sent
  <2> QED
    BY <1>5, <2>2, SMTT(30)
<1>7. ASSUME NEW m, IsMessage(m), Received(kind) = tampered(m)
      PROVE  Readable(Received(kind))
  <2>1. tampered(m).initial_root = proof.initial_root
        /\ tampered(m).rounds = [proof.rounds EXCEPT ![1] = m]
    BY DEF Sent
  <2> QED
    BY <1>7, <2>1, OneMessageChanged
<1>8. CASE Rounds # 0 /\ kind \in {"g_root", "beta", "betas", "ans", "shake", "payload", "siblings"}
  <2>1. SentMessage(first)
    <3>1. proof.rounds # <<>> /\ IsSequence(proof.rounds)
      BY <1>8 DEF Sent
    <3> QED
      BY <3>1 DEF Sent, IsSequence
  <2>2. IsMessage(first) /\ first.betas # <<>> /\ IsSequence(first.betas) /\ EntriesInRing(first.g_root)
        /\ IsPolynomial(first.ans_polynomial)
    BY <2>1 DEF SentMessage, IsMessage
  <2>3. CASE kind = "g_root"
    <3> DEFINE root == first.g_root
               m == [first EXCEPT !.g_root = [root EXCEPT ![0][0] = Plus(@, 1)]]
    <3>1. Received(kind) = tampered(m)
      BY <2>3 DEF Received
    <3>2. m.g_root = [root EXCEPT ![0][0] = Plus(@, 1)] /\ m.betas = first.betas
          /\ m.ans_polynomial = first.ans_polynomial
      BY <2>1 DEF SentMessage
    <3> HIDE DEF m
    <3>3. IsMessage(m)
      BY <2>2, <3>2, DamagedRoot DEF IsMessage
    <3> QED
      BY <1>7, <3>1, <3>3
  <2>4. CASE kind \in {"beta", "betas"}
    <3>1. PICK b : IsSequence(b) /\ Received(kind) = tampered([first EXCEPT !.betas = b])
      <4>1. CASE kind = "beta"
        <5>1. Received(kind)
                = tampered([first EXCEPT !.betas = [first.betas EXCEPT ![1] = Plus(first.betas[1], 1)]])
          BY <4>1 DEF Received
        <5> QED
          BY <2>2, <5>1, ChangedElement
      <4>2. CASE kind = "betas"
        <5>1. Received(kind) = tampered([first EXCEPT !.betas = Tail(first.betas)])
          BY <4>2 DEF Received
        <5> QED
          BY <2>2, <5>1, TailIsSequence
      <4> QED
        BY <2>4, <4>1, <4>2
    <3> DEFINE m == [first EXCEPT !.betas = b]
    <3>2. m.g_root = first.g_root /\ m.betas = b /\ m.ans_polynomial = first.ans_polynomial
      BY <2>1 DEF SentMessage
    <3>3. IsMessage(m)
      BY <2>2, <3>1, <3>2 DEF IsMessage
    <3> QED
      BY <1>7, <3>1, <3>3
  <2>5. CASE kind = "ans"
    <3> DEFINE g == AddPolynomials(first.ans_polynomial, One)
               m == [first EXCEPT !.ans_polynomial = g]
    <3>1. Received(kind) = tampered(m)
      BY <2>5 DEF Received
    <3>2. m.g_root = first.g_root /\ m.betas = first.betas /\ m.ans_polynomial = g
      BY <2>1 DEF SentMessage
    <3>3. IsPolynomial(g)
      BY <2>2, AddedOne
    <3> HIDE DEF m, g
    <3>4. IsMessage(m)
      BY <2>2, <3>2, <3>3 DEF IsMessage
    <3> QED
      BY <1>7, <3>1, <3>4
  <2>6. CASE kind \in {"shake", "payload", "siblings"}
    <3>1. \E v : \/ Received(kind) = tampered([first EXCEPT !.shake_polynomial = v])
                 \/ Received(kind) = tampered([first EXCEPT !.queries_to_prev = v])
      <4>1. CASE kind = "shake"
        <5>1. Received(kind)
                = tampered([first EXCEPT !.shake_polynomial = AddPolynomials(first.shake_polynomial, One)])
          BY <4>1 DEF Received
        <5> QED
          BY <5>1
      <4>2. CASE kind = "payload"
        <5>1. Received(kind)
                = tampered([first EXCEPT !.queries_to_prev.leaf_payloads[1][0] = Plus(@, 1)])
          BY <4>2 DEF Received
        <5>2. \E v : Received(kind) = tampered([first EXCEPT !.queries_to_prev = v])
          BY <5>1
        <5> QED
          BY <5>2
      <4>3. CASE kind = "siblings"
        <5>1. Received(kind) = tampered([first EXCEPT !.queries_to_prev.sibling_hashes = "changed"])
          BY <4>3 DEF Received
        <5>2. \E v : Received(kind) = tampered([first EXCEPT !.queries_to_prev = v])
          BY <5>1
        <5> QED
          BY <5>2
      <4> QED
        BY <2>6, <4>1, <4>2, <4>3
    <3>2. PICK m : /\ Received(kind) = tampered(m)
                   /\ m.g_root = first.g_root /\ m.betas = first.betas
                   /\ m.ans_polynomial = first.ans_polynomial
      BY <2>1, <3>1 DEF SentMessage
    <3> QED
      BY <1>7, <2>2, <3>2 DEF IsMessage
  <2> QED
    BY <1>8, <2>3, <2>4, <2>5, <2>6
<1>9. CASE Rounds # 0 /\ kind = "round"
  <2>1. Received(kind) = [proof EXCEPT !.rounds = Tail(@)]
    BY <1>9 DEF Received
  <2>2. Received(kind).initial_root = proof.initial_root /\ Received(kind).rounds = Tail(proof.rounds)
    BY <2>1 DEF Sent
  <2>3. proof.rounds # <<>> /\ IsSequence(proof.rounds)
    BY <1>9 DEF Sent
  <2> QED
    BY <1>1, <2>2, <2>3, TailIsSequence DEF Readable
<1> QED
  BY <1>2, <1>3, <1>4, <1>6, <1>8, <1>9

-----------------------------------------------------------------------------
(* The prover's messages *)

(* The root over the fibers of an encoding.                                *)
LEMMA CommittedRoot ==
  ASSUME RingLaws, NEW d, IsDomain(d), d.size % 9 = 0, NEW f, IsPolynomial(f)
  PROVE  EntriesInRing(Root(Bundles(Encode(d, f), 9)))
<1> DEFINE table == Encode(d, f)
           n == d.size
           m == n \div 9
           rows == Bundles(table, 9)
           root == Root(rows)
<1>1. DOMAIN table = 0 .. n - 1 /\ \A i \in 0 .. n - 1 : table[i] \in Ring
  BY EncodeIsTable
<1>2. n \in Nat \ {0} /\ n % 9 = 0
  BY DEF IsDomain
<1> HIDE DEF table, n
<1>3. m \in Nat \ {0} /\ m # 0
  BY <1>2
<1>4. TableSize(table) = n
  BY <1>1, <1>2, TableSizeOf
<1>5. rows = [c \in 0 .. m - 1 |-> [o \in 0 .. 8 |-> table[c + o * m]]]
  <2> DEFINE k == 9
  <2>1. k - 1 = 8
    OBVIOUS
  <2>2. Bundles(table, k) = [c \in 0 .. (n \div k) - 1 |-> [o \in 0 .. k - 1 |-> table[c + o * (n \div k)]]]
    <3> HIDE DEF k
    <3> QED
      BY <1>4, Zenon DEF Bundles, Tabulated
  <2> QED
    BY <2>1, <2>2, Zenon DEF k
<1> HIDE DEF rows
<1>6. DOMAIN rows = 0 .. m - 1 /\ \A c \in 0 .. m - 1 : DOMAIN rows[c] = 0 .. 8
  BY <1>5
<1>7. ASSUME NEW c \in 0 .. m - 1, NEW o \in 0 .. 8
      PROVE  rows[c][o] \in Ring
  <2>1. rows[c][o] = table[c + o * m]
    BY <1>5
  <2>2. c + o * m \in 0 .. n - 1
    BY <1>2, FiberIndex
  <2> QED
    BY <1>1, <2>1, <2>2
<1>8. TableSize(rows) = m
  BY <1>3, <1>6, TableSizeOf
<1> HIDE DEF m
<1>9. ASSUME NEW c \in DOMAIN root PROVE \E b \in 0 .. m - 1 : root[c] = rows[b]
  <2>1. c \in 0 .. NextPowerOfTwo(m) - 1 /\ root[c] = rows[IF c < m THEN c ELSE m - 1]
    BY <1>8, <1>9 DEF Root
  <2> QED
    BY <1>3, <2>1
<1> HIDE DEF root
<1> QED
  BY <1>6, <1>7, <1>9 DEF EntriesInRing, root, rows, table

ProofState ==
  /\ Readable(proof)
  /\ pc \in {"prove", "fold", "answer", "finish", "deliver"} =>
       Sent(proof) /\ Len(proof.rounds) = round

LEMMA ProofSent ==
  ASSUME Sent(proof)', Len(proof.rounds)' = round'
  PROVE  ProofState'
<1>1. Readable(proof)'
  BY SentIsReadable DEF Sent, Readable, SentMessage, IsSequence, IsMessage, EntriesInRing, IsPolynomial
<1> QED
  BY <1>1 DEF ProofState

(* A step that leaves the proof alone.                                     *)
LEMMA ProofStays ==
  ASSUME ProofState, proof' = proof,
         \/ pc' \notin {"prove", "fold", "answer", "finish", "deliver"}
         \/ round' = round /\ pc \in {"prove", "fold", "answer", "finish", "deliver"}
  PROVE  ProofState'
BY DEF ProofState, Readable, Sent, IsMessage, SentMessage, EntriesInRing, IsPolynomial, IsSequence

LEMMA ProofInit == Init => ProofState
<1> SUFFICES ASSUME Init PROVE ProofState
  OBVIOUS
<1>1. proof = NoStirProof /\ round = 0
  BY DEF Init
<1>2. Len(<<>>) = 0 /\ DOMAIN <<>> = {}
  OBVIOUS
<1>3. proof.rounds = <<>> /\ proof.initial_root = <<>>
  BY <1>1 DEF NoStirProof
<1>4. Sent(proof)
  <2>1. EntriesInRing(proof.initial_root)
    BY <1>2, <1>3 DEF EntriesInRing
  <2> QED
    BY <1>1, <1>2, <1>3, <2>1, EmptySequence DEF Sent, NoStirProof
<1> QED
  BY <1>1, <1>2, <1>3, <1>4, SentIsReadable DEF ProofState

LEMMA ProofStart ==
  ASSUME RingLaws, StirSetting, ProofState, ProveStart
  PROVE  ProofState'
<1>1. CASE ~MayProve
  BY <1>1, ProofStays DEF ProveStart, Stop
<1>2. CASE MayProve
  <2>1. pc = "prove" /\ Sent(proof) /\ Len(proof.rounds) = round
    BY DEF ProveStart, ProofState
  <2> DEFINE root == Root(Bundles(Encode(setup.domain, polynomial), 9))
  <2>2. EntriesInRing(root)
    <3>1. IsPolynomial(polynomial)
      BY InputsAssumption DEF StirSetting, IsPolynomial
    <3>2. DomainHolds(0) /\ DomainAt(0) = setup.domain
      <4>1. setup \in Setups /\ IsDomain(setup.domain) /\ Params.shift_power = 3 /\ Rounds \in Nat
            /\ \A r \in 0 .. Rounds : DomainHolds(r)
        BY <1>2, StirInstance, SetupsAssumption DEF StirSetting, MayProve
      <4>2. 0 \in 0 .. Rounds
        BY <4>1
      <4> QED
        BY <4>1, <4>2, DomainSteps DEF DomainAt
    <3> QED
      BY <3>1, <3>2, CommittedRoot DEF DomainHolds
  <2>3. K = 9
    BY <1>2, StirInstance DEF StirSetting, MayProve
  <2>4. proof' = [proof EXCEPT !.initial_root = root] /\ round' = round
    BY <1>2, <2>3 DEF ProveStart, Tabulated
  <2> HIDE DEF root
  <2>5. /\ proof'.initial_root = root /\ proof'.rounds = proof.rounds
        /\ proof' = [initial_root |-> proof'.initial_root, rounds |-> proof'.rounds,
                     final_polynomial |-> proof'.final_polynomial,
                     queries_to_final |-> proof'.queries_to_final,
                     prover_rounds |-> proof'.prover_rounds]
    BY <2>1, <2>4 DEF Sent
  <2>6. PICK p : p = proof'
    OBVIOUS
  <2>7. Sent(p) /\ Len(p.rounds) = round'
    BY <2>1, <2>2, <2>4, <2>5, <2>6 DEF Sent
  <2> QED
    BY <2>6, <2>7, ProofSent
<1> QED
  BY <1>1, <1>2

(* What a round's message shows.                                           *)
LEMMA MessageIs ==
  ASSUME RingLaws, setup \in Setups, ValidStirInstance(Params, setup.domain, setup.degree),
         round \in 0 .. Rounds - 1, WitnessAt(round, RoundAt(round)),
         NEW d, Sampled(round, RoundAt(round), d), NEW a, a = Answered(RoundAt(round), d),
         NEW m, m.g_root = Root(Bundles(a.shifted, 9)), m.betas = Betas(witness.folded, d.got[1]),
         m.ans_polynomial = a.answer
  PROVE  IsMessage(m) /\ m.betas # <<>>
<1> DEFINE ds == RoundAt(round)
           f  == witness.folded
           points == QuotientPoints(ds, d)
           values == RoundValues(d)
           ans == AnswerPolynomial(points, values)
           n   == Len(points)
<1>1. RoundSettled(round, ds) /\ round + 1 \in 0 .. Rounds
  BY RoundIsSettled, StirInstance DEF RoundAt
<1>2. PointsHold(round, ds, points) /\ d.got[1] \in Seq(Ring) /\ Len(d.got[1]) = Params.ood_samples
  BY RoundPoints DEF PointsSplit, SplitInto
<1>3. values \in Seq(Ring) /\ Len(values) = n
  <2> HIDE DEF values, points
  <2>1. values = RoundValues(d) /\ points = QuotientPoints(RoundAt(round), d)
    BY DEF values, points
  <2> QED
    BY <2>1, AnswersAre
<1>4. IsPolynomial(f) /\ witness.shifted = Encode(ds.shift, f)
  BY DEF WitnessAt
<1>5. a.shifted = witness.shifted /\ a.answer = ans
  BY DEF Answered, RoundValues
<1>6. IsDomain(ds.shift) /\ ds.shift.size % 9 = 0
  BY <1>1, StirInstance DEF RoundSettled, DomainHolds
<1> HIDE DEF ans, values, points, ds, f, n
<1>7. IsPolynomial(ans)
  BY <1>2, <1>3, AnswerIs DEF PointsHold, ans, n
<1>8. EntriesInRing(m.g_root)
  BY <1>4, <1>5, <1>6, CommittedRoot
<1>9. IsSequence(m.betas) /\ m.betas # <<>>
  <2> DEFINE ood == d.got[1]
  <2>1. Len(ood) \in Nat \ {0}
    BY <1>2, CountsFit DEF CountFits
  <2>2. m.betas = [i \in 1 .. Len(ood) |-> Evaluate(f, ood[i])] /\ \A i \in 1 .. Len(ood) : ood[i] \in Ring
    BY <1>2 DEF Betas, f
  <2> HIDE DEF ood
  <2>3. \A i \in 1 .. Len(ood) : Evaluate(f, ood[i]) \in Ring
    BY <1>4, <2>2, EvaluateIsValue
  <2>4. m.betas \in Seq(Ring) /\ DOMAIN m.betas = 1 .. Len(ood)
    BY <2>1, <2>2, <2>3
  <2>5. 1 \in DOMAIN m.betas
    BY <2>1, <2>4
  <2> QED
    BY <2>4, <2>5 DEF IsSequence
<1> QED
  BY <1>5, <1>7, <1>8, <1>9 DEF IsMessage, IsPolynomial

LEMMA ProofSends ==
  ASSUME RingLaws, StirSetting, ProverState, ProofState, pc = "answer",
         NEW d, RoundDrawn(d), Sampled(round, RoundAt(round), d),
         NEW a, a = Answered(RoundAt(round), d), NEW fits, SendRound(d, a, fits)
  PROVE  ProofState'
<1>1. Drawing /\ Rounds \in Nat
  BY AnsweringSetting DEF ProverState
<1>2. /\ setup \in Setups /\ ValidStirInstance(Params, setup.domain, setup.degree)
      /\ round \in 0 .. Rounds - 1 /\ K = 9
  BY <1>1, StirInstance DEF Drawing
<1>3. Sent(proof) /\ Len(proof.rounds) = round /\ WitnessAt(round, RoundAt(round))
  BY DEF ProofState, ProverState
<1> DEFINE m == [g_root           |-> Root(Bundles(a.shifted, 9)),
                 betas            |-> Betas(witness.folded, d.got[1]),
                 ans_polynomial   |-> a.answer,
                 queries_to_prev  |-> OpenTree(Bundles(current.committed, 9), Positions(d.got[4])),
                 shake_polynomial |-> a.shake]
<1>4. proof' = [proof EXCEPT !.rounds = Append(proof.rounds, m)] /\ round' = round + 1
  BY <1>2 DEF SendRound
<1>5. SentMessage(m)
  <2>1. IsMessage(m) /\ m.betas # <<>>
    BY <1>2, <1>3, MessageIs
  <2> QED
    BY <2>1 DEF SentMessage
<1> HIDE DEF m
<1> DEFINE rounds == proof.rounds
           longer == Append(rounds, m)
<1>6. /\ IsSequence(longer) /\ Len(rounds) \in Nat /\ Len(longer) = Len(rounds) + 1
      /\ \A i \in 1 .. Len(rounds) : longer[i] = rounds[i]
      /\ longer[Len(rounds) + 1] = m
  BY <1>3, AppendAnything, ZenonT(60) DEF Sent, IsSequence
<1>7. \A i \in 1 .. Len(longer) : SentMessage(longer[i])
  <2> SUFFICES ASSUME NEW i \in 1 .. Len(longer) PROVE SentMessage(longer[i])
    OBVIOUS
  <2>1. i \in 1 .. Len(rounds) \/ i = Len(rounds) + 1
    BY <1>6
  <2> HIDE DEF longer
  <2> QED
    BY <1>3, <1>5, <1>6, <2>1 DEF Sent
<1> HIDE DEF longer
<1>8. proof' = [proof EXCEPT !.rounds = longer]
  BY <1>4 DEF longer
<1>9. PICK p : p = proof'
  OBVIOUS
<1>10. /\ p.initial_root = proof.initial_root /\ p.rounds = longer
       /\ p = [initial_root |-> p.initial_root, rounds |-> p.rounds,
               final_polynomial |-> p.final_polynomial, queries_to_final |-> p.queries_to_final,
               prover_rounds |-> p.prover_rounds]
  BY <1>3, <1>8, <1>9 DEF Sent
<1>11. Sent(p) /\ Len(p.rounds) = round'
  BY <1>3, <1>4, <1>6, <1>7, <1>10 DEF Sent
<1> QED
  BY <1>9, <1>11, ProofSent

LEMMA ProofAnswers ==
  ASSUME RingLaws, StirSetting, ProverState, ProofState, AnswerRound
  PROVE  ProofState'
<1>1. pc = "answer"
  BY DEF AnswerRound
<1>2. Drawing
  BY <1>1, AnsweringSetting DEF ProverState
<1>3. PICK o \in OodDraws(RoundAt(round)) :
        IF RanOut(o) THEN Stop("no_sample")
        ELSE \E d \in RoundDraws(RoundAt(round), CountAt(round), o, Betas(witness.folded, o.got[1])) :
               IF RanOut(d) THEN Stop("no_sample")
               ELSE SendRound(d, Answered(RoundAt(round), d),
                              Answered(RoundAt(round), d).exact
                                /\ Degree(Answered(RoundAt(round), d).next) <= BoundAt(round + 1))
  BY DEF AnswerRound, RoundAt, CountAt
<1>4. CASE Stop("no_sample")
  BY <1>4, ProofStays DEF Stop
<1>5. CASE ~Stop("no_sample")
  <2> DEFINE betas == Betas(witness.folded, o.got[1])
  <2>1. ~RanOut(o)
    BY <1>3, <1>5
  <2>2. PICK d \in RoundDraws(RoundAt(round), CountAt(round), o, betas) :
          SendRound(d, Answered(RoundAt(round), d),
                    Answered(RoundAt(round), d).exact
                      /\ Degree(Answered(RoundAt(round), d).next) <= BoundAt(round + 1))
    BY <1>3, <1>5
  <2> HIDE DEF betas
  <2>3. RoundDrawn(d) /\ Sampled(round, RoundAt(round), d)
    BY <1>2, <2>1, DrawnIsSampled
  <2>4. PICK a : a = Answered(RoundAt(round), d)
    OBVIOUS
  <2>5. PICK fits : SendRound(d, a, fits)
    BY <2>2, <2>4
  <2> QED
    BY <1>1, <2>3, <2>4, <2>5, ProofSends
<1> QED
  BY <1>4, <1>5

LEMMA ProofFinishes ==
  ASSUME ProofState, ProveFinish
  PROVE  ProofState'
<1>1. pc = "finish" /\ round' = round /\ Sent(proof) /\ Len(proof.rounds) = round
  BY DEF ProofState, ProveFinish
<1>2. PICK a, b, c : proof' = [proof EXCEPT !.final_polynomial = a, !.queries_to_final = b,
                                           !.prover_rounds = c]
  BY DEF ProveFinish
<1>3. PICK p : p = proof'
  OBVIOUS
<1>4. /\ p.initial_root = proof.initial_root /\ p.rounds = proof.rounds
      /\ p = [initial_root |-> p.initial_root, rounds |-> p.rounds,
              final_polynomial |-> p.final_polynomial, queries_to_final |-> p.queries_to_final,
              prover_rounds |-> p.prover_rounds]
  BY <1>1, <1>2, <1>3 DEF Sent
<1>5. Sent(p) /\ Len(p.rounds) = round'
  BY <1>1, <1>4 DEF Sent
<1> QED
  BY <1>3, <1>5, ProofSent

LEMMA ProofDelivers ==
  ASSUME RingLaws, StirSetting, ProofState, pc = "deliver", NEW kind \in DamageKinds, Deliver(kind)
  PROVE  ProofState'
<1>1. Sent(proof) /\ Len(proof.rounds) = round /\ round = Rounds
  BY DEF ProofState, StirSetting
<1>2. Rounds # 0 => proof.rounds # <<>>
  BY <1>1, EmptySequence
<1>3. Readable(Received(kind))
  BY <1>1, <1>2, ReceivedIsReadable
<1>4. proof' = Received(kind) /\ pc' = "verify"
  BY DEF Deliver
<1>5. Readable(proof)'
  <2>1. PICK p : p = Received(kind)
    OBVIOUS
  <2>2. proof' = p /\ Readable(p)
    BY <1>3, <1>4, <2>1
  <2> QED
    BY <2>2 DEF Readable, IsMessage, EntriesInRing, IsPolynomial, IsSequence
<1> QED
  BY <1>4, <1>5 DEF ProofState

LEMMA ProofKeeps ==
  ASSUME RingLaws, StirSetting, ProverState, ProofState, [Next]_vars
  PROVE  ProofState'
<1>1. CASE pc = "deliver" /\ \E kind \in DamageKinds : Deliver(kind)
  BY <1>1, ProofDelivers
<1>2. CASE UNCHANGED vars \/ Return \/ FoldRound
  BY <1>2, ProofStays DEF Return, vars, FoldRound, ProofState
<1>3. CASE VerifyStart \/ VerifyRound \/ VerifyFinal
  <2>1. proof' = proof /\ pc' \in {"check", "draw", "final", "done"}
    BY <1>3 DEF VerifyStart, VerifyRound, VerifyFinal, Stop
  <2> QED
    BY <2>1, ProofStays
<1>4. CASE DrawRound
  <2>1. proof' = proof /\ pc' \in {"check", "final", "done"}
    BY <1>4 DEF DrawRound, AdvanceRound, Stop
  <2> QED
    BY <2>1, ProofStays
<1> QED
  BY <1>1, <1>2, <1>3, <1>4, ProofStart, ProofAnswers, ProofFinishes DEF Next

-----------------------------------------------------------------------------
(* What the verifier established *)

(* The function queried after r rounds, the last of which drew c.          *)
FunctionAfter(r, c) ==
  IF r = 0 THEN [initial |-> TRUE]
  ELSE [initial |-> FALSE, comb_randomness |-> c.got[2],
        ans_polynomial |-> proof.rounds[r].ans_polynomial,
        quotient_set |-> QuotientPoints(RoundAt(r - 1), c)]

FunctionAt(r) == FunctionAfter(r, checked[r])

FoldsOf(f, d, bound, root, a, positions) ==
  [i \in DOMAIN positions |-> FiberFold(f, d, bound, root, a, positions[i])]

(* What a message claims, and the shake equation on it.                    *)
Claimed(sent, folds) == sent.betas \o folds

ShakeTerms(at, points, values, s) ==
  [i \in 0 .. Len(points) - 1 |-> Times(Minus(at, values[i + 1]), Inv(Minus(s, points[i + 1])))]

ShakeHolds(sent, points, values, s) ==
  /\ Len(values) = Len(points)
  /\ Evaluate(sent.shake_polynomial, s)
       = RingSum(ShakeTerms(Evaluate(sent.ans_polynomial, s), points, values, s), Len(points))

(* Round r passed, where f was queried and c was drawn.                    *)
RoundKept(r, f, c) ==
  /\ Sampled(r, RoundAt(r), c) /\ c.got[2] \in Ring
  /\ ShakeHolds(proof.rounds[r + 1], QuotientPoints(RoundAt(r), c),
                Claimed(proof.rounds[r + 1],
                        FoldsOf(f, DomainAt(r), BoundAt(r), CurrentRoot(r), c.alpha, c.got[4])),
                c.got[5][1])

(* The last comparison passed.                                             *)
EndKept(f, c) ==
  \A i \in DOMAIN c.got[1] :
    LET position == c.got[1][i]
    IN  /\ position \in 0 .. FinalDomain.size - 1
        /\ Evaluate(proof.final_polynomial, FinalDomain.points[position])
             = FiberFold(f, DomainAt(Rounds), BoundAt(Rounds), CurrentRoot(Rounds), c.alpha, position)

(* The rounds that passed, as the verifier goes on.                        *)
Going ==
  /\ alpha \in Ring /\ IsSequence(checked) /\ Len(checked) = round
  /\ Len(proof.rounds) = Rounds
  /\ function = FunctionAt(round)
  /\ \A r \in 0 .. round - 1 : RoundKept(r, FunctionAt(r), checked[r + 1])

(* The function can be queried on the domain it belongs to.                *)
LEMMA GoingQueries ==
  ASSUME RingLaws, setup \in Setups, ValidStirInstance(Params, setup.domain, setup.degree),
         Readable(proof), round \in 0 .. Rounds, Going
  PROVE  /\ Queryable(function, DomainAt(round), BoundAt(round), alpha)
         /\ EntriesInRing(CurrentRoot(round)) /\ K = 9
<1>1. K = 9 /\ Rounds \in Nat /\ DomainHolds(round) /\ round \in Nat
  BY StirInstance
<1>2. Computable(function)
  <2>1. CASE round = 0
    <3>1. function.initial = TRUE
      BY <2>1 DEF Going, FunctionAt, FunctionAfter
    <3> QED
      BY <3>1 DEF Computable
  <2>2. CASE round # 0
    <3> DEFINE r == round - 1
               c == checked[round]
    <3>1. r \in 0 .. round - 1 /\ r \in 0 .. Rounds - 1 /\ r + 1 = round /\ round \in 1 .. Len(proof.rounds)
      BY <1>1, <2>2 DEF Going
    <3>2. Sampled(r, RoundAt(r), c) /\ c.got[2] \in Ring
      <4>1. RoundKept(r, FunctionAt(r), checked[r + 1])
        BY <3>1 DEF Going
      <4> QED
        BY <3>1, <4>1 DEF RoundKept
    <3>3. IsPolynomial(proof.rounds[round].ans_polynomial)
      BY <3>1 DEF Readable, IsMessage
    <3>4. function = [initial |-> FALSE, comb_randomness |-> c.got[2],
                      ans_polynomial |-> proof.rounds[round].ans_polynomial,
                      quotient_set |-> QuotientPoints(RoundAt(r), c)]
      BY <2>2 DEF Going, FunctionAt, FunctionAfter
    <3> HIDE DEF r, c
    <3>5. QuotientPoints(RoundAt(r), c) \in Seq(Ring)
      BY <3>1, <3>2, RoundPoints DEF PointsHold
    <3> QED
      BY <3>2, <3>3, <3>4, <3>5 DEF Computable
  <2> QED
    BY <2>1, <2>2
<1>3. EntriesInRing(CurrentRoot(round))
  <2>1. CASE round = 0
    BY <2>1 DEF CurrentRoot, Readable
  <2>2. CASE round # 0
    <3>1. round \in 1 .. Len(proof.rounds)
      BY <1>1, <2>2 DEF Going
    <3> QED
      BY <2>2, <3>1 DEF CurrentRoot, Readable, IsMessage
  <2> QED
    BY <2>1, <2>2
<1> QED
  BY <1>1, <1>2, <1>3 DEF Queryable, DomainHolds, Going

(* Openings that fit give the folds of what is under the root.             *)
LEMMA OpenedFolds ==
  ASSUME RingLaws, NEW f, NEW d, NEW bound, NEW a, Queryable(f, d, bound, a),
         NEW root, EntriesInRing(root), NEW positions \in Seq(Nat),
         \A i \in 1 .. Len(positions) : positions[i] \in 0 .. (d.size \div 9) - 1,
         NEW opened, TreeAccepts(root, d.size \div 9, opened), BundlesFit(positions, opened, 9),
         NEW answers, answers = FoldedAnswers(d, bound, f, a, 9, positions, opened), AllOk(answers)
  PROVE  /\ ValuesOf(answers) = FoldsOf(f, d, bound, root, a, positions)
         /\ ValuesOf(answers) \in [1 .. Len(positions) -> Range(ValuesOf(answers))]
         /\ \A i \in DOMAIN positions :
              answers[i].value = FiberFold(f, d, bound, root, a, positions[i])
<1>1. /\ DOMAIN answers = DOMAIN positions /\ DOMAIN positions = 1 .. Len(positions)
      /\ \A i \in DOMAIN positions :
           answers[i].value = FiberFold(f, d, bound, root, a, positions[i])
  BY FoldedAnswersAre
<1>2. ValuesOf(answers) = FoldsOf(f, d, bound, root, a, positions)
  BY <1>1 DEF ValuesOf, FoldsOf
<1>3. DOMAIN ValuesOf(answers) = 1 .. Len(positions)
  BY <1>1 DEF ValuesOf
<1>4. ValuesOf(answers) = [i \in DOMAIN answers |-> answers[i].value]
  BY DEF ValuesOf
<1>5. ValuesOf(answers) \in [1 .. Len(positions) -> Range(ValuesOf(answers))]
  BY <1>3, <1>4 DEF Range
<1> QED
  BY <1>1, <1>2, <1>5

LEMMA LengthOfBoth ==
  ASSUME NEW a, IsSequence(a), NEW n \in Nat, NEW S, NEW b \in [1 .. n -> S]
  PROVE  Len(a \o b) = Len(a) + n
<1>1. PICK T : a \in Seq(T)
  BY DEF IsSequence
<1>2. a \in Seq(S \cup T) /\ b \in Seq(S \cup T) /\ Len(b) = n
  <2>1. \A i \in 1 .. Len(a) : a[i] \in T
    BY <1>1
  <2>2. a \in Seq(S \cup T)
    BY <1>1, <2>1
  <2>3. \A i \in 1 .. n : b[i] \in S \cup T
    OBVIOUS
  <2>4. b \in Seq(S \cup T) /\ Len(b) = n
    BY <2>3
  <2> QED
    BY <2>2, <2>4
<1> QED
  <2> DEFINE U == S \cup T
             c == a \o b
  <2>1. a \in Seq(U) /\ b \in Seq(U) /\ c = a \o b
    BY <1>2
  <2> HIDE DEF U, c
  <2>2. Len(c) = Len(a) + Len(b)
    BY <2>1, ConcatIs
  <2> QED
    BY <1>2, <2>2 DEF c

(* A round that holds is kept.                                             *)
LEMMA RoundChecks ==
  ASSUME RingLaws, Drawing, Readable(proof), Going,
         TreeAccepts(CurrentRoot(round), DomainAt(round).size \div K, proof.rounds[round + 1].queries_to_prev),
         NEW o \in OodDraws(RoundAt(round)), BetasFit(proof.rounds[round + 1], o),
         NEW d \in RoundDraws(RoundAt(round), CountAt(round), o, proof.rounds[round + 1].betas),
         RoundHolds(RoundAt(round), d)
  PROVE  /\ RoundDrawn(d)
         /\ RoundKept(round, function, [alpha |-> alpha, got |-> d.got])
<1> DEFINE ds == RoundAt(round)
           r  == round
           c  == [alpha |-> alpha, got |-> d.got]
           sent == proof.rounds[r + 1]
           opened == sent.queries_to_prev
           D  == DomainAt(r)
           B  == BoundAt(r)
           R  == CurrentRoot(r)
           p  == d.got[4]
           points == QuotientPoints(ds, d)
           answers == FoldedAnswers(D, B, function, alpha, 9, p, opened)
           folds == FoldsOf(function, D, B, R, alpha, p)
           s  == d.got[5][1]
<1>1. /\ setup \in Setups /\ ValidStirInstance(Params, setup.domain, setup.degree)
      /\ r \in 0 .. Rounds - 1 /\ r \in 0 .. Rounds /\ Rounds \in Nat
      /\ RoundSettled(r, ds)
  <2>1. /\ setup \in Setups /\ ValidStirInstance(Params, setup.domain, setup.degree)
        /\ r \in 0 .. Rounds - 1
    BY DEF Drawing
  <2>2. Rounds \in Nat
    BY <2>1, StirInstance
  <2> QED
    BY <2>1, <2>2, RoundIsSettled DEF RoundAt
<1>2. ~RanOut(o) /\ Len(sent.betas) = Len(o.got[1])
  BY DEF BetasFit
<1>3. RoundDrawn(d) /\ Sampled(r, ds, d) /\ d.got[1] = o.got[1]
  BY <1>2, DrawnIsSampled, OodGives, DrawsGive
<1>4. /\ Queryable(function, D, B, alpha) /\ EntriesInRing(R) /\ K = 9
  BY <1>1, GoingQueries
<1>5. ds.input = D /\ ds.folded.size = D.size \div 9
  BY <1>1 DEF RoundSettled
<1>6. /\ points \in Seq(Ring) /\ Len(points) = Len(d.got[1]) + Len(p)
      /\ p \in Seq(Nat) /\ \A i \in 1 .. Len(p) : p[i] \in 0 .. (D.size \div 9) - 1
  <2> HIDE DEF D
  <2>1. PointsHold(r, ds, points) /\ PointsSplit(ds, d, points)
    BY <1>1, <1>3, RoundPoints
  <2> HIDE DEF ds, points
  <2> QED
    BY <1>5, <2>1 DEF PointsHold, PointsSplit, SplitInto
<1>7. /\ BundlesFit(p, opened, 9) /\ AllOk(answers)
      /\ ShakeConsistent(sent.ans_polynomial, sent.shake_polynomial, points,
                         sent.betas \o ValuesOf(answers), s)
  BY <1>4, <1>5 DEF RoundHolds
<1>8. TreeAccepts(R, D.size \div 9, opened)
  BY <1>4
<1>9. sent.betas = sent.betas /\ IsSequence(sent.betas)
  <2>1. r + 1 \in 1 .. Len(proof.rounds)
    BY <1>1 DEF Going
  <2> QED
    BY <2>1 DEF Readable, IsMessage
<1>10. PICK x : x = answers
  OBVIOUS
<1> HIDE DEF answers, D, B, R, p, opened, points, s
<1>11. ValuesOf(x) = folds /\ ValuesOf(x) \in [1 .. Len(p) -> Range(ValuesOf(x))]
  <2>1. x = FoldedAnswers(D, B, function, alpha, 9, p, opened) /\ AllOk(x)
    BY <1>7, <1>10 DEF answers
  <2> QED
    BY <1>4, <1>6, <1>7, <1>8, <2>1, OpenedFolds
<1> HIDE DEF folds
<1>12. ShakeHolds(sent, points, Claimed(sent, folds), s)
  <2> DEFINE values == Claimed(sent, folds)
  <2>1. values = sent.betas \o ValuesOf(answers)
    BY <1>10, <1>11 DEF Claimed
  <2>2. Len(values) = Len(points)
    <3>1. Len(p) \in Nat
      BY <1>6
    <3>2. Len(sent.betas \o ValuesOf(x)) = Len(sent.betas) + Len(p)
      BY <1>9, <1>11, <3>1, LengthOfBoth
    <3> QED
      BY <1>2, <1>3, <1>6, <1>10, <2>1, <3>2
  <2>3. ShakeConsistent(sent.ans_polynomial, sent.shake_polynomial, points, values, s)
    BY <1>7, <2>1
  <2> HIDE DEF values
  <2> QED
    BY <2>2, <2>3 DEF ShakeConsistent, ShakeHolds, ShakeTerms, values
<1>13. c.got = d.got /\ c.alpha = alpha
  OBVIOUS
<1>14. Sampled(r, RoundAt(r), c) /\ c.got[2] \in Ring
  BY <1>3, <1>13 DEF Sampled, RoundDrawn
<1>15. QuotientPoints(RoundAt(r), c) = points
  BY <1>13 DEF QuotientPoints, points
<1> HIDE DEF c, sent
<1>16. RoundKept(r, function, c)
  BY <1>12, <1>13, <1>14, <1>15 DEF RoundKept, folds, D, B, R, p, s, sent
<1> QED
  BY <1>3, <1>16 DEF c

(* The number of final queries is one.                                     *)
LEMMA RequestedIs ==
  ASSUME NEW params, params.query_repetitions \in Seq(Nat), NEW size, NEW degree, NEW r \in Nat
  PROVE  RequestedQueries(params, size, degree, r) \in Nat
<1> DEFINE manual == params.query_repetitions
           base == BaseQueryCount(params, size, degree)
<1>1. CASE manual # <<>>
  <2>1. Len(manual) \in Nat \ {0}
    BY <1>1
  <2>2. Least(r + 1, Len(manual)) \in 1 .. Len(manual)
    BY <2>1 DEF Least
  <2>3. manual[Least(r + 1, Len(manual))] \in Nat
    BY <2>2
  <2> QED
    BY <1>1, <2>3 DEF RequestedQueries
<1>2. CASE manual = <<>>
  <2>1. base \in {1, 2, 3}
    <3> DEFINE halves == IF params.sec_mode = "Conservative" THEN 1 ELSE 2
               dense  == 6 * (degree + 1) >= halves * size
               cautious == params.sec_mode = "Conservative" /\ params.effective_bits >= 96
    <3>1. base = CASE dense /\ params.sec_mode = "Conservative" /\ params.effective_bits >= 96 -> 3
                   [] dense /\ ~cautious -> 2
                   [] ~dense -> 1
      BY DEF BaseQueryCount
    <3>2. CASE ~dense
      <4> HIDE DEF dense
      <4> QED
        BY <3>1, <3>2
    <3>3. CASE dense /\ cautious
      <4> HIDE DEF dense
      <4> QED
        BY <3>1, <3>3
    <3>4. CASE dense /\ ~cautious
      <4> HIDE DEF dense
      <4> QED
        BY <3>1, <3>4
    <3> QED
      BY <3>2, <3>3, <3>4
  <2> HIDE DEF base
  <2>2. RequestedQueries(params, size, degree, r) = IF base > r THEN base - r ELSE 1
    BY <1>2 DEF RequestedQueries, base
  <2> QED
    BY <2>1, <2>2
<1> QED
  BY <1>1, <1>2

LEMMA LastCount ==
  ASSUME setup \in Setups, Rounds \in Nat, FinalDomain.size \in Nat
  PROVE  FinalCount \in Nat
<1> DEFINE wanted == RequestedQueries(Params, FinalDomain.size, FoldedDegreeBound(BoundAt(Rounds), K), Rounds)
<1>1. wanted \in Nat
  <2>1. Params.query_repetitions \in Seq(Nat)
    BY SetupsAssumption DEF Params
  <2> QED
    BY <2>1, RequestedIs
<1>2. FinalCount = Least(wanted, FinalDomain.size)
  BY DEF FinalCount, FinalQueries
<1> HIDE DEF wanted
<1> QED
  BY <1>1, <1>2, LeastIs

(* What the last comparison shows.                                         *)
LEMMA EndChecks ==
  ASSUME RingLaws, setup \in Setups, ValidStirInstance(Params, setup.domain, setup.degree),
         Readable(proof), round = Rounds, Going, IsSequence(transcript), Answers(memo),
         NEW d \in FinalDraws, FinalHolds(d.got[1])
  PROVE  EndKept(function, [alpha |-> alpha, got |-> d.got])
<1> DEFINE r  == round
           opened == proof.queries_to_final
           D  == DomainAt(r)
           B  == BoundAt(r)
           R  == CurrentRoot(r)
           p  == d.got[1]
           answers == FoldedAnswers(D, B, function, alpha, 9, p, opened)
<1>1. r \in 0 .. Rounds /\ Rounds \in Nat /\ DomainHolds(r)
  BY StirInstance
<1>2. /\ Queryable(function, D, B, alpha) /\ EntriesInRing(R) /\ K = 9
  BY <1>1, GoingQueries
<1>3. FinalDomain.size = D.size \div 9 /\ FinalDomain.size \in Nat
  BY <1>1, <1>2, FoldedDomain DEF FinalDomain, DomainHolds
<1>4. p \in PositionDraws(FinalCount, FinalDomain.size)
  BY LastPositions
<1>5. FinalCount \in Nat
  BY <1>1, <1>3, LastCount
<1>6. p \in Seq(Nat) /\ \A i \in 1 .. Len(p) : p[i] \in 0 .. FinalDomain.size - 1
  BY <1>3, <1>4, <1>5, PositionsAre
<1>7. /\ TreeAccepts(R, FinalDomain.size, opened) /\ BundlesFit(p, opened, 9) /\ AllOk(answers)
      /\ \A i \in DOMAIN p :
           Evaluate(proof.final_polynomial, FinalDomain.points[p[i]]) = answers[i].value
  BY <1>2 DEF FinalHolds
<1>8. PICK x : x = answers
  OBVIOUS
<1> HIDE DEF answers, D, B, R, p, opened
<1>9. \A i \in DOMAIN p : x[i].value = FiberFold(function, D, B, R, alpha, p[i])
  <2>1. x = FoldedAnswers(D, B, function, alpha, 9, p, opened) /\ AllOk(x)
    BY <1>7, <1>8 DEF answers
  <2>2. TreeAccepts(R, D.size \div 9, opened) /\ \A i \in 1 .. Len(p) : p[i] \in 0 .. (D.size \div 9) - 1
    BY <1>3, <1>6, <1>7
  <2> QED
    BY <1>2, <1>6, <1>7, <2>1, <2>2, OpenedFolds, SMTT(30)
<1>10. ASSUME NEW i \in DOMAIN p
       PROVE  /\ p[i] \in 0 .. FinalDomain.size - 1
              /\ Evaluate(proof.final_polynomial, FinalDomain.points[p[i]])
                   = FiberFold(function, D, B, R, alpha, p[i])
  <2>1. i \in 1 .. Len(p)
    BY <1>6, <1>10
  <2> QED
    BY <1>6, <1>7, <1>8, <1>9, <1>10, <2>1
<1> DEFINE c == [alpha |-> alpha, got |-> d.got]
<1>11. c.got = d.got /\ c.alpha = alpha
  OBVIOUS
<1> HIDE DEF c
<1>12. EndKept(function, c)
  BY <1>10, <1>11 DEF EndKept, D, B, R, p
<1> QED
  BY <1>12 DEF c

-----------------------------------------------------------------------------
(* Soundness of the query phase *)

Accepted ==
  /\ setup \in Setups /\ ValidStirInstance(Params, setup.domain, setup.degree)
  /\ IsSequence(checked) /\ Len(checked) = Rounds + 1
  /\ \A r \in 0 .. Rounds - 1 : RoundKept(r, FunctionAt(r), checked[r + 1])
  /\ FinalBoundHolds /\ EndKept(FunctionAt(Rounds), checked[Rounds + 1])

VerifierState ==
  /\ pc \in {"prove", "fold", "answer", "finish", "deliver", "verify"} =>
       checked = <<>> /\ function = [initial |-> TRUE]
  /\ pc \in {"check", "draw", "final"} => Going
  /\ pc = "draw" =>
       TreeAccepts(CurrentRoot(round), DomainAt(round).size \div K, proof.rounds[round + 1].queries_to_prev)
  /\ pc # "done" => verdict # "accept"
  /\ verdict = "accept" => Accepted

(* What was kept stays so.                                                 *)
LEMMA KeptStays ==
  ASSUME SameSetup, proof' = proof
  PROVE  /\ \A r, c : FunctionAfter(r, c)' = FunctionAfter(r, c)
         /\ \A r, f, c : RoundKept(r, f, c)' = RoundKept(r, f, c)
         /\ \A f, c : EndKept(f, c)' = EndKept(f, c)
         /\ FinalBoundHolds' = FinalBoundHolds
<1>1. /\ Params' = Params /\ Rounds' = Rounds /\ FinalDomain' = FinalDomain /\ K' = K
      /\ \A r : /\ RoundAt(r)' = RoundAt(r) /\ CountAt(r)' = CountAt(r)
                /\ DomainAt(r)' = DomainAt(r) /\ BoundAt(r)' = BoundAt(r)
                /\ CurrentRoot(r)' = CurrentRoot(r)
  BY SetupStays DEF RoundAt, CountAt, CurrentRoot, SameSetup
<1>2. \A r, c : FunctionAfter(r, c)' = FunctionAfter(r, c)
  BY <1>1 DEF FunctionAfter
<1>3. \A r, f, c : RoundKept(r, f, c)' = RoundKept(r, f, c)
  BY <1>1 DEF RoundKept, Sampled
<1>4. \A f, c : EndKept(f, c)' = EndKept(f, c)
  BY <1>1 DEF EndKept
<1>5. FinalBoundHolds' = FinalBoundHolds
  BY <1>1 DEF FinalBoundHolds
<1> QED
  BY <1>2, <1>3, <1>4, <1>5

LEMMA NotAccepting ==
  ASSUME pc' = "done", verdict' # "accept"
  PROVE  VerifierState'
BY DEF VerifierState

LEMMA NotYetVerifying ==
  ASSUME VerifierState, pc \in {"prove", "fold", "answer", "finish", "deliver"},
         pc' \in {"prove", "fold", "answer", "finish", "deliver", "verify", "done"},
         checked' = checked, function' = function, verdict' # "accept"
  PROVE  VerifierState'
BY DEF VerifierState

LEMMA VerifierInit == Init => VerifierState
BY DEF Init, VerifierState

LEMMA VerifierProving ==
  ASSUME RingLaws, StirSetting, VerifierState, ProveStart \/ FoldRound \/ AnswerRound \/ ProveFinish
  PROVE  VerifierState'
<1>1. CASE ProveStart
  <2>1. /\ pc = "prove" /\ checked' = checked /\ function' = function
        /\ pc' \in {"finish", "fold", "done"} /\ verdict' \in {verdict, "refused"}
    BY <1>1 DEF ProveStart, Stop
  <2> QED
    BY <2>1, NotYetVerifying DEF VerifierState
<1>2. CASE FoldRound
  <2>1. /\ pc = "fold" /\ checked' = checked /\ function' = function
        /\ pc' = "answer" /\ verdict' = verdict
    BY <1>2 DEF FoldRound
  <2> QED
    BY <2>1, NotYetVerifying DEF VerifierState
<1>3. CASE AnswerRound
  <2>1. pc = "answer"
    BY <1>3 DEF AnswerRound
  <2>2. Stop("no_sample") \/ \E d, a, fits : SendRound(d, a, fits)
    BY <1>3 DEF AnswerRound
  <2>3. CASE Stop("no_sample")
    BY <2>3, NotAccepting DEF Stop
  <2>4. ASSUME NEW d, NEW a, NEW fits, SendRound(d, a, fits) PROVE VerifierState'
    <3>1. checked' = checked /\ function' = function /\ verdict' \in {"none", "overflow"}
      BY <2>4 DEF SendRound
    <3>2. pc' \in {"done", "finish", "fold"}
      BY <2>1, <2>4, SentGoesOn
    <3> QED
      BY <2>1, <3>1, <3>2, NotYetVerifying
  <2> QED
    BY <2>2, <2>3, <2>4
<1>4. CASE ProveFinish
  <2>1. /\ pc = "finish" /\ checked' = checked /\ function' = function
        /\ pc' \in {"deliver", "done"} /\ verdict' \in {"none", "overflow"}
    BY <1>4 DEF ProveFinish
  <2> QED
    BY <2>1, NotYetVerifying DEF VerifierState
<1> QED
  BY <1>1, <1>2, <1>3, <1>4

LEMMA VerifierDelivers ==
  ASSUME VerifierState, pc = "deliver", NEW kind, Deliver(kind)
  PROVE  VerifierState'
<1>1. pc' = "verify" /\ checked' = checked /\ function' = function /\ verdict' = verdict
  BY DEF Deliver
<1> QED
  BY <1>1, NotYetVerifying DEF VerifierState

LEMMA VerifierStutters ==
  ASSUME VerifierState, UNCHANGED vars
  PROVE  VerifierState'
<1>1. /\ SameSetup /\ pc' = pc /\ round' = round /\ alpha' = alpha /\ proof' = proof
      /\ function' = function /\ checked' = checked /\ verdict' = verdict
  BY DEF vars, SameSetup
<1>2. /\ \A r : FunctionAt(r)' = FunctionAt(r) /\ DomainAt(r)' = DomainAt(r)
      /\ Rounds' = Rounds /\ K' = K /\ Params' = Params
      /\ \A r : CurrentRoot(r)' = CurrentRoot(r)
  BY <1>1, KeptStays, SetupStays DEF FunctionAt, CurrentRoot
<1>3. Going => Going'
  BY <1>1, <1>2, KeptStays DEF Going, IsSequence
<1>4. Accepted => Accepted'
  BY <1>1, <1>2, KeptStays DEF Accepted, IsSequence, SameSetup
<1>5. DomainAt(round)' = DomainAt(round) /\ CurrentRoot(round)' = CurrentRoot(round)
  BY <1>1, <1>2
<1> QED
  BY <1>1, <1>2, <1>3, <1>4, <1>5 DEF VerifierState

LEMMA VerifierStarts ==
  ASSUME RingLaws, StirSetting, ProverState, VerifierState, VerifyStart
  PROVE  VerifierState'
<1>1. CASE ~EntryHolds
  <2>1. Stop("reject")
    BY <1>1 DEF VerifyStart
  <2> QED
    BY <2>1, NotAccepting DEF Stop
<1>2. CASE EntryHolds
  <2>1. PICK d \in Ask(Absorb(Started, <<"root", proof.initial_root>>), <<"alpha", 0>>, Challenges) :
          transcript' = d.t /\ memo' = d.m /\ alpha' = d.got[1]
    BY <1>2 DEF VerifyStart
  <2>2. d.got[1] \in Ring
    BY <2>1, FirstChallenge DEF ProverState
  <2>3. /\ SameSetup /\ proof' = proof /\ function' = function /\ checked' = checked
        /\ verdict' = verdict /\ round' = round /\ pc = "verify" /\ pc' \in {"final", "check"}
        /\ round = 0
    BY <1>2 DEF VerifyStart, SameSetup, StirSetting
  <2>4. checked = <<>> /\ function = [initial |-> TRUE] /\ verdict # "accept"
    BY <2>3 DEF VerifierState
  <2>5. Len(proof.rounds) = Rounds
    BY <1>2 DEF EntryHolds
  <2>6. Going'
    <3>1. Rounds' = Rounds /\ alpha' \in Ring
      BY <2>1, <2>2, <2>3, SetupStays
    <3>2. IsSequence(checked)' /\ Len(checked)' = 0
      BY <2>3, <2>4, EmptySequence DEF IsSequence
    <3>3. (function = FunctionAt(round))'
      BY <2>3, <2>4 DEF FunctionAt, FunctionAfter
    <3>4. (\A r \in 0 .. round - 1 : RoundKept(r, FunctionAt(r), checked[r + 1]))'
      BY <2>3
    <3> QED
      BY <2>3, <2>5, <3>1, <3>2, <3>3, <3>4 DEF Going
  <2> QED
    BY <2>3, <2>4, <2>6 DEF VerifierState
<1> QED
  BY <1>1, <1>2

LEMMA VerifierOpens ==
  ASSUME VerifierState, VerifyRound
  PROVE  VerifierState'
<1> DEFINE sent == proof.rounds[round + 1]
           fits == TreeAccepts(CurrentRoot(round), DomainAt(round).size \div K, sent.queries_to_prev)
<1>1. CASE ~fits
  <2>1. Stop("reject")
    BY <1>1 DEF VerifyRound
  <2> QED
    BY <2>1, NotAccepting DEF Stop
<1>2. CASE fits
  <2>1. /\ SameSetup /\ pc = "check" /\ pc' = "draw" /\ proof' = proof /\ function' = function
        /\ checked' = checked /\ verdict' = verdict /\ round' = round /\ alpha' = alpha
    BY <1>2 DEF VerifyRound, SameSetup
  <2>2. /\ \A r : FunctionAt(r)' = FunctionAt(r) /\ Rounds' = Rounds /\ K' = K
        /\ DomainAt(round)' = DomainAt(round) /\ CurrentRoot(round)' = CurrentRoot(round)
    <3>1. \A r : DomainAt(r)' = DomainAt(r) /\ CurrentRoot(r)' = CurrentRoot(r)
      BY <2>1, SetupStays DEF CurrentRoot
    <3> QED
      BY <2>1, <3>1, KeptStays, SetupStays DEF FunctionAt
  <2>3. Going'
    BY <2>1, <2>2, KeptStays DEF Going, IsSequence, VerifierState
  <2>4. fits'
    BY <1>2, <2>1, <2>2
  <2> QED
    BY <2>1, <2>3, <2>4 DEF VerifierState
<1> QED
  BY <1>1, <1>2

(* A sequence of n values with one more at its end.                        *)
OneMore(s, q, n, e) ==
  /\ Len(s) = n /\ Len(q) = n + 1 /\ q[n + 1] = e /\ IsSequence(q)
  /\ \A i \in 1 .. n : q[i] = s[i]

LEMMA AppendsOne ==
  ASSUME NEW s, IsSequence(s), NEW e, NEW n, Len(s) = n, NEW q, q = Append(s, e)
  PROVE  OneMore(s, q, n, e)
<1>1. \E T : s \in Seq(T)
  BY DEF IsSequence
<1>2. /\ \E T : q \in Seq(T)
      /\ Len(q) = Len(s) + 1 /\ q[Len(s) + 1] = e
      /\ \A i \in 1 .. Len(s) : q[i] = s[i]
  BY <1>1, AppendAnything
<1>3. IsSequence(q)
  BY <1>2 DEF IsSequence
<1> QED
  BY <1>2, <1>3 DEF OneMore

(* A round that is kept becomes the last one that passed.                  *)
LEMMA GoingOn ==
  ASSUME Going, round \in Nat, NEW c, RoundKept(round, function, c), SameSetup, proof' = proof,
         round' = round + 1, alpha' \in Ring, checked' = Append(checked, c),
         function' = FunctionAfter(round + 1, c)
  PROVE  Going'
<1>1. /\ Len(checked) = round /\ Len(checked') = round + 1
      /\ \A i \in 1 .. round : checked'[i] = checked[i]
      /\ checked'[round + 1] = c /\ \E S : checked' \in Seq(S)
  <2>1. IsSequence(checked) /\ Len(checked) = round
    BY DEF Going
  <2>2. PICK n, s, q : n = round /\ s = checked /\ q = checked'
    OBVIOUS
  <2>3. OneMore(s, q, n, c)
    BY <2>1, <2>2, AppendsOne
  <2> QED
    BY <2>2, <2>3 DEF OneMore, IsSequence
<1>2. ASSUME NEW r \in 0 .. round PROVE FunctionAt(r)' = FunctionAt(r)
  <2>1. FunctionAt(r)' = FunctionAfter(r, checked'[r])
    BY KeptStays DEF FunctionAt
  <2>2. CASE r = 0
    BY <2>1, <2>2 DEF FunctionAt, FunctionAfter
  <2>3. CASE r # 0
    <3>1. r \in 1 .. round
      BY <2>3
    <3> QED
      BY <1>1, <2>1, <3>1 DEF FunctionAt
  <2> QED
    BY <2>2, <2>3
<1>3. (function = FunctionAt(round))'
  <2>1. FunctionAt(round)' = FunctionAfter(round + 1, checked'[round + 1])
    BY KeptStays DEF FunctionAt
  <2> QED
    BY <1>1, <2>1
<1>4. ASSUME NEW r \in 0 .. round
      PROVE  RoundKept(r, FunctionAt(r), checked[r + 1])'
  <2>1. RoundKept(r, FunctionAt(r), checked'[r + 1])
    <3>1. CASE r = round
      BY <1>1, <3>1 DEF Going
    <3>2. CASE r # round
      <4>1. r \in 0 .. round - 1 /\ r + 1 \in 1 .. round
        BY <3>2
      <4> QED
        BY <1>1, <4>1 DEF Going
    <3> QED
      BY <3>1, <3>2
  <2>2. PICK f, e : f = FunctionAt(r) /\ e = checked'[r + 1]
    OBVIOUS
  <2>3. RoundKept(r, f, e)
    BY <2>1, <2>2
  <2>4. RoundKept(r, f, e)'
    BY <2>3, KeptStays
  <2> QED
    BY <1>2, <2>2, <2>4
<1>5. (\A r \in 0 .. round - 1 : RoundKept(r, FunctionAt(r), checked[r + 1]))'
  <2>1. round' - 1 = round
    OBVIOUS
  <2> QED
    BY <1>4, <2>1
<1>6. Rounds' = Rounds /\ Len(proof.rounds)' = Rounds
  BY SetupStays DEF Going
<1> QED
  BY <1>1, <1>3, <1>5, <1>6 DEF Going, IsSequence

LEMMA VerifierDraws ==
  ASSUME RingLaws, StirSetting, ProverState, ProofState, VerifierState, DrawRound
  PROVE  VerifierState'
<1>1. pc = "draw" /\ IsSequence(transcript) /\ Answers(memo)
  BY DEF DrawRound, ProverState
<1>2. Drawing
  BY <1>1, AnsweringSetting
<1>3. /\ Going /\ verdict # "accept" /\ Readable(proof)
      /\ TreeAccepts(CurrentRoot(round), DomainAt(round).size \div K,
                     proof.rounds[round + 1].queries_to_prev)
  BY <1>1 DEF VerifierState, ProofState
<1>4. PICK o \in OodDraws(RoundAt(round)) :
        IF BetasFit(proof.rounds[round + 1], o)
        THEN \E d \in RoundDraws(RoundAt(round), CountAt(round), o, proof.rounds[round + 1].betas) :
               IF RoundHolds(RoundAt(round), d) THEN AdvanceRound(RoundAt(round), d) ELSE Stop("reject")
        ELSE Stop("reject")
  BY DEF DrawRound, RoundAt, CountAt
<1>5. CASE Stop("reject")
  BY <1>5, NotAccepting DEF Stop
<1>6. CASE ~Stop("reject")
  <2>1. BetasFit(proof.rounds[round + 1], o)
    BY <1>4, <1>6
  <2>2. PICK d \in RoundDraws(RoundAt(round), CountAt(round), o, proof.rounds[round + 1].betas) :
          RoundHolds(RoundAt(round), d) /\ AdvanceRound(RoundAt(round), d)
    BY <1>4, <1>6, <2>1
  <2> DEFINE c == [alpha |-> alpha, got |-> d.got]
  <2>3. RoundDrawn(d) /\ RoundKept(round, function, c)
    BY <1>2, <1>3, <2>1, <2>2, RoundChecks
  <2>4. /\ SameSetup /\ proof' = proof /\ round' = round + 1 /\ alpha' = d.got[3]
        /\ checked' = Append(checked, c) /\ verdict' = verdict /\ pc' \in {"final", "check"}
        /\ function' = [initial |-> FALSE, comb_randomness |-> d.got[2],
                        ans_polynomial |-> proof.rounds[round + 1].ans_polynomial,
                        quotient_set |-> QuotientPoints(RoundAt(round), d)]
    BY <2>2 DEF AdvanceRound, SameSetup
  <2>5. round \in Nat
    BY DEF StirSetting
  <2>6. function' = FunctionAfter(round + 1, c)
    <3>1. c.got = d.got /\ round + 1 # 0 /\ (round + 1) - 1 = round
      BY <2>5
    <3> HIDE DEF c
    <3>2. QuotientPoints(RoundAt(round), c) = QuotientPoints(RoundAt(round), d)
      BY <3>1 DEF QuotientPoints
    <3> QED
      BY <2>4, <3>1, <3>2 DEF FunctionAfter
  <2>7. alpha' \in Ring
    BY <2>3, <2>4 DEF RoundDrawn
  <2> HIDE DEF c
  <2>8. Going'
    BY <1>3, <2>3, <2>4, <2>5, <2>6, <2>7, GoingOn
  <2> QED
    BY <1>3, <2>4, <2>8 DEF VerifierState
<1> QED
  BY <1>5, <1>6

LEMMA VerifierEnds ==
  ASSUME RingLaws, StirSetting, ProverState, ProofState, VerifierState, VerifyFinal
  PROVE  VerifierState'
<1>1. pc = "final" /\ round = Rounds /\ IsSequence(transcript) /\ Answers(memo)
  BY DEF VerifyFinal, ProverState, StirSetting
<1>2. /\ setup \in Setups /\ ValidStirInstance(Params, setup.domain, setup.degree) /\ Rounds \in Nat
  BY <1>1, SettingAt
<1>3. Going /\ verdict # "accept" /\ Readable(proof)
  BY <1>1 DEF VerifierState, ProofState
<1>4. CASE ~FinalBoundHolds
  <2>1. Stop("reject")
    BY <1>4 DEF VerifyFinal
  <2> QED
    BY <2>1, NotAccepting DEF Stop
<1>5. CASE FinalBoundHolds
  <2>1. PICK d \in FinalDraws :
          IF FinalHolds(d.got[1])
          THEN verdict' = "accept" /\ checked' = Append(checked, [alpha |-> alpha, got |-> d.got])
          ELSE verdict' = "reject"
    BY <1>5 DEF VerifyFinal
  <2>2. SameSetup /\ proof' = proof /\ pc' = "done"
    BY <1>5 DEF VerifyFinal, SameSetup
  <2>3. CASE ~FinalHolds(d.got[1])
    BY <2>1, <2>2, <2>3, NotAccepting
  <2>4. CASE FinalHolds(d.got[1])
    <3> DEFINE c == [alpha |-> alpha, got |-> d.got]
    <3>1. EndKept(function, c)
      BY <1>1, <1>2, <1>3, <2>4, EndChecks
    <3> HIDE DEF c
    <3>2. checked' = Append(checked, c)
      BY <2>1, <2>4 DEF c
    <3>3. /\ Len(checked) = Rounds /\ Len(checked') = Rounds + 1
          /\ \A i \in 1 .. Rounds : checked'[i] = checked[i]
          /\ checked'[Rounds + 1] = c /\ \E S : checked' \in Seq(S)
      <4>1. /\ Len(checked) = round /\ Len(checked') = round + 1
            /\ \A i \in 1 .. round : checked'[i] = checked[i]
            /\ checked'[round + 1] = c /\ \E S : checked' \in Seq(S)
        <5>1. IsSequence(checked) /\ Len(checked) = round
          BY <1>3 DEF Going
        <5>2. PICK n, s, q : n = round /\ s = checked /\ q = checked'
          OBVIOUS
        <5>3. OneMore(s, q, n, c)
          BY <3>2, <5>1, <5>2, AppendsOne
        <5> QED
          BY <5>2, <5>3 DEF OneMore, IsSequence
      <4>2. PICK n : n = Rounds /\ n = round
        BY <1>1
      <4> QED
        BY <4>1, <4>2
    <3>4. ASSUME NEW r \in 0 .. Rounds PROVE FunctionAt(r)' = FunctionAt(r)
      <4>1. FunctionAt(r)' = FunctionAfter(r, checked'[r])
        BY <2>2, KeptStays DEF FunctionAt
      <4>2. CASE r = 0
        BY <4>1, <4>2 DEF FunctionAt, FunctionAfter
      <4>3. CASE r # 0
        <5>1. r \in 1 .. Rounds
          BY <1>2, <4>3
        <5> QED
          BY <3>3, <4>1, <5>1 DEF FunctionAt
      <4> QED
        BY <4>2, <4>3
    <3>5. ASSUME NEW r \in 0 .. Rounds - 1
          PROVE  RoundKept(r, FunctionAt(r), checked[r + 1])'
      <4>1. r + 1 \in 1 .. Rounds /\ r \in 0 .. Rounds
        BY <1>2
      <4>2. RoundKept(r, FunctionAt(r), checked'[r + 1])
        BY <1>1, <1>3, <3>3, <4>1 DEF Going
      <4>3. PICK f, e : f = FunctionAt(r) /\ e = checked'[r + 1]
        OBVIOUS
      <4>4. RoundKept(r, f, e)
        BY <4>2, <4>3
      <4>5. RoundKept(r, f, e)'
        BY <2>2, <4>4, KeptStays
      <4> QED
        BY <3>4, <4>1, <4>3, <4>5
    <3>6. EndKept(FunctionAt(Rounds), checked[Rounds + 1])'
      <4>1. PICK f : f = FunctionAt(Rounds)
        OBVIOUS
      <4>2. EndKept(f, c)
        BY <1>1, <1>3, <3>1, <4>1 DEF Going
      <4>3. PICK e : e = c
        OBVIOUS
      <4>4. EndKept(f, e)'
        BY <2>2, <4>2, <4>3, KeptStays
      <4>5. PICK n : n = Rounds
        OBVIOUS
      <4>6. Rounds' = n /\ n \in 0 .. Rounds
        BY <1>2, <2>2, <4>5, SetupStays
      <4>7. FunctionAt(n)' = f /\ checked'[n + 1] = e
        BY <3>3, <3>4, <4>1, <4>3, <4>5, <4>6
      <4> QED
        BY <4>4, <4>6, <4>7
    <3>7. Accepted'
      <4>1. Rounds' = Rounds /\ Params' = Params /\ FinalBoundHolds'
        BY <1>5, <2>2, KeptStays, SetupStays
      <4>2. (setup \in Setups /\ ValidStirInstance(Params, setup.domain, setup.degree))'
        BY <1>2, <2>2, <4>1 DEF SameSetup
      <4>3. (\A r \in 0 .. Rounds - 1 : RoundKept(r, FunctionAt(r), checked[r + 1]))'
        BY <3>5, <4>1
      <4> QED
        BY <3>3, <3>6, <4>1, <4>2, <4>3 DEF Accepted, IsSequence
    <3> QED
      BY <2>2, <3>7 DEF VerifierState
  <2> QED
    BY <2>3, <2>4
<1> QED
  BY <1>4, <1>5

LEMMA VerifierKeeps ==
  ASSUME RingLaws, StirSetting, ProverState, ProofState, VerifierState, [Next]_vars
  PROVE  VerifierState'
<1>1. CASE pc = "deliver" /\ \E kind \in DamageKinds : Deliver(kind)
  BY <1>1, VerifierDelivers
<1>2. CASE UNCHANGED vars \/ Return
  BY <1>2, VerifierStutters DEF Return
<1>3. CASE ProveStart \/ FoldRound \/ AnswerRound \/ ProveFinish
  BY <1>3, VerifierProving
<1> QED
  BY <1>1, <1>2, <1>3, VerifierStarts, VerifierOpens, VerifierDraws, VerifierEnds DEF Next

LEMMA VerifierStateHolds ==
  ASSUME RingLaws
  PROVE  Spec => []VerifierState
<1> DEFINE All == StirSetting /\ ProverState /\ ProofState /\ VerifierState
<1>1. Init => All
  BY SettingInit, ProverInit, ProofInit, VerifierInit
<1>2. All /\ [Next]_vars => All'
  BY SettingKeeps, ProverKeeps, ProofKeeps, VerifierKeeps
<1>3. All => VerifierState
  OBVIOUS
<1> QED
  BY <1>1, <1>2, <1>3, PTL DEF Spec

(* A table under a root has, on the fiber of a leaf, the row of the leaf.  *)
LEMMA UnderFiber ==
  ASSUME K = 9, NEW root, NEW n \in Nat, n % 9 = 0, NEW m, m = n \div 9,
         NEW c \in 0 .. m - 1, NEW o \in 0 .. 8
  PROVE  Under(root, n)[c + o * m] = root[c][o]
<1> DEFINE i == c + o * m
<1>1. i \in 0 .. n - 1 /\ i % m = c /\ i \div m = o
  BY FiberIndex
<1> HIDE DEF i
<1>2. Under(root, n) = [j \in 0 .. n - 1 |-> root[j % m][j \div m]]
  BY DEF Under
<1>3. Under(root, n)[i] = root[i % m][i \div m]
  BY <1>1, <1>2
<1> QED
  BY <1>1, <1>3 DEF i

(* What CommittedAt has at one index.                                      *)
CommittedValue(r, i, x) ==
  LET set == QuotientPoints(RoundAt(r - 1), checked[r])
      v   == Under(CurrentRoot(r), DomainAt(r).size)[i]
  IN  IF r = 0 THEN v
      ELSE Times(Times(Minus(v, Evaluate(proof.rounds[r].ans_polynomial, x)), Inv(BelowAt(set, x))),
                 Geometric(Times(x, checked[r].got[2]),
                           BoundAt(r) - SaturatingSubtract(BoundAt(r), Len(set))))

LEMMA CommittedIs ==
  ASSUME NEW r, NEW fiber
  PROVE  CommittedAt(r, fiber)
           = [o \in DOMAIN fiber |-> CommittedValue(r, fiber[o], DomainAt(r).points[fiber[o]])]
<1> DEFINE w == [o \in DOMAIN fiber |-> CommittedValue(r, fiber[o], DomainAt(r).points[fiber[o]])]
<1>1. CommittedAt(r, fiber) = Tabulated(w)
  BY Zenon DEF CommittedAt, CommittedValue, Geometric, BelowAt, Below, RoundAt
<1> HIDE DEF w
<1>2. CommittedAt(r, fiber) = w
  BY <1>1, TabulatedIs
<1> QED
  BY <1>2 DEF w

(* On a fiber, the values AcceptMeansConsistent speaks of are those the    *)
(* verifier's function has of what is under the root.                      *)
LEMMA CommittedIsQueried ==
  ASSUME RingLaws, setup \in Setups, ValidStirInstance(Params, setup.domain, setup.degree),
         NEW r \in 0 .. Rounds, NEW m, m = DomainAt(r).size \div 9, NEW c \in 0 .. m - 1
  PROVE  CommittedAt(r, [o \in 0 .. 8 |-> c + o * m])
           = FiberValues(FunctionAt(r), DomainAt(r), BoundAt(r), CurrentRoot(r), c)
<1> DEFINE d == DomainAt(r)
           R == CurrentRoot(r)
           B == BoundAt(r)
           f == FunctionAt(r)
           fiber == [o \in 0 .. 8 |-> c + o * m]
<1>1. K = 9 /\ Rounds \in Nat /\ d.size \in Nat /\ d.size % 9 = 0
  BY StirInstance DEF DomainHolds
<1>2. /\ DOMAIN fiber = 0 .. 8
      /\ CommittedAt(r, fiber) = [o \in DOMAIN fiber |-> CommittedValue(r, fiber[o], d.points[fiber[o]])]
  BY CommittedIs
<1>3. ASSUME NEW o \in 0 .. 8
      PROVE  CommittedValue(r, fiber[o], d.points[fiber[o]]) = Queried(f, B, d.points[c + o * m], R[c][o])
  <2> DEFINE i == c + o * m
             x == d.points[i]
             v == Under(R, d.size)[i]
  <2>1. fiber[o] = i
    OBVIOUS
  <2>2. v = R[c][o]
    <3>1. PICK n \in Nat : n = d.size /\ n % 9 = 0 /\ m = n \div 9
      BY <1>1
    <3> HIDE DEF d, R
    <3>2. Under(R, n)[c + o * m] = R[c][o]
      BY <1>1, <3>1, UnderFiber
    <3> QED
      BY <3>1, <3>2
  <2> HIDE DEF i, x, fiber
  <2>3. CASE r = 0
    <3>1. f.initial = TRUE
      BY <2>3 DEF FunctionAt, FunctionAfter
    <3>2. CommittedValue(r, i, x) = v
      BY <2>3 DEF CommittedValue
    <3>3. Queried(f, B, x, R[c][o]) = R[c][o]
      BY <3>1 DEF Queried
    <3> QED
      BY <2>1, <2>2, <3>2, <3>3 DEF x, i
  <2>4. CASE r # 0
    <3> DEFINE set == QuotientPoints(RoundAt(r - 1), checked[r])
               comb == checked[r].got[2]
               ans == proof.rounds[r].ans_polynomial
    <3>1. f = [initial |-> FALSE, comb_randomness |-> comb, ans_polynomial |-> ans,
               quotient_set |-> set]
      BY <2>4 DEF FunctionAt, FunctionAfter
    <3>2. CommittedValue(r, i, x)
            = Times(Times(Minus(v, Evaluate(ans, x)), Inv(BelowAt(set, x))),
                    Geometric(Times(x, comb), B - SaturatingSubtract(B, Len(set))))
      BY <2>4 DEF CommittedValue
    <3> HIDE DEF set, comb, ans, f
    <3>3. ~f.initial /\ f.comb_randomness = comb /\ f.ans_polynomial = ans /\ f.quotient_set = set
      BY <3>1
    <3>4. Queried(f, B, x, v)
            = Times(Times(Minus(v, Evaluate(ans, x)), Inv(BelowAt(set, x))),
                    Geometric(Times(x, comb), B - SaturatingSubtract(B, Len(set))))
      BY <3>3 DEF Queried
    <3> QED
      BY <2>1, <2>2, <3>2, <3>4 DEF x, i, f
  <2> QED
    BY <2>3, <2>4
<1> DEFINE g == CommittedAt(r, fiber)
           h == FiberValues(f, d, B, R, c)
<1>4. DOMAIN g = 0 .. 8 /\ g = [o \in DOMAIN g |-> g[o]]
  BY <1>2
<1>5. DOMAIN h = 0 .. 8 /\ h = [o \in DOMAIN h |-> h[o]]
  BY DEF FiberValues
<1>6. ASSUME NEW o \in 0 .. 8 PROVE g[o] = h[o]
  <2>1. g[o] = CommittedValue(r, fiber[o], d.points[fiber[o]])
    BY <1>2
  <2>2. h[o] = Queried(f, B, d.points[c + o * (d.size \div 9)], R[c][o])
    BY DEF FiberValues
  <2> QED
    BY <1>3, <2>1, <2>2
<1> HIDE DEF g, h
<1>7. g = h
  BY <1>4, <1>5, <1>6
<1> QED
  BY <1>7 DEF g, h

(* The folds AcceptMeansConsistent speaks of are those the verifier saw.   *)
LEMMA FoldIsFiberFold ==
  ASSUME RingLaws, setup \in Setups, ValidStirInstance(Params, setup.domain, setup.degree),
         NEW r \in 0 .. Rounds, NEW c \in 0 .. (DomainAt(r).size \div 9) - 1
  PROVE  FoldOf(r, c)
           = FiberFold(FunctionAt(r), DomainAt(r), BoundAt(r), CurrentRoot(r), checked[r + 1].alpha, c)
<1> DEFINE k == 9
           m == DomainAt(r).size \div k
           fiber == [o \in 0 .. k - 1 |-> c + o * m]
           points == FiberPoints(DomainAt(r), c, m, k)
           values == FiberValues(FunctionAt(r), DomainAt(r), BoundAt(r), CurrentRoot(r), c)
<1>1. K = k
  BY StirInstance
<1>2. CommittedAt(r, fiber) = values
  <2>1. fiber = [o \in 0 .. 8 |-> c + o * (DomainAt(r).size \div 9)]
    OBVIOUS
  <2>2. PICK n : n = DomainAt(r).size \div 9 /\ c \in 0 .. n - 1
    OBVIOUS
  <2>3. CommittedAt(r, [o \in 0 .. 8 |-> c + o * n]) = values
    BY <2>2, CommittedIsQueried
  <2> QED
    BY <2>1, <2>2, <2>3
<1> HIDE DEF k
<1>3. FoldOf(r, c) = Evaluate(Interpolate(points, CommittedAt(r, fiber), k), checked[r + 1].alpha)
  BY <1>1, Zenon DEF FoldOf
<1>4. FoldOf(r, c) = Evaluate(Interpolate(points, values, k), checked[r + 1].alpha)
  BY <1>2, <1>3
<1> QED
  BY <1>4 DEF FiberFold, k

(* A round that was kept is consistent.                                    *)
LEMMA KeptIsConsistent ==
  ASSUME RingLaws, setup \in Setups, ValidStirInstance(Params, setup.domain, setup.degree),
         NEW r \in 0 .. Rounds - 1, RoundKept(r, FunctionAt(r), checked[r + 1])
  PROVE  RoundConsistent(r)
<1> DEFINE c == checked[r + 1]
           p == c.got[4]
           sent == proof.rounds[r + 1]
           points == QuotientPoints(RoundAt(r), c)
           folds == [i \in DOMAIN p |-> FoldOf(r, p[i])]
           values == sent.betas \o folds
           s == c.got[5][1]
           at == Evaluate(sent.ans_polynomial, s)
<1>1. Rounds \in Nat /\ r \in 0 .. Rounds
  BY StirInstance
<1>2. RoundSettled(r, RoundAt(r))
  BY RoundIsSettled DEF RoundAt
<1>3. RoundAt(r).folded.size = DomainAt(r).size \div 9
  BY <1>2 DEF RoundSettled
<1>4. p \in Seq(Nat) /\ \A i \in 1 .. Len(p) : p[i] \in 0 .. (DomainAt(r).size \div 9) - 1
  <2>1. PointsSplit(RoundAt(r), c, QuotientPoints(RoundAt(r), c))
    BY RoundPoints DEF RoundKept
  <2> QED
    BY <1>3, <2>1 DEF PointsSplit, SplitInto
<1>5. folds = FoldsOf(FunctionAt(r), DomainAt(r), BoundAt(r), CurrentRoot(r), c.alpha, p)
  <2>1. DOMAIN p = 1 .. Len(p)
    BY <1>4
  <2>2. ASSUME NEW i \in DOMAIN p
        PROVE  FoldOf(r, p[i]) = FiberFold(FunctionAt(r), DomainAt(r), BoundAt(r), CurrentRoot(r), c.alpha, p[i])
    <3>1. p[i] \in 0 .. (DomainAt(r).size \div 9) - 1
      BY <1>4, <2>1
    <3> HIDE DEF p
    <3> QED
      BY <1>1, <3>1, FoldIsFiberFold
  <2> HIDE DEF p, c
  <2> QED
    BY <2>2 DEF FoldsOf
<1>6. ShakeHolds(sent, points, Claimed(sent, folds), s)
  <2> HIDE DEF folds
  <2> QED
    BY <1>5 DEF RoundKept
<1>7. ShakeHolds(sent, points, values, s)
  BY <1>6 DEF Claimed
<1>8. /\ Len(values) = Len(points)
      /\ Evaluate(sent.shake_polynomial, s)
           = RingSum([i \in 0 .. Len(points) - 1 |->
                        Times(Minus(at, values[i + 1]), Inv(Minus(s, points[i + 1])))], Len(points))
  <2> HIDE DEF values, points, s, sent
  <2> QED
    BY <1>7, Zenon DEF ShakeHolds, ShakeTerms
<1> QED
  BY <1>8, Zenon DEF RoundConsistent, RoundAt

(* Soundness of the query phase: when the verifier accepts, every round's  *)
(* shake equation and the terminal comparison hold for the tables under    *)
(* the roots, at all positions the transcript drew, whatever was sent and  *)
(* wherever it was damaged (StirVerifier::verify opens no other fiber than *)
(* the one it folds, and compares every fold it computes).                 *)
THEOREM AcceptedProofIsConsistent ==
  ASSUME RingLaws
  PROVE  Spec => []AcceptMeansConsistent
<1>1. ASSUME VerifierState PROVE AcceptMeansConsistent
  <2> SUFFICES ASSUME verdict = "accept"
               PROVE  /\ Len(checked) = Rounds + 1
                      /\ \A r \in 0 .. Rounds - 1 : RoundConsistent(r)
                      /\ Degree(proof.final_polynomial) <= FoldedDegreeBound(BoundAt(Rounds), K)
                      /\ \A i \in DOMAIN checked[Rounds + 1].got[1] :
                           Evaluate(proof.final_polynomial,
                                    FinalDomain.points[checked[Rounds + 1].got[1][i]])
                             = FoldOf(Rounds, checked[Rounds + 1].got[1][i])
    BY DEF AcceptMeansConsistent
  <2>1. Accepted /\ setup \in Setups /\ ValidStirInstance(Params, setup.domain, setup.degree)
    BY <1>1 DEF VerifierState, Accepted
  <2>2. Len(checked) = Rounds + 1 /\ Degree(proof.final_polynomial) <= FoldedDegreeBound(BoundAt(Rounds), K)
    BY <2>1 DEF Accepted, FinalBoundHolds
  <2>3. ASSUME NEW r \in 0 .. Rounds - 1 PROVE RoundConsistent(r)
    BY <2>1, KeptIsConsistent DEF Accepted
  <2>4. ASSUME NEW i \in DOMAIN checked[Rounds + 1].got[1]
        PROVE  Evaluate(proof.final_polynomial, FinalDomain.points[checked[Rounds + 1].got[1][i]])
                 = FoldOf(Rounds, checked[Rounds + 1].got[1][i])
    <3> DEFINE c == checked[Rounds + 1]
               position == c.got[1][i]
    <3>1. /\ position \in 0 .. FinalDomain.size - 1
          /\ Evaluate(proof.final_polynomial, FinalDomain.points[position])
               = FiberFold(FunctionAt(Rounds), DomainAt(Rounds), BoundAt(Rounds), CurrentRoot(Rounds),
                           c.alpha, position)
      BY <2>1, <2>4 DEF Accepted, EndKept
    <3>2. Rounds \in Nat /\ Rounds \in 0 .. Rounds /\ K = 9 /\ DomainHolds(Rounds)
      BY <2>1, StirInstance
    <3>3. FinalDomain.size = DomainAt(Rounds).size \div 9
      BY <3>2, FoldedDomain DEF FinalDomain, DomainHolds
    <3> HIDE DEF position
    <3>4. FoldOf(Rounds, position)
            = FiberFold(FunctionAt(Rounds), DomainAt(Rounds), BoundAt(Rounds), CurrentRoot(Rounds),
                        c.alpha, position)
      BY <2>1, <3>1, <3>2, <3>3, FoldIsFiberFold
    <3> QED
      BY <3>1, <3>4 DEF position
  <2> QED
    BY <2>2, <2>3, <2>4
<1>2. VerifierState => AcceptMeansConsistent
  BY <1>1
<1> QED
  BY <1>2, VerifierStateHolds, PTL
-----------------------------------------------------------------------------
(* The oracle's memory *)

(* What a memory holds, and one that holds no less.                        *)
Knows(m, key, v) == key \in DOMAIN m /\ m[key] = v
Keeps(m, n) == \A key \in DOMAIN m : Knows(n, key, m[key])

(* Nothing was asked at the end of a longer transcript.                    *)
Fresh(t, m) == IsSequence(t) /\ \A key \in DOMAIN m : IsSequence(key) /\ Len(key) <= Len(t)

LEMMA KeptKnows ==
  ASSUME NEW m, NEW n, Keeps(m, n), NEW key, NEW v, Knows(m, key, v)
  PROVE  Knows(n, key, v) /\ \A w : Knows(n, key, w) => w = v
BY DEF Keeps, Knows

LEMMA KeepsOn ==
  ASSUME NEW l, NEW m, NEW n, Keeps(l, m), Keeps(m, n)
  PROVE  Keeps(l, n)
BY DEF Keeps, Knows

LEMMA FreshOn ==
  ASSUME NEW t, NEW m, Fresh(t, m), NEW e
  PROVE  Fresh(Append(t, e), m)
<1>1. IsSequence(Append(t, e)) /\ Len(t) \in Nat /\ Len(Append(t, e)) = Len(t) + 1
  BY AppendAnything DEF Fresh, IsSequence
<1>2. ASSUME NEW key \in DOMAIN m PROVE IsSequence(key) /\ Len(key) <= Len(Append(t, e))
  <2>1. IsSequence(key) /\ Len(key) <= Len(t)
    BY DEF Fresh
  <2>2. Len(key) \in Nat
    BY <2>1 DEF IsSequence
  <2> QED
    BY <1>1, <2>1, <2>2
<1> QED
  BY <1>1, <1>2 DEF Fresh

(* A question and its answer, which is remembered.                         *)
Learnt(d, label, e, v) ==
  /\ e.t = Append(d.t, label) /\ e.got = Append(d.got, v)
  /\ Keeps(d.m, e.m) /\ Knows(e.m, e.t, v)

(* A transcript nobody went on from is answered from what is asked for.    *)
LEMMA AskLearns ==
  ASSUME NEW d, NEW label, NEW S, NEW e \in Ask(d, label, S)
  PROVE  \E v : Learnt(d, label, e, v) /\ (Fresh(d.t, d.m) => v \in S /\ Fresh(e.t, e.m))
<1> DEFINE asked == Append(d.t, label)
           memory(v) == [key \in DOMAIN d.m \cup {asked} |-> IF key = asked THEN v ELSE d.m[key]]
<1>1. PICK v \in IF asked \in DOMAIN d.m THEN {d.m[asked]} ELSE S :
        e = [t |-> asked, m |-> memory(v), got |-> Append(d.got, v)]
  BY DEF Ask
<1>2. e.t = asked /\ e.m = memory(v) /\ e.got = Append(d.got, v)
  BY <1>1
<1>3. DOMAIN e.m = DOMAIN d.m \cup {asked}
      /\ \A key \in DOMAIN e.m : e.m[key] = IF key = asked THEN v ELSE d.m[key]
  BY <1>2
<1>4. asked \in DOMAIN d.m => v = d.m[asked]
  BY <1>1
<1>5. Learnt(d, label, e, v)
  <2> HIDE DEF memory
  <2>1. Knows(e.m, asked, v)
    BY <1>3 DEF Knows
  <2>2. Keeps(d.m, e.m)
    BY <1>3, <1>4 DEF Keeps, Knows
  <2> QED
    BY <1>2, <2>1, <2>2 DEF Learnt
<1>6. ASSUME Fresh(d.t, d.m) PROVE v \in S /\ Fresh(e.t, e.m)
  <2>1. IsSequence(asked) /\ Len(d.t) \in Nat /\ Len(asked) = Len(d.t) + 1
    BY <1>6, AppendAnything DEF Fresh, IsSequence
  <2> HIDE DEF asked, memory
  <2>2. asked \notin DOMAIN d.m
    BY <1>6, <2>1 DEF Fresh
  <2>3. v \in S
    BY <1>1, <2>2
  <2>4. ASSUME NEW key \in DOMAIN e.m PROVE IsSequence(key) /\ Len(key) <= Len(asked)
    <3>1. CASE key = asked
      BY <2>1, <3>1
    <3>2. CASE key # asked
      <4>1. IsSequence(key) /\ Len(key) <= Len(d.t)
        BY <1>3, <1>6, <3>2 DEF Fresh
      <4>2. Len(key) \in Nat
        BY <4>1 DEF IsSequence
      <4> QED
        BY <2>1, <4>1, <4>2
    <3> QED
      BY <3>1, <3>2
  <2> QED
    BY <1>2, <2>1, <2>3, <2>4 DEF Fresh
<1> QED
  BY <1>5, <1>6

(* What is asked in a round that starts with transcript t.                 *)
OodAsked(t, r) == Append(t, <<"ood", r>>)
CombAsked(t, r, betas) == Append(Append(OodAsked(t, r), <<"betas", betas>>), <<"comb", r>>)
AlphaAsked(t, r, betas) == Append(CombAsked(t, r, betas), <<"alpha", r + 1>>)
QueryAsked(t, r, betas) == Append(AlphaAsked(t, r, betas), <<"query", r>>)
ShakeAsked(t, r, betas) == Append(QueryAsked(t, r, betas), <<"shake", r>>)

Heard(m, t, r, betas, got) ==
  /\ Knows(m, OodAsked(t, r), got[1]) /\ Knows(m, CombAsked(t, r, betas), got[2])
  /\ Knows(m, AlphaAsked(t, r, betas), got[3]) /\ Knows(m, QueryAsked(t, r, betas), got[4])
  /\ Knows(m, ShakeAsked(t, r, betas), got[5])

LEMMA HeardOnce ==
  ASSUME NEW m, NEW n, Keeps(m, n), NEW t, NEW r, NEW betas, NEW got, Heard(m, t, r, betas, got)
  PROVE  /\ Heard(n, t, r, betas, got)
         /\ \A v : Knows(n, OodAsked(t, r), v) => v = got[1]
         /\ \A g : Heard(n, t, r, betas, g) =>
              g[1] = got[1] /\ g[2] = got[2] /\ g[3] = got[3] /\ g[4] = got[4] /\ g[5] = got[5]
<1>1. \A key, v : Knows(m, key, v) => Knows(n, key, v) /\ \A w : Knows(n, key, w) => w = v
  BY KeptKnows
<1> QED
  BY <1>1 DEF Heard

PointSet(points) == {points[i] : i \in DOMAIN points}

(* What a round that nobody played before may draw.                        *)
ShakesFrom(ds, got) ==
  FewOf(ShakePool(Params, ds, PointSet(QuotientPoints(ds, [got |-> got]))), 1) \cup {<<>>}
DrawnFrom(ds, got) ==
  got[2] \in Challenges /\ got[3] \in Challenges /\ got[5] \in ShakesFrom(ds, got)

(* The out-of-domain points of a round.                                    *)
LEMMA OodLearns ==
  ASSUME NEW o \in OodDraws(RoundAt(round))
  PROVE  /\ Knows(o.m, OodAsked(transcript, round), o.got[1]) /\ Keeps(memo, o.m)
         /\ o.t = OodAsked(transcript, round) /\ \E v : o.got = <<v>>
         /\ Fresh(transcript, memo) => Fresh(o.t, o.m)
<1>1. PICK S : o \in Ask(Started, <<"ood", round>>, S)
  BY DEF OodDraws
<1>2. PICK v : /\ Learnt(Started, <<"ood", round>>, o, v)
               /\ Fresh(Started.t, Started.m) => Fresh(o.t, o.m)
  BY <1>1, AskLearns
<1>3. Started.t = transcript /\ Started.m = memo /\ Started.got = <<>>
  BY DEF Started
<1>4. o.got = <<v>> /\ o.got[1] = v
  BY <1>2, <1>3 DEF Learnt
<1> QED
  BY <1>2, <1>3, <1>4 DEF Learnt, OodAsked

(* Quotient points depend on two of the draws.                             *)
LEMMA SamePoints ==
  ASSUME NEW ds, NEW d, NEW e, d.got[1] = e.got[1], d.got[4] = e.got[4]
  PROVE  QuotientPoints(ds, d) = QuotientPoints(ds, e)
BY DEF QuotientPoints

(* All draws of a round are remembered under what was asked for them.      *)
LEMMA DrawsLearn ==
  ASSUME NEW o \in OodDraws(RoundAt(round)), NEW betas,
         NEW d \in RoundDraws(RoundAt(round), CountAt(round), o, betas)
  PROVE  /\ Heard(d.m, transcript, round, betas, d.got) /\ Keeps(memo, d.m)
         /\ d.t = ShakeAsked(transcript, round, betas)
         /\ d.got[1] = o.got[1] /\ (RanOut(d) <=> d.got[5] = <<>>)
         /\ Fresh(transcript, memo) => Fresh(d.t, d.m) /\ DrawnFrom(RoundAt(round), d.got)
<1> DEFINE ds == RoundAt(round)
           b  == Absorb(o, <<"betas", betas>>)
           x  == <<"comb", round>>
           y  == <<"alpha", round + 1>>
           z  == <<"query", round>>
           w  == <<"shake", round>>
           S  == PositionDraws(CountAt(round), ds.folded.size)
           W(q) == FewOf(ShakePool(Params, ds, PointSet(QuotientPoints(ds, q))), 1) \cup {<<>>}
<1>1. PICK c \in CombDraws(b) : \E a \in AlphaDraws(c) : \E q \in QueryDraws(ds, CountAt(round), a) :
        d \in ShakeDraws(ds, q)
  BY DEF RoundDraws
<1>2. PICK a \in AlphaDraws(c) : \E q \in QueryDraws(ds, CountAt(round), a) : d \in ShakeDraws(ds, q)
  BY <1>1
<1>3. PICK q \in QueryDraws(ds, CountAt(round), a) : d \in ShakeDraws(ds, q)
  BY <1>2
<1>4. PICK v : o.got = <<v>>
  BY OodLearns
<1>5. /\ Knows(o.m, OodAsked(transcript, round), v) /\ Keeps(memo, o.m)
      /\ o.t = OodAsked(transcript, round) /\ (Fresh(transcript, memo) => Fresh(o.t, o.m))
  <2>1. o.got[1] = v
    BY <1>4
  <2> QED
    BY <2>1, OodLearns
<1>6. o = [t |-> o.t, m |-> o.m, got |-> o.got]
  BY DEF OodDraws, Ask
<1>7. b.t = Append(o.t, <<"betas", betas>>) /\ b.m = o.m /\ b.got = <<v>>
  BY <1>4, <1>6 DEF Absorb
<1>8. Fresh(transcript, memo) => Fresh(b.t, b.m)
  BY <1>5, <1>7, FreshOn
<1>9. c \in Ask(b, x, Challenges) /\ a \in Ask(c, y, Challenges) /\ q \in Ask(a, z, S)
  BY DEF CombDraws, AlphaDraws, QueryDraws
<1>10. d \in Ask(q, w, W(q))
  BY <1>3 DEF ShakeDraws, PointSet
<1> HIDE DEF x, y, z, w, b, S, W
<1>11. PICK v2 : Learnt(b, x, c, v2) /\ (Fresh(b.t, b.m) => v2 \in Challenges /\ Fresh(c.t, c.m))
  BY <1>9, AskLearns
<1>12. PICK v3 : Learnt(c, y, a, v3) /\ (Fresh(c.t, c.m) => v3 \in Challenges /\ Fresh(a.t, a.m))
  BY <1>9, AskLearns
<1>13. PICK v4 : Learnt(a, z, q, v4) /\ (Fresh(a.t, a.m) => Fresh(q.t, q.m))
  BY <1>9, AskLearns
<1>14. PICK v5 : Learnt(q, w, d, v5) /\ (Fresh(q.t, q.m) => v5 \in W(q) /\ Fresh(d.t, d.m))
  BY <1>10, AskLearns
<1>15. c.got = Append(<<v>>, v2) /\ a.got = Append(c.got, v3) /\ q.got = Append(a.got, v4)
       /\ d.got = Append(q.got, v5)
  BY <1>7, <1>11, <1>12, <1>13, <1>14 DEF Learnt
<1>16. d.got[1] = v /\ d.got[2] = v2 /\ d.got[3] = v3 /\ d.got[4] = v4 /\ d.got[5] = v5 /\ Len(d.got) = 5
       /\ q.got[1] = v /\ q.got[4] = v4 /\ o.got[1] = v
  <2>a. IsSequence(<<v>>)
    <3>1. <<v>> \in Seq({v})
      OBVIOUS
    <3> QED
      BY <3>1 DEF IsSequence
  <2>0. IsSequence(<<v>>) /\ Len(<<v>>) = 1 /\ o.got[1] = v
    BY <1>4, <2>a
  <2>c. \A s, e : IsSequence(s) => IsSequence(Append(s, e))
    BY AppendAnything DEF IsSequence
  <2>5. IsSequence(c.got)
    BY <1>15, <2>0, <2>c
  <2>6. IsSequence(a.got)
    BY <1>15, <2>5, <2>c
  <2>7. IsSequence(q.got)
    BY <1>15, <2>6, <2>c
  <2>1. Len(c.got) = 2 /\ c.got[1] = v /\ c.got[2] = v2
    BY <1>15, <2>0, AppendAnything DEF IsSequence
  <2>2. Len(a.got) = 3 /\ a.got[1] = v /\ a.got[2] = v2 /\ a.got[3] = v3
    BY <1>15, <2>1, <2>5, AppendAnything DEF IsSequence
  <2>3. Len(q.got) = 4 /\ q.got[1] = v /\ q.got[2] = v2 /\ q.got[3] = v3 /\ q.got[4] = v4
    BY <1>15, <2>2, <2>6, AppendAnything DEF IsSequence
  <2>4. Len(d.got) = 5 /\ d.got[1] = v /\ d.got[2] = v2 /\ d.got[3] = v3 /\ d.got[4] = v4 /\ d.got[5] = v5
    BY <1>15, <2>3, <2>7, AppendAnything DEF IsSequence
  <2> QED
    BY <2>0, <2>3, <2>4
<1>17. /\ b.t = Append(OodAsked(transcript, round), <<"betas", betas>>)
       /\ c.t = CombAsked(transcript, round, betas) /\ a.t = AlphaAsked(transcript, round, betas)
       /\ q.t = QueryAsked(transcript, round, betas) /\ d.t = ShakeAsked(transcript, round, betas)
  <2>1. b.t = Append(OodAsked(transcript, round), <<"betas", betas>>)
    BY <1>5, <1>7
  <2>2. c.t = CombAsked(transcript, round, betas)
    BY <1>11, <2>1 DEF Learnt, CombAsked, x
  <2>3. a.t = AlphaAsked(transcript, round, betas)
    BY <1>12, <2>2 DEF Learnt, AlphaAsked, y
  <2>4. q.t = QueryAsked(transcript, round, betas)
    BY <1>13, <2>3 DEF Learnt, QueryAsked, z
  <2>5. d.t = ShakeAsked(transcript, round, betas)
    BY <1>14, <2>4 DEF Learnt, ShakeAsked, w
  <2> QED
    BY <2>1, <2>2, <2>3, <2>4, <2>5
<1>18. Keeps(q.m, d.m) /\ Keeps(a.m, d.m) /\ Keeps(c.m, d.m) /\ Keeps(o.m, d.m) /\ Keeps(memo, d.m)
  <2>1. Keeps(q.m, d.m) /\ Keeps(a.m, q.m) /\ Keeps(c.m, a.m) /\ Keeps(o.m, c.m) /\ Keeps(memo, o.m)
    BY <1>5, <1>7, <1>11, <1>12, <1>13, <1>14 DEF Learnt
  <2>2. Keeps(a.m, d.m)
    BY <2>1, KeepsOn
  <2>3. Keeps(c.m, d.m)
    BY <2>1, <2>2, KeepsOn
  <2>4. Keeps(o.m, d.m)
    BY <2>1, <2>3, KeepsOn
  <2>5. Keeps(memo, d.m)
    BY <2>1, <2>4, KeepsOn
  <2> QED
    BY <2>1, <2>2, <2>3, <2>4, <2>5
<1>19. Heard(d.m, transcript, round, betas, d.got)
  <2>1. /\ Knows(c.m, CombAsked(transcript, round, betas), v2)
        /\ Knows(a.m, AlphaAsked(transcript, round, betas), v3)
        /\ Knows(q.m, QueryAsked(transcript, round, betas), v4)
        /\ Knows(d.m, ShakeAsked(transcript, round, betas), v5)
    BY <1>11, <1>12, <1>13, <1>14, <1>17 DEF Learnt
  <2>2. /\ Knows(d.m, OodAsked(transcript, round), v)
        /\ Knows(d.m, CombAsked(transcript, round, betas), v2)
        /\ Knows(d.m, AlphaAsked(transcript, round, betas), v3)
        /\ Knows(d.m, QueryAsked(transcript, round, betas), v4)
    BY <1>5, <1>18, <2>1, KeptKnows
  <2> QED
    BY <1>16, <2>1, <2>2 DEF Heard
<1>20. ASSUME Fresh(transcript, memo) PROVE Fresh(d.t, d.m) /\ DrawnFrom(ds, d.got)
  <2>1. v2 \in Challenges /\ v3 \in Challenges /\ v5 \in W(q) /\ Fresh(d.t, d.m)
    BY <1>8, <1>11, <1>12, <1>13, <1>14, <1>20
  <2>2. PICK e : e = [got |-> d.got]
    OBVIOUS
  <2>3. e.got[1] = q.got[1] /\ e.got[4] = q.got[4]
    BY <1>16, <2>2
  <2>4. QuotientPoints(ds, e) = QuotientPoints(ds, q)
    BY <2>3, SamePoints
  <2>5. W(q) = ShakesFrom(ds, d.got)
    BY <2>2, <2>4 DEF W, ShakesFrom
  <2> QED
    BY <1>16, <2>1, <2>5 DEF DrawnFrom
<1>21. RanOut(d) <=> d.got[5] = <<>>
  BY <1>16 DEF RanOut
<1> QED
  BY <1>16, <1>17, <1>18, <1>19, <1>20, <1>21
-----------------------------------------------------------------------------
(* The shake polynomial *)

(* A quotient's value, where it can be divided at.                         *)
LEMMA QuotientValue ==
  ASSUME RingLaws, NEW f, IsPolynomial(f), NEW x \in Ring, NEW v, v = Evaluate(f, x),
         NEW z \in Ring, IsUnit(Minus(z, x))
  PROVE  /\ IsPolynomial(QuotientAt(f, x, v))
         /\ Evaluate(QuotientAt(f, x, v), z) = Times(Minus(Evaluate(f, z), v), Inv(Minus(z, x)))
         /\ Evaluate(QuotientAt(f, x, v), z) \in Ring
<1> DEFINE q == QuotientAt(f, x, v)
           y == Evaluate(q, z)
           w == Evaluate(f, z)
           u == Minus(z, x)
<1>1. IsPolynomial(q) /\ w = Plus(Times(u, y), v)
  BY QuotientFacts
<1>2. y \in Ring /\ w \in Ring /\ v \in Ring
  BY <1>1, EvaluateIsValue
<1>3. u \in Ring /\ IsUnit(u)
  BY DEF RingLaws, Closed
<1> HIDE DEF q, y, w, u
<1>4. Times(u, y) \in Ring
  BY <1>2, <1>3 DEF RingLaws, Closed
<1>5. Minus(w, v) = Times(u, y)
  BY <1>1, <1>2, <1>4, DifferenceIs
<1>6. Inv(u) \in Ring /\ Times(u, Inv(u)) = OfInteger(1)
  BY <1>3, InverseInRing, InverseAssumption
<1>7. Times(Times(u, y), Inv(u)) = Times(y, Times(u, Inv(u)))
  BY <1>2, <1>3, <1>6 DEF RingLaws, Closed, Multiplicative
<1>8. Times(y, OfInteger(1)) = y
  BY <1>2 DEF RingLaws, Multiplicative
<1> QED
  BY <1>1, <1>2, <1>5, <1>6, <1>7, <1>8 DEF q, y, w, u

LEMMA ZeroValue ==
  ASSUME RingLaws
  PROVE  /\ IsPolynomial(ZeroPolynomial) /\ ZeroPolynomial \in PolynomialRecords
         /\ \A z \in Ring : Evaluate(ZeroPolynomial, z) = 0
<1>1. ZeroPolynomial.size = 0 /\ IsPolynomial(ZeroPolynomial)
  BY DEF ZeroPolynomial, IsPolynomial
<1>2. \A p : IsPolynomial(p) /\ p.size = 0 => \A z \in Ring : Evaluate(p, z) = 0
  BY CoefficientsInRing, EvaluateIsValue, ValueSteps
<1>3. ZeroPolynomial \in PolynomialRecords
  <2>1. [i \in {} |-> 0] \in [0 .. 0 - 1 -> Ring]
    OBVIOUS
  <2>2. [i \in {} |-> 0] \in AnyTable
    BY <2>1 DEF AnyTable
  <2> QED
    BY <2>2 DEF ZeroPolynomial, PolynomialRecords
<1> QED
  BY <1>1, <1>2, <1>3

LEMMA SumRecord ==
  ASSUME RingLaws, NEW f, IsPolynomial(f), NEW g, IsPolynomial(g)
  PROVE  AddPolynomials(f, g) \in PolynomialRecords
<1>1. IsPolynomial(AddPolynomials(f, g))
  BY SumOfPolynomials
<1>2. \E size, at : AddPolynomials(f, g) = Trim(size, at)
  BY DEF AddPolynomials
<1> QED
  BY <1>1, <1>2, TrimRecord

(* What ShakePolynomial computes. *)
ShakeValues(s, ans, points, values) ==
  s = [i \in 0 .. Len(points) |->
         IF i = 0 THEN ZeroPolynomial
         ELSE AddPolynomials(s[i - 1], QuotientAt(ans, points[i], values[i]))]

(* At a point a unit away from all of its points, BuildShakePolynomial has *)
(* the sum CheckShakeConsistency computes.                                 *)
LEMMA ShakeIs ==
  ASSUME RingLaws, NEW ans, IsPolynomial(ans), NEW points \in Seq(Ring), NEW values,
         \A i \in 1 .. Len(points) : values[i] = Evaluate(ans, points[i]),
         NEW z \in Ring, \A i \in 1 .. Len(points) : IsUnit(Minus(z, points[i]))
  PROVE  Evaluate(ShakePolynomial(ans, points, values), z)
           = RingSum(ShakeTerms(Evaluate(ans, z), points, values, z), Len(points))
<1> DEFINE n == Len(points)
           V == PolynomialRecords
           first == ZeroPolynomial
           term == ShakeTerms(Evaluate(ans, z), points, values, z)
           Part(i) == QuotientAt(ans, points[i + 1], values[i + 1])
           Next1(i, p) == AddPolynomials(p, QuotientAt(ans, points[i + 1], values[i + 1]))
           step == [e \in Nat \X V |-> IF Next1(e[1], e[2]) \in V THEN Next1(e[1], e[2]) ELSE e[2]]
           good(i, p) == IsPolynomial(p) /\ Evaluate(p, z) = RingSum(term, i)
<1>1. n \in Nat
  OBVIOUS
<1>a. ASSUME NEW i \in 0 .. n - 1
      PROVE  /\ IsPolynomial(Part(i)) /\ Evaluate(Part(i), z) = term[i] /\ term[i] \in Ring
  <2>1. PICK x, v : x = points[i + 1] /\ v = values[i + 1]
    OBVIOUS
  <2>2. x \in Ring /\ v = Evaluate(ans, x) /\ IsUnit(Minus(z, x))
    BY <2>1
  <2>3. /\ IsPolynomial(QuotientAt(ans, x, v))
        /\ Evaluate(QuotientAt(ans, x, v), z) = Times(Minus(Evaluate(ans, z), v), Inv(Minus(z, x)))
        /\ Evaluate(QuotientAt(ans, x, v), z) \in Ring
    BY <2>2, QuotientValue
  <2>4. term[i] = Times(Minus(Evaluate(ans, z), v), Inv(Minus(z, x)))
    BY <2>1 DEF ShakeTerms
  <2> QED
    BY <2>1, <2>3, <2>4
<1>2. first \in V /\ good(0, first)
  <2>1. RingSum(term, 0) = 0
    <3> HIDE DEF term
    <3> QED
      BY <1>1, <1>a, SumSteps
  <2> QED
    BY <2>1, ZeroValue
<1>3. ASSUME NEW i \in 0 .. n - 1, NEW p \in V, good(i, p)
      PROVE  Next1(i, p) \in V /\ good(i + 1, Next1(i, p))
  <2>1. PICK q : q = Part(i)
    OBVIOUS
  <2>2. IsPolynomial(q) /\ Evaluate(q, z) = term[i] /\ Next1(i, p) = AddPolynomials(p, q)
    BY <1>a, <2>1
  <2> HIDE DEF Part, term, Next1
  <2>3. /\ IsPolynomial(AddPolynomials(p, q)) /\ AddPolynomials(p, q) \in V
        /\ Evaluate(AddPolynomials(p, q), z) = Plus(Evaluate(p, z), Evaluate(q, z))
    BY <1>3, <2>2, SumOfPolynomials, SumRecord
  <2>4. RingSum(term, i + 1) = Plus(RingSum(term, i), term[i])
    BY <1>1, <1>a, SumSteps
  <2> QED
    BY <1>3, <2>2, <2>3, <2>4
<1>4. step \in [Nat \X V -> V]
      /\ \A i \in Nat : \A p \in V : Next1(i, p) \in V => step[<<i, p>>] = Next1(i, p)
  <2> HIDE DEF Next1, V
  <2> QED
    OBVIOUS
<1> HIDE DEF step, V, first, n, term
<1>5. HasSequence(V, first, step)
  BY <1>2, <1>4, RecursionExists
<1>6. PICK T \in [Nat -> V] : T[0] = first /\ \A i \in Nat : T[i + 1] = step[<<i, T[i]>>]
  BY <1>5 DEF HasSequence
<1>7. \A i \in 0 .. n : good(i, T[i])
  <2> DEFINE P == {i \in 0 .. n : good(i, T[i])}
  <2>1. P \in SUBSET (0 .. n) /\ 0 \in P
    BY <1>1, <1>2, <1>6
  <2>2. ASSUME NEW i \in P, i < n PROVE i + 1 \in P
    <3>1. i \in 0 .. n - 1 /\ i \in Nat /\ i + 1 \in 0 .. n /\ T[i] \in V /\ good(i, T[i])
      BY <1>1, <1>6, <2>2
    <3> HIDE DEF good, Next1
    <3>2. Next1(i, T[i]) \in V /\ good(i + 1, Next1(i, T[i]))
      BY <1>3, <3>1
    <3>3. T[i + 1] = Next1(i, T[i])
      BY <1>4, <1>6, <3>1, <3>2
    <3> QED
      BY <3>1, <3>2, <3>3
  <2> HIDE DEF P
  <2>3. P = 0 .. n
    BY <1>1, <2>1, <2>2, InductionUpTo
  <2> QED
    BY <2>3 DEF P
<1>8. ASSUME NEW i \in 0 .. n - 1 PROVE T[i + 1] = Next1(i, T[i])
  <2>1. i \in Nat /\ i \in 0 .. n /\ T[i] \in V
    BY <1>1, <1>6
  <2> HIDE DEF good, Next1
  <2>2. Next1(i, T[i]) \in V
    BY <1>3, <1>7, <2>1
  <2> QED
    BY <1>4, <1>6, <2>1, <2>2
<1>9. ShakeValues([i \in 0 .. n |-> T[i]], ans, points, values)
  <2> DEFINE t == [i \in 0 .. n |-> T[i]]
  <2>1. ASSUME NEW i \in 0 .. n
        PROVE  t[i] = IF i = 0 THEN first
                      ELSE AddPolynomials(t[i - 1], QuotientAt(ans, points[i], values[i]))
    <3>1. CASE i = 0
      BY <1>6, <3>1
    <3>2. CASE i # 0
      <4>1. i - 1 \in 0 .. n - 1 /\ i - 1 \in 0 .. n /\ (i - 1) + 1 = i
        BY <1>1, <3>2
      <4>2. T[(i - 1) + 1]
              = AddPolynomials(T[i - 1], QuotientAt(ans, points[(i - 1) + 1], values[(i - 1) + 1]))
        BY <1>8, <4>1
      <4> QED
        BY <3>2, <4>1, <4>2
    <3> QED
      BY <3>1, <3>2
  <2>2. t = [i \in 0 .. n |-> t[i]]
    OBVIOUS
  <2> HIDE DEF t
  <2>3. t = [i \in 0 .. n |-> IF i = 0 THEN first
                              ELSE AddPolynomials(t[i - 1], QuotientAt(ans, points[i], values[i]))]
    BY <2>1, <2>2
  <2> QED
    BY <2>3 DEF ShakeValues, n, t, first
<1>10. ASSUME NEW q, ShakeValues(q, ans, points, values) PROVE q[n] = T[n]
  <2>1. \A i \in 0 .. n : q[i] = IF i = 0 THEN first
                                 ELSE AddPolynomials(q[i - 1], QuotientAt(ans, points[i], values[i]))
    BY <1>10 DEF ShakeValues, n, first
  <2>2. ASSUME NEW i \in 0 .. n - 1, q[i] = T[i] PROVE q[i + 1] = T[i + 1]
    <3>1. i + 1 \in 0 .. n /\ i + 1 # 0 /\ (i + 1) - 1 = i
      BY <1>1
    <3>2. q[i + 1] = AddPolynomials(q[(i + 1) - 1], QuotientAt(ans, points[i + 1], values[i + 1]))
      BY <2>1, <3>1
    <3> QED
      BY <1>8, <2>2, <3>1, <3>2
  <2>3. q[0] = T[0] /\ n \in 0 .. n
    BY <1>1, <1>6, <2>1
  <2>4. \A i \in 0 .. n : q[i] = T[i]
    BY <1>1, <2>2, <2>3, GoesOnAlike, ZenonT(60)
  <2> QED
    BY <2>3, <2>4
<1>11. ShakePolynomial(ans, points, values) = (CHOOSE q : ShakeValues(q, ans, points, values))[n]
  BY DEF ShakePolynomial, ShakeValues, n
<1>12. ShakePolynomial(ans, points, values) = T[n]
  BY <1>9, <1>10, <1>11
<1>13. good(n, T[n])
  BY <1>1, <1>7
<1> QED
  BY <1>12, <1>13 DEF n, term

-----------------------------------------------------------------------------
(* What honest openings answer *)

(* Between Teichmueller elements nothing is degenerate.                    *)
LEMMA NeverDegenerate ==
  ASSUME RingLaws, NEW d, IsDomain(d), InTeichmullerUnits(d), NEW comb \in TeichmullerSet
  PROVE  ~DegenerateComb(d, comb)
<1> SUFFICES ASSUME NEW x \in DomainPoints(d), Minus(1, Times(x, comb)) # 0 PROVE IsUnit(Minus(1, Times(x, comb)))
  BY DEF DegenerateComb
<1>1. x \in TeichmullerSet /\ IsUnit(x)
  BY UnitPoints DEF InTeichmullerUnits
<1>2. x \in Ring /\ comb \in Ring /\ IsTeichmuller(x) /\ IsTeichmuller(comb)
  BY <1>1 DEF TeichmullerSet
<1>3. 1 \in Ring /\ OfInteger(1) = 1 /\ IsUnit(1)
  BY OneIsUnit DEF RingLaws, Closed, Counting
<1>4. CASE comb = 0
  <2>1. Minus(1, Times(x, comb)) = 1
    BY <1>2, <1>3, <1>4, TimesZero, DifferenceZero
  <2> QED
    BY <1>3, <2>1
<1>5. CASE comb # 0
  <2>1. IsUnit(comb)
    BY <1>2, <1>5 DEF IsTeichmuller
  <2> DEFINE y == Times(x, comb)
  <2>2. y \in Ring
    BY <1>2 DEF RingLaws, Closed
  <2>3. IsTeichmuller(y)
    BY <1>1, <1>2, <2>1, TeichmullerProduct
  <2>4. IsTeichmuller(1)
    <3> DEFINE e == ResidueSize - 1
    <3>1. e \in Nat
      BY SizesAssumption
    <3> HIDE DEF e
    <3>2. Power(OfInteger(1), e) = OfInteger(1)
      BY <3>1, PowerOfOne
    <3> QED
      BY <1>3, <3>2 DEF IsTeichmuller, e
  <2>5. 1 \in TeichmullerSet /\ y \in TeichmullerSet
    BY <1>3, <2>2, <2>3, <2>4 DEF TeichmullerSet
  <2> HIDE DEF y
  <2>6. y # 1
    BY <1>3, <2>2, DifferenceZero DEF y
  <2> QED
    BY <2>5, <2>6, TeichmullerAssumption DEF y
<1> QED
  BY <1>4, <1>5

(* A round's beginning: [t, alpha, f, table, fn], the transcript and the   *)
(* folding challenge both sides start it with, the prover's polynomial, the*)
(* table it committed to, and the function the verifier queries.           *)
(* It serves when a query of the table answers the polynomial's values.    *)
Dividing(fn, x) == fn.initial \/ IsUnit(BelowAt(fn.quotient_set, x))

Serves(r, b) ==
  /\ Queryable(b.fn, DomainAt(r), BoundAt(r), b.alpha)
  /\ IsPolynomial(b.f) /\ b.table \in Tables(DomainAt(r).size)
  /\ \A i \in 0 .. DomainAt(r).size - 1 :
       /\ Dividing(b.fn, DomainAt(r).points[i])
       /\ Queried(b.fn, BoundAt(r), DomainAt(r).points[i], b.table[i])
            = Evaluate(b.f, DomainAt(r).points[i])
  /\ Params.protocol_mode = "TheoremGr" =>
       b.fn.initial \/ ~DegenerateComb(DomainAt(r), b.fn.comb_randomness)

Smooth(r, fn) == fn.initial \/ ~DegenerateComb(DomainAt(r), fn.comb_randomness)

(* The first function is the polynomial's encoding.                        *)
LEMMA ServesFirst ==
  ASSUME RingLaws, setup \in Setups, ValidStirInstance(Params, setup.domain, setup.degree),
         NEW b, b.fn = [initial |-> TRUE], b.alpha \in Ring, IsPolynomial(b.f),
         b.table = Encode(DomainAt(0), b.f)
  PROVE  Serves(0, b)
<1>1. 0 \in 0 .. Rounds
  BY StirInstance
<1>2. /\ IsDomain(DomainAt(0)) /\ IsTeichmuller(DomainAt(0).root) /\ DomainAt(0).size % 9 = 0
      /\ BoundAt(0) \in Nat
  BY <1>1, StirInstance DEF DomainHolds
<1>3. b.fn.initial = TRUE
  OBVIOUS
<1>4. Queryable(b.fn, DomainAt(0), BoundAt(0), b.alpha)
  BY <1>2, <1>3 DEF Queryable, Computable
<1>5. /\ b.table \in Tables(DomainAt(0).size)
      /\ \A i \in 0 .. DomainAt(0).size - 1 : b.table[i] = Evaluate(b.f, DomainAt(0).points[i])
  BY <1>2, EncodeIsTable
<1>6. \A i \in 0 .. DomainAt(0).size - 1 :
        Queried(b.fn, BoundAt(0), DomainAt(0).points[i], b.table[i]) = b.table[i]
  BY <1>3 DEF Queried
<1> QED
  BY <1>3, <1>4, <1>5, <1>6 DEF Serves, Dividing

(* The function after a round.                                             *)
NextFunction(c, ans, points) ==
  [initial |-> FALSE, comb_randomness |-> c, ans_polynomial |-> ans, quotient_set |-> points]

(* A table divided point by point.                                         *)
LEMMA QueriedNext ==
  ASSUME RingLaws, NEW D, NEW f, NEW ans, NEW q, NEW points, NEW B, NEW low, NEW comb, NEW next,
         Reusable(D, f, ans, q, points, B, low, comb, next), low = SaturatingSubtract(B, Len(points)),
         NEW i \in 0 .. D.size - 1, NEW fn, fn = NextFunction(comb, ans, points)
  PROVE  /\ IsUnit(BelowAt(points, D.points[i]))
         /\ Queried(fn, B, D.points[i], Encode(D, f)[i]) = Evaluate(next, D.points[i])
<1> DEFINE x == D.points[i]
           u == BelowAt(points, x)
           y == Evaluate(q, x)
           g == Geometric(Times(x, comb), B - low)
           w == Minus(Evaluate(f, x), Evaluate(ans, x))
<1>1. IsDomain(D) /\ IsPolynomial(f) /\ IsPolynomial(q) /\ points \in Seq(Ring)
  BY DEF Reusable
<1>2. x \in Ring /\ x \in DomainPoints(D)
  BY <1>1, PointsOfDomain DEF DomainPoints
<1>3. Encode(D, f)[i] = Evaluate(f, x)
  BY <1>1, EncodeIsTable
<1>4. fn.initial = FALSE /\ fn.comb_randomness = comb /\ fn.ans_polynomial = ans /\ fn.quotient_set = points
  BY DEF NextFunction
<1>5. Queried(fn, B, x, Encode(D, f)[i]) = Times(Times(w, Inv(u)), g)
  BY <1>3, <1>4 DEF Queried
<1>6. IsUnit(u) /\ w = Times(u, y) /\ Evaluate(next, x) = Times(y, g)
  BY <1>2 DEF Reusable
<1>7. u \in Ring /\ y \in Ring
  BY <1>1, <1>2, BelowInRing, EvaluateIsValue
<1> HIDE DEF u, y, g, w
<1>8. Inv(u) \in Ring /\ Times(u, Inv(u)) = OfInteger(1)
  BY <1>6, <1>7, InverseAssumption
<1>9. Times(Times(u, y), Inv(u)) = Times(y, Times(u, Inv(u)))
  BY <1>7, <1>8 DEF RingLaws, Closed, Multiplicative
<1>10. Times(y, OfInteger(1)) = y
  BY <1>7 DEF RingLaws, Multiplicative
<1> QED
  BY <1>5, <1>6, <1>8, <1>9, <1>10 DEF u, x

LEMMA ServesNext ==
  ASSUME RingLaws, setup \in Setups, ValidStirInstance(Params, setup.domain, setup.degree),
         round \in 0 .. Rounds - 1, NEW d, NEW a, NEW points, NEW values, NEW B, NEW low,
         AnswerHolds(d, a, points, values, B, low), d.got[2] \in Challenges,
         NEW b, b.fn = NextFunction(d.got[2], a.answer, points), b.alpha \in Ring,
         b.f = a.next, b.table = a.shifted
  PROVE  Serves(round + 1, b)
<1> DEFINE D == DomainAt(round + 1)
           f == witness.folded
           q == a.quotient
           comb == a.comb
           fn == b.fn
<1>1. /\ Reusable(D, f, a.answer, q, points, B, low, comb, a.next)
      /\ B = BoundAt(round + 1) /\ low = SaturatingSubtract(B, Len(points)) /\ comb = d.got[2]
      /\ b.table = Encode(D, f) /\ IsPolynomial(b.f)
  BY DEF AnswerHolds
<1>2. /\ fn.initial = FALSE /\ fn.comb_randomness = comb /\ fn.ans_polynomial = a.answer
      /\ fn.quotient_set = points /\ fn = NextFunction(comb, a.answer, points)
  BY <1>1 DEF NextFunction
<1>3. RoundSettled(round, RoundAt(round)) /\ round + 1 \in 0 .. Rounds
  BY RoundIsSettled, StirInstance DEF RoundAt
<1>4. IsDomain(D) /\ IsTeichmuller(D.root) /\ D.size % 9 = 0 /\ B \in Nat
  BY <1>1, <1>3, StirInstance DEF DomainHolds
<1> HIDE DEF D, fn, comb, q
<1>5. Queryable(fn, D, B, b.alpha)
  BY <1>1, <1>2, <1>4 DEF Reusable, Queryable, Computable
<1>6. b.table \in Tables(D.size)
  <2>1. IsPolynomial(f)
    BY <1>1 DEF Reusable
  <2> QED
    BY <1>1, <1>4, <2>1, EncodeIsTable
<1>7. ASSUME NEW i \in 0 .. D.size - 1
      PROVE  /\ Dividing(fn, D.points[i])
             /\ Queried(fn, B, D.points[i], b.table[i]) = Evaluate(b.f, D.points[i])
  <2>1. PICK g, ans, next : g = f /\ ans = a.answer /\ next = a.next
    OBVIOUS
  <2>2. Reusable(D, g, ans, q, points, B, low, comb, next) /\ fn = NextFunction(comb, ans, points)
    BY <1>1, <1>2, <2>1
  <2>3. /\ IsUnit(BelowAt(points, D.points[i]))
        /\ Queried(fn, B, D.points[i], Encode(D, g)[i]) = Evaluate(next, D.points[i])
    BY <1>1, <2>2, QueriedNext
  <2> QED
    BY <1>1, <1>2, <2>1, <2>3 DEF Dividing
<1>8. ASSUME Params.protocol_mode = "TheoremGr" PROVE ~DegenerateComb(D, comb)
  <2>0. d.got[2] \in Challenges
    BY <1>1
  <2>1. comb \in TeichmullerSet
    BY <1>1, <1>8, <2>0, SMTT(30) DEF Challenges
  <2>2. PoolHasCapacity(RoundAt(round), Params.ood_samples + 1) /\ RoundAt(round).shift = D
    BY <1>3, <1>8 DEF RoundSettled, ValidRound, RoundAt, StirDomain, D, DomainAt
  <2>3. InTeichmullerUnits(D)
    BY <2>2 DEF PoolHasCapacity
  <2> QED
    BY <1>4, <2>1, <2>3, NeverDegenerate
<1> QED
  BY <1>1, <1>2, <1>5, <1>6, <1>7, <1>8 DEF Serves, D, fn

(* Where nothing is degenerate a query gives the polynomial's value.       *)
LEMMA ServesAnswer ==
  ASSUME RingLaws, NEW r, NEW b, Serves(r, b), Smooth(r, b.fn), NEW i \in 0 .. DomainAt(r).size - 1
  PROVE  LET e == QueryCurrentFunction(b.fn, BoundAt(r), DomainAt(r).points[i], b.table[i])
         IN  e.ok /\ e.value = Evaluate(b.f, DomainAt(r).points[i])
<1> DEFINE fn == b.fn
           D == DomainAt(r)
           B == BoundAt(r)
           x == D.points[i]
           v == b.table[i]
           e == QueryCurrentFunction(fn, B, x, v)
<1>1. Computable(fn) /\ IsDomain(D) /\ B \in Nat /\ b.table \in Tables(D.size)
  BY DEF Serves, Queryable
<1>2. x \in Ring /\ x \in DomainPoints(D) /\ v \in Ring
  BY <1>1, PointsOfDomain DEF DomainPoints, Tables
<1>3. Dividing(fn, x) /\ Queried(fn, B, x, v) = Evaluate(b.f, x)
  BY DEF Serves
<1>4. e.ok
  <2>1. CASE fn.initial
    BY <2>1 DEF QueryCurrentFunction
  <2>2. CASE ~fn.initial
    <3> DEFINE set == fn.quotient_set
               w == Times(Minus(v, Evaluate(fn.ans_polynomial, x)), Inv(BelowAt(set, x)))
               low == SaturatingSubtract(B, Len(set))
               c == DegreeCorrectionEval(x, w, B, low, fn.comb_randomness)
    <3>1. IsUnit(BelowAt(set, x))
      BY <1>3, <2>2 DEF Dividing
    <3>2. e = IF IsUnit(BelowAt(set, x)) THEN c ELSE [ok |-> FALSE, value |-> 0]
      BY <2>2 DEF QueryCurrentFunction, BelowAt, Below
    <3>3. LET below == Minus(1, Times(x, fn.comb_randomness)) IN below = 0 \/ IsUnit(below)
      BY <1>2, <2>2 DEF Smooth, DegenerateComb
    <3>4. c.ok
      <4> HIDE DEF w, low, x, fn
      <4>1. PICK below : below = Minus(1, Times(x, fn.comb_randomness))
        OBVIOUS
      <4>2. CASE below = 0
        <5>1. c.ok = TRUE
          BY <4>1, <4>2 DEF DegreeCorrectionEval
        <5> QED
          BY <5>1
      <4>3. CASE below # 0
        <5>1. c.ok = IsUnit(below)
          BY <4>1, <4>3 DEF DegreeCorrectionEval
        <5> QED
          BY <3>3, <4>1, <4>3, <5>1
      <4> QED
        BY <4>2, <4>3
    <3> HIDE DEF c
    <3> QED
      BY <3>1, <3>2, <3>4
  <2> QED
    BY <2>1, <2>2
<1> HIDE DEF fn, D, B, x, v
<1>5. e.value = Queried(fn, B, x, v)
  BY <1>1, <1>2, <1>4, QueriedIs
<1> QED
  BY <1>3, <1>4, <1>5 DEF fn, D, B, x, v

(* Rows of a table. *)
Row(table, c, m) == [o \in 0 .. 8 |-> table[c + o * m]]

LEMMA BundlesAre ==
  ASSUME NEW n \in Nat \ {0}, n % 9 = 0, NEW m, m = n \div 9, NEW table, DOMAIN table = 0 .. n - 1
  PROVE  /\ m \in Nat \ {0} /\ DOMAIN Bundles(table, 9) = 0 .. m - 1
         /\ \A c \in 0 .. m - 1 : Bundles(table, 9)[c] = Row(table, c, m)
<1> DEFINE k == 9
<1>1. k - 1 = 8 /\ m \in Nat \ {0}
  OBVIOUS
<1>2. TableSize(table) = n
  BY TableSizeOf
<1>3. Bundles(table, k) = [c \in 0 .. (n \div k) - 1 |-> [o \in 0 .. k - 1 |-> table[c + o * (n \div k)]]]
  <2> HIDE DEF k
  <2> QED
    BY <1>2, Zenon DEF Bundles, Tabulated
<1>4. Bundles(table, 9) = [c \in 0 .. m - 1 |-> Row(table, c, m)]
  BY <1>1, <1>3, Zenon DEF k, Row
<1> QED
  BY <1>1, <1>4

(* Positions as they are drawn: below m, in order. *)
Drawn(positions, m) ==
  /\ positions \in Seq(Nat) /\ IsFiniteSet(Positions(positions))
  /\ Positions(positions) \in SUBSET (0 .. m - 1) /\ positions = Ascending(Positions(positions))
  /\ \A i \in DOMAIN positions : positions[i] \in 0 .. m - 1

LEMMA DrawnPositions ==
  ASSUME NEW count \in Nat, NEW m \in Nat, NEW x \in PositionDraws(count, m)
  PROVE  Drawn(x, m) /\ DOMAIN x = 1 .. Len(x)
BY PositionsAre DEF Drawn

(* An opening is accepted under its own root, and has the rows asked for.  *)
LEMMA OpensItself ==
  ASSUME NEW n \in Nat \ {0}, n % 9 = 0, NEW m, m = n \div 9, NEW table, DOMAIN table = 0 .. n - 1,
         NEW positions, Drawn(positions, m),
         NEW opened, opened = OpenTree(Bundles(table, 9), Positions(positions))
  PROVE  /\ TreeAccepts(Root(Bundles(table, 9)), m, opened) /\ BundlesFit(positions, opened, 9)
         /\ \A i \in DOMAIN positions :
              opened.leaf_payloads[i] = Row(table, positions[i], m)
<1> DEFINE rows == Bundles(table, 9)
           I == Positions(positions)
           s == Ascending(I)
<1>1. /\ m \in Nat \ {0} /\ DOMAIN rows = 0 .. m - 1
      /\ \A c \in 0 .. m - 1 : rows[c] = Row(table, c, m)
  BY BundlesAre
<1>2. I \in SUBSET (0 .. m - 1) /\ IsFiniteSet(I) /\ positions = s /\ positions \in Seq(Nat)
      /\ \A i \in DOMAIN positions : positions[i] \in 0 .. m - 1
  BY DEF Drawn
<1> HIDE DEF rows, I
<1>3. opened = OpenTree(rows, I)
  BY DEF rows, I
<1>4. opened.queried_indices = s /\ TreeAccepts(Root(rows), m, opened)
  <2>1. m \in Nat /\ DOMAIN rows = 0 .. m - 1 /\ I \in SUBSET (0 .. m - 1) /\ IsFiniteSet(I)
    BY <1>1, <1>2
  <2>2. OpenTree(rows, I).queried_indices = Ascending(I) /\ TreeAccepts(Root(rows), m, OpenTree(rows, I))
    BY <2>1, OwnOpening
  <2> QED
    BY <1>3, <2>2
<1>5. opened.leaf_payloads = [j \in 1 .. Len(s) |-> rows[s[j]]]
  BY <1>3 DEF OpenTree
<1> HIDE DEF s
<1>6. DOMAIN positions = 1 .. Len(positions) /\ Len(positions) \in Nat
  BY <1>2
<1>7. Len(opened.leaf_payloads) = Len(positions)
  BY <1>2, <1>5, <1>6
<1>8. ASSUME NEW i \in DOMAIN positions
      PROVE  opened.leaf_payloads[i] = Row(table, positions[i], m)
  BY <1>1, <1>2, <1>5, <1>6
<1>9. BundlesFit(positions, opened, 9)
  <2>1. \A i \in DOMAIN positions : DOMAIN opened.leaf_payloads[i] = 0 .. 8
    BY <1>8 DEF Row
  <2>2. 9 - 1 = 8
    OBVIOUS
  <2> QED
    BY <1>2, <1>4, <1>7, <2>1, <2>2 DEF BundlesFit
<1> QED
  BY <1>4, <1>8, <1>9 DEF rows

(* The rows of a table opened at positions. *)
Rows(table, m, positions, opened) ==
  \A i \in DOMAIN positions :
    opened.leaf_payloads[i] = Row(table, positions[i], m)

LEMMA AnswerIsOk ==
  ASSUME NEW k, NEW e, NEW y, NEW r, r = [ok |-> \A o \in 0 .. k - 1 : e[o].ok, value |-> y],
         \A o \in 0 .. k - 1 : e[o].ok
  PROVE  r.ok /\ r.value = y
<1>1. r.ok = (\A o \in 0 .. k - 1 : e[o].ok) /\ r.value = y
  BY Zenon
<1> QED
  BY <1>1

(* The table a round that begins with b folds to, and answers from it.     *)
FoldedTable(r, b) == FoldTableK(DomainAt(r), Encode(DomainAt(r), b.f), 9, b.alpha)
FoldsTo(r, b, positions, answers) ==
  /\ AllOk(answers) /\ DOMAIN answers = DOMAIN positions
  /\ \A i \in DOMAIN positions : answers[i].value = FoldedTable(r, b)[positions[i]]

(* What ComputeFoldedAnswers makes of honest rows is the folded table.     *)
LEMMA ServesFolds ==
  ASSUME RingLaws, NEW r, NEW b, Serves(r, b), Smooth(r, b.fn),
         NEW m, m = DomainAt(r).size \div 9, NEW positions, Drawn(positions, m),
         NEW opened, Rows(b.table, m, positions, opened), NEW answers,
         answers = FoldedAnswers(DomainAt(r), BoundAt(r), b.fn, b.alpha, 9, positions, opened)
  PROVE  FoldsTo(r, b, positions, answers)
<1> DEFINE D == DomainAt(r)
           B == BoundAt(r)
           fn == b.fn
           f == b.f
           a == b.alpha
           T == Encode(D, f)
<1>1. /\ IsDomain(D) /\ D.size % 9 = 0 /\ D.size \in Nat \ {0} /\ IsPolynomial(f) /\ m \in Nat
  BY DEF Serves, Queryable, IsDomain
<1>2. DOMAIN answers = DOMAIN positions
  BY ZenonT(30) DEF FoldedAnswers
<1>3. ASSUME NEW i \in DOMAIN positions
      PROVE  answers[i].ok /\ answers[i].value = FoldTableK(D, T, 9, a)[positions[i]]
  <2> DEFINE c == positions[i]
             k == 9
             g == FiberAnswers(D, B, fn, k, c, opened.leaf_payloads[i])
             points == FiberPoints(D, c, D.size \div k, k)
             u == [o \in 0 .. k - 1 |-> g[o].value]
             v == FoldEvalK(points, u, k, a)
             w == [o \in 0 .. k - 1 |-> T[c + o * (D.size \div k)]]
  <2>0. k - 1 = 8 /\ k = 9 /\ D.size \div k = m
    OBVIOUS
  <2>1. c \in 0 .. m - 1 /\ opened.leaf_payloads[i] = [o \in 0 .. 8 |-> b.table[c + o * m]]
    BY <1>3 DEF Drawn, Rows, Row
  <2>2. ASSUME NEW o \in 0 .. 8 PROVE g[o].ok /\ g[o].value = T[c + o * m]
    <3> DEFINE j == c + o * m
    <3>1. j \in 0 .. D.size - 1
      <4> HIDE DEF D, c
      <4> QED
        BY <1>1, <2>1, FiberIndex DEF D
    <3>2. g[o] = QueryCurrentFunction(fn, B, D.points[j], b.table[j])
      BY <2>0, <2>1 DEF FiberAnswers
    <3> HIDE DEF j, g
    <3>3. g[o].ok /\ g[o].value = Evaluate(f, D.points[j])
      BY <3>1, <3>2, ServesAnswer
    <3>4. T[j] = Evaluate(f, D.points[j])
      BY <1>1, <3>1, EncodeIsTable
    <3> QED
      BY <3>3, <3>4 DEF j
  <2> HIDE DEF k
  <2>3. answers = FoldedAnswers(D, B, fn, a, k, positions, opened)
    BY <2>0
  <2>4. answers[i] = [ok |-> \A o \in 0 .. k - 1 : g[o].ok, value |-> v]
    BY <1>3, <2>3, FoldedAnswerIs
  <2> HIDE DEF v, c, g
  <2>5. \A o \in 0 .. k - 1 : g[o].ok
    BY <2>0, <2>2
  <2>6. answers[i].ok /\ answers[i].value = v
    BY <2>4, <2>5, AnswerIsOk
  <2>7. u = w
    <3>1. \A o \in 0 .. k - 1 : u[o] = w[o]
      BY <2>0, <2>2
    <3> QED
      BY <3>1
  <2>8. FoldTableK(D, T, k, a)[c] = FoldEvalK(points, w, k, a)
    <3>1. c \in 0 .. (D.size \div k) - 1
      BY <2>0, <2>1
    <3> HIDE DEF D, T
    <3> QED
      BY <3>1 DEF FoldTableK
  <2>9. FoldTableK(D, T, 9, a)[positions[i]] = FoldTableK(D, T, k, a)[c]
    BY <2>0 DEF c
  <2> QED
    BY <2>6, <2>7, <2>8, <2>9 DEF v
<1> QED
  BY <1>2, <1>3 DEF AllOk, FoldsTo, FoldedTable
-----------------------------------------------------------------------------
(* The prover's rounds, as the verifier will repeat them *)

PointsOf(r, got) == QuotientPoints(RoundAt(r), [got |-> got])
ClaimedBy(r, b, got, sent) ==
  sent.betas \o [i \in DOMAIN got[4] |-> FoldedTable(r, b)[got[4][i]]]

(* What a round's message shows of its beginning and its draws.            *)
Shown(r, b, got, sent) ==
  /\ got[1] # <<>> /\ got[5] # <<>> /\ Len(sent.betas) = Len(got[1])
  /\ got[4] \in PositionDraws(CountAt(r), RoundAt(r).folded.size)
  /\ sent.queries_to_prev = OpenTree(Bundles(b.table, 9), Positions(got[4]))
  /\ ShakeConsistent(sent.ans_polynomial, sent.shake_polynomial, PointsOf(r, got),
                     ClaimedBy(r, b, got, sent), got[5][1])

(* The next round's beginning. *)
Goes(r, b, got, sent, c) ==
  /\ c.t = ShakeAsked(Append(b.t, <<"root", sent.g_root>>), r, sent.betas)
  /\ c.alpha = got[3]
  /\ sent.g_root = Root(Bundles(c.table, 9))
  /\ c.fn = NextFunction(got[2], sent.ans_polynomial, PointsOf(r, got))

RoundPast(r, b, c, got, sent, m) ==
  /\ Shown(r, b, got, sent) /\ Goes(r, b, got, sent, c)
  /\ Heard(m, Append(b.t, <<"root", sent.g_root>>), r, sent.betas, got)

FirstAsked(root) == Append(Append(<<>>, <<"root", root>>), <<"alpha", 0>>)
StartsWith(b, m, p) ==
  /\ b.t = FirstAsked(p.initial_root) /\ Knows(m, b.t, b.alpha)
  /\ p.initial_root = Root(Bundles(b.table, 9))
  /\ b.fn = [initial |-> TRUE]

(* The first n rounds of proof p, with their beginnings e and their draws  *)
(* g; m remembers what was asked in them.                                  *)
Past(n, e, g, m, p) ==
  /\ StartsWith(e[0], m, p)
  /\ \A r \in 0 .. n : Serves(r, e[r])
  /\ \A r \in 0 .. n - 1 : RoundPast(r, e[r], e[r + 1], g[r], p.rounds[r + 1], m)

(* Remembering more, and sending more, leaves them as they are.            *)
LEMMA HeardLater ==
  ASSUME NEW m, NEW n, Keeps(m, n), NEW t, NEW r, NEW betas, NEW got, Heard(m, t, r, betas, got)
  PROVE  Heard(n, t, r, betas, got)
BY HeardOnce

LEMMA PastStays ==
  ASSUME NEW n \in Nat, NEW e, NEW g, NEW m, NEW p, Past(n, e, g, m, p), NEW l, Keeps(m, l),
         NEW q, q.initial_root = p.initial_root, \A r \in 1 .. n : q.rounds[r] = p.rounds[r]
  PROVE  Past(n, e, g, l, q)
<1>1. StartsWith(e[0], l, q)
  <2>1. StartsWith(e[0], m, p)
    BY DEF Past
  <2>2. Knows(l, e[0].t, e[0].alpha)
    BY <2>1, KeptKnows DEF StartsWith
  <2> QED
    BY <2>1, <2>2 DEF StartsWith
<1>2. \A r \in 0 .. n : Serves(r, e[r])
  BY DEF Past
<1>3. ASSUME NEW r \in 0 .. n - 1 PROVE RoundPast(r, e[r], e[r + 1], g[r], q.rounds[r + 1], l)
  <2>1. PICK b, c, got, sent : b = e[r] /\ c = e[r + 1] /\ got = g[r] /\ sent = p.rounds[r + 1]
    OBVIOUS
  <2>2. RoundPast(r, b, c, got, sent, m) /\ q.rounds[r + 1] = sent
    <3>1. r + 1 \in 1 .. n
      OBVIOUS
    <3> QED
      BY <2>1, <3>1 DEF Past
  <2>3. RoundPast(r, b, c, got, sent, l)
    <3>1. Heard(m, Append(b.t, <<"root", sent.g_root>>), r, sent.betas, got)
      BY <2>2 DEF RoundPast
    <3>2. Heard(l, Append(b.t, <<"root", sent.g_root>>), r, sent.betas, got)
      BY <3>1, HeardLater
    <3> QED
      BY <2>2, <3>2 DEF RoundPast
  <2> QED
    BY <2>1, <2>2, <2>3
<1> QED
  BY <1>1, <1>2, <1>3 DEF Past

(* A round more. *)
LEMMA PastGoesOn ==
  ASSUME NEW n \in Nat, NEW e, NEW g, NEW m, NEW p, Past(n, e, g, m, p),
         NEW c, Serves(n + 1, c), NEW got, RoundPast(n, e[n], c, got, p.rounds[n + 1], m)
  PROVE  \E d, h : Past(n + 1, d, h, m, p) /\ d[n + 1] = c
<1> DEFINE d == [r \in 0 .. n + 1 |-> IF r = n + 1 THEN c ELSE e[r]]
           h == [r \in 0 .. n |-> IF r = n THEN got ELSE g[r]]
<1>1. d[n + 1] = c /\ (\A r \in 0 .. n : d[r] = e[r]) /\ h[n] = got /\ \A r \in 0 .. n - 1 : h[r] = g[r]
  OBVIOUS
<1> HIDE DEF d, h
<1>2. StartsWith(d[0], m, p)
  BY <1>1 DEF Past
<1>3. ASSUME NEW r \in 0 .. n + 1 PROVE Serves(r, d[r])
  <2>1. CASE r = n + 1
    BY <1>1, <2>1
  <2>2. CASE r \in 0 .. n
    BY <1>1, <2>2 DEF Past
  <2> QED
    BY <2>1, <2>2
<1>4. ASSUME NEW r \in 0 .. n PROVE RoundPast(r, d[r], d[r + 1], h[r], p.rounds[r + 1], m)
  <2>1. CASE r = n
    BY <1>1, <2>1
  <2>2. CASE r \in 0 .. n - 1
    <3>1. r \in 0 .. n /\ r + 1 \in 0 .. n
      BY <2>2
    <3> QED
      BY <1>1, <2>2, <3>1 DEF Past
  <2> QED
    BY <2>1, <2>2
<1>5. (n + 1) - 1 = n
  OBVIOUS
<1>6. Past(n + 1, d, h, m, p)
  BY <1>2, <1>3, <1>4, <1>5 DEF Past
<1> QED
  BY <1>1, <1>6

(* The end of a proof, from the last beginning.                            *)
ClosedBy(b, m, p) ==
  /\ Len(p.rounds) = Rounds /\ p.prover_rounds = Rounds
  /\ Degree(p.final_polynomial) <= FoldedDegreeBound(BoundAt(Rounds), K)
  /\ \E last : /\ Knows(m, Append(b.t, <<"final", Rounds>>), last)
               /\ last \in PositionDraws(FinalCount, FinalDomain.size)
               /\ p.queries_to_final = OpenTree(Bundles(b.table, 9), Positions(last))
               /\ \A i \in DOMAIN last :
                    Evaluate(p.final_polynomial, FinalDomain.points[last[i]])
                      = FoldedTable(Rounds, b)[last[i]]

LEMMA ClosedStays ==
  ASSUME NEW b, NEW m, NEW p, ClosedBy(b, m, p), NEW l, Keeps(m, l)
  PROVE  ClosedBy(b, l, p)
BY KeptKnows DEF ClosedBy

(* These depend on the setup alone. *)
LEMMA RoundsStay ==
  ASSUME SameSetup
  PROVE  /\ \A n, e, g, m, p : Past(n, e, g, m, p)' = Past(n, e, g, m, p)
         /\ \A b, m, p : ClosedBy(b, m, p)' = ClosedBy(b, m, p)
         /\ \A r, b : FoldedTable(r, b)' = FoldedTable(r, b)
         /\ \A r, fn : Smooth(r, fn)' = Smooth(r, fn)
<1>1. /\ Params' = Params /\ Rounds' = Rounds /\ FinalDomain' = FinalDomain /\ K' = K
      /\ FinalCount' = FinalCount
      /\ \A r : /\ RoundAt(r)' = RoundAt(r) /\ CountAt(r)' = CountAt(r)
                /\ DomainAt(r)' = DomainAt(r) /\ BoundAt(r)' = BoundAt(r)
  BY SetupStays DEF RoundAt, CountAt, FinalCount, SameSetup
<1>2. \A r, b : Serves(r, b)' = Serves(r, b)
  BY <1>1 DEF Serves
<1>3. \A r, b : FoldedTable(r, b)' = FoldedTable(r, b)
  BY <1>1 DEF FoldedTable
<1>4. \A r, got : PointsOf(r, got)' = PointsOf(r, got)
  BY <1>1 DEF PointsOf
<1>5. \A r, b, got, sent : Shown(r, b, got, sent)' = Shown(r, b, got, sent)
  BY <1>1, <1>3, <1>4 DEF Shown, ClaimedBy
<1>6. \A r, b, got, sent, c : Goes(r, b, got, sent, c)' = Goes(r, b, got, sent, c)
  BY <1>4 DEF Goes
<1>7. \A r, b, c, got, sent, m : RoundPast(r, b, c, got, sent, m)' = RoundPast(r, b, c, got, sent, m)
  BY <1>5, <1>6 DEF RoundPast
<1>8. \A n, e, g, m, p : Past(n, e, g, m, p)' = Past(n, e, g, m, p)
  BY <1>2, <1>7 DEF Past
<1>9. \A b, m, p : ClosedBy(b, m, p)' = ClosedBy(b, m, p)
  BY <1>1, <1>3 DEF ClosedBy
<1>10. \A r, fn : Smooth(r, fn)' = Smooth(r, fn)
  BY <1>1 DEF Smooth
<1> QED
  BY <1>3, <1>8, <1>9, <1>10

-----------------------------------------------------------------------------
(* An intact proof on its way to acceptance *)

(* Where the prover is, in a round that begins with b. *)
ProvingFrom(b) ==
  /\ alpha = b.alpha /\ current = [polynomial |-> b.f, committed |-> b.table]
  /\ Fresh(transcript, memo)
  /\ pc \in {"fold", "finish"} => transcript = b.t
  /\ pc = "answer" =>
       /\ transcript = Append(b.t, <<"root", Root(Bundles(witness.shifted, 9))>>)
       /\ witness.answers = FoldedTable(round, b)

(* Where the verifier is. *)
CheckingFrom(b) ==
  /\ alpha = b.alpha /\ function = b.fn
  /\ pc \in {"check", "final"} => transcript = b.t
  /\ pc = "draw" => transcript = Append(b.t, <<"root", proof.rounds[round + 1].g_root>>)

Excused == Params.protocol_mode # "TheoremGr" /\ ~Smooth(round, function)

Undamaged ==
  /\ pc \in {"prove", "fold", "answer", "finish", "deliver"} => damage = "none"
  /\ pc # "done" => verdict # "reject"
  /\ pc = "prove" => transcript = <<>> /\ memo = <<>>
  /\ pc = "verify" => transcript = <<>>
  /\ damage = "none" /\ verdict = "reject" => Excused
  /\ pc \in {"fold", "answer", "finish"} =>
       \E e, g : Past(round, e, g, memo, proof) /\ ProvingFrom(e[round])
  /\ damage = "none" /\ pc \in {"deliver", "verify", "check", "draw", "final"} =>
       \E e, g : /\ Past(Rounds, e, g, memo, proof) /\ ClosedBy(e[Rounds], memo, proof)
                 /\ pc \in {"check", "draw", "final"} => CheckingFrom(e[round])

LEMMA UndamagedInit == Init => Undamaged
BY DEF Init, Undamaged

(* Nothing is claimed of who stopped, but of a rejection. *)
LEMMA StopsUndamaged ==
  ASSUME pc' = "done", damage' = "none" /\ verdict' = "reject" => Excused'
  PROVE  Undamaged'
BY DEF Undamaged

LEMMA ExcusedStays ==
  ASSUME SameSetup, round' = round, function' = function, Excused
  PROVE  Excused'
<1>1. PICK r, fn : r = round /\ fn = function
  OBVIOUS
<1>2. Smooth(r, fn)' = Smooth(r, fn) /\ Params' = Params
  BY RoundsStay, SetupStays
<1> QED
  BY <1>1, <1>2 DEF Excused

LEMMA StopUndamaged ==
  ASSUME Undamaged, NEW v, Stop(v), v = "reject" /\ damage = "none" => Excused
  PROVE  Undamaged'
<1>1. pc' = "done" /\ verdict' = v /\ damage' = damage /\ round' = round /\ function' = function /\ SameSetup
  BY DEF Stop, SameSetup
<1>2. Excused => Excused'
  BY <1>1, ExcusedStays
<1> QED
  BY <1>1, <1>2, StopsUndamaged

LEMMA ProvesUndamaged ==
  ASSUME SameSetup, pc' \in {"fold", "answer", "finish"}, damage' = "none", verdict' # "reject",
         NEW n, round' = n, NEW e, NEW g, NEW m, memo' = m, NEW p, proof' = p,
         Past(n, e, g, m, p), ProvingFrom(e[n])'
  PROVE  Undamaged'
<1>1. Past(n, e, g, m, p)'
  BY RoundsStay
<1>2. (\E d, h : Past(round, d, h, memo, proof) /\ ProvingFrom(d[round]))'
  BY <1>1
<1> QED
  BY <1>2 DEF Undamaged

LEMMA ClosedUndamaged ==
  ASSUME SameSetup, pc' \in {"deliver", "verify", "check", "draw", "final"}, verdict' # "reject",
         pc' = "deliver" => damage' = "none", pc' = "verify" => transcript' = <<>>,
         NEW n, Rounds = n, NEW e, NEW g, NEW m, memo' = m, NEW p, proof' = p,
         Past(n, e, g, m, p), ClosedBy(e[n], m, p),
         pc' \in {"check", "draw", "final"} => CheckingFrom(e[round])'
  PROVE  Undamaged'
<1>1. Past(n, e, g, m, p)' /\ Rounds' = n
  BY RoundsStay, SetupStays
<1>2. ClosedBy(e[n], m, p)'
  <2>1. PICK b : b = e[n]
    OBVIOUS
  <2>2. ClosedBy(b, m, p)' = ClosedBy(b, m, p)
    BY RoundsStay
  <2> QED
    BY <2>1, <2>2
<1>3. (\E d, h : /\ Past(Rounds, d, h, memo, proof) /\ ClosedBy(d[Rounds], memo, proof)
                 /\ pc \in {"check", "draw", "final"} => CheckingFrom(d[round]))'
  BY <1>1, <1>2
<1> QED
  BY <1>3 DEF Undamaged

(* The first root is absorbed. *)
LEMMA UndamagedStart ==
  ASSUME RingLaws, StirSetting, ProofState, Undamaged, ProveStart
  PROVE  Undamaged'
<1>1. CASE ~MayProve
  <2>1. Stop("refused")
    BY <1>1 DEF ProveStart
  <2> QED
    BY <2>1, StopUndamaged
<1>2. CASE MayProve
  <2>1. PICK table, root : table = Tabulated(Encode(setup.domain, polynomial)) /\ root = Root(Bundles(table, K))
    OBVIOUS
  <2>2. PICK d \in Ask(Absorb(Started, <<"root", root>>), <<"alpha", 0>>, Challenges) :
          transcript' = d.t /\ memo' = d.m /\ alpha' = d.got[1]
    BY <1>2, <2>1 DEF ProveStart
  <2>3. /\ SameSetup /\ round' = 0 /\ verdict' = verdict /\ pc = "prove" /\ damage' = damage
        /\ current' = [polynomial |-> polynomial, committed |-> table]
        /\ proof' = [proof EXCEPT !.initial_root = root]
        /\ pc' \in {"fold", "finish"}
    BY <1>2, <2>1 DEF ProveStart, SameSetup, StirSetting
  <2>4. transcript = <<>> /\ memo = <<>> /\ damage = "none" /\ verdict # "reject"
    BY <2>3 DEF Undamaged
  <2>5. /\ setup \in Setups /\ ValidStirInstance(Params, setup.domain, setup.degree) /\ polynomial \in Polynomials
    BY <1>2 DEF MayProve, StirSetting
  <2>6. K = 9 /\ Params.shift_power = 3 /\ IsDomain(setup.domain)
    BY <2>5, StirInstance, SetupsAssumption
  <2>7. DomainAt(0) = setup.domain
    BY <2>6, DomainSteps DEF DomainAt
  <2>8. IsPolynomial(polynomial)
    BY <2>5, InputsAssumption DEF IsPolynomial
  <2> DEFINE s == Absorb(Started, <<"root", root>>)
             x == <<"alpha", 0>>
  <2>9. s.t = Append(<<>>, <<"root", root>>) /\ s.m = <<>> /\ s.got = <<>>
    BY <2>4 DEF Absorb, Started
  <2>10. Fresh(s.t, s.m)
    <3>1. \A q, y : IsSequence(q) => IsSequence(Append(q, y))
      BY AppendAnything DEF IsSequence
    <3>2. IsSequence(<<>>)
      BY EmptySequence
    <3>3. IsSequence(s.t)
      BY <2>9, <3>1, <3>2
    <3>4. DOMAIN s.m = {}
      BY <2>9
    <3> QED
      BY <3>3, <3>4 DEF Fresh
  <2>11. Append(s.t, x) = FirstAsked(root)
    BY <2>9 DEF FirstAsked
  <2> HIDE DEF s, x
  <2>12. d \in Ask(s, x, Challenges)
    BY <2>2 DEF s, x
  <2>13. PICK v : Learnt(s, x, d, v) /\ v \in Challenges /\ Fresh(d.t, d.m)
    BY <2>10, <2>12, AskLearns
  <2>14. d.t = FirstAsked(root) /\ Knows(d.m, d.t, v) /\ d.got[1] = v
    BY <2>9, <2>11, <2>13 DEF Learnt
  <2>15. v \in Ring
    BY <2>13 DEF Challenges, TeichmullerSet
  <2>16. PICK b : b = [t |-> d.t, alpha |-> v, f |-> polynomial, table |-> table, fn |-> [initial |-> TRUE]]
    OBVIOUS
  <2>17. b.t = d.t /\ b.alpha = v /\ b.f = polynomial /\ b.table = table /\ b.fn = [initial |-> TRUE]
    BY <2>16
  <2>18. table = Encode(DomainAt(0), polynomial)
    BY <2>1, <2>7, TabulatedIs
  <2>19. Serves(0, b)
    BY <2>5, <2>8, <2>15, <2>17, <2>18, ServesFirst
  <2>20. PICK m, p : m = memo' /\ p = proof'
    OBVIOUS
  <2>21. StartsWith(b, m, p)
    <3>1. p.initial_root = root
      <4>1. proof = [initial_root |-> proof.initial_root, rounds |-> proof.rounds,
                     final_polynomial |-> proof.final_polynomial, queries_to_final |-> proof.queries_to_final,
                     prover_rounds |-> proof.prover_rounds] => p.initial_root = root
        BY <2>3, <2>20
      <4>2. Sent(proof)
        BY <2>3 DEF ProofState
      <4> QED
        BY <4>1, <4>2 DEF Sent
    <3> QED
      BY <2>1, <2>2, <2>6, <2>14, <2>17, <2>20, <3>1 DEF StartsWith
  <2>22. PICK e, g : e = [r \in 0 .. 0 |-> b] /\ g = <<>>
    OBVIOUS
  <2>23. e[0] = b
    BY <2>22
  <2>24. Past(0, e, g, m, p)
    <3>1. \A r \in 0 .. 0 : Serves(r, e[r])
      BY <2>19, <2>23
    <3>2. 0 .. 0 - 1 = {}
      OBVIOUS
    <3> QED
      BY <2>21, <2>23, <3>1, <3>2 DEF Past
  <2>25. ProvingFrom(b)'
    <3>1. alpha' = b.alpha /\ current' = [polynomial |-> b.f, committed |-> b.table] /\ transcript' = b.t
          /\ Fresh(transcript', memo')
      BY <2>2, <2>3, <2>13, <2>14, <2>17
    <3> QED
      BY <2>3, <3>1 DEF ProvingFrom, Fresh
  <2> QED
    BY <2>3, <2>4, <2>20, <2>23, <2>24, <2>25, ProvesUndamaged
<1> QED
  BY <1>1, <1>2

(* A round's root is absorbed. *)
LEMMA UndamagedFolds ==
  ASSUME RingLaws, StirSetting, Undamaged, FoldRound
  PROVE  Undamaged'
<1>1. /\ pc = "fold" /\ pc' = "answer" /\ SameSetup /\ round' = round /\ current' = current
      /\ alpha' = alpha /\ proof' = proof /\ memo' = memo /\ verdict' = verdict /\ damage' = damage
  BY DEF FoldRound, SameSetup
<1>2. PICK e, g : Past(round, e, g, memo, proof) /\ ProvingFrom(e[round])
  BY <1>1 DEF Undamaged
<1>3. K = 9
  BY <1>1, SettingAt
<1>4. PICK b : b = e[round]
  OBVIOUS
<1>5. /\ alpha = b.alpha /\ current = [polynomial |-> b.f, committed |-> b.table] /\ transcript = b.t
      /\ Fresh(transcript, memo)
  BY <1>1, <1>2, <1>4 DEF ProvingFrom
<1>6. PICK D : D = DomainAt(round)
  OBVIOUS
<1>7. /\ witness'.answers = FoldTableK(D, Encode(D, current.polynomial), 9, alpha)
      /\ transcript' = Append(transcript, <<"root", Root(Bundles(witness'.shifted, 9))>>)
  <2>1. RoundDomains(Params, D).input = D
    BY DEF RoundDomains
  <2>2. PICK ds, table, answers, folded, shifted :
          /\ ds = RoundDomains(Params, DomainAt(round)) /\ table = Tabulated(Encode(ds.input, current.polynomial))
          /\ answers = Tabulated(FoldTableK(ds.input, table, K, alpha))
          /\ witness' = [folded |-> folded, answers |-> answers, shifted |-> shifted]
          /\ transcript' = Append(transcript, <<"root", Root(Bundles(shifted, K))>>)
    BY DEF FoldRound
  <2>3. answers = FoldTableK(D, Encode(D, current.polynomial), K, alpha)
    BY <1>6, <2>1, <2>2, TabulatedIs
  <2> QED
    BY <1>3, <2>2, <2>3
<1>8. witness'.answers = FoldedTable(round, b)
  BY <1>5, <1>6, <1>7 DEF FoldedTable
<1>9. FoldedTable(round, b)' = FoldedTable(round, b)
  <2>1. PICK r : r = round
    OBVIOUS
  <2>2. FoldedTable(r, b)' = FoldedTable(r, b)
    BY <1>1, RoundsStay
  <2> QED
    BY <1>1, <2>1, <2>2
<1>10. Fresh(transcript', memo')
  BY <1>1, <1>5, <1>7, FreshOn
<1>11. ProvingFrom(b)'
  BY <1>1, <1>5, <1>7, <1>8, <1>9, <1>10 DEF ProvingFrom, Fresh
<1>12. PICK n, m, p : n = round /\ m = memo /\ p = proof
  OBVIOUS
<1> QED
  BY <1>1, <1>2, <1>4, <1>11, <1>12, ProvesUndamaged DEF Undamaged


(* The point a round's shake draws is apart from its quotient points, and  *)
(* the honest polynomials agree there.                                     *)
LEMMA ShakeHonest ==
  ASSUME RingLaws, setup \in Setups, ValidStirInstance(Params, setup.domain, setup.degree),
         round \in 0 .. Rounds - 1, NEW d, NEW a, NEW points, NEW values, NEW B, NEW low,
         AnswerHolds(d, a, points, values, B, low), NEW s, s = d.got[5],
         s \in ShakesFrom(RoundAt(round), d.got), s # <<>>
  PROVE  ShakeConsistent(a.answer, a.shake, points, values, s[1])
<1> DEFINE ds == RoundAt(round)
           z == s[1]
<1>1. RoundSettled(round, ds)
  BY RoundIsSettled DEF RoundAt
<1>2. /\ points = QuotientPoints(ds, d) /\ points \in Seq(Ring) /\ IsPolynomial(a.answer)
      /\ a.shake = ShakePolynomial(a.answer, points, values)
      /\ \A i \in 1 .. Len(points) : values[i] = Evaluate(a.answer, points[i])
  BY DEF AnswerHolds, Reusable
<1>3. PICK e : e = [got |-> d.got]
  OBVIOUS
<1>4. QuotientPoints(ds, e) = points
  <2>1. d.got[1] = e.got[1] /\ d.got[4] = e.got[4]
    BY <1>3
  <2> QED
    BY <1>2, <2>1, SamePoints
<1> DEFINE set == PointSet(points)
           S == ShakePool(Params, ds, set)
<1>5. s \in FewOf(S, 1)
  BY <1>3, <1>4 DEF ShakesFrom
<1> HIDE DEF ds, S
<1>6. S \in SUBSET Nat /\ IsFiniteSet(S) /\ S \in SUBSET Ring
  BY <1>1, PoolsInRing DEF S
<1>7. z \in S
  <2>1. PICK n \in Nat : n = 1
    OBVIOUS
  <2>2. s \in FewOf(S, n)
    BY <1>5, <2>1
  <2>3. s \in [1 .. n -> S]
    BY <1>6, <2>2, FewOfAre
  <2> QED
    BY <2>1, <2>3
<1>8. ExceptionalAgainst(z, set)
  <2>1. CASE Params.protocol_mode = "TheoremGr"
    BY <1>7, <2>1 DEF S, ShakePool, SafeComplement, ExceptionalAgainst
  <2>2. CASE Params.protocol_mode # "TheoremGr"
    BY <1>7, <2>2 DEF S, ShakePool
  <2> QED
    BY <2>1, <2>2
<1>9. z \in Ring /\ \A i \in 1 .. Len(points) : IsUnit(Minus(z, points[i]))
  BY <1>2, <1>6, <1>7, <1>8 DEF ExceptionalAgainst, PointSet
<1> HIDE DEF z, set
<1>10. Evaluate(a.shake, z) = RingSum(ShakeTerms(Evaluate(a.answer, z), points, values, z), Len(points))
  <2>1. PICK ans : ans = a.answer
    OBVIOUS
  <2>2. Evaluate(ShakePolynomial(ans, points, values), z)
          = RingSum(ShakeTerms(Evaluate(ans, z), points, values, z), Len(points))
    BY <1>2, <1>9, <2>1, ShakeIs
  <2> QED
    BY <1>2, <2>1, <2>2
<1> QED
  BY <1>8, <1>10 DEF ShakeConsistent, ShakeTerms, z, set, PointSet

(* The evaluations sent are as many as the points.                         *)
LEMMA AsManyBetas ==
  ASSUME NEW ood \in Seq(Ring), NEW f
  PROVE  Len(Betas(f, ood)) = Len(ood)
<1>1. Len(ood) \in Nat /\ DOMAIN ood = 1 .. Len(ood)
  OBVIOUS
<1>2. DOMAIN Betas(f, ood) = 1 .. Len(ood)
  BY <1>1 DEF Betas
<1> QED
  BY <1>1, <1>2 DEF Betas

(* A round is answered and sent. *)
LEMMA UndamagedSends ==
  ASSUME RingLaws, StirSetting, ProverState, ProofState, Undamaged, pc = "answer",
         NEW o \in OodDraws(RoundAt(round)), ~RanOut(o),
         NEW d \in RoundDraws(RoundAt(round), CountAt(round), o, Betas(witness.folded, o.got[1])),
         ~RanOut(d), NEW a, a = Answered(RoundAt(round), d), SendRound(d, a, TRUE)
  PROVE  Undamaged'
<1>1. Drawing /\ Rounds \in Nat /\ WitnessAt(round, RoundAt(round))
  BY AnsweringSetting DEF ProverState
<1>2. /\ setup \in Setups /\ ValidStirInstance(Params, setup.domain, setup.degree)
      /\ round \in 0 .. Rounds - 1 /\ K = 9 /\ round \in Nat
  BY <1>1, StirInstance DEF Drawing
<1> DEFINE betas == Betas(witness.folded, o.got[1])
           msg == [g_root           |-> Root(Bundles(a.shifted, 9)),
                   betas            |-> Betas(witness.folded, d.got[1]),
                   ans_polynomial   |-> a.answer,
                   queries_to_prev  |-> OpenTree(Bundles(current.committed, 9), Positions(d.got[4])),
                   shake_polynomial |-> a.shake]
<1>3. /\ SameSetup /\ round' = round + 1 /\ alpha' = d.got[3]
      /\ current' = [polynomial |-> a.next, committed |-> a.shifted]
      /\ transcript' = d.t /\ memo' = d.m /\ verdict' = "none" /\ damage' = damage
      /\ proof' = [proof EXCEPT !.rounds = Append(proof.rounds, msg)]
  BY <1>2 DEF SendRound, SameSetup
<1>4. pc' \in {"fold", "finish"}
  <2>1. pc' = CASE ~TRUE -> "done"
                [] TRUE /\ round + 1 = Rounds -> "finish"
                [] TRUE /\ round + 1 < Rounds -> "fold"
    BY DEF SendRound
  <2>2. round + 1 = Rounds \/ round + 1 < Rounds
    BY <1>1, <1>2
  <2> QED
    BY <2>1, <2>2
<1>5. PICK sent : sent = msg
  OBVIOUS
<1>6. /\ sent.g_root = Root(Bundles(a.shifted, 9)) /\ sent.betas = Betas(witness.folded, d.got[1])
      /\ sent.ans_polynomial = a.answer /\ sent.shake_polynomial = a.shake
      /\ sent.queries_to_prev = OpenTree(Bundles(current.committed, 9), Positions(d.got[4]))
  BY <1>5
<1>7. proof' = [proof EXCEPT !.rounds = Append(proof.rounds, sent)]
  BY <1>3, <1>5
<1> HIDE DEF msg
<1>8. /\ Heard(d.m, transcript, round, betas, d.got) /\ Keeps(memo, d.m)
      /\ d.t = ShakeAsked(transcript, round, betas)
      /\ d.got[1] = o.got[1] /\ d.got[5] # <<>>
      /\ Fresh(transcript, memo) => Fresh(d.t, d.m) /\ DrawnFrom(RoundAt(round), d.got)
  BY DrawsLearn
<1>9. RoundDrawn(d) /\ Sampled(round, RoundAt(round), d)
  BY <1>1, DrawnIsSampled
<1>10. d.got[2] \in Ring /\ d.got[3] \in Ring
       /\ d.got[4] \in PositionDraws(CountAt(round), RoundAt(round).folded.size)
  BY <1>9 DEF RoundDrawn
<1>11. PICK points, values, B, low : AnswerHolds(d, a, points, values, B, low)
  BY <1>1, <1>2, <1>9, <1>10, AnsweredHolds
<1>12. PICK e, g : Past(round, e, g, memo, proof) /\ ProvingFrom(e[round])
  BY DEF Undamaged
<1>13. PICK b : b = e[round]
  OBVIOUS
<1>14. /\ alpha = b.alpha /\ current.committed = b.table
       /\ transcript = Append(b.t, <<"root", sent.g_root>>)
       /\ witness.answers = FoldedTable(round, b) /\ Fresh(transcript, memo)
  <2>1. a.shifted = witness.shifted
    BY DEF Answered
  <2> QED
    BY <1>6, <1>12, <1>13, <2>1, SMTT(30) DEF ProvingFrom
<1>15. betas = sent.betas
  BY <1>6, <1>8
<1>16. PICK got : got = d.got
  OBVIOUS
<1>17. /\ got[1] # <<>> /\ Len(sent.betas) = Len(got[1])
  <2>1. d.got[1] \in Seq(Ring)
    BY <1>2, <1>9, RoundPoints DEF PointsSplit, SplitInto
  <2>2. Len(sent.betas) = Len(d.got[1])
    BY <1>6, <2>1, AsManyBetas
  <2>3. PICK v : o.got = <<v>>
    BY OodLearns
  <2>4. o.got[1] # <<>>
    BY <2>3 DEF RanOut
  <2> QED
    BY <1>8, <1>16, <2>2, <2>4
<1>18. points = PointsOf(round, got)
  <2>1. PICK e1 : e1 = [got |-> got]
    OBVIOUS
  <2>2. d.got[1] = e1.got[1] /\ d.got[4] = e1.got[4]
    BY <1>16, <2>1
  <2>3. QuotientPoints(RoundAt(round), d) = QuotientPoints(RoundAt(round), e1)
    BY <2>2, SamePoints
  <2> QED
    BY <1>11, <2>1, <2>3 DEF PointsOf, AnswerHolds
<1>19. values = ClaimedBy(round, b, got, sent)
  <2>1. values = RoundValues(d)
    BY <1>11 DEF AnswerHolds
  <2> QED
    BY <1>6, <1>14, <1>16, <2>1 DEF RoundValues, ClaimedBy
<1>20. ShakeConsistent(sent.ans_polynomial, sent.shake_polynomial, points, values, got[5][1])
  <2>1. DrawnFrom(RoundAt(round), d.got)
    BY <1>8, <1>14
  <2>2. d.got[5] \in ShakesFrom(RoundAt(round), d.got) /\ d.got[5] # <<>>
    BY <1>8, <2>1 DEF DrawnFrom
  <2>3. ShakeConsistent(a.answer, a.shake, points, values, d.got[5][1])
    BY <1>2, <1>11, <2>2, ShakeHonest
  <2> QED
    BY <1>6, <1>16, <2>3
<1>21. PICK c : c = [t |-> d.t, alpha |-> d.got[3], f |-> a.next, table |-> a.shifted,
                     fn |-> NextFunction(d.got[2], a.answer, points)]
  OBVIOUS
<1>22. /\ c.t = d.t /\ c.alpha = d.got[3] /\ c.f = a.next /\ c.table = a.shifted
       /\ c.fn = NextFunction(d.got[2], a.answer, points)
  BY <1>21
<1>23. Shown(round, b, got, sent)
  BY <1>6, <1>8, <1>10, <1>14, <1>16, <1>17, <1>18, <1>19, <1>20 DEF Shown
<1>24. Goes(round, b, got, sent, c)
  BY <1>6, <1>8, <1>14, <1>15, <1>16, <1>18, <1>22 DEF Goes
<1>25. RoundPast(round, b, c, got, sent, d.m)
  BY <1>8, <1>14, <1>15, <1>16, <1>23, <1>24 DEF RoundPast
<1>26. Serves(round + 1, c)
  <2>1. d.got[2] \in Challenges
    BY <1>8, <1>14 DEF DrawnFrom
  <2>2. c.alpha \in Ring
    BY <1>10, <1>22
  <2> QED
    BY <1>2, <1>11, <1>22, <2>1, <2>2, ServesNext
<1>27. PICK m, p : m = memo' /\ p = proof'
  OBVIOUS
<1>28. /\ p.initial_root = proof.initial_root /\ (\A r \in 1 .. round : p.rounds[r] = proof.rounds[r])
       /\ p.rounds[round + 1] = sent
  <2>1. Sent(proof) /\ Len(proof.rounds) = round
    BY DEF ProofState
  <2>2. p.initial_root = proof.initial_root /\ p.rounds = Append(proof.rounds, sent)
    BY <1>7, <1>27, <2>1 DEF Sent
  <2>3. IsSequence(proof.rounds)
    BY <2>1 DEF Sent
  <2> QED
    BY <2>1, <2>2, <2>3, AppendAnything DEF IsSequence
<1>29. Past(round, e, g, m, p)
  <2>1. PICK n \in Nat : n = round
    BY <1>2
  <2>2. Past(n, e, g, m, p)
    BY <1>3, <1>8, <1>12, <1>27, <1>28, <2>1, PastStays
  <2> QED
    BY <2>1, <2>2
<1>30. PICK d1, h : Past(round + 1, d1, h, m, p) /\ d1[round + 1] = c
  <2>1. PICK n \in Nat : n = round
    BY <1>2
  <2>2. RoundPast(n, e[n], c, got, p.rounds[n + 1], m)
    BY <1>3, <1>13, <1>25, <1>27, <1>28, <2>1
  <2>3. Past(n, e, g, m, p) /\ Serves(n + 1, c)
    BY <1>26, <1>29, <2>1
  <2>4. \E d1, h : Past(n + 1, d1, h, m, p) /\ d1[n + 1] = c
    BY <2>2, <2>3, PastGoesOn
  <2> QED
    BY <2>1, <2>4
<1>31. ProvingFrom(c)'
  <2>1. /\ alpha' = c.alpha /\ current' = [polynomial |-> c.f, committed |-> c.table]
        /\ Fresh(transcript', memo') /\ transcript' = c.t
    BY <1>3, <1>8, <1>14, <1>22
  <2> QED
    BY <1>4, <2>1 DEF ProvingFrom, Fresh
<1>32. PICK n : n = round + 1
  OBVIOUS
<1>33. /\ pc' \in {"fold", "answer", "finish"} /\ damage' = "none" /\ verdict' # "reject"
       /\ round' = n /\ Past(n, d1, h, m, p) /\ d1[n] = c
  BY <1>3, <1>4, <1>30, <1>32 DEF Undamaged
<1>34. ProvingFrom(d1[n])'
  BY <1>31, <1>33
<1> QED
  BY <1>3, <1>27, <1>33, <1>34, ProvesUndamaged

LEMMA UndamagedAnswers ==
  ASSUME RingLaws, StirSetting, ProverState, ProofState, Undamaged, AnswerRound
  PROVE  Undamaged'
<1>1. pc = "answer"
  BY DEF AnswerRound
<1>2. Drawing
  BY <1>1, AnsweringSetting DEF ProverState
<1>3. PICK o \in OodDraws(RoundAt(round)) :
        IF RanOut(o) THEN Stop("no_sample")
        ELSE \E d \in RoundDraws(RoundAt(round), CountAt(round), o, Betas(witness.folded, o.got[1])) :
               IF RanOut(d) THEN Stop("no_sample")
               ELSE SendRound(d, Answered(RoundAt(round), d),
                              Answered(RoundAt(round), d).exact
                                /\ Degree(Answered(RoundAt(round), d).next) <= BoundAt(round + 1))
  BY DEF AnswerRound, RoundAt, CountAt
<1>4. CASE Stop("no_sample")
  BY <1>4, StopUndamaged
<1>5. CASE ~Stop("no_sample")
  <2>1. ~RanOut(o)
    BY <1>3, <1>5
  <2>2. PICK d \in RoundDraws(RoundAt(round), CountAt(round), o, Betas(witness.folded, o.got[1])) :
          ~RanOut(d) /\ SendRound(d, Answered(RoundAt(round), d),
                    Answered(RoundAt(round), d).exact
                      /\ Degree(Answered(RoundAt(round), d).next) <= BoundAt(round + 1))
    BY <1>3, <1>5
  <2>3. RoundDrawn(d) /\ Sampled(round, RoundAt(round), d)
    BY <1>2, <2>1, DrawnIsSampled
  <2>4. PICK a : a = Answered(RoundAt(round), d)
    OBVIOUS
  <2>5. a.exact /\ Degree(a.next) <= BoundAt(round + 1)
    <3>1. WitnessAt(round, RoundAt(round))
      BY <1>1 DEF ProverState
    <3>2. /\ setup \in Setups /\ ValidStirInstance(Params, setup.domain, setup.degree)
          /\ round \in 0 .. Rounds - 1
      BY <1>2 DEF Drawing
    <3>3. d.got[2] \in Ring
      BY <2>3 DEF RoundDrawn
    <3> QED
      BY <2>3, <2>4, <3>1, <3>2, <3>3, AnsweredFits
  <2>6. SendRound(d, a, TRUE)
    <3>1. SendRound(d, a, a.exact /\ Degree(a.next) <= BoundAt(round + 1))
      BY <2>2, <2>4
    <3> QED
      BY <2>5, <3>1 DEF SendRound
  <2> QED
    BY <1>1, <2>1, <2>2, <2>4, <2>6, UndamagedSends
<1> QED
  BY <1>4, <1>5

(* The final positions. *)
LEMMA FinalLearns ==
  ASSUME NEW d \in FinalDraws
  PROVE  Knows(d.m, Append(transcript, <<"final", Rounds>>), d.got[1]) /\ Keeps(memo, d.m)
<1>1. PICK S : d \in Ask(Started, <<"final", Rounds>>, S)
  BY DEF FinalDraws
<1>2. PICK v : Learnt(Started, <<"final", Rounds>>, d, v)
  BY <1>1, AskLearns
<1>3. Started.t = transcript /\ Started.m = memo /\ Started.got = <<>>
  BY DEF Started
<1>4. d.got = <<v>> /\ d.got[1] = v
  BY <1>2, <1>3 DEF Learnt
<1> QED
  BY <1>2, <1>3, <1>4 DEF Learnt

(* The proof is finished. *)
LEMMA UndamagedFinishes ==
  ASSUME RingLaws, StirSetting, ProverState, ProofState, Undamaged, ProveFinish
  PROVE  Undamaged'
<1> DEFINE D == DomainAt(Rounds)
           f == current.polynomial
           B == BoundAt(Rounds)
           final == FoldedBy(D, Encode(D, f), alpha)
<1>1. /\ pc = "finish" /\ setup \in Setups /\ ValidStirInstance(Params, setup.domain, setup.degree)
      /\ K = 9 /\ Rounds \in Nat /\ round = Rounds
  <2>1. pc = "finish"
    BY DEF ProveFinish
  <2>2. round = Rounds
    BY <2>1 DEF StirSetting
  <2> QED
    BY <2>1, <2>2, SettingAt
<1>2. DomainHolds(Rounds)
  <2>1. Rounds \in 0 .. Rounds
    BY <1>1
  <2> QED
    BY <1>1, <2>1, StirInstance
<1>3. alpha \in Ring /\ IsPolynomial(f) /\ f.size <= B + 1
  BY <1>1 DEF ProverState, CurrentFits
<1>4. IsDomain(D) /\ IsTeichmuller(D.root) /\ D.size % 9 = 0 /\ B \in Nat /\ B < D.size
  BY <1>2 DEF DomainHolds
<1>5. FinalDomain = PowMap(D, 9)
  BY <1>1 DEF FinalDomain
<1>6. PICK x \in FinalDraws :
        /\ SameSetup /\ alpha' = alpha /\ round' = round /\ damage' = damage /\ memo' = x.m
        /\ proof' = [proof EXCEPT !.final_polynomial = final,
                       !.queries_to_final = OpenTree(Bundles(current.committed, 9), Positions(x.got[1])),
                       !.prover_rounds = Rounds]
        /\ verdict' = IF Degree(final) <= FoldedDegreeBound(B, 9) THEN "none" ELSE "overflow"
        /\ pc' = IF Degree(final) <= FoldedDegreeBound(B, 9) THEN "deliver" ELSE "done"
  <2>1. final = Interpolate(FinalDomain.points, FoldTableK(D, Tabulated(Encode(D, f)), K, alpha),
                            FinalDomain.size)
    <3>1. Tabulated(Encode(D, f)) = Encode(D, f)
      BY TabulatedIs
    <3> QED
      BY <1>1, <1>5, <3>1 DEF FoldedBy
  <2> HIDE DEF final
  <2> QED
    BY <1>1, <2>1 DEF ProveFinish, SameSetup
<1>7. PICK T : T = FoldTableK(D, Encode(D, f), 9, alpha)
  OBVIOUS
<1> HIDE DEF D, f, B
<1>8. /\ IsPolynomial(final) /\ final.size <= B \div 9 + 1
      /\ \A i \in 0 .. FinalDomain.size - 1 : T[i] = Evaluate(final, FinalDomain.points[i])
  BY <1>3, <1>4, <1>5, <1>7, FoldedPolynomial
<1> HIDE DEF final
<1>9. Degree(final) <= FoldedDegreeBound(B, 9)
  <2>1. final.size \in Nat
    BY <1>8 DEF IsPolynomial
  <2>2. (B + 9) \div 9 - 1 = B \div 9 /\ B \div 9 \in Nat
    BY <1>4
  <2> QED
    BY <1>8, <2>1, <2>2 DEF Degree, FoldedDegreeBound
<1>10. pc' = "deliver" /\ verdict' = "none"
  BY <1>6, <1>9
<1>11. PICK e, g : Past(round, e, g, memo, proof) /\ ProvingFrom(e[round])
  BY <1>1 DEF Undamaged
<1>12. PICK b : b = e[Rounds]
  OBVIOUS
<1>13. alpha = b.alpha /\ current.polynomial = b.f /\ current.committed = b.table /\ transcript = b.t
  BY <1>1, <1>11, <1>12 DEF ProvingFrom
<1>14. T = FoldedTable(Rounds, b)
  BY <1>7, <1>13 DEF FoldedTable, D, f
<1>15. PICK m, p : m = memo' /\ p = proof'
  OBVIOUS
<1>16. /\ p.initial_root = proof.initial_root /\ p.rounds = proof.rounds
       /\ p.final_polynomial = final /\ p.prover_rounds = Rounds
       /\ p.queries_to_final = OpenTree(Bundles(b.table, 9), Positions(x.got[1]))
       /\ Len(p.rounds) = Rounds
  <2>1. Sent(proof) /\ Len(proof.rounds) = round
    BY <1>1 DEF ProofState
  <2> QED
    BY <1>1, <1>6, <1>13, <1>15, <2>1 DEF Sent
<1>17. Knows(m, Append(b.t, <<"final", Rounds>>), x.got[1]) /\ Keeps(memo, m)
  BY <1>6, <1>13, <1>15, FinalLearns
<1>18. x.got[1] \in PositionDraws(FinalCount, FinalDomain.size)
  BY LastPositions DEF ProverState
<1>19. \A i \in DOMAIN x.got[1] : x.got[1][i] \in 0 .. FinalDomain.size - 1
  <2>1. FinalDomain.size \in Nat
    BY <1>4, <1>5, FoldedDomain
  <2>2. FinalCount \in Nat
    BY <1>1, <2>1, LastCount
  <2>3. PICK last : last = x.got[1]
    OBVIOUS
  <2>4. Drawn(last, FinalDomain.size)
    BY <1>18, <2>1, <2>2, <2>3, DrawnPositions
  <2> QED
    BY <2>3, <2>4 DEF Drawn
<1>20. ClosedBy(b, m, p)
  <2>1. Degree(p.final_polynomial) <= FoldedDegreeBound(BoundAt(Rounds), K)
    BY <1>1, <1>9, <1>16 DEF B
  <2>2. \A i \in DOMAIN x.got[1] : Evaluate(p.final_polynomial, FinalDomain.points[x.got[1][i]])
                                    = FoldedTable(Rounds, b)[x.got[1][i]]
    BY <1>8, <1>14, <1>16, <1>19
  <2> QED
    BY <1>16, <1>17, <1>18, <2>1, <2>2 DEF ClosedBy
<1>21. PICK n \in Nat : n = Rounds
  BY <1>1
<1>22. Past(n, e, g, m, p)
  <2>1. Past(n, e, g, memo, proof)
    BY <1>1, <1>11, <1>21
  <2> QED
    BY <1>16, <1>17, <2>1, PastStays
<1>23. ClosedBy(e[n], m, p)
  BY <1>12, <1>20, <1>21
<1>24. /\ pc' \in {"deliver", "verify", "check", "draw", "final"} /\ verdict' # "reject"
       /\ (pc' = "deliver" => damage' = "none") /\ (pc' = "verify" => transcript' = <<>>)
       /\ ~(pc' \in {"check", "draw", "final"}) /\ memo' = m /\ proof' = p /\ Rounds = n /\ SameSetup
  BY <1>1, <1>6, <1>10, <1>15, <1>21 DEF Undamaged
<1> QED
  BY <1>22, <1>23, <1>24, ClosedUndamaged

(* On its way it stays as it was, or it is damaged. *)
LEMMA DamagedClaims ==
  ASSUME damage' # "none", verdict' # "reject", pc' \notin {"prove", "fold", "answer", "finish", "deliver"},
         pc' = "verify" => transcript' = <<>>
  PROVE  Undamaged'
BY DEF Undamaged

LEMMA UndamagedDelivers ==
  ASSUME Undamaged, NEW kind, Deliver(kind)
  PROVE  Undamaged'
<1>1. /\ pc = "deliver" /\ pc' = "verify" /\ transcript' = <<>> /\ damage' = kind /\ verdict' = verdict
      /\ memo' = memo /\ SameSetup /\ proof' = Received(kind)
  BY DEF Deliver, SameSetup
<1>2. verdict # "reject"
  BY <1>1 DEF Undamaged
<1>3. CASE kind # "none"
  BY <1>1, <1>2, <1>3, DamagedClaims
<1>4. CASE kind = "none"
  <2>1. proof' = proof
    BY <1>1, <1>4 DEF Received
  <2>2. PICK e, g : Past(Rounds, e, g, memo, proof) /\ ClosedBy(e[Rounds], memo, proof)
    BY <1>1 DEF Undamaged
  <2>3. PICK n, m, p : n = Rounds /\ m = memo /\ p = proof
    OBVIOUS
  <2>4. Past(n, e, g, m, p) /\ ClosedBy(e[n], m, p)
    BY <2>2, <2>3
  <2> QED
    BY <1>1, <1>2, <2>1, <2>3, <2>4, ClosedUndamaged
<1> QED
  BY <1>3, <1>4

(* The verifier starts where the prover did. *)
LEMMA UndamagedVerifies ==
  ASSUME RingLaws, StirSetting, VerifierState, Undamaged, VerifyStart
  PROVE  Undamaged'
<1>1. pc = "verify" /\ round = 0 /\ transcript = <<>> /\ verdict # "reject"
      /\ function = [initial |-> TRUE]
  BY DEF VerifyStart, StirSetting, Undamaged, VerifierState
<1>2. ValidStirInstance(Params, setup.domain, setup.degree) /\ Rounds \in Nat
  BY <1>1, SettingAt
<1>3. CASE ~EntryHolds
  <2>1. Stop("reject")
    BY <1>3 DEF VerifyStart
  <2>2. damage # "none"
    <3>1. ASSUME damage = "none" PROVE FALSE
      <4>1. PICK b : ClosedBy(b, memo, proof)
        BY <1>1, <3>1 DEF Undamaged
      <4> QED
        BY <1>2, <1>3, <4>1 DEF EntryHolds, ClosedBy
    <3> QED
      BY <3>1
  <2> QED
    BY <2>1, <2>2, StopUndamaged
<1>4. CASE EntryHolds
  <2> DEFINE s == Absorb(Started, <<"root", proof.initial_root>>)
             x == <<"alpha", 0>>
  <2>1. PICK d \in Ask(s, x, Challenges) : transcript' = d.t /\ memo' = d.m /\ alpha' = d.got[1]
    BY <1>4 DEF VerifyStart
  <2>2. /\ pc' \in {"final", "check"} /\ SameSetup /\ round' = round /\ proof' = proof
        /\ damage' = damage /\ function' = function /\ verdict' = verdict
    BY <1>4 DEF VerifyStart, SameSetup
  <2>3. CASE damage # "none"
    BY <1>1, <2>2, <2>3, DamagedClaims
  <2>4. CASE damage = "none"
    <3>1. PICK e, g : Past(Rounds, e, g, memo, proof) /\ ClosedBy(e[Rounds], memo, proof)
      BY <1>1, <2>4 DEF Undamaged
    <3>2. PICK root : root = proof.initial_root
      OBVIOUS
    <3>3. s.t = Append(<<>>, <<"root", root>>) /\ s.m = memo /\ s.got = <<>> /\ Append(s.t, x) = FirstAsked(root)
      BY <1>1, <3>2 DEF Absorb, Started, FirstAsked
    <3> HIDE DEF s, x
    <3>4. PICK v : Learnt(s, x, d, v)
      BY <2>1, AskLearns
    <3>5. d.t = FirstAsked(root) /\ Keeps(memo, d.m) /\ Knows(d.m, d.t, v) /\ d.got[1] = v
      BY <3>3, <3>4 DEF Learnt
    <3>6. PICK b : b = e[0]
      OBVIOUS
    <3>7. b.t = FirstAsked(root) /\ Knows(memo, b.t, b.alpha) /\ b.fn = [initial |-> TRUE]
      BY <3>1, <3>2, <3>6 DEF Past, StartsWith
    <3>8. v = b.alpha
      BY <3>5, <3>7, KeptKnows
    <3>9. PICK n, m, p : n \in Nat /\ n = Rounds /\ m = memo' /\ p = proof'
      BY <1>2
    <3>10. Keeps(memo, m) /\ p = proof
      BY <2>1, <2>2, <3>5, <3>9
    <3>11. Past(n, e, g, m, p)
      BY <3>1, <3>9, <3>10, PastStays
    <3>12. ClosedBy(e[n], m, p)
      BY <3>1, <3>9, <3>10, ClosedStays
    <3>13. CheckingFrom(b)'
      BY <1>1, <2>1, <2>2, <3>5, <3>7, <3>8 DEF CheckingFrom
    <3>14. CheckingFrom(e[round])'
      BY <1>1, <2>2, <3>6, <3>13
    <3> QED
      BY <1>1, <2>2, <3>9, <3>11, <3>12, <3>14, ClosedUndamaged
  <2> QED
    BY <2>3, <2>4
<1> QED
  BY <1>3, <1>4

(* The root the verifier checks against is the one over the prover's table.*)
LEMMA CurrentRootIs ==
  ASSUME NEW n \in Nat, NEW e, NEW g, NEW m, Past(n, e, g, m, proof), NEW r \in 0 .. n
  PROVE  CurrentRoot(r) = Root(Bundles(e[r].table, 9))
<1>1. CASE r = 0
  BY <1>1 DEF Past, StartsWith, CurrentRoot
<1>2. CASE r # 0
  <2>1. PICK q \in 0 .. n - 1 : r = q + 1
    <3>1. r - 1 \in 0 .. n - 1 /\ r = (r - 1) + 1
      BY <1>2
    <3> QED
      BY <3>1
  <2>2. PICK b, c, got, sent : b = e[q] /\ c = e[q + 1] /\ got = g[q] /\ sent = proof.rounds[q + 1]
    OBVIOUS
  <2>3. RoundPast(q, b, c, got, sent, m)
    BY <2>2 DEF Past
  <2>4. sent.g_root = Root(Bundles(c.table, 9))
    BY <2>3 DEF RoundPast, Goes
  <2> QED
    BY <1>2, <2>1, <2>2, <2>4 DEF CurrentRoot
<1> QED
  BY <1>1, <1>2

(* A round's openings, under that root. *)
LEMMA OpensRound ==
  ASSUME RingLaws, setup \in Setups, ValidStirInstance(Params, setup.domain, setup.degree),
         NEW r \in 0 .. Rounds - 1, NEW b, Serves(r, b), NEW got, NEW sent, Shown(r, b, got, sent),
         NEW m, m = DomainAt(r).size \div 9
  PROVE  /\ TreeAccepts(Root(Bundles(b.table, 9)), m, sent.queries_to_prev)
         /\ BundlesFit(got[4], sent.queries_to_prev, 9) /\ Drawn(got[4], m)
         /\ Rows(b.table, m, got[4], sent.queries_to_prev)
<1>1. RoundSettled(r, RoundAt(r)) /\ CountAt(r) \in Nat
  BY RoundIsSettled, CountsFit DEF RoundAt, CountFits
<1>2. PICK n : n = DomainAt(r).size
  OBVIOUS
<1>3. n \in Nat \ {0} /\ n % 9 = 0 /\ RoundAt(r).folded.size = m /\ m \in Nat
  BY <1>1, <1>2 DEF RoundSettled
<1>4. PICK table, positions, opened :
        table = b.table /\ positions = got[4] /\ opened = sent.queries_to_prev
  OBVIOUS
<1>5. DOMAIN table = 0 .. n - 1
  BY <1>2, <1>4 DEF Serves, Tables
<1>6. Drawn(positions, m)
  BY <1>1, <1>3, <1>4, DrawnPositions DEF Shown
<1>7. opened = OpenTree(Bundles(table, 9), Positions(positions))
  BY <1>4 DEF Shown
<1>8. /\ TreeAccepts(Root(Bundles(table, 9)), m, opened) /\ BundlesFit(positions, opened, 9)
      /\ \A i \in DOMAIN positions : opened.leaf_payloads[i] = Row(table, positions[i], m)
  BY <1>2, <1>3, <1>5, <1>6, <1>7, OpensItself
<1> QED
  BY <1>4, <1>6, <1>8 DEF Rows

LEMMA UndamagedOpens ==
  ASSUME RingLaws, StirSetting, Undamaged, VerifyRound
  PROVE  Undamaged'
<1>1. /\ pc = "check" /\ setup \in Setups /\ ValidStirInstance(Params, setup.domain, setup.degree)
      /\ K = 9 /\ Rounds \in Nat /\ round \in 0 .. Rounds - 1 /\ verdict # "reject"
  <2>1. pc = "check"
    BY DEF VerifyRound
  <2>2. round < Rounds /\ verdict # "reject"
    BY <2>1 DEF StirSetting, Undamaged
  <2> QED
    BY <2>1, <2>2, SettingAt
<1> DEFINE sent == proof.rounds[round + 1]
           accepted == TreeAccepts(CurrentRoot(round), DomainAt(round).size \div K, sent.queries_to_prev)
<1>2. CASE damage # "none"
  <2>1. CASE Stop("reject")
    BY <1>2, <2>1, StopUndamaged
  <2>2. CASE ~Stop("reject")
    <3>1. pc' = "draw" /\ verdict' = verdict /\ damage' = damage
      BY <2>2 DEF VerifyRound
    <3> QED
      BY <1>1, <1>2, <3>1, DamagedClaims
  <2> QED
    BY <2>1, <2>2
<1>3. CASE damage = "none"
  <2>1. PICK e, g : /\ Past(Rounds, e, g, memo, proof) /\ ClosedBy(e[Rounds], memo, proof)
                    /\ CheckingFrom(e[round])
    BY <1>1, <1>3 DEF Undamaged
  <2>2. PICK b, c, got, r, m : b = e[round] /\ c = e[round + 1] /\ got = g[round] /\ r = round
                               /\ m = DomainAt(round).size \div 9
    OBVIOUS
  <2>3. Shown(r, b, got, sent) /\ Serves(r, b)
    <3>1. RoundPast(round, b, c, got, sent, memo)
      BY <1>1, <2>1, <2>2 DEF Past
    <3>2. round \in 0 .. Rounds
      BY <1>1
    <3> QED
      BY <2>1, <2>2, <3>1, <3>2 DEF RoundPast, Past
  <2>4. CurrentRoot(round) = Root(Bundles(b.table, 9))
    <3>1. round \in 0 .. Rounds
      BY <1>1
    <3> QED
      BY <1>1, <2>1, <2>2, <3>1, CurrentRootIs
  <2>5. accepted
    <3> HIDE DEF sent
    <3>1. TreeAccepts(Root(Bundles(b.table, 9)), m, sent.queries_to_prev)
      BY <1>1, <2>2, <2>3, OpensRound
    <3> QED
      BY <1>1, <2>2, <2>4, <3>1
  <2>6. /\ transcript' = Append(transcript, <<"root", sent.g_root>>) /\ pc' = "draw" /\ SameSetup
        /\ round' = round /\ alpha' = alpha /\ proof' = proof /\ damage' = damage /\ memo' = memo
        /\ function' = function /\ verdict' = verdict
    BY <2>5 DEF VerifyRound, SameSetup
  <2>7. CheckingFrom(b)'
    <3>1. transcript = b.t /\ alpha = b.alpha /\ function = b.fn
      BY <1>1, <2>1, <2>2 DEF CheckingFrom
    <3> QED
      BY <2>6, <3>1 DEF CheckingFrom
  <2>8. PICK n, l, p : n = Rounds /\ l = memo /\ p = proof
    OBVIOUS
  <2>9. Past(n, e, g, l, p) /\ ClosedBy(e[n], l, p)
    BY <2>1, <2>8
  <2>10. CheckingFrom(e[round])'
    BY <2>2, <2>6, <2>7
  <2> QED
    BY <1>1, <2>6, <2>8, <2>9, <2>10, ClosedUndamaged
<1> QED
  BY <1>2, <1>3

(* Where the verifier rejects an intact proof it could not divide, in      *)
(* prototype mode.                                                         *)
LEMMA ServesMode ==
  ASSUME NEW r, NEW b, Serves(r, b), round = r, function = b.fn, ~Smooth(r, b.fn)
  PROVE  Excused
BY DEF Serves, Smooth, Excused

(* The verifier's draws are the prover's. *)
LEMMA DrawsAgain ==
  ASSUME NEW b, NEW c, NEW got, NEW sent, RoundPast(round, b, c, got, sent, memo),
         transcript = Append(b.t, <<"root", sent.g_root>>),
         NEW o \in OodDraws(RoundAt(round)),
         NEW d \in RoundDraws(RoundAt(round), CountAt(round), o, sent.betas)
  PROVE  /\ d.got[1] = got[1] /\ d.got[2] = got[2] /\ d.got[3] = got[3] /\ d.got[4] = got[4]
         /\ d.got[5] = got[5] /\ Keeps(memo, d.m) /\ d.t = c.t /\ ~RanOut(d)
         /\ QuotientPoints(RoundAt(round), d) = PointsOf(round, got)
<1>1. /\ Heard(memo, transcript, round, sent.betas, got) /\ got[5] # <<>>
      /\ c.t = ShakeAsked(transcript, round, sent.betas)
  BY DEF RoundPast, Shown, Goes
<1>2. /\ Heard(d.m, transcript, round, sent.betas, d.got) /\ Keeps(memo, d.m)
      /\ d.t = ShakeAsked(transcript, round, sent.betas) /\ (RanOut(d) <=> d.got[5] = <<>>)
  BY DrawsLearn
<1>3. d.got[1] = got[1] /\ d.got[2] = got[2] /\ d.got[3] = got[3] /\ d.got[4] = got[4] /\ d.got[5] = got[5]
  <2>1. PICK betas, t, r, m, n, g :
          betas = sent.betas /\ t = transcript /\ r = round /\ m = memo /\ n = d.m /\ g = d.got
    OBVIOUS
  <2>2. Keeps(m, n) /\ Heard(m, t, r, betas, got) /\ Heard(n, t, r, betas, g)
    BY <1>1, <1>2, <2>1
  <2>3. g[1] = got[1] /\ g[2] = got[2] /\ g[3] = got[3] /\ g[4] = got[4] /\ g[5] = got[5]
    BY <2>2, HeardOnce
  <2> QED
    BY <2>1, <2>3
<1>4. QuotientPoints(RoundAt(round), d) = PointsOf(round, got)
  <2>1. PICK e : e = [got |-> got]
    OBVIOUS
  <2>2. d.got[1] = e.got[1] /\ d.got[4] = e.got[4]
    BY <1>3, <2>1
  <2>3. QuotientPoints(RoundAt(round), d) = QuotientPoints(RoundAt(round), e)
    BY <2>2, SamePoints
  <2> QED
    BY <2>1, <2>3 DEF PointsOf
<1> QED
  BY <1>1, <1>2, <1>3, <1>4

(* The out-of-domain points are the prover's, and there is a beta for each.*)
LEMMA BetasFitAgain ==
  ASSUME NEW b, NEW c, NEW got, NEW sent, RoundPast(round, b, c, got, sent, memo),
         transcript = Append(b.t, <<"root", sent.g_root>>),
         NEW o \in OodDraws(RoundAt(round))
  PROVE  BetasFit(sent, o)
<1>1. /\ Heard(memo, transcript, round, sent.betas, got) /\ got[1] # <<>>
      /\ Len(sent.betas) = Len(got[1])
  BY DEF RoundPast, Shown
<1>2. Knows(o.m, OodAsked(transcript, round), o.got[1]) /\ Keeps(memo, o.m)
  BY OodLearns
<1>3. PICK v : o.got = <<v>>
  BY OodLearns
<1>4. o.got[1] = got[1]
  BY <1>1, <1>2, KeptKnows DEF Heard
<1>5. ~RanOut(o)
  BY <1>1, <1>3, <1>4 DEF RanOut
<1> QED
  BY <1>1, <1>4, <1>5 DEF BetasFit

(* Where it can divide, the checks of an intact round succeed.             *)
LEMMA HoldsAgain ==
  ASSUME RingLaws, setup \in Setups, ValidStirInstance(Params, setup.domain, setup.degree),
         round \in 0 .. Rounds - 1, NEW b, NEW c, NEW got, NEW sent, sent = proof.rounds[round + 1],
         RoundPast(round, b, c, got, sent, memo), Serves(round, b), Smooth(round, b.fn),
         transcript = Append(b.t, <<"root", sent.g_root>>), function = b.fn, alpha = b.alpha,
         NEW o \in OodDraws(RoundAt(round)),
         NEW d \in RoundDraws(RoundAt(round), CountAt(round), o, sent.betas)
  PROVE  RoundHolds(RoundAt(round), d)
<1>1. /\ d.got[4] = got[4] /\ d.got[5] = got[5] /\ ~RanOut(d)
      /\ QuotientPoints(RoundAt(round), d) = PointsOf(round, got)
  BY DrawsAgain
<1>2. K = 9
  BY StirInstance
<1>3. PICK m, r, opened, p : m = DomainAt(round).size \div 9 /\ r = round /\ opened = sent.queries_to_prev
                             /\ p = got[4]
  OBVIOUS
<1>4. Shown(r, b, got, sent) /\ Serves(r, b) /\ Smooth(r, b.fn)
  BY <1>3 DEF RoundPast
<1>5. BundlesFit(p, opened, 9) /\ Drawn(p, m) /\ Rows(b.table, m, p, opened)
  BY <1>3, <1>4, OpensRound
<1>6. PICK answers : answers = FoldedAnswers(DomainAt(r), BoundAt(r), b.fn, b.alpha, 9, p, opened)
  OBVIOUS
<1>7. FoldsTo(r, b, p, answers)
  <2>1. m = DomainAt(r).size \div 9
    BY <1>3
  <2> QED
    BY <1>4, <1>5, <1>6, <2>1, ServesFolds
<1>8. ValuesOf(answers) = [i \in DOMAIN p |-> FoldedTable(r, b)[p[i]]]
  BY <1>7 DEF ValuesOf, FoldsTo
<1>9. ShakeConsistent(sent.ans_polynomial, sent.shake_polynomial, PointsOf(r, got),
                      sent.betas \o ValuesOf(answers), got[5][1])
  BY <1>3, <1>4, <1>8 DEF Shown, ClaimedBy
<1>10. answers = FoldedAnswers(RoundAt(round).input, BoundAt(round), function, alpha, K, d.got[4],
                               proof.rounds[round + 1].queries_to_prev)
  <2>1. RoundAt(round).input = DomainAt(round)
    BY RoundIsSettled DEF RoundAt, RoundSettled
  <2> QED
    BY <1>1, <1>2, <1>3, <1>6, <2>1
<1>11. RoundHolds(RoundAt(round), d) <=>
         /\ ~RanOut(d)
         /\ BundlesFit(d.got[4], sent.queries_to_prev, K) /\ AllOk(answers)
         /\ ShakeConsistent(sent.ans_polynomial, sent.shake_polynomial, QuotientPoints(RoundAt(round), d),
                            sent.betas \o ValuesOf(answers), d.got[5][1])
  BY <1>10 DEF RoundHolds
<1> QED
  BY <1>1, <1>2, <1>3, <1>5, <1>7, <1>9, <1>11 DEF FoldsTo

LEMMA UndamagedDraws ==
  ASSUME RingLaws, StirSetting, ProverState, Undamaged, DrawRound
  PROVE  Undamaged'
<1>1. /\ pc = "draw" /\ verdict # "reject"
  BY DEF DrawRound, Undamaged
<1>2. /\ setup \in Setups /\ ValidStirInstance(Params, setup.domain, setup.degree)
      /\ round \in 0 .. Rounds - 1 /\ Rounds \in Nat
  BY <1>1, AnsweringSetting DEF ProverState, Drawing
<1>3. PICK sent : sent = proof.rounds[round + 1]
  OBVIOUS
<1>4. PICK o \in OodDraws(RoundAt(round)) :
        IF BetasFit(sent, o)
        THEN \E d \in RoundDraws(RoundAt(round), CountAt(round), o, sent.betas) :
               IF RoundHolds(RoundAt(round), d) THEN AdvanceRound(RoundAt(round), d) ELSE Stop("reject")
        ELSE Stop("reject")
  BY <1>3 DEF DrawRound, RoundAt, CountAt
<1>5. CASE damage # "none"
  <2>1. CASE Stop("reject")
    BY <1>5, <2>1, StopUndamaged
  <2>2. CASE ~Stop("reject")
    <3>1. PICK d : AdvanceRound(RoundAt(round), d)
      BY <1>4, <2>2
    <3>2. pc' \in {"final", "check"} /\ verdict' = verdict /\ damage' = damage
      BY <3>1 DEF AdvanceRound
    <3> QED
      BY <1>1, <1>5, <3>2, DamagedClaims
  <2> QED
    BY <2>1, <2>2
<1>6. CASE damage = "none"
  <2>1. PICK e, g : /\ Past(Rounds, e, g, memo, proof) /\ ClosedBy(e[Rounds], memo, proof)
                    /\ CheckingFrom(e[round])
    BY <1>1, <1>6 DEF Undamaged
  <2>2. PICK b, c, got : b = e[round] /\ c = e[round + 1] /\ got = g[round]
    OBVIOUS
  <2>3. RoundPast(round, b, c, got, sent, memo) /\ Serves(round, b)
    <3>1. round \in 0 .. Rounds
      BY <1>2
    <3> QED
      BY <1>2, <1>3, <2>1, <2>2, <3>1 DEF Past
  <2>4. alpha = b.alpha /\ function = b.fn /\ transcript = Append(b.t, <<"root", sent.g_root>>)
    BY <1>1, <1>3, <2>1, <2>2 DEF CheckingFrom
  <2>5. BetasFit(sent, o)
    BY <2>3, <2>4, BetasFitAgain
  <2>6. PICK d \in RoundDraws(RoundAt(round), CountAt(round), o, sent.betas) :
          IF RoundHolds(RoundAt(round), d) THEN AdvanceRound(RoundAt(round), d) ELSE Stop("reject")
    BY <1>4, <2>5
  <2>7. CASE ~RoundHolds(RoundAt(round), d)
    <3>1. ~Smooth(round, b.fn)
      BY <1>2, <1>3, <2>3, <2>4, <2>7, HoldsAgain
    <3>2. Excused
      BY <2>3, <2>4, <3>1, ServesMode
    <3> QED
      BY <2>6, <2>7, <3>2, StopUndamaged
  <2>8. CASE RoundHolds(RoundAt(round), d)
    <3>1. /\ SameSetup /\ round' = round + 1 /\ alpha' = d.got[3] /\ transcript' = d.t /\ memo' = d.m
          /\ function' = NextFunction(d.got[2], proof.rounds[round + 1].ans_polynomial,
                                      QuotientPoints(RoundAt(round), d))
          /\ pc' \in {"final", "check"} /\ proof' = proof /\ damage' = damage /\ verdict' = verdict
      <4>1. AdvanceRound(RoundAt(round), d)
        BY <2>6, <2>8
      <4> QED
        BY <4>1 DEF AdvanceRound, NextFunction, SameSetup
    <3>2. /\ d.got[2] = got[2] /\ d.got[3] = got[3] /\ Keeps(memo, d.m) /\ d.t = c.t
          /\ QuotientPoints(RoundAt(round), d) = PointsOf(round, got)
      BY <2>3, <2>4, DrawsAgain
    <3>3. c.alpha = got[3] /\ c.fn = NextFunction(got[2], sent.ans_polynomial, PointsOf(round, got))
      BY <2>3 DEF RoundPast, Goes
    <3>4. CheckingFrom(c)'
      BY <1>3, <3>1, <3>2, <3>3 DEF CheckingFrom
    <3>5. CheckingFrom(e[round])'
      BY <2>2, <3>1, <3>4
    <3>6. PICK n, m, p : n \in Nat /\ n = Rounds /\ m = memo' /\ p = proof'
      BY <1>2
    <3>7. Keeps(memo, m) /\ p = proof
      BY <3>1, <3>2, <3>6
    <3>8. Past(n, e, g, m, p)
      BY <2>1, <3>6, <3>7, PastStays
    <3>9. ClosedBy(e[n], m, p)
      BY <2>1, <3>6, <3>7, ClosedStays
    <3> QED
      BY <1>1, <3>1, <3>5, <3>6, <3>8, <3>9, ClosedUndamaged
  <2> QED
    BY <2>7, <2>8
<1> QED
  BY <1>5, <1>6

(* Where it can divide, the last comparison succeeds. *)
LEMMA EndsAgain ==
  ASSUME RingLaws, setup \in Setups, ValidStirInstance(Params, setup.domain, setup.degree),
         round = Rounds, NEW b, ClosedBy(b, memo, proof), Serves(round, b), Smooth(round, b.fn),
         CurrentRoot(Rounds) = Root(Bundles(b.table, 9)),
         transcript = b.t, function = b.fn, alpha = b.alpha, NEW d \in FinalDraws
  PROVE  FinalHolds(d.got[1])
<1>1. K = 9 /\ Rounds \in Nat /\ DomainHolds(Rounds)
  <2>1. Rounds \in Nat /\ Rounds \in 0 .. Rounds
    BY StirInstance
  <2> QED
    BY <2>1, StirInstance
<1>2. PICK m, n, r : m = FinalDomain.size /\ n = DomainAt(Rounds).size /\ r = Rounds
  OBVIOUS
<1>3. m = n \div 9 /\ m \in Nat /\ n \in Nat \ {0} /\ n % 9 = 0
  <2>1. IsDomain(DomainAt(Rounds)) /\ IsTeichmuller(DomainAt(Rounds).root) /\ n % 9 = 0 /\ n \in Nat \ {0}
    BY <1>1, <1>2 DEF DomainHolds
  <2> QED
    BY <1>1, <1>2, <2>1, FoldedDomain DEF FinalDomain
<1>4. PICK p : /\ Knows(memo, Append(b.t, <<"final", Rounds>>), p)
               /\ p \in PositionDraws(FinalCount, FinalDomain.size)
               /\ proof.queries_to_final = OpenTree(Bundles(b.table, 9), Positions(p))
               /\ \A i \in DOMAIN p : Evaluate(proof.final_polynomial, FinalDomain.points[p[i]])
                                        = FoldedTable(Rounds, b)[p[i]]
  BY DEF ClosedBy
<1>5. d.got[1] = p
  <2>1. Knows(d.m, Append(b.t, <<"final", Rounds>>), d.got[1]) /\ Keeps(memo, d.m)
    BY FinalLearns
  <2> QED
    BY <1>4, <2>1, KeptKnows
<1>6. Drawn(p, m)
  <2>1. FinalCount \in Nat
    BY <1>1, <1>2, <1>3, LastCount
  <2> QED
    BY <1>2, <1>3, <1>4, <2>1, DrawnPositions
<1>7. PICK table, opened : table = b.table /\ opened = proof.queries_to_final
  OBVIOUS
<1>8. DOMAIN table = 0 .. n - 1
  BY <1>2, <1>7 DEF Serves, Tables
<1>9. /\ TreeAccepts(Root(Bundles(table, 9)), m, opened) /\ BundlesFit(p, opened, 9)
      /\ \A i \in DOMAIN p : opened.leaf_payloads[i] = Row(table, p[i], m)
  BY <1>3, <1>4, <1>6, <1>7, <1>8, OpensItself
<1>10. Rows(b.table, m, p, opened)
  BY <1>7, <1>9 DEF Rows
<1>11. PICK answers : answers = FoldedAnswers(DomainAt(r), BoundAt(r), b.fn, b.alpha, 9, p, opened)
  OBVIOUS
<1>12. FoldsTo(r, b, p, answers)
  <2>1. Serves(r, b) /\ Smooth(r, b.fn) /\ m = DomainAt(r).size \div 9
    BY <1>2, <1>3
  <2> QED
    BY <1>6, <1>10, <1>11, <2>1, ServesFolds
<1>13. FinalHolds(p) <=>
         /\ TreeAccepts(CurrentRoot(Rounds), FinalDomain.size, opened)
         /\ BundlesFit(p, opened, K) /\ AllOk(answers)
         /\ \A i \in DOMAIN p :
              Evaluate(proof.final_polynomial, FinalDomain.points[p[i]]) = answers[i].value
  BY <1>1, <1>2, <1>7, <1>11 DEF FinalHolds
<1>14. \A i \in DOMAIN p : Evaluate(proof.final_polynomial, FinalDomain.points[p[i]]) = answers[i].value
  BY <1>2, <1>4, <1>12 DEF FoldsTo
<1> QED
  BY <1>1, <1>2, <1>5, <1>7, <1>9, <1>12, <1>13, <1>14 DEF FoldsTo

LEMMA UndamagedEnds ==
  ASSUME RingLaws, StirSetting, Undamaged, VerifyFinal
  PROVE  Undamaged'
<1>1. /\ pc = "final" /\ setup \in Setups /\ ValidStirInstance(Params, setup.domain, setup.degree)
      /\ Rounds \in Nat /\ round = Rounds /\ verdict # "reject"
  <2>1. pc = "final"
    BY DEF VerifyFinal
  <2>2. round = Rounds /\ verdict # "reject"
    BY <2>1 DEF StirSetting, Undamaged
  <2> QED
    BY <2>1, <2>2, SettingAt
<1>2. CASE damage # "none"
  <2>1. CASE Stop("reject")
    BY <1>2, <2>1, StopUndamaged
  <2>2. CASE ~Stop("reject")
    <3>1. pc' = "done" /\ damage' = damage
      BY <2>2 DEF VerifyFinal
    <3> QED
      BY <1>2, <3>1, StopsUndamaged
  <2> QED
    BY <2>1, <2>2
<1>3. CASE damage = "none"
  <2>1. PICK e, g : /\ Past(Rounds, e, g, memo, proof) /\ ClosedBy(e[Rounds], memo, proof)
                    /\ CheckingFrom(e[round])
    BY <1>1, <1>3 DEF Undamaged
  <2>2. PICK b : b = e[round]
    OBVIOUS
  <2>3. alpha = b.alpha /\ function = b.fn /\ transcript = b.t
    BY <1>1, <2>1, <2>2 DEF CheckingFrom
  <2>4. Serves(round, b) /\ ClosedBy(b, memo, proof)
    BY <1>1, <2>1, <2>2 DEF Past
  <2>5. CurrentRoot(Rounds) = Root(Bundles(b.table, 9))
    <3>1. Rounds \in 0 .. Rounds
      BY <1>1
    <3> QED
      BY <1>1, <2>1, <2>2, <3>1, CurrentRootIs
  <2>6. FinalBoundHolds
    BY <2>4 DEF FinalBoundHolds, ClosedBy
  <2>7. PICK d \in FinalDraws : /\ pc' = "done" /\ (FinalHolds(d.got[1]) => verdict' = "accept")
                                /\ SameSetup /\ round' = round /\ function' = function /\ damage' = damage
    BY <2>6 DEF VerifyFinal, SameSetup
  <2>8. FinalHolds(d.got[1]) \/ Excused
    <3>1. CASE Smooth(round, b.fn)
      BY <1>1, <2>3, <2>4, <2>5, <3>1, EndsAgain
    <3>2. CASE ~Smooth(round, b.fn)
      BY <2>3, <2>4, <3>2, ServesMode
    <3> QED
      BY <3>1, <3>2
  <2>9. verdict' = "reject" => Excused'
    <3>1. CASE FinalHolds(d.got[1])
      BY <2>7, <3>1
    <3>2. CASE Excused
      BY <2>7, <3>2, ExcusedStays
    <3> QED
      BY <2>8, <3>1, <3>2
  <2> QED
    BY <2>7, <2>9, StopsUndamaged
<1> QED
  BY <1>2, <1>3

LEMMA UndamagedStutters ==
  ASSUME Undamaged, UNCHANGED vars
  PROVE  Undamaged'
<1>1. /\ SameSetup /\ pc' = pc /\ damage' = damage /\ verdict' = verdict /\ round' = round
      /\ transcript' = transcript /\ memo' = memo /\ proof' = proof /\ alpha' = alpha
      /\ function' = function /\ current' = current /\ witness' = witness
  BY DEF vars, proving, SameSetup
<1>2. Excused => Excused'
  BY <1>1, ExcusedStays
<1>3. CASE pc \in {"fold", "answer", "finish"}
  <2>1. PICK e, g : Past(round, e, g, memo, proof) /\ ProvingFrom(e[round])
    BY <1>3 DEF Undamaged
  <2>2. PICK b, r : b = e[round] /\ r = round
    OBVIOUS
  <2>3. FoldedTable(r, b)' = FoldedTable(r, b)
    BY <1>1, RoundsStay
  <2>4. ProvingFrom(b)'
    BY <1>1, <2>1, <2>2, <2>3 DEF ProvingFrom, Fresh
  <2>5. PICK n, m, p : n = round /\ m = memo /\ p = proof
    OBVIOUS
  <2>6. /\ pc' \in {"fold", "answer", "finish"} /\ damage' = "none" /\ verdict' # "reject"
        /\ Past(n, e, g, m, p) /\ e[n] = b /\ round' = n /\ memo' = m /\ proof' = p
    BY <1>1, <1>3, <2>1, <2>2, <2>5 DEF Undamaged
  <2>7. ProvingFrom(e[n])'
    BY <2>4, <2>6
  <2> QED
    BY <1>1, <2>6, <2>7, ProvesUndamaged
<1>4. CASE damage = "none" /\ pc \in {"deliver", "verify", "check", "draw", "final"}
  <2>1. PICK e, g : /\ Past(Rounds, e, g, memo, proof) /\ ClosedBy(e[Rounds], memo, proof)
                    /\ pc \in {"check", "draw", "final"} => CheckingFrom(e[round])
    BY <1>4 DEF Undamaged
  <2>2. PICK b, n, m, p : b = e[round] /\ n = Rounds /\ m = memo /\ p = proof
    OBVIOUS
  <2>3. pc' \in {"check", "draw", "final"} => CheckingFrom(b)'
    BY <1>1, <2>1, <2>2 DEF CheckingFrom
  <2>4. pc' \in {"check", "draw", "final"} => CheckingFrom(e[round])'
    BY <1>1, <2>2, <2>3
  <2>5. Past(n, e, g, m, p) /\ ClosedBy(e[n], m, p) /\ Rounds = n /\ memo' = m /\ proof' = p
    BY <1>1, <2>1, <2>2
  <2>6. /\ pc' \in {"deliver", "verify", "check", "draw", "final"} /\ verdict' # "reject"
        /\ (pc' = "deliver" => damage' = "none") /\ (pc' = "verify" => transcript' = <<>>)
    BY <1>1, <1>4 DEF Undamaged
  <2> QED
    BY <1>1, <2>4, <2>5, <2>6, ClosedUndamaged
<1>5. CASE /\ pc \notin {"fold", "answer", "finish"}
           /\ ~(damage = "none" /\ pc \in {"deliver", "verify", "check", "draw", "final"})
  BY <1>1, <1>2, <1>5 DEF Undamaged
<1> QED
  BY <1>3, <1>4, <1>5

LEMMA UndamagedKeeps ==
  ASSUME RingLaws, StirSetting, ProverState, ProofState, VerifierState, Undamaged, [Next]_vars
  PROVE  Undamaged'
<1>1. CASE ProveStart \/ FoldRound \/ AnswerRound \/ ProveFinish
  BY <1>1, UndamagedStart, UndamagedFolds, UndamagedAnswers, UndamagedFinishes
<1>2. CASE pc = "deliver" /\ \E kind \in DamageKinds : Deliver(kind)
  BY <1>2, UndamagedDelivers
<1>3. CASE VerifyStart \/ VerifyRound \/ DrawRound \/ VerifyFinal
  BY <1>3, UndamagedVerifies, UndamagedOpens, UndamagedDraws, UndamagedEnds
<1>4. CASE UNCHANGED vars
  BY <1>4, UndamagedStutters
<1> QED
  BY <1>1, <1>2, <1>3, <1>4 DEF Next, Return

(* Completeness: the verifier accepts every proof an honest prover sends   *)
(* and nothing damages, whatever is drawn.  In theorem mode there is no    *)
(* exception; in prototype mode StirVerifier::verify rejects one only      *)
(* where degree_correction_eval meets a zero divisor, at a point of the    *)
(* round's domain, which the prover's multiplication of polynomials does   *)
(* not notice.                                                             *)
THEOREM IntactProofIsAccepted ==
  ASSUME RingLaws
  PROVE  Spec => []IntactIsAccepted
<1> DEFINE All == StirSetting /\ ProverState /\ ProofState /\ VerifierState /\ Undamaged
<1>1. Init => All
  BY SettingInit, ProverInit, ProofInit, VerifierInit, UndamagedInit
<1>2. All /\ [Next]_vars => All'
  BY SettingKeeps, ProverKeeps, ProofKeeps, VerifierKeeps, UndamagedKeeps
<1>3. All => IntactIsAccepted
  BY DEF Undamaged, Excused, Smooth, IntactIsAccepted
<1> QED
  BY <1>1, <1>2, <1>3, PTL DEF Spec
=============================================================================
