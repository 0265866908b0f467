--------------------------- MODULE FoldTableProofs ---------------------------
(***************************************************************************)
(* Proofs about FoldTable, for any ring, any table size and fold factor    *)
(* and any number of threads: whatever the order the threads work in, no   *)
(* two of them write the same slot, and under RingLaws the table they      *)
(* leave is the encoding of the folded polynomial.                         *)
(***************************************************************************)
EXTENDS FoldTable, RingFacts

(* The chunks are cut: where each one is, and that it has its part of the  *)
(* table ahead of it untouched.                                            *)
Cut ==
  /\ input.chunk \in Nat \ {0}
  /\ at = [b \in ChunkStarts |-> at[b]]
  /\ out = [s \in 0 .. FoldedSize - 1 |-> out[s]]

Untouched(b) == at[b] .. ChunkEnd(b) - 1

ChunkInv ==
  /\ Cut
  /\ \A b \in ChunkStarts : at[b] \in b .. ChunkEnd(b)
  /\ \A b \in ChunkStarts : \A s \in Untouched(b) : out[s] = Unset

(* A chunk has at least one slot, k or more of them.                       *)
LEMMA ChunkSizeType ==
  ASSUME NEW threads \in ThreadCounts
  PROVE  ChooseFoldChunkSize(threads) \in Nat \ {0}
<1> DEFINE dynamic == (FoldedSize + 4 * threads - 1) \div (4 * threads)
<1>1. FoldFactor \in Nat \ {0} /\ FoldedSize \in Nat /\ threads \in Nat \ {0}
  BY FoldTableAssumption DEF FoldedSize
<1>2. dynamic \in Nat
  <2> DEFINE x == FoldedSize + 4 * threads - 1
             y == 4 * threads
  <2>1. x \in Nat /\ y \in Nat \ {0}
    BY <1>1
  <2> HIDE DEF x, y
  <2>2. x \div y \in Nat
    BY <2>1
  <2> QED
    BY <2>2 DEF x, y
<1> HIDE DEF dynamic
<1>3. ChooseFoldChunkSize(threads) = IF dynamic > FoldFactor THEN dynamic ELSE FoldFactor
  BY DEF ChooseFoldChunkSize, dynamic
<1> QED
  BY <1>1, <1>2, <1>3

(* A chunk starts within the table and ends at the next start or the end.  *)
LEMMA ChunkBounds ==
  ASSUME input.chunk \in Nat \ {0}, NEW b \in ChunkStarts
  PROVE  /\ FoldedSize \in Nat /\ b \in 0 .. FoldedSize - 1 /\ b % input.chunk = 0
         /\ ChunkEnd(b) \in b + 1 .. FoldedSize /\ ChunkEnd(b) <= b + input.chunk
<1>1. FoldedSize \in Nat
  BY FoldTableAssumption DEF FoldedSize
<1>2. b \in 0 .. FoldedSize - 1 /\ b % input.chunk = 0
  BY DEF ChunkStarts
<1> QED
  BY <1>1, <1>2 DEF ChunkEnd

(* Chunks do not overlap: a later one starts where an earlier one ended    *)
(* or after it.                                                            *)
LEMMA ChunksApart ==
  ASSUME NEW c \in Nat \ {0}, NEW a \in Nat, NEW b \in Nat, a % c = 0, b % c = 0, a < b
  PROVE  a + c <= b
<1> DEFINE m == a \div c
           n == b \div c
<1>1. m \in Nat /\ n \in Nat /\ a = c * m /\ b = c * n
  OBVIOUS
<1> HIDE DEF m, n
<1>2. m < n
  BY <1>1
<1>3. c * (m + 1) <= c * n
  BY <1>1, <1>2
<1> QED
  BY <1>1, <1>3

(* Before any fold no chunk has begun and no slot is written.              *)
LEMMA InitEstablishesChunkInv == Init => ChunkInv
<1> SUFFICES ASSUME Init PROVE ChunkInv
  OBVIOUS
<1>1. PICK f \in Polynomials, offset \in Offsets, alpha \in Alphas, threads \in ThreadCounts :
        /\ input = [f |-> f, domain |-> TeichmullerCoset(offset, DomainSize),
                    alpha |-> alpha, chunk |-> ChooseFoldChunkSize(threads)]
        /\ out = [s \in 0 .. FoldedSize - 1 |-> Unset]
        /\ at = [b \in ChunkStarts |-> b]
  BY DEF Init
<1>2. input.chunk \in Nat \ {0}
  BY <1>1, ChunkSizeType
<1>3. \A b \in ChunkStarts : at[b] = b /\ ChunkEnd(b) \in b + 1 .. FoldedSize
                             /\ b \in 0 .. FoldedSize - 1 /\ FoldedSize \in Nat
  BY <1>1, <1>2, ChunkBounds
<1>4. \A s \in 0 .. FoldedSize - 1 : out[s] = Unset
  BY <1>1
<1> HIDE DEF ChunkStarts
<1> QED
  BY <1>1, <1>2, <1>3, <1>4 DEF ChunkInv, Cut, Untouched

(* A thread writes its own chunk's next slot, which nobody wrote before.   *)
LEMMA FoldSlotKeepsInv ==
  ASSUME ChunkInv, NEW b \in ChunkStarts, FoldSlot(b)
  PROVE  ChunkInv'
<1> DEFINE slot == at[b]
<1>1. PICK v :
        /\ at[b] < ChunkEnd(b) /\ input' = input
        /\ at' = [at EXCEPT ![b] = @ + 1] /\ out' = [out EXCEPT ![slot] = v]
  BY DEF FoldSlot
<1>2. /\ input.chunk \in Nat \ {0}
      /\ ChunkStarts' = ChunkStarts /\ \A a : ChunkEnd(a)' = ChunkEnd(a)
  BY <1>1 DEF ChunkInv, Cut, ChunkStarts, ChunkEnd
<1>3. \A a \in ChunkStarts :
        /\ FoldedSize \in Nat /\ a \in 0 .. FoldedSize - 1 /\ a % input.chunk = 0
        /\ ChunkEnd(a) \in a + 1 .. FoldedSize /\ ChunkEnd(a) <= a + input.chunk
        /\ at[a] \in a .. ChunkEnd(a)
  BY <1>2, ChunkBounds DEF ChunkInv
<1>4. Cut'
  BY <1>1, <1>2 DEF ChunkInv, Cut
<1>5. ASSUME NEW a \in ChunkStarts
      PROVE  at'[a] \in a .. ChunkEnd(a) /\ \A s \in Untouched(a)' : out'[s] = Unset
  <2>1. \A s \in Untouched(a) : out[s] = Unset /\ s \in 0 .. FoldedSize - 1
    BY <1>3 DEF ChunkInv, Untouched
  <2>2. CASE a = b
    <3>1. at'[a] = at[a] + 1
      BY <1>1, <2>2 DEF ChunkInv, Cut
    <3>2. Untouched(a)' \subseteq Untouched(a) /\ slot \notin Untouched(a)'
      BY <1>2, <1>3, <2>2, <3>1 DEF Untouched
    <3>3. at'[a] \in a .. ChunkEnd(a)
      BY <1>1, <1>3, <2>2, <3>1
    <3> QED
      BY <1>1, <2>1, <3>2, <3>3 DEF ChunkInv, Cut
  <2>3. CASE a # b
    <3>1. at'[a] = at[a] /\ Untouched(a)' = Untouched(a)
      BY <1>1, <1>2, <2>3 DEF ChunkInv, Cut, Untouched
    <3>2. slot \notin Untouched(a)
      <4>1. a + input.chunk <= b \/ b + input.chunk <= a
        BY <1>2, <1>3, <2>3, ChunksApart
      <4> QED
        BY <1>1, <1>2, <1>3, <4>1 DEF Untouched
    <3> QED
      BY <1>1, <1>3, <2>1, <3>1, <3>2 DEF ChunkInv, Cut
  <2> QED
    BY <2>2, <2>3
<1> QED
  BY <1>2, <1>4, <1>5 DEF ChunkInv

(* The calls around the folds keep the invariant, too.                     *)
LEMMA NextKeepsInv == ChunkInv /\ [Next]_vars => ChunkInv'
<1> SUFFICES ASSUME ChunkInv, [Next]_vars PROVE ChunkInv'
  OBVIOUS
<1>1. CASE UNCHANGED <<input, evals, out, at>>
  BY <1>1 DEF ChunkInv, Cut, Untouched, ChunkStarts, ChunkEnd
<1>2. CASE \E b \in ChunkStarts : FoldSlot(b)
  BY <1>2, FoldSlotKeepsInv
<1> QED
  BY <1>1, <1>2 DEF Next, StartChunk, Return, vars

(* No slot of the folded table is written twice, in any interleaving of    *)
(* any number of threads: their writes never meet.                         *)
THEOREM WritesNeverMeet == Spec => SlotsWrittenOnce
<1>1. Spec => []ChunkInv
  BY InitEstablishesChunkInv, NextKeepsInv, PTL DEF Spec
<1>2. ASSUME ChunkInv, [Next]_vars
      PROVE  \A b \in ChunkStarts : at'[b] # at[b] => out[at[b]] = Unset
  <2> SUFFICES ASSUME NEW b \in ChunkStarts, at'[b] # at[b] PROVE out[at[b]] = Unset
    OBVIOUS
  <2>1. at[b] \in b .. ChunkEnd(b) /\ ChunkEnd(b) \in Int /\ b \in Int
    BY <1>2, ChunkBounds DEF ChunkInv, Cut
  <2>2. PICK a \in ChunkStarts : at[a] < ChunkEnd(a) /\ at' = [at EXCEPT ![a] = @ + 1]
    BY <1>2 DEF Next, StartChunk, FoldSlot, Return, vars
  <2>3. a = b
    BY <1>2, <2>2 DEF ChunkInv, Cut
  <2>4. at[b] \in Untouched(b)
    BY <2>1, <2>2, <2>3 DEF Untouched
  <2> QED
    BY <1>2, <2>4 DEF ChunkInv
<1> QED
  BY <1>1, <1>2, PTL DEF Spec, SlotsWrittenOnce

-----------------------------------------------------------------------------
(* What the slots hold *)

(* A domain whose points can be interpolated on, and a polynomial and a    *)
(* challenge it is folded with.                                            *)
Foldable(d, f, alpha) ==
  /\ IsDomain(d) /\ IsTeichmuller(d.root) /\ d.size = DomainSize
  /\ IsPolynomial(f) /\ f.size <= DomainSize /\ alpha \in Ring

(* The base point of a slot's fiber, and the slot of the folded table.     *)
BaseAt(d, s) == Times(d.offset, Power(d.root, s))
SlotOf(d, f, alpha, s) ==
  Evaluate(PolyFold(f, FoldFactor, alpha), PowMap(d, FoldFactor).points[s])

(* The fold factor divides the table.                                      *)
LEMMA Slots ==
  /\ FoldFactor \in Nat \ {0} /\ DomainSize \in Nat \ {0} /\ DomainSize % FoldFactor = 0
  /\ FoldedSize \in Nat \ {0} /\ FoldedSize = DomainSize \div FoldFactor
  /\ DomainSize = FoldFactor * FoldedSize
<1>1. FoldFactor \in Nat \ {0} /\ DomainSize \in Nat \ {0} /\ DomainSize % FoldFactor = 0
  BY FoldTableAssumption
<1>2. DomainSize \div FoldFactor \in Nat \ {0} /\ DomainSize = FoldFactor * (DomainSize \div FoldFactor)
  BY <1>1, DividedBy
<1> QED
  BY <1>1, <1>2 DEF FoldedSize

(* The running inverse of a thread is that of the slot's base point.       *)
LEMMA RunningInverse ==
  ASSUME RingLaws, NEW d, IsDomain(d), NEW s \in Nat
  PROVE  /\ BaseAt(d, s) \in Ring /\ IsUnit(BaseAt(d, s))
         /\ Times(Inv(d.offset), Power(Inv(d.root), s)) = Inv(BaseAt(d, s))
         /\ Inv(BaseAt(d, s)) # 0
         /\ Times(Inv(BaseAt(d, s)), Inv(d.root)) = Inv(BaseAt(d, s + 1))
<1> DEFINE a == d.offset
           w == d.root
           p(n) == Times(a, Power(w, n))
           r(n) == Times(Inv(a), Power(Inv(w), n))
           one == OfInteger(1)
<1>1. a \in Ring /\ w \in Ring /\ IsUnit(a) /\ IsUnit(w)
  BY DEF IsDomain
<1> HIDE DEF a, w
<1>2. Inv(a) \in Ring /\ Inv(w) \in Ring
  BY <1>1, InverseInRing
<1>3. Times(a, Inv(a)) = one /\ Times(w, Inv(w)) = one /\ one \in Ring
  BY <1>1, InverseAssumption DEF RingLaws, Closed
<1>4. ASSUME NEW n \in Nat PROVE p(n) \in Ring /\ IsUnit(p(n)) /\ r(n) = Inv(p(n)) /\ r(n) \in Ring
  <2> DEFINE x == Power(w, n)
             y == Power(Inv(w), n)
  <2>1. x \in Ring /\ y \in Ring
    BY <1>1, <1>2, PowerSteps
  <2>2. Times(x, y) = one
    <3>1. Power(Times(w, Inv(w)), n) = Times(x, y)
      BY <1>1, <1>2, PowerOfProduct
    <3>2. Power(one, n) = one
      BY PowerOfOne
    <3> QED
      BY <1>3, <3>1, <3>2
  <2> HIDE DEF x, y
  <2>3. Times(a, x) \in Ring /\ Times(Inv(a), y) \in Ring
    BY <1>1, <1>2, <2>1 DEF RingLaws, Closed
  <2>4. Times(Times(a, x), Times(Inv(a), y)) = one
    <3>1. Times(Times(a, x), Times(Inv(a), y)) = Times(Times(a, Inv(a)), Times(x, y))
      BY <1>1, <1>2, <2>1, FourFactors
    <3> QED
      BY <1>3, <2>2, <3>1 DEF RingLaws, Multiplicative
  <2>5. IsUnit(Times(a, x)) /\ Inv(Times(a, x)) = Times(Inv(a), y)
    BY <2>3, <2>4, InverseIs
  <2> QED
    BY <2>3, <2>5 DEF x, y
<1>5. p(s) \in Ring /\ IsUnit(p(s)) /\ r(s) = Inv(p(s)) /\ r(s) \in Ring
  BY <1>4
<1>6. Inv(p(s)) # 0
  <2> DEFINE x == p(s)
  <2>1. x \in Ring /\ IsUnit(x)
    BY <1>5
  <2> HIDE DEF x
  <2>2. Times(x, Inv(x)) = one /\ Times(x, 0) = 0
    BY <2>1, InverseAssumption, TimesZero
  <2>3. one # 0
    BY DEF RingLaws, Counting
  <2> QED
    BY <2>2, <2>3 DEF x
<1>7. Times(r(s), Inv(w)) = r(s + 1)
  <2> DEFINE y == Power(Inv(w), s)
  <2>1. y \in Ring /\ Power(Inv(w), s + 1) = Times(y, Inv(w))
    BY <1>2, PowerSteps
  <2> HIDE DEF y
  <2>2. Times(Times(Inv(a), y), Inv(w)) = Times(Inv(a), Times(y, Inv(w)))
    BY <1>2, <2>1 DEF RingLaws, Multiplicative
  <2> QED
    BY <2>1, <2>2 DEF y
<1>8. s + 1 \in Nat
  OBVIOUS
<1>9. r(s + 1) = Inv(p(s + 1))
  BY <1>4, <1>8
<1>10. BaseAt(d, s) = p(s) /\ BaseAt(d, s + 1) = p(s + 1)
  BY DEF BaseAt, a, w
<1> QED
  BY <1>5, <1>6, <1>7, <1>9, <1>10 DEF a, w

(* With it a thread computes the slot.                                     *)
LEMMA ComputesSlot ==
  ASSUME RingLaws, NEW d, NEW f, NEW alpha, Foldable(d, f, alpha), NEW s \in 0 .. FoldedSize - 1,
         NEW root, root = Power(d.root, FoldedSize),
         NEW values, \A o \in 0 .. FoldFactor - 1 : values[o] = Encode(d, f)[s + o * FoldedSize]
  PROVE  EvaluateStructuredFiber([i \in 0 .. FoldFactor - 1 |-> Power(root, i)], values, FoldFactor,
                                 Times(alpha, Inv(BaseAt(d, s))))
           = SlotOf(d, f, alpha, s)
<1> DEFINE k == FoldFactor
           m == FoldedSize
           n == d.size
           p == BaseAt(d, s)
           pts == FiberOf(d, s, m, k)
           y == PowMap(d, k).points[s]
           slot(o) == s + o * m
<1>1. /\ k \in Nat \ {0} /\ m \in Nat \ {0} /\ n = k * m /\ n \in Nat \ {0} /\ n % k = 0 /\ m = n \div k
      /\ s \in Nat /\ s \in 0 .. m - 1 /\ k \in Nat /\ k # 0
  BY Slots DEF Foldable
<1>2. IsDomain(d) /\ d.root \in Ring /\ IsUnit(d.root) /\ IsPolynomial(f) /\ alpha \in Ring
      /\ IsTeichmuller(d.root) /\ d.offset \in Ring
  BY DEF Foldable, IsDomain
<1>3. p \in Ring /\ IsUnit(p)
  BY <1>1, <1>2, RunningInverse
<1>4. root \in Ring /\ Power(root, k) = OfInteger(1)
  <2>1. HasExactOrder(d.root, n)
    BY <1>2 DEF IsDomain
  <2>2. Power(d.root, n) = OfInteger(1)
    BY <2>1 DEF HasExactOrder
  <2> DEFINE w == d.root
  <2>3. w \in Ring /\ k \in Nat /\ m \in Nat /\ root = Power(w, m) /\ Power(w, n) = OfInteger(1)
    BY <1>1, <1>2, <2>2
  <2>4. m * k = n
    BY <1>1
  <2> HIDE DEF k, m, n, w
  <2>5. Power(w, m * k) = Power(Power(w, m), k)
    BY <2>3, PowerOfPower
  <2>6. Power(w, m) \in Ring
    BY <2>3, PowerSteps
  <2> QED
    BY <2>3, <2>4, <2>5, <2>6
<1>5. Apart(pts, k)
  <2>1. Apart(d.points, d.size)
    BY <1>2, CosetApart
  <2> HIDE DEF k, m
  <2> QED
    BY <1>1, <1>2, <2>1, FiberOfApart DEF n
<1>6. \A o \in 0 .. k - 1 : slot(o) \in 0 .. n - 1
  <2> HIDE DEF k, m, n
  <2>1. /\ n \in Nat \ {0} /\ k \in Nat \ {0} /\ n % k = 0
        /\ m = n \div k /\ s \in 0 .. m - 1
    BY <1>1
  <2>2. \A o \in 0 .. k - 1 : s + o * m \in 0 .. n - 1
    BY <2>1, FiberIndices
  <2> QED
    BY <2>2
<1>7. \A o \in 0 .. k - 1 : pts[o] = d.points[slot(o)]
  BY DEF FiberOf
<1>8. ASSUME NEW o \in 0 .. k - 1 PROVE pts[o] = Times(p, Power(root, o))
  <2> DEFINE w == d.root
             a == d.offset
  <2>1. o \in Nat /\ o * m \in Nat /\ m \in Nat /\ slot(o) \in 0 .. n - 1 /\ m * o = o * m
    BY <1>1, <1>6
  <2>2. pts[o] = Times(a, Power(w, slot(o)))
    BY <1>2, <1>7, <2>1, PointsOfDomain
  <2>3. w \in Ring /\ a \in Ring /\ root = Power(w, m)
    BY <1>2
  <2> HIDE DEF w, m
  <2>4. Power(w, s + o * m) = Times(Power(w, s), Power(w, o * m))
    BY <1>1, <2>1, <2>3, PowerAdds
  <2>5. Power(w, m * o) = Power(root, o)
    BY <2>1, <2>3, PowerOfPower
  <2>6. Power(w, s) \in Ring /\ Power(root, o) \in Ring
    BY <1>1, <1>4, <2>1, <2>3, PowerSteps
  <2>7. Times(a, Times(Power(w, s), Power(root, o))) = Times(Times(a, Power(w, s)), Power(root, o))
    BY <2>3, <2>6 DEF RingLaws, Multiplicative
  <2>8. p = Times(a, Power(w, s))
    BY DEF BaseAt, w
  <2> QED
    BY <2>1, <2>2, <2>4, <2>5, <2>7, <2>8
<1>9. y \in Ring /\ \A o \in 0 .. k - 1 : Power(pts[o], k) = y
  <2>1. /\ d.size % k = 0 /\ m = d.size \div k /\ k \in Nat \ {0} /\ s \in 0 .. m - 1
        /\ IsDomain(d)
    BY <1>1, <1>2
  <2> HIDE DEF k, m
  <2>2. /\ PowMap(d, k).points[s] \in Ring
        /\ \A o \in 0 .. k - 1 : Power(FiberOf(d, s, m, k)[o], k) = PowMap(d, k).points[s]
    BY <2>1, FiberFacts
  <2> QED
    BY <2>2
<1>10. \A o \in 0 .. k - 1 : pts[o] \in Ring
  BY <1>5 DEF Apart
<1>11. \A o \in 0 .. k - 1 : values[o] = Evaluate(f, pts[o]) /\ values[o] \in Ring
  <2>1. \A i \in 0 .. n - 1 : Encode(d, f)[i] = Evaluate(f, d.points[i])
    BY DEF Encode
  <2>2. \A z \in Ring : Evaluate(f, z) \in Ring
    BY <1>2, EvaluateIsValue
  <2>3. \A o \in 0 .. k - 1 : values[o] = Encode(d, f)[slot(o)]
    OBVIOUS
  <2> HIDE DEF slot, pts, n
  <2> QED
    BY <1>6, <1>7, <1>10, <2>1, <2>2, <2>3
<1> HIDE DEF k, p, pts, y
<1>12. EvaluateStructuredFiber([i \in 0 .. k - 1 |-> Power(root, i)], values, k, Times(alpha, Inv(p)))
         = EvaluateGenericFiber(pts, values, k, alpha)
  BY <1>1, <1>2, <1>3, <1>4, <1>5, <1>8, <1>11, StructuredIsGeneric
<1>13. FoldEvalK(pts, values, k, alpha) = EvaluateGenericFiber(pts, values, k, alpha)
  BY <1>1, <1>2, <1>5, <1>11, FoldIsLagrange
<1>14. FoldEvalK(pts, values, k, alpha) = Evaluate(PolyFold(f, k, alpha), y)
  BY <1>1, <1>2, <1>5, <1>9, <1>11, FoldOfValues
<1> QED
  BY <1>12, <1>13, <1>14 DEF SlotOf, k, p, y

(* The call's arguments, the running inverses, and the slots behind.       *)
TableGiven ==
  /\ Foldable(input.domain, input.f, input.alpha)
  /\ evals = Encode(input.domain, input.f)

InversesRun ==
  /\ inverse = [b \in ChunkStarts |-> inverse[b]]
  /\ \A b \in ChunkStarts :
       /\ inverse[b] = 0 => at[b] = b
       /\ inverse[b] # 0 => inverse[b] = Inv(BaseAt(input.domain, at[b]))

FoldedBehind ==
  \A b \in ChunkStarts : \A s \in b .. at[b] - 1 :
    out[s] = SlotOf(input.domain, input.f, input.alpha, s)

SlotsHold == TableGiven /\ InversesRun /\ FoldedBehind

(* Nothing is folded at first.                                             *)
LEMMA InitEstablishesSlots == Init => SlotsHold
<1> SUFFICES ASSUME Init PROVE SlotsHold
  OBVIOUS
<1>1. PICK f \in Polynomials, offset \in Offsets, alpha \in Alphas, threads \in ThreadCounts :
        /\ input = [f |-> f, domain |-> TeichmullerCoset(offset, DomainSize),
                    alpha |-> alpha, chunk |-> ChooseFoldChunkSize(threads)]
        /\ evals = Encode(input.domain, f)
        /\ at = [b \in ChunkStarts |-> b]
        /\ inverse = [b \in ChunkStarts |-> 0]
  BY DEF Init
<1>2. TableGiven
  <2> DEFINE d == TeichmullerCoset(offset, DomainSize)
  <2>1. /\ f.size \in 0 .. DomainSize /\ \A i \in 0 .. f.size - 1 : f.at[i] \in Ring
        /\ alpha \in Ring /\ IsDomain(d) /\ IsTeichmuller(d.root) /\ DomainSize \in Nat
    BY InputsAssumption, FoldTableAssumption
  <2>2. d.size = DomainSize
    BY DEF TeichmullerCoset, MakeDomain
  <2> HIDE DEF d
  <2>3. f.size \in Nat /\ f.size <= DomainSize
    BY <2>1
  <2>4. Foldable(d, f, alpha)
    BY <2>1, <2>2, <2>3 DEF Foldable, IsPolynomial
  <2>5. input.domain = d /\ input.f = f /\ input.alpha = alpha
    BY <1>1 DEF d
  <2> QED
    BY <1>1, <2>4, <2>5 DEF TableGiven
<1>3. \A b \in ChunkStarts : at[b] = b /\ inverse[b] = 0 /\ b \in Int
  BY <1>1 DEF ChunkStarts
<1> HIDE DEF ChunkStarts
<1>4. InversesRun
  BY <1>1, <1>3 DEF InversesRun
<1>5. FoldedBehind
  BY <1>3 DEF FoldedBehind
<1> QED
  BY <1>2, <1>4, <1>5 DEF SlotsHold

(* Neither of these changes what the call was given.                       *)
LEMMA SameCall ==
  ASSUME UNCHANGED <<input, evals>>
  PROVE  /\ (TableGiven => TableGiven')
         /\ ChunkStarts' = ChunkStarts
         /\ \A s : /\ SlotOf(input.domain, input.f, input.alpha, s)' = SlotOf(input.domain, input.f, input.alpha, s)
                   /\ BaseAt(input.domain, s)' = BaseAt(input.domain, s)
  BY DEF TableGiven, ChunkStarts

(* A thread that takes a chunk has the inverse of its first base point.    *)
LEMMA StartChunkKeepsSlots ==
  ASSUME RingLaws, ChunkInv, SlotsHold, NEW b \in ChunkStarts, StartChunk(b)
  PROVE  SlotsHold'
<1> DEFINE d == input.domain
<1>1. /\ inverse[b] = 0 /\ inverse' = [inverse EXCEPT ![b] = Times(OffsetInverse, Power(RootInverse, b))]
      /\ UNCHANGED <<input, evals, out, at>>
  BY DEF StartChunk
<1>2. TableGiven' /\ ChunkStarts' = ChunkStarts
      /\ (\A s : BaseAt(input.domain, s)' = BaseAt(d, s))
  BY <1>1, SameCall DEF SlotsHold
<1>3. b \in Nat /\ IsDomain(d) /\ at[b] = b
  <2>1. b \in 0 .. FoldedSize - 1
    BY DEF ChunkStarts
  <2> QED
    BY <1>1, <2>1 DEF SlotsHold, TableGiven, Foldable, InversesRun
<1>4. Times(OffsetInverse, Power(RootInverse, b)) = Inv(BaseAt(d, b)) /\ Inv(BaseAt(d, b)) # 0
  BY <1>3, RunningInverse DEF OffsetInverse, RootInverse
<1>5. inverse' = [inverse EXCEPT ![b] = Inv(BaseAt(d, b))]
  BY <1>1, <1>4
<1>6. ASSUME NEW a \in ChunkStarts
      PROVE  /\ inverse'[a] = 0 => at'[a] = a
             /\ inverse'[a] # 0 => inverse'[a] = Inv(BaseAt(input.domain, at[a]))'
  <2>1. CASE a = b
    BY <1>1, <1>2, <1>3, <1>4, <1>5, <2>1 DEF SlotsHold, InversesRun
  <2>2. CASE a # b
    <3>1. inverse'[a] = inverse[a]
      BY <1>5, <2>2 DEF SlotsHold, InversesRun
    <3> QED
      BY <1>1, <1>2, <3>1 DEF SlotsHold, InversesRun
  <2> QED
    BY <2>1, <2>2
<1>7. inverse' = [a \in ChunkStarts |-> inverse'[a]]
  BY <1>5 DEF SlotsHold, InversesRun
<1>8. InversesRun'
  BY <1>2, <1>6, <1>7 DEF InversesRun
<1>9. FoldedBehind'
  BY <1>1, <1>2, SameCall DEF SlotsHold, FoldedBehind
<1> QED
  BY <1>2, <1>8, <1>9 DEF SlotsHold

(* A thread that folds a slot writes what belongs there.                   *)
LEMMA FoldSlotKeepsSlots ==
  ASSUME RingLaws, ChunkInv, SlotsHold, NEW b \in ChunkStarts, FoldSlot(b)
  PROVE  SlotsHold'
<1> DEFINE d == input.domain
           slot == at[b]
           value == EvaluateStructuredFiber(FiberRoots, FiberValues(slot), FoldFactor,
                                            Times(input.alpha, inverse[b]))
           right(s) == SlotOf(input.domain, input.f, input.alpha, s)
<1>1. /\ inverse[b] # 0 /\ slot < ChunkEnd(b)
      /\ out' = [out EXCEPT ![slot] = value] /\ at' = [at EXCEPT ![b] = @ + 1]
      /\ inverse' = [inverse EXCEPT ![b] = Times(@, RootInverse)]
      /\ UNCHANGED <<input, evals>>
  BY DEF FoldSlot
<1>2. /\ TableGiven' /\ ChunkStarts' = ChunkStarts
      /\ \A s : SlotOf(input.domain, input.f, input.alpha, s)' = right(s)
      /\ \A s : BaseAt(input.domain, s)' = BaseAt(d, s)
  BY <1>1, SameCall DEF SlotsHold
<1>3. \A a \in ChunkStarts :
        /\ FoldedSize \in Nat /\ a \in 0 .. FoldedSize - 1 /\ a % input.chunk = 0
        /\ ChunkEnd(a) \in a + 1 .. FoldedSize /\ ChunkEnd(a) <= a + input.chunk
        /\ at[a] \in a .. ChunkEnd(a) /\ input.chunk \in Nat \ {0}
  BY ChunkBounds DEF ChunkInv, Cut
<1>4. slot \in 0 .. FoldedSize - 1 /\ slot \in Nat
  BY <1>1, <1>3
<1>5. Foldable(d, input.f, input.alpha) /\ IsDomain(d) /\ evals = Encode(d, input.f)
      /\ inverse[b] = Inv(BaseAt(d, slot))
  BY <1>1 DEF SlotsHold, TableGiven, InversesRun, Foldable
<1>6. value = right(slot)
  <2> DEFINE root == Power(d.root, FoldedSize)
             values == FiberValues(slot)
  <2>1. \A o \in 0 .. FoldFactor - 1 : values[o] = Encode(d, input.f)[slot + o * FoldedSize]
    BY <1>5 DEF FiberValues
  <2>2. FiberRoots = [i \in 0 .. FoldFactor - 1 |-> Power(root, i)]
    BY DEF FiberRoots
  <2> HIDE DEF values, root, slot, d
  <2>3. root = Power(d.root, FoldedSize)
    BY DEF root
  <2>4. EvaluateStructuredFiber([i \in 0 .. FoldFactor - 1 |-> Power(root, i)], values, FoldFactor,
                                Times(input.alpha, Inv(BaseAt(d, slot))))
          = SlotOf(d, input.f, input.alpha, slot)
    BY <1>4, <1>5, <2>1, <2>3, ComputesSlot
  <2> QED
    BY <1>5, <2>2, <2>4 DEF d, values, slot
<1> HIDE DEF value
<1>7. ASSUME NEW a \in ChunkStarts
      PROVE  /\ inverse'[a] = 0 => at'[a] = a
             /\ inverse'[a] # 0 => inverse'[a] = Inv(BaseAt(input.domain, at[a]))'
  <2>1. CASE a = b
    <3>1. at'[a] = slot + 1 /\ inverse'[a] = Times(inverse[b], RootInverse)
      BY <1>1, <2>1 DEF ChunkInv, Cut, SlotsHold, InversesRun
    <3>2. Times(Inv(BaseAt(d, slot)), Inv(d.root)) = Inv(BaseAt(d, slot + 1))
      BY <1>4, <1>5, RunningInverse
    <3>3. Inv(BaseAt(d, slot + 1)) # 0
      <4>1. slot + 1 \in Nat
        BY <1>4
      <4> QED
        BY <1>5, <4>1, RunningInverse
    <3> QED
      BY <1>2, <1>5, <3>1, <3>2, <3>3 DEF RootInverse
  <2>2. CASE a # b
    <3>1. inverse'[a] = inverse[a] /\ at'[a] = at[a]
      BY <1>1, <2>2 DEF ChunkInv, Cut, SlotsHold, InversesRun
    <3> QED
      BY <1>2, <3>1 DEF SlotsHold, InversesRun
  <2> QED
    BY <2>1, <2>2
<1>8. inverse' = [a \in ChunkStarts |-> inverse'[a]]
  BY <1>1 DEF SlotsHold, InversesRun
<1>9. InversesRun'
  BY <1>2, <1>7, <1>8 DEF InversesRun
<1>10. ASSUME NEW a \in ChunkStarts, NEW s \in a .. at'[a] - 1
       PROVE  out'[s] = right(s)
  <2>1. CASE s = slot
    <3>1. out'[slot] = value
      BY <1>1, <1>4 DEF ChunkInv, Cut
    <3> QED
      BY <1>6, <2>1, <3>1
  <2>2. CASE s # slot
    <3>1. out'[s] = out[s]
      BY <1>1, <2>2 DEF ChunkInv, Cut
    <3>2. s \in a .. at[a] - 1
      <4>1. CASE a = b
        <5>1. at'[a] = at[a] + 1
          BY <1>1, <4>1 DEF ChunkInv, Cut
        <5> QED
          BY <1>3, <2>2, <4>1, <5>1
      <4>2. CASE a # b
        <5>1. at'[a] = at[a]
          BY <1>1, <4>2 DEF ChunkInv, Cut
        <5> QED
          BY <5>1
      <4> QED
        BY <4>1, <4>2
    <3> QED
      BY <3>1, <3>2 DEF SlotsHold, FoldedBehind
  <2> QED
    BY <2>1, <2>2
<1>11. FoldedBehind'
  BY <1>2, <1>10 DEF FoldedBehind
<1> QED
  BY <1>2, <1>9, <1>11 DEF SlotsHold

(* Every step of every worker keeps it.                                    *)
LEMMA NextKeepsSlots ==
  ASSUME RingLaws, ChunkInv, SlotsHold, [Next]_vars
  PROVE  SlotsHold'
<1>1. CASE UNCHANGED vars
  <2>1. UNCHANGED <<input, evals, out, at, inverse>>
    BY <1>1 DEF vars
  <2> QED
    BY <2>1 DEF SlotsHold, TableGiven, InversesRun, FoldedBehind, ChunkStarts
<1>2. CASE \E b \in ChunkStarts : StartChunk(b) \/ FoldSlot(b)
  BY <1>2, StartChunkKeepsSlots, FoldSlotKeepsSlots
<1> QED
  BY <1>1, <1>2 DEF Next, Return

(* Every slot is in a chunk.                                               *)
LEMMA SlotInChunk ==
  ASSUME NEW c \in Nat \ {0}, NEW s \in Nat
  PROVE  \E b \in 0 .. s : b % c = 0 /\ s < b + c
<1> DEFINE q == s \div c
           r == s % c
<1>1. q \in Nat /\ r \in 0 .. c - 1 /\ s = c * q + r
  OBVIOUS
<1> HIDE DEF q, r
<1>2. c * q \in Nat /\ (c * q) % c = 0
  BY <1>1, MultipleOf
<1>3. c * q \in 0 .. s /\ s < c * q + c
  BY <1>1, <1>2
<1> QED
  BY <1>2, <1>3

(* The degree is divided by the fold factor.                               *)
LEMMA DegreeDivided ==
  ASSUME NEW k \in Nat \ {0}, NEW n \in Nat, NEW m, m = (n + k - 1) \div k, NEW g \in Nat, g <= m
  PROVE  (IF g = 0 THEN 0 ELSE g - 1) <= (IF n = 0 THEN 0 ELSE n - 1) \div k
<1>1. CASE n = 0
  <2>1. m = 0 /\ 0 \div k = 0
    BY <1>1
  <2> QED
    BY <1>1, <2>1
<1>2. CASE n # 0
  <2> DEFINE q == (n - 1) \div k
             r == (n - 1) % k
  <2>1. q \in Nat /\ r \in 0 .. k - 1 /\ n - 1 = k * q + r
    BY <1>2
  <2> HIDE DEF q, r
  <2>2. k * (q + 1) = k * q + k
    BY <2>1
  <2>3. n + k - 1 = k * (q + 1) + r /\ q + 1 \in Nat
    BY <2>1, <2>2
  <2>4. m = q + 1
    BY <2>1, <2>3
  <2>5. g - 1 <= q /\ 0 <= q
    BY <2>1, <2>4
  <2> QED
    BY <1>2, <2>5 DEF q
<1> QED
  BY <1>1, <1>2

(* Two polynomials that the constructor trimmed and that have the same     *)
(* coefficients are the same.                                              *)
LEMMA SamePolynomial ==
  ASSUME NEW s \in Nat, NEW t \in Nat, NEW a, NEW b, NEW f, NEW g, f = Trim(s, a), g = Trim(t, b),
         f.size = g.size, \A j \in Nat : Coefficients(f)[j] = Coefficients(g)[j]
  PROVE  f = g
<1>1. /\ f.size \in Nat /\ f.at = [i \in 0 .. f.size - 1 |-> a[i]]
      /\ g.size \in Nat /\ g.at = [i \in 0 .. g.size - 1 |-> b[i]]
  BY TrimIs
<1>2. f = [size |-> f.size, at |-> f.at] /\ g = [size |-> g.size, at |-> g.at]
  <2>1. \A n, c : Trim(n, c) = [size |-> Trim(n, c).size, at |-> Trim(n, c).at]
    BY DEF Trim
  <2> QED
    BY <2>1
<1>3. ASSUME NEW i \in 0 .. f.size - 1 PROVE f.at[i] = g.at[i]
  <2>1. i \in Nat /\ i < f.size /\ i < g.size
    BY <1>1
  <2>2. Coefficients(f)[i] = f.at[i] /\ Coefficients(g)[i] = g.at[i]
    BY <2>1 DEF Coefficients
  <2> QED
    BY <2>1, <2>2
<1>4. f.at = g.at
  <2>1. /\ f.at = [i \in 0 .. f.size - 1 |-> f.at[i]]
        /\ g.at = [i \in 0 .. f.size - 1 |-> g.at[i]]
    <3>1. /\ f.at = [i \in 0 .. f.size - 1 |-> a[i]]
          /\ g.at = [i \in 0 .. f.size - 1 |-> b[i]]
      BY <1>1
    <3> QED
      BY <3>1
  <2> QED
    BY <1>3, <2>1
<1> QED
  BY <1>2, <1>4

(* When all chunks are done the table is the encoding of the folded        *)
(* polynomial, and interpolating it gives that polynomial back.            *)
LEMMA FoldedTable ==
  ASSUME RingLaws, ChunkInv, SlotsHold, Folded
  PROVE  TableEncodesFold
<1> DEFINE d == input.domain
           f == input.f
           alpha == input.alpha
           k == FoldFactor
           image == PowMap(d, k)
           g == PolyFold(f, k, alpha)
           h == Interpolate(image.points, out, FoldedSize)
           c == input.chunk
           e(s) == Evaluate(g, image.points[s])
           m == FoldedSize
<1>1. /\ k \in Nat \ {0} /\ k \in Nat /\ k # 0 /\ m \in Nat \ {0} /\ m = DomainSize \div k
      /\ DomainSize % k = 0 /\ DomainSize = k * m /\ DomainSize \in Nat
  BY Slots
<1>2. /\ IsDomain(d) /\ IsTeichmuller(d.root) /\ d.size = DomainSize /\ IsPolynomial(f)
      /\ f.size <= DomainSize /\ alpha \in Ring /\ f.size \in Nat
      /\ c \in Nat \ {0} /\ out = [s \in 0 .. FoldedSize - 1 |-> out[s]]
      /\ d.root \in Ring /\ IsUnit(d.root)
  BY DEF SlotsHold, TableGiven, Foldable, ChunkInv, Cut, IsPolynomial, IsDomain
<1>3. ASSUME NEW s \in 0 .. m - 1 PROVE out[s] = e(s)
  <2>1. s \in Nat
    BY <1>1
  <2>2. PICK b \in 0 .. s : b % c = 0 /\ s < b + c
    BY <1>2, <2>1, SlotInChunk
  <2>3. b \in ChunkStarts
    BY <1>1, <2>1, <2>2 DEF ChunkStarts
  <2>4. at[b] = ChunkEnd(b) /\ s < ChunkEnd(b)
    BY <1>1, <1>2, <2>1, <2>2, <2>3 DEF Folded, ChunkEnd
  <2>5. s \in b .. at[b] - 1
    <3>1. at[b] \in Int
      BY <1>2, <2>3, <2>4, ChunkBounds
    <3> QED
      BY <2>1, <2>2, <2>4, <3>1
  <2> QED
    BY <2>3, <2>5 DEF SlotsHold, FoldedBehind, SlotOf
<1> HIDE DEF d, f, alpha, k, m
<1>4. image.size = m /\ IsDomain(image) /\ image.root = Power(d.root, k)
  BY <1>1, <1>2, PowMapParts, PowMapIsDomain
<1>5. Apart(image.points, m)
  <2>1. IsTeichmuller(image.root)
    BY <1>1, <1>2, <1>4, TeichmullerPower
  <2> HIDE DEF image
  <2>2. Apart(image.points, image.size)
    BY <1>4, <2>1, CosetApart
  <2> QED
    BY <1>4, <2>2
<1>6. PICK n \in Nat : \E w \in Coeffs : FoldsInto(f, k, alpha, n, w)
  <2>1. IsPolynomial(f) /\ k \in Nat /\ k # 0 /\ alpha \in Ring
    BY <1>1, <1>2
  <2> QED
    BY <2>1, PolyFoldIs
<1>7. n = (f.size + k - 1) \div k /\ IsPolynomial(g) /\ g.size <= n /\ Trimmed(g) /\ g.size \in Nat
  BY <1>6 DEF FoldsInto, IsPolynomial
<1>8. n <= m
  <2>1. k * n <= f.size + k - 1
    <3> DEFINE x == f.size + k - 1
    <3>1. x \in Nat /\ n = x \div k
      <4>1. f.size \in Nat /\ k \in Nat \ {0}
        BY <1>1, <1>2
      <4>2. x \in Nat
        BY <4>1
      <4>3. n = x \div k
        BY <1>7
      <4> QED
        BY <4>2, <4>3
    <3> HIDE DEF x
    <3>2. k * (x \div k) <= x
      BY <1>1, <3>1
    <3> QED
      BY <3>1, <3>2 DEF x
  <2>2. k * n < k * (m + 1)
    <3>1. k * (m + 1) = k * m + k
      BY <1>1
    <3> QED
      BY <1>1, <1>2, <2>1, <3>1
  <2>3. n < m + 1
    BY <1>1, <2>2
  <2> QED
    BY <1>1, <2>3
<1> HIDE DEF image, g
<1>9. out = Encode(image, g)
  <2>1. Encode(image, g) = [s \in 0 .. m - 1 |-> e(s)]
    BY <1>4 DEF Encode
  <2>2. out = [s \in 0 .. m - 1 |-> out[s]]
    BY <1>2 DEF m
  <2> HIDE DEF e
  <2> QED
    BY <1>3, <2>1, <2>2
<1>10. \A s \in 0 .. m - 1 : image.points[s] \in Ring /\ e(s) \in Ring
  <2>1. \A s \in 0 .. m - 1 : image.points[s] \in Ring
    BY <1>5 DEF Apart
  <2> QED
    BY <1>7, <2>1, EvaluateIsValue
<1>11. \A s \in 0 .. m - 1 : out[s] \in Ring
  BY <1>3, <1>10
<1>12. /\ IsPolynomial(h) /\ h.size <= m /\ Trimmed(h) /\ h.size \in Nat
       /\ \A s \in 0 .. m - 1 : Evaluate(h, image.points[s]) = out[s]
  <2>1. m \in Nat
    BY <1>1
  <2>2. h = Interpolate(image.points, out, m)
    BY DEF m
  <2> HIDE DEF h
  <2>3. /\ IsPolynomial(h) /\ h.size <= m /\ Trimmed(h)
        /\ \A s \in 0 .. m - 1 : Evaluate(h, image.points[s]) = out[s]
    BY <1>5, <1>11, <2>1, <2>2, InterpolateFacts
  <2> QED
    BY <2>3 DEF IsPolynomial
<1>13. h = g
  <2>1. PICK a : h = Trim(m, a)
    BY DEF Interpolate, h, m
  <2>2. PICK b : g = Trim((f.size + k - 1) \div k, b)
    BY DEF PolyFold, g
  <2> HIDE DEF h
  <2>3. \A s \in 0 .. m - 1 : Evaluate(h, image.points[s]) = Evaluate(g, image.points[s])
    BY <1>3, <1>12
  <2>4. g.size <= m /\ m \in Nat
    BY <1>1, <1>7, <1>8
  <2>5. (\A j \in Nat : Coefficients(h)[j] = Coefficients(g)[j]) /\ h.size <= g.size
    BY <1>5, <1>7, <1>12, <2>3, <2>4, AgreeingPolynomials
  <2>6. g.size <= h.size
    <3>1. \A s \in 0 .. m - 1 : Evaluate(g, image.points[s]) = Evaluate(h, image.points[s])
      BY <2>3
    <3> QED
      BY <1>5, <1>7, <1>12, <2>4, <3>1, AgreeingPolynomials
  <2>7. h.size = g.size
    BY <1>7, <1>12, <2>5, <2>6
  <2> QED
    BY <1>6, <1>7, <2>1, <2>2, <2>4, <2>5, <2>7, SamePolynomial
<1>14. Degree(g) <= Degree(f) \div k
  BY <1>1, <1>2, <1>7, DegreeDivided DEF Degree
<1> QED
  BY <1>4, <1>9, <1>13, <1>14 DEF TableEncodesFold, d, f, alpha, k, m, image, g, h

(* However the threads interleave, folding a table gives the encoding of   *)
(* the folded polynomial over the powers of the domain, for every ring     *)
(* with the laws, every polynomial, domain, challenge and fold factor.     *)
THEOREM FoldedTableIsEncoding ==
  ASSUME RingLaws PROVE Spec => []TableEncodesFold
<1>1. ChunkInv /\ SlotsHold => TableEncodesFold
  <2> SUFFICES ASSUME ChunkInv, SlotsHold, ~Folded PROVE TableEncodesFold
    BY FoldedTable
  <2> QED
    BY DEF TableEncodesFold
<1>2. ChunkInv /\ SlotsHold /\ [Next]_vars => ChunkInv' /\ SlotsHold'
  BY NextKeepsInv, NextKeepsSlots
<1> QED
  BY <1>1, <1>2, InitEstablishesChunkInv, InitEstablishesSlots, PTL DEF Spec
=============================================================================
