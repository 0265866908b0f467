----------------------------- MODULE StirRules ------------------------------
(***************************************************************************)
(* What STIR validates, samples, sends and checks, as operators: the round *)
(* and query schedules, the pools out-of-domain points come from, the      *)
(* answer, shake and quotient polynomials, and degree correction.          *)
(*                                                                         *)
(* params: [virtual_fold_factor, shift_power, ood_samples, stop_degree,    *)
(*          query_repetitions (a sequence), sec_mode, effective_bits,      *)
(*          protocol_mode, theorem_sampling]                               *)
(***************************************************************************)
EXTENDS FriRules

Least(a, b) == IF a <= b THEN a ELSE b
SaturatingSubtract(a, b) == IF a >= b THEN a - b ELSE 0

-----------------------------------------------------------------------------
(* Schedules *)

(* Domain::scale_offset: another coset, a power_factor-th of the size. *)
ScaleOffset(d, factor) ==
  MakeDomain(Times(d.offset, d.root), Power(d.root, factor), d.size \div factor)

(* Mutant: the bound rounds down. *)
MutBoundRoundsDown(bound, k) == (bound + 1) \div k - 1

(* folded_degree_bound: ceil((bound + 1) / k) - 1. *)
FoldedDegreeBound(bound, k) == (bound + k) \div k - 1

(* The bound and the size after r rounds. *)
BoundAfter(params, degree, r) ==
  LET b[i \in 0 .. r] ==
        IF i = 0 THEN degree ELSE FoldedDegreeBound(b[i - 1], params.virtual_fold_factor)
  IN  b[r]
SizeAfter(params, size, r) ==
  LET n[i \in 0 .. r] == IF i = 0 THEN size ELSE n[i - 1] \div params.shift_power
  IN  n[r]

(* folding_round_count, and when it throws. *)
StirRoundCount(params, degree) ==
  CHOOSE r \in 0 .. degree :
    /\ BoundAfter(params, degree, r) <= params.stop_degree
    /\ \A s \in 0 .. r - 1 : BoundAfter(params, degree, s) > params.stop_degree

ChainDivides(params, size, degree) ==
  \A r \in 0 .. StirRoundCount(params, degree) - 1 :
    /\ SizeAfter(params, size, r) % params.virtual_fold_factor = 0
    /\ SizeAfter(params, size, r) % params.shift_power = 0

(* heuristic_base_query_count: eta >= 1/6, for eta = rho or rho / 2 and    *)
(* rho = (degree + 1) / size.                                              *)
BaseQueryCount(params, size, degree) ==
  LET halves == IF params.sec_mode = "Conservative" THEN 1 ELSE 2
      dense  == 6 * (degree + 1) >= halves * size
  IN  CASE dense /\ params.sec_mode = "Conservative" /\ params.effective_bits >= 96 -> 3
        [] dense /\ ~(params.sec_mode = "Conservative" /\ params.effective_bits >= 96) -> 2
        [] ~dense -> 1

(* auto_query_count_for_round, or the manual schedule's entry (its last    *)
(* one for all later rounds).                                              *)
RequestedQueries(params, size, degree, r) ==
  LET manual == params.query_repetitions
      base   == BaseQueryCount(params, size, degree)
  IN  IF manual # <<>> THEN manual[Least(r + 1, Len(manual))]
      ELSE IF base > r THEN base - r ELSE 1

(* resolve_query_schedule_metadata: bundle_count and degree_budget cap it. *)
BundleCount(params, size, r) == SizeAfter(params, size, r) \div params.virtual_fold_factor
EffectiveQueries(params, size, degree, r) ==
  LET requested == RequestedQueries(params, SizeAfter(params, size, r),
                                    BoundAfter(params, degree, r), r)
      budget    == SaturatingSubtract(BoundAfter(params, degree, r + 1) + 1, params.ood_samples)
  IN  Least(requested, Least(BundleCount(params, size, r), budget))

(* ResolveFinalQueryCount *)
FinalQueries(params, finalSize, finalBound, rounds) ==
  Least(RequestedQueries(params, finalSize, finalBound, rounds), finalSize)

-----------------------------------------------------------------------------
(* Domains and the pools of points outside them *)

DomainPoints(d) == {d.points[i] : i \in 0 .. d.size - 1}

(* ExceptionalAgainst *)
ExceptionalAgainst(x, others) == \A y \in others : IsUnit(Minus(x, y))

UnitDifferences(d, e) == \A x \in DomainPoints(e) : ExceptionalAgainst(x, DomainPoints(d))

(* domain_is_subset_of_teichmuller_units *)
InTeichmullerUnits(d) ==
  IsTeichmullerSubset(d) /\ \A x \in DomainPoints(d) : IsUnit(x)

(* The three domains of a round. *)
RoundDomains(params, d) ==
  [input |-> d, shift |-> ScaleOffset(d, params.shift_power),
   folded |-> PowMap(d, params.virtual_fold_factor)]
AllPoints3(ds) == DomainPoints(ds.input) \cup DomainPoints(ds.shift) \cup DomainPoints(ds.folded)

(* theorem_ood_pool_has_capacity *)
PoolHasCapacity(ds, required) ==
  /\ InTeichmullerUnits(ds.input) /\ InTeichmullerUnits(ds.shift) /\ InTeichmullerUnits(ds.folded)
  /\ Cardinality(TeichmullerSet) - 1 - Cardinality(AllPoints3(ds)) >= required

(* TheoremSafeComplementCandidate, for all candidates of the sampler. *)
SafeComplement(ds, excluded) ==
  {x \in TeichmullerSet \ {0} : ExceptionalAgainst(x, AllPoints3(ds) \cup excluded)}

(* Prototype mode draws from the input domain.  An out-of-domain point is  *)
(* exceptional against the shift and folded domains; a shake point is only *)
(* outside them, and exceptional against the quotient points.              *)
OodPool(params, ds) ==
  IF params.protocol_mode = "TheoremGr" THEN SafeComplement(ds, {})
  ELSE {x \in DomainPoints(ds.input) :
          ExceptionalAgainst(x, DomainPoints(ds.shift) \cup DomainPoints(ds.folded))}

ShakePool(params, ds, quotientPoints) ==
  IF params.protocol_mode = "TheoremGr" THEN SafeComplement(ds, quotientPoints)
  ELSE {x \in DomainPoints(ds.input) \ (DomainPoints(ds.shift) \cup DomainPoints(ds.folded)) :
          ExceptionalAgainst(x, quotientPoints)}

(* derive_ood_points: so many of the pool, exceptional among themselves. *)
OodSamples(pool, count) ==
  {s \in [1 .. count -> pool] : \A i, j \in 1 .. count : i < j => IsUnit(Minus(s[i], s[j]))}

-----------------------------------------------------------------------------
(* Validation *)

ValidStirParameters(params) ==
  /\ params.virtual_fold_factor = 9 /\ params.shift_power = 3
  /\ params.stop_degree # 0 /\ params.ood_samples # 0
  /\ params.protocol_mode = "TheoremGr" => params.theorem_sampling
  /\ \A i \in DOMAIN params.query_repetitions : params.query_repetitions[i] # 0

(* The domain r rounds on. *)
StirDomain(params, domain, r) ==
  LET d[i \in 0 .. r] == IF i = 0 THEN domain ELSE ScaleOffset(d[i - 1], params.shift_power)
  IN  d[r]

(* Mutant: theorem mode does not look at the size of its pool. *)
MutNoCapacity(params, domain, degree, r) ==
  LET ds      == RoundDomains(params, StirDomain(params, domain, r))
      queries == EffectiveQueries(params, domain.size, degree, r)
  IN  /\ params.protocol_mode = "TheoremGr" =>
           InTeichmullerUnits(ds.input) /\ InTeichmullerUnits(ds.shift)
             /\ InTeichmullerUnits(ds.folded)
      /\ UnitDifferences(ds.shift, ds.folded)
      /\ queries \in 1 .. BundleCount(params, domain.size, r)
      /\ params.ood_samples + queries <= BoundAfter(params, degree, r + 1) + 1

(* One round of validate. *)
ValidRound(params, domain, degree, r) ==
  LET ds      == RoundDomains(params, StirDomain(params, domain, r))
      queries == EffectiveQueries(params, domain.size, degree, r)
  IN  /\ params.protocol_mode = "TheoremGr" => PoolHasCapacity(ds, params.ood_samples + 1)
      /\ UnitDifferences(ds.shift, ds.folded)
      /\ queries \in 1 .. BundleCount(params, domain.size, r)
      /\ params.ood_samples + queries <= BoundAfter(params, degree, r + 1) + 1

ValidStirInstance(params, domain, degree) ==
  LET rounds == StirRoundCount(params, degree)
  IN
  /\ ValidStirParameters(params)
  /\ degree < domain.size
  /\ params.protocol_mode = "TheoremGr" => InTeichmullerUnits(domain)
  /\ ChainDivides(params, domain.size, degree)
  /\ \A r \in 0 .. rounds - 1 : ValidRound(params, domain, degree, r)
  /\ SizeAfter(params, domain.size, rounds) % params.virtual_fold_factor = 0

-----------------------------------------------------------------------------
(* Polynomials *)

Coefficient(f, i) == IF i < f.size THEN f.at[i] ELSE 0
Longer(f, g) == IF f.size >= g.size THEN f.size ELSE g.size

AddPolynomials(f, g) ==
  Trim(Longer(f, g), [i \in 0 .. Longer(f, g) - 1 |-> Plus(Coefficient(f, i), Coefficient(g, i))])
SubtractPolynomials(f, g) ==
  Trim(Longer(f, g), [i \in 0 .. Longer(f, g) - 1 |-> Minus(Coefficient(f, i), Coefficient(g, i))])

ZeroPolynomial == [size |-> 0, at |-> [i \in {} |-> 0]]

Multiply(f, g) ==
  IF f.size = 0 \/ g.size = 0 THEN ZeroPolynomial
  ELSE LET n == f.size + g.size - 1
       IN  Trim(n, Tabulated([i \in 0 .. n - 1 |->
                     RingSum([j \in 0 .. i |-> Times(Coefficient(f, j), Coefficient(g, i - j))], i + 1)]))

(* A sequence as interpolation takes it: from 0. *)
FromZero(s) == [i \in 0 .. Len(s) - 1 |-> s[i + 1]]

AnswerPolynomial(points, values) ==
  Interpolate(FromZero(points), FromZero(values), Len(points))

VanishingPolynomial(points) ==
  [size |-> Len(points) + 1, at |-> Tabulated(Vanishing(FromZero(points), Len(points)))]

(* BuildShakePolynomial: the sum of (ans - v_i) / (X - x_i). *)
ShakePolynomial(ans, points, values) ==
  LET s[i \in 0 .. Len(points)] ==
        IF i = 0 THEN ZeroPolynomial
        ELSE AddPolynomials(s[i - 1], QuotientAt(ans, points[i], values[i]))
  IN  s[Len(points)]

(* quotient_polynomial_from_answers: (f - ans) by the vanishing polynomial,*)
(* here one factor after the other.  It throws unless that is exact.       *)
DividesExactly(f, ans, points) ==
  \A i \in DOMAIN points : Evaluate(SubtractPolynomials(f, ans), points[i]) = 0

QuotientFromAnswers(f, ans, points) ==
  LET q[i \in 0 .. Len(points)] ==
        IF i = 0 THEN SubtractPolynomials(f, ans) ELSE QuotientAt(q[i - 1], points[i], 0)
  IN  q[Len(points)]

(* Mutant: one term is missing. *)
MutScalingOneShort(target, current, r) ==
  Trim(target - current, [i \in 0 .. target - current - 1 |-> Power(r, i)])

(* scaling_polynomial: 1 + rX + ... + (rX)^gap. *)
ScalingPolynomial(target, current, r) ==
  Trim(target - current + 1, [i \in 0 .. target - current |-> Power(r, i)])

(* An empty polynomial stays empty. *)
DegreeCorrection(f, target, current, r) == Multiply(f, ScalingPolynomial(target, current, r))

(* Mutant: the sum has gap terms. *)
MutGapTerms(x, value, target, current, r) ==
  LET gap    == target - current
      common == Times(x, r)
      below  == Minus(1, common)
  IN  IF below = 0 THEN [ok |-> TRUE, value |-> Times(value, OfInteger(gap))]
      ELSE [ok    |-> IsUnit(below),
            value |-> Times(Times(value, Minus(1, Power(common, gap + 1))), Inv(below))]

(* degree_correction_eval: the closed form of the scaling at a point; it   *)
(* throws when its denominator is a zero divisor.                          *)
DegreeCorrectionEval(x, value, target, current, r) ==
  LET gap    == target - current
      common == Times(x, r)
      below  == Minus(1, common)
  IN  IF below = 0 THEN [ok |-> TRUE, value |-> Times(value, OfInteger(gap + 1))]
      ELSE [ok    |-> IsUnit(below),
            value |-> Times(Times(value, Minus(1, Power(common, gap + 1))), Inv(below))]

(* try_reuse_next_round_input_oracle: the next function's table from the   *)
(* committed one, by division at each point of the domain; it gives up at  *)
(* a vanishing value that is a zero divisor.                               *)
CanReuse(d, vanishing) ==
  \A x \in DomainPoints(d) :
    LET below == Evaluate(vanishing, x) IN below = 0 \/ IsUnit(below)

ReusedOracle(d, shifted, ans, vanishing, quotient, r, target, current) ==
  [i \in 0 .. d.size - 1 |->
     LET x     == d.points[i]
         below == Evaluate(vanishing, x)
         value == IF below = 0 THEN Evaluate(quotient, x)
                  ELSE Times(Minus(shifted[i], Evaluate(ans, x)), Inv(below))
     IN  Times(value, RingSum([e \in 0 .. target - current |-> Power(Times(x, r), e)],
                              target - current + 1))]

-----------------------------------------------------------------------------
(* Oracles: one leaf holds a fiber *)

Bundles(table, k) ==
  LET count == TableSize(table) \div k
  IN  [c \in 0 .. count - 1 |-> Tabulated([o \in 0 .. k - 1 |-> table[c + o * count]])]

(* QueryCurrentFunction.  function: [initial], or the quotient of the      *)
(* committed table by what the last round fixed, degree corrected.         *)
QueryCurrentFunction(function, bound, x, actual) ==
  IF function.initial THEN [ok |-> TRUE, value |-> actual]
  ELSE LET set   == function.quotient_set
           below == RingProduct([i \in 0 .. Len(set) - 1 |-> Minus(x, set[i + 1])], Len(set))
           value == Times(Minus(actual, Evaluate(function.ans_polynomial, x)), Inv(below))
       IN  IF IsUnit(below)
           THEN DegreeCorrectionEval(x, value, bound, SaturatingSubtract(bound, Len(set)),
                                     function.comb_randomness)
           ELSE [ok |-> FALSE, value |-> 0]

(* ComputeFoldedAnswers: the current function on the fiber of every query, *)
(* folded; not ok unless the openings are exactly these fibers.            *)
FiberAnswers(d, bound, function, k, position, bundle) ==
  [o \in 0 .. k - 1 |->
     QueryCurrentFunction(function, bound, d.points[position + o * (d.size \div k)], bundle[o])]

FoldedAnswers(d, bound, function, alpha, k, positions, proof) ==
  LET answers(i) == FiberAnswers(d, bound, function, k, positions[i], proof.leaf_payloads[i])
      fold(i)    == LET a == Tabulated(answers(i))
                        points == FiberPoints(d, positions[i], d.size \div k, k)
                    IN  [ok    |-> \A o \in 0 .. k - 1 : a[o].ok,
                         value |-> FoldEvalK(points, [o \in 0 .. k - 1 |-> a[o].value], k, alpha)]
  IN  [i \in DOMAIN positions |-> fold(i)]

BundlesFit(positions, proof, k) ==
  /\ proof.queried_indices = positions
  /\ Len(proof.leaf_payloads) = Len(positions)
  /\ \A i \in DOMAIN positions : DOMAIN proof.leaf_payloads[i] = 0 .. k - 1

(* CheckShakeConsistency *)
ShakeConsistent(ans, shake, points, values, x) ==
  /\ ExceptionalAgainst(x, {points[i] : i \in DOMAIN points})
  /\ LET at == Evaluate(ans, x)
     IN  Evaluate(shake, x) =
           RingSum([i \in 0 .. Len(points) - 1 |->
                      Times(Minus(at, values[i + 1]), Inv(Minus(x, points[i + 1])))], Len(points))
=============================================================================
