----------------------------- MODULE WhirRules ------------------------------
(***************************************************************************)
(* What WHIR computes and checks, as operators on its messages:            *)
(* multiquadratic polynomials, the eq constraint and its two ways through  *)
(* the sumcheck, repeated ternary folding, and parameter validation.       *)
(*                                                                         *)
(* A multiquadratic polynomial in m variables is the list of its 3^m       *)
(* coefficients, trimmed as a univariate one: base-3 digit v of an index   *)
(* is the exponent of variable v.  A point is a sequence of m elements.    *)
(***************************************************************************)
EXTENDS FriRules

Digit(i, v) == (i \div 3^v) % 3
Bit(i, v)   == (i \div 2^v) % 2

(* The monomial of index i at z; also PrefixWeight. *)
Monomial(i, z) ==
  RingProduct([v \in 0 .. Len(z) - 1 |-> Power(z[v + 1], Digit(i, v))], Len(z))

(* MultiQuadraticPolynomial::evaluate *)
EvaluateAt(f, z) ==
  RingSum([i \in 0 .. f.size - 1 |-> Times(f.at[i], Monomial(i, z))], f.size)

(* pow_m: z, z^3, z^9, ... *)
PowM(z, m) == [v \in 1 .. m |-> Power(z, 3^(v - 1))]

(* Mutant: the fixed variables are taken to be the last ones. *)
MutRestrictSuffix(f, m, prefix) ==
  LET tail == 3^(m - Len(prefix))
  IN  Trim(tail, [j \in 0 .. tail - 1 |->
        RingSum([i \in 0 .. 3^Len(prefix) - 1 |->
                   IF tail * i + j < f.size
                   THEN Times(f.at[tail * i + j], Monomial(i, prefix)) ELSE 0], 3^Len(prefix))])

(* MultiQuadraticPolynomial::restrict_prefix: the first variables, which   *)
(* are the low digits, become the elements of prefix.                      *)
RestrictPrefix(f, m, prefix) ==
  LET width == 3^Len(prefix)
      size  == (f.size + width - 1) \div width
  IN  Trim(size, [j \in 0 .. size - 1 |->
        RingSum([i \in 0 .. width - 1 |->
                   IF width * j + i < f.size
                   THEN Times(f.at[width * j + i], Monomial(i, prefix)) ELSE 0], width)])

(* MultilinearPolynomial::evaluate: 2^m coefficients, bit v for variable v.*)
MultilinearAt(f, z) ==
  RingSum([i \in 0 .. f.size - 1 |->
             Times(f.at[i], RingProduct([v \in 0 .. Len(z) - 1 |-> Power(z[v + 1], Bit(i, v))],
                                        Len(z)))], f.size)

BinaryIndexToTernaryIndex(i, m) ==
  LET t[v \in 0 .. m] == IF v = 0 THEN 0 ELSE t[v - 1] + Bit(i, v - 1) * 3^(v - 1) IN t[m]

ToMultiQuadratic(f, m) ==
  Trim(3^m, [j \in 0 .. 3^m - 1 |->
    LET from == {i \in 0 .. f.size - 1 : BinaryIndexToTernaryIndex(i, m) = j}
    IN  IF from = {} THEN 0 ELSE f.at[CHOOSE i \in from : TRUE]])

-----------------------------------------------------------------------------
(* The constraint A(x) = sum of weight eq(point, x) over its terms, where  *)
(* eq(z, x) extends equality on the ternary grid to degree 2.              *)

TernaryGrid(omega) == <<OfInteger(1), omega, Times(omega, omega)>>

OtherTwo(grid, i) ==
  LET other == SelectSeq(<<1, 2, 3>>, LAMBDA j : j # i)
  IN  [j \in 0 .. 1 |-> grid[other[j + 1]]]

BasisDenominator(grid, i) ==
  RingProduct([j \in 0 .. 1 |-> Minus(grid[i], OtherTwo(grid, i)[j])], 2)

(* lagrange_basis_on_ternary_grid and eq_B, the prover's. *)
LagrangeAt(grid, i, z) ==
  Times(RingProduct([j \in 0 .. 1 |-> Minus(z, OtherTwo(grid, i)[j])], 2),
        Inv(BasisDenominator(grid, i)))

EqB(grid, z, x) ==
  RingSum([i \in 0 .. 2 |-> Times(LagrangeAt(grid, i + 1, z), LagrangeAt(grid, i + 1, x))], 3)

(* LagrangeBasisPolynomial, the same basis by its coefficients; the        *)
(* verifier's eq cache holds the three of them.                            *)
LagrangeBasisPolynomial(grid, i) ==
  LET scale == Inv(BasisDenominator(grid, i))
      above == Tabulated(Vanishing(OtherTwo(grid, i), 2))
  IN  [size |-> 3, at |-> Tabulated([e \in 0 .. 2 |-> Times(above[e], scale)])]

EqCache(grid) == Tabulated([i \in 1 .. 3 |-> LagrangeBasisPolynomial(grid, i)])

CachedEqB(cache, z, x) ==
  RingSum([i \in 0 .. 2 |-> Times(Evaluate(cache[i + 1], z), Evaluate(cache[i + 1], x))], 3)

(* The products of eq over the coordinates of x, a prefix of z or all of it. *)
EqProduct(grid, z, x) ==
  RingProduct([v \in 0 .. Len(x) - 1 |-> EqB(grid, z[v + 1], x[v + 1])], Len(x))

CachedEqProduct(cache, z, x) ==
  RingProduct([v \in 0 .. Len(x) - 1 |-> CachedEqB(cache, z[v + 1], x[v + 1])], Len(x))

(* evaluate_A *)
EvaluateA(con, x) ==
  RingSum([t \in 0 .. Len(con.terms) - 1 |->
             Times(con.terms[t + 1].weight, EqProduct(con.grid, con.terms[t + 1].point, x))],
          Len(con.terms))

EvaluateAWithEqCache(cache, con, x) ==
  RingSum([t \in 0 .. Len(con.terms) - 1 |->
             Times(con.terms[t + 1].weight, CachedEqProduct(cache, con.terms[t + 1].point, x))],
          Len(con.terms))

(* Each term gives its first n coordinates up for a factor of its weight.  *)
RestrictTerms(con, n, factors) ==
  [con EXCEPT !.terms = [t \in DOMAIN con.terms |->
     [weight |-> Times(con.terms[t].weight, factors[t]),
      point  |-> SubSeq(con.terms[t].point, n + 1, Len(con.terms[t].point))]]]

(* WhirConstraint::restrict_prefix *)
RestrictConstraint(con, prefix) ==
  RestrictTerms(con, Len(prefix),
    [t \in DOMAIN con.terms |-> EqProduct(con.grid, con.terms[t].point, prefix)])

RestrictPrefixWithEqCache(cache, con, prefix) ==
  RestrictTerms(con, Len(prefix),
    [t \in DOMAIN con.terms |-> CachedEqProduct(cache, con.terms[t].point, prefix)])

(* add_shift_term for each shift point, with weights gamma, gamma^2, ... ; *)
(* sigma grows by the same powers times the values.                        *)
AddShiftTerms(con, gamma, points) ==
  [con EXCEPT !.terms = @ \o [j \in DOMAIN points |->
                                [weight |-> Power(gamma, j), point |-> points[j]]]]

GammaSum(gamma, values) ==
  RingSum([j \in 0 .. Len(values) - 1 |-> Times(Power(gamma, j + 1), values[j + 1])], Len(values))

-----------------------------------------------------------------------------
(* Sumcheck *)

(* EqPolynomial: eq(z, X) by its coefficients; and grid_power_sums, the    *)
(* sums of p^e eq(z, p) over the grid.                                     *)
EqPolynomial(cache, z) ==
  [size |-> 3, at |-> Tabulated([e \in 0 .. 2 |->
     RingSum([i \in 0 .. 2 |-> Times(Evaluate(cache[i + 1], z), cache[i + 1].at[e])], 3)])]

GridPowerSums(grid, eq) ==
  Tabulated([e \in 0 .. 2 |->
    RingSum([i \in 0 .. 2 |-> Times(Power(grid[i + 1], e), Evaluate(eq, grid[i + 1]))], 3)])

(* Mutant: eq at the fixed variables is left out of the prefix products.   *)
MutPrefixWithoutEq(eq, sums, prefix, i) ==
  LET p == Len(prefix)
  IN  RingProduct([v \in 0 .. Len(eq) - 1 |->
        IF v < p THEN Power(prefix[v + 1], Digit(i, v))
        ELSE IF v = p THEN OfInteger(1) ELSE sums[v + 1][Digit(i, v)]], Len(eq))

(* prefix_products times tail_products: what the fixed variables and the   *)
(* sums over the free ones make of monomial i.                             *)
TermFactor(eq, sums, prefix, i) ==
  LET p == Len(prefix)
  IN  RingProduct([v \in 0 .. Len(eq) - 1 |->
        IF v < p THEN Times(Power(prefix[v + 1], Digit(i, v)), Evaluate(eq[v + 1], prefix[v + 1]))
        ELSE IF v = p THEN OfInteger(1) ELSE sums[v + 1][Digit(i, v)]], Len(eq))

(* honest_sumcheck_polynomial as the prover computes it: the sum over the  *)
(* grid of f A with the prefix fixed, as a polynomial in the next variable,*)
(* from the coefficients of f and the terms of A.  Trimmed: no coefficient *)
(* is left when it is zero.                                                *)
HonestSumcheck(f, con, prefix) ==
  LET cache == EqCache(con.grid)
      p     == Len(prefix)
      part(t) ==
        LET term == con.terms[t]
            eq   == Tabulated([v \in DOMAIN term.point |-> EqPolynomial(cache, term.point[v])])
            sums == Tabulated([v \in DOMAIN term.point |-> GridPowerSums(con.grid, eq[v])])
            scalar == Tabulated([i \in 0 .. f.size - 1 |->
                        Times(Times(f.at[i], term.weight), TermFactor(eq, sums, prefix, i))])
        IN  Tabulated([e \in 0 .. 4 |->
              RingSum([i \in 0 .. f.size - 1 |->
                 LET shift == e - Digit(i, p)
                 IN  IF shift \in 0 .. 2 THEN Times(scalar[i], eq[p + 1].at[shift]) ELSE 0],
                 f.size)])
      parts == Tabulated([t \in DOMAIN con.terms |-> part(t)])
  IN  Trim(5, [e \in 0 .. 4 |->
        RingSum([t \in 0 .. Len(con.terms) - 1 |-> parts[t + 1][e]], Len(con.terms))])

(* The points of the grid in m dimensions, in AppendGridAssignment's order.*)
GridPoint(grid, m, assignment) == [v \in 1 .. m |-> grid[Digit(assignment, v - 1) + 1]]

(* The sum over the grid of f A with the first variables fixed. *)
GridSumOfProduct(f, m, con, prefix) ==
  LET free == m - Len(prefix)
  IN  RingSum([a \in 0 .. 3^free - 1 |->
                 LET x == prefix \o GridPoint(con.grid, free, a)
                 IN  Times(EvaluateAt(f, x), EvaluateA(con, x))], 3^free)

(* The other honest_sumcheck_polynomial: from the values at five points.   *)
SumcheckByEvaluation(f, m, con, prefix) ==
  LET points == [j \in 0 .. 4 |-> Power(SubgroupGenerator(ResidueSize - 1), j)]
  IN  Interpolate(points,
                  Tabulated([j \in 0 .. 4 |->
                    GridSumOfProduct(f, m, con, Append(prefix, points[j]))]), 5)

SumcheckGridSum(grid, h) == RingSum([i \in 0 .. 2 |-> Evaluate(h, grid[i + 1])], 3)

(* Mutant: only the degree is compared. *)
MutSumUnchecked(grid, h, sum, bound) == Degree(h) <= bound

(* check_sumcheck_identity; the declared degree counts leading zeros.      *)
SumcheckHolds(grid, h, sum, bound) ==
  Degree(h) <= bound /\ SumcheckGridSum(grid, h) = sum

-----------------------------------------------------------------------------
(* Repeated ternary folding *)

(* virtual_fold_query_indices: the 3^b points over one point of the domain *)
(* of 3^b-th powers, so that three in a row are over one cube, and so on.  *)
VirtualFoldQueryIndices(size, b, child) ==
  LET at[l \in 0 .. b, i \in 0 .. 3^b - 1] ==
        IF l = b THEN child ELSE at[l + 1, i \div 3] + (i % 3) * (size \div 3^(l + 1))
  IN  [i \in 1 .. 3^b |-> at[0, i - 1]]

IsCubeFiber(points) ==
  /\ \A i, j \in 0 .. 2 : i # j => points[i] # points[j]
  /\ \A i \in 1 .. 2 : Power(points[i], 3) = Power(points[0], 3)

(* evaluate_repeated_ternary_fold_from_values; ok unless it throws.        *)
RepeatedFoldFromValues(points, values, betas) ==
  LET b == Len(betas)
      at[l \in 0 .. b] ==
        IF l = 0 THEN [ok |-> TRUE, points |-> points, values |-> values]
        ELSE LET below == at[l - 1]
                 n     == 3^(b - l)
                 pts(g) == [o \in 0 .. 2 |-> below.points[3 * g + o]]
                 vals(g) == [o \in 0 .. 2 |-> below.values[3 * g + o]]
             IN  [ok     |-> below.ok /\ \A g \in 0 .. n - 1 : IsCubeFiber(pts(g)),
                  points |-> Tabulated([g \in 0 .. n - 1 |-> Power(below.points[3 * g], 3)]),
                  values |-> Tabulated([g \in 0 .. n - 1 |->
                                          FoldEvalK(pts(g), vals(g), 3, betas[l])])]
      top == at[b]
  IN  [ok |-> top.ok, value |-> top.values[0]]

(* The fold over position child, from values given by index. *)
VirtualFold(domain, child, betas, values) ==
  LET indices == VirtualFoldQueryIndices(domain.size, Len(betas), child)
  IN  RepeatedFoldFromValues(
        Tabulated([i \in 0 .. Len(indices) - 1 |-> domain.points[indices[i + 1]]]),
        Tabulated([i \in 0 .. Len(indices) - 1 |-> values[indices[i + 1]]]), betas)

(* Mutant: the domain is not raised to the third power between two folds.  *)
MutDomainKept(domain, table, betas) ==
  LET size(l) == domain.size \div 3^l
      at[l \in 0 .. Len(betas)] ==
        IF l = 0 THEN table
        ELSE LET below == at[l - 1]
             IN  Tabulated(FoldTableK([domain EXCEPT !.size = size(l - 1)], below, 3, betas[l]))
  IN  at[Len(betas)]

(* repeated_ternary_fold_table: the whole table, one alpha after another.  *)
RepeatedFoldTable(domain, table, betas) ==
  LET at[l \in 0 .. Len(betas)] ==
        IF l = 0 THEN [domain |-> domain, table |-> table]
        ELSE LET below == at[l - 1]
             IN  [domain |-> PowMap(below.domain, 3),
                  table  |-> Tabulated(FoldTableK(below.domain, below.table, 3, betas[l]))]
  IN  at[Len(betas)].table

(* The openings are wanted at these positions' fibers. *)
ParentIndices(size, b, positions) ==
  UNION {{VirtualFoldQueryIndices(size, b, positions[j])[i] : i \in 1 .. 3^b}
         : j \in DOMAIN positions}

(* SameQueries *)
SameQueries(expected, openings) == Ascending(expected) = openings.queried_indices

-----------------------------------------------------------------------------
(* Parameters.  pp: [variable_count, layer_widths, shift_repetitions,      *)
(* degree_bounds, deltas, final_repetitions, lambda_target, hash_profile,  *)
(* domain, omega, ternary_grid]; a delta is a pair, numerator and          *)
(* denominator.  params: [folding_factor, lambda_target, hash_profile].    *)

LiveVariables(pp, l) ==
  LET live[j \in 0 .. l] == IF j = 0 THEN pp.variable_count ELSE live[j - 1] - pp.layer_widths[j]
  IN  live[l]

(* delta is in (0, (1 - rho) / 2] for the rate rho = 3^live / size. *)
DeltaFits(delta, live, size) ==
  delta[1] > 0 /\ 2 * delta[1] * size <= delta[2] * (size - 3^live)

LayerFits(pp, l) ==
  LET live  == LiveVariables(pp, l - 1)
      width == pp.layer_widths[l]
      size  == pp.domain.size \div 3^(l - 1)
  IN  /\ width \in 1 .. live
      /\ pp.degree_bounds[l] # 0 /\ pp.shift_repetitions[l] # 0
      /\ size % 3^width = 0 /\ size % 3 = 0
      /\ 3^live < size
      /\ DeltaFits(pp.deltas[l], live, size)

ValidOmega(pp) ==
  /\ IsUnit(pp.omega) /\ pp.omega # OfInteger(1) /\ Power(pp.omega, 3) = OfInteger(1)
  /\ pp.ternary_grid = TernaryGrid(pp.omega)

ValidPublicParameters(pp) ==
  LET layers == Len(pp.layer_widths)
  IN  /\ Prime = 2
      /\ pp.variable_count # 0 /\ pp.lambda_target # 0 /\ layers # 0
      /\ IsTeichmullerSubset(pp.domain)
      /\ Len(pp.shift_repetitions) = layers /\ Len(pp.degree_bounds) = layers
      /\ Len(pp.deltas) = layers
      /\ \A l \in 1 .. layers : LayerFits(pp, l)
      /\ LiveVariables(pp, layers) = 0
      /\ ValidOmega(pp)

ValidWhirParameters(params, pp) ==
  /\ params.folding_factor > 0 /\ params.lambda_target > 0
  /\ ValidPublicParameters(pp)
  /\ params.lambda_target = pp.lambda_target
  /\ params.hash_profile = pp.hash_profile

(* proof_shape_valid *)
MerkleProofShapeValid(openings) ==
  /\ openings.queried_indices # <<>>
  /\ Len(openings.queried_indices) = Len(openings.leaf_payloads)

ProofShapeValid(sent) ==
  /\ sent.rounds # <<>> /\ MerkleProofShapeValid(sent.final_openings)
  /\ \A r \in DOMAIN sent.rounds :
       LET one == sent.rounds[r]
       IN  /\ one.sumcheck_polynomials # <<>> /\ one.g_root # <<>>
           /\ MerkleProofShapeValid(one.virtual_fold_openings)
           /\ \A j \in DOMAIN one.sumcheck_polynomials : one.sumcheck_polynomials[j].size # 0
=============================================================================
