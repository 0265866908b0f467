------------------------------ MODULE FriRules ------------------------------
(***************************************************************************)
(* What FRI commits to, opens and checks, as operators on its messages:    *)
(* parameter validation, oracle trees, fibers, and the verifier's tests.   *)
(*                                                                         *)
(* A table is a function on 0 .. n-1.  The root of its Merkle tree is the  *)
(* table itself, padded as the tree pads its leaves: MerkleTree shows that *)
(* an accepted multiproof only ever reveals the leaves under the root.     *)
(***************************************************************************)
EXTENDS Folding, MultiproofPlan

(* params: [fold_factor, stop_degree, repetition_count].                   *)
ValidParameters(params) ==
  /\ params.fold_factor \in {3, 9}
  /\ params.stop_degree # 0 /\ params.repetition_count # 0

IsPowerOfThree(n) == n > 0 /\ \A d \in 2 .. n : n % d = 0 => d % 3 = 0

(* n after r foldings: every folding divides it and drops the rest.        *)
AfterFoldings(params, n, r) ==
  LET v[i \in 0 .. r] == IF i = 0 THEN n ELSE v[i - 1] \div params.fold_factor
  IN  v[r]

(* folding_round_count: divide until the degree is small enough.           *)
RoundCount(params, degree) ==
  CHOOSE r \in 0 .. degree :
    /\ AfterFoldings(params, degree, r) <= params.stop_degree
    /\ \A s \in 0 .. r - 1 : AfterFoldings(params, degree, s) > params.stop_degree

(* It throws unless every round's domain is divisible by the fold factor.  *)
FoldsEvenly(params, domain, degree) ==
  \A r \in 0 .. RoundCount(params, degree) - 1 :
    AfterFoldings(params, domain.size, r) % params.fold_factor = 0

ValidInstance(params, domain, degree) ==
  /\ ValidParameters(params)
  /\ IsPowerOfThree(domain.size)
  /\ degree < domain.size
  /\ FoldsEvenly(params, domain, degree)

(* Mutant: the bound of a constant wraps (in the code, to 2^64 - 1).       *)
MutBoundWraps(degree) == IF degree = 0 THEN 2^16 - 1 ELSE degree - 1

(* The quotient of a polynomial of degree 0 has bound 0, not -1.           *)
OpeningDegreeBound(degree) == IF degree = 0 THEN 0 ELSE degree - 1

ValidCommitment(params, c) ==
  /\ IsTeichmullerSubset(c.domain)
  /\ ValidInstance(params, c.domain, c.degree_bound)

ValidClaim(c, claim) == IsTeichmullerSubset(c.domain) /\ IsTeichmuller(claim.alpha)

(* The domain after r foldings. *)
RoundDomain(params, domain, r) ==
  LET d[i \in 0 .. r] == IF i = 0 THEN domain ELSE PowMap(d[i - 1], params.fold_factor)
  IN  d[r]

-----------------------------------------------------------------------------
(* Oracle trees *)

TableSize(table) == Cardinality(DOMAIN table)

Root(table) ==
  LET n == TableSize(table)
  IN  [i \in 0 .. NextPowerOfTwo(n) - 1 |-> table[IF i < n THEN i ELSE n - 1]]

(* MerkleTree::open.  The sibling hashes are as the tree gives them, or    *)
(* something else.                                                         *)
OpenTree(table, indices) ==
  LET queried == Ascending(indices)
  IN  [queried_indices |-> queried,
       leaf_payloads   |-> [j \in 1 .. Len(queried) |-> table[queried[j]]],
       sibling_hashes  |-> "intact"]

NoProof == [queried_indices |-> <<>>, leaf_payloads |-> <<>>, sibling_hashes |-> "empty"]

(* MerkleTree::verify. *)
TreeAccepts(root, leafCount, proof) ==
  /\ DOMAIN root = 0 .. NextPowerOfTwo(leafCount) - 1
  /\ Len(proof.leaf_payloads) = Len(proof.queried_indices)
  /\ \A j \in 1 .. Len(proof.queried_indices) :
       /\ proof.queried_indices[j] < leafCount
       /\ root[proof.queried_indices[j]] = proof.leaf_payloads[j]
  /\ proof.sibling_hashes = "intact"

(* LookupIndexedValue, for an index the proof carries.                     *)
Opened(proof, index) ==
  proof.leaf_payloads[CHOOSE j \in 1 .. Len(proof.queried_indices) :
                        proof.queried_indices[j] = index]

-----------------------------------------------------------------------------
(* Fibers *)

Positions(queries) == {queries[j] : j \in DOMAIN queries}

(* ExpandFiberIndices *)
ExpandFiberIndices(queries, childSize, k) ==
  {c + offset * childSize : c \in Positions(queries), offset \in 0 .. k - 1}

FiberPoints(domain, child, childSize, k) ==
  [offset \in 0 .. k - 1 |-> domain.points[child + offset * childSize]]

(* fold_table_k, slot by slot (FoldTable shows that the threads compute    *)
(* this).                                                                  *)
FoldTableK(domain, table, k, beta) ==
  LET childSize == domain.size \div k
  IN  [child \in 0 .. childSize - 1 |->
         FoldEvalK(FiberPoints(domain, child, childSize, k),
                   [offset \in 0 .. k - 1 |-> table[child + offset * childSize]],
                   k, beta)]

(* The quotient's values on the fiber, zero where its point is alpha.      *)
DerivedValues(points, values, n, claim) ==
  [i \in 0 .. n - 1 |->
     IF points[i] = claim.alpha THEN 0
     ELSE Times(Minus(values[i], claim.value), Inv(Minus(points[i], claim.alpha)))]

(* What alpha demands of an opened value and of a denominator.             *)
PointFits(point, value, claim) ==
  IF point = claim.alpha THEN value = claim.value ELSE IsUnit(Minus(point, claim.alpha))

(* BasisWeight: how much slot `missing' counts in the fold.                *)
BasisWeight(points, n, missing, beta) ==
  FoldEvalK(points, [i \in 0 .. n - 1 |-> IF i = missing THEN OfInteger(1) ELSE 0], n, beta)

VerifyExplicitFiber(points, values, n, beta, childValue) ==
  FoldEvalK(points, values, n, beta) = childValue

(* Mutant: a fiber through alpha is compared like any other.               *)
MutAlphaSlotIsZero(points, values, n, claim, beta, childValue) ==
  /\ \A i \in 0 .. n - 1 : PointFits(points[i], values[i], claim)
  /\ FoldEvalK(points, DerivedValues(points, values, n, claim), n, beta) = childValue

(* VerifyVirtualFirstRoundFiber.  At alpha the quotient is not opened: the *)
(* child value determines it when its weight is a unit, and must match     *)
(* without it when its weight is zero.                                     *)
VerifyVirtualFiber(points, values, n, claim, beta, childValue) ==
  LET fold    == FoldEvalK(points, DerivedValues(points, values, n, claim), n, beta)
      atAlpha == {i \in 0 .. n - 1 : points[i] = claim.alpha}
      weight  == BasisWeight(points, n, CHOOSE i \in atAlpha : TRUE, beta)
  IN  /\ \A i \in 0 .. n - 1 : PointFits(points[i], values[i], claim)
      /\ IF atAlpha = {} \/ weight = 0 THEN fold = childValue ELSE IsUnit(weight)

(* Mutant: alpha's value is left out like the other tests at alpha.        *)
MutAlphaValueUnchecked(domain, table, claim, bound) ==
  LET others == {i \in 0 .. domain.size - 1 : domain.points[i] # claim.alpha}
      n      == Cardinality(others)
      index  == Ascending(others)
      points == [i \in 0 .. n - 1 |-> domain.points[index[i + 1]]]
      values == [i \in 0 .. n - 1 |-> table[index[i + 1]]]
  IN  IF n = 0 THEN bound = 0
      ELSE Degree(Interpolate(points, DerivedValues(points, values, n, claim), n)) <= bound

(* VerifyZeroFoldVirtualQuotient: the whole table is revealed.             *)
VerifyZeroFold(domain, table, claim, bound) ==
  LET others == {i \in 0 .. domain.size - 1 : domain.points[i] # claim.alpha}
      n      == Cardinality(others)
      index  == Ascending(others)
      points == [i \in 0 .. n - 1 |-> domain.points[index[i + 1]]]
      values == [i \in 0 .. n - 1 |-> table[index[i + 1]]]
  IN  /\ \A i \in 0 .. domain.size - 1 : PointFits(domain.points[i], table[i], claim)
      /\ IF n = 0 THEN bound = 0
         ELSE Degree(Interpolate(points, DerivedValues(points, values, n, claim), n)) <= bound
=============================================================================
