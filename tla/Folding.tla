------------------------------ MODULE Folding -------------------------------
(***************************************************************************)
(* Folding by k: of a polynomial (poly_fold), of one fiber of the map      *)
(* x |-> x^k (fold_eval_k) and the structured form the table version uses. *)
(***************************************************************************)
EXTENDS GaloisRing

(* poly_fold: coefficient j is sum over r < k of alpha^r f_(k j + r). *)
PolyFold(f, k, alpha) ==
  LET size == (f.size + k - 1) \div k
  IN  Trim(size, [j \in 0 .. size - 1 |->
        RingSum([r \in 0 .. k - 1 |->
                   IF k * j + r < f.size THEN Times(Power(alpha, r), f.at[k * j + r]) ELSE 0],
                k)])

(* prod (z - x_j) over j # i, as prefix times suffix product. *)
Others(points, n, i, z) ==
  RingProduct([j \in 0 .. n - 1 |-> IF j = i THEN OfInteger(1) ELSE Minus(z, points[j])], n)

(* EvaluateStructuredFiber: the points are base * roots[i], roots the      *)
(* powers of a root of unity, and z is alpha / base.                       *)
EvaluateStructuredFiber(roots, values, n, z) ==
  RingSum([i \in 0 .. n - 1 |->
             Times(Times(values[i], Others(roots, n, i, z)),
                   Times(roots[i], Inv(OfInteger(n))))], n)

(* EvaluateGenericFiber: Lagrange with the product of the differences;     *)
(* BatchInvertOrThrow needs all of them invertible.                        *)
EvaluateGenericFiber(points, values, n, alpha) ==
  RingSum([i \in 0 .. n - 1 |->
             Times(Times(values[i], Others(points, n, i, alpha)),
                   Inv(Others(points, n, i, points[i])))], n)

(* TryBuildStructuredFiberCache: a coset of a group of roots of unity. *)
IsStructured(points, n) ==
  /\ IsUnit(points[0])
  /\ n > 1 =>
       LET root == Times(points[1], Inv(points[0]))
       IN  /\ \A i \in 0 .. n - 1 : points[i] = Times(points[0], Power(root, i))
           /\ Power(root, n) = OfInteger(1)

FoldEvalK(points, values, n, alpha) ==
  IF IsStructured(points, n)
  THEN LET base == Inv(points[0])
           root == IF n = 1 THEN OfInteger(1) ELSE Times(points[1], base)
       IN  EvaluateStructuredFiber([i \in 0 .. n - 1 |-> Power(root, i)],
                                   values, n, Times(alpha, base))
  ELSE EvaluateGenericFiber(points, values, n, alpha)
=============================================================================
