----------------------------- MODULE GaloisRing -----------------------------
(***************************************************************************)
(* Domain and Polynomial over the ring of RingElements: cosets of a group  *)
(* of Teichmueller units, evaluation, encoding, interpolation, division.   *)
(* With r = 1 the prime is chosen so that the Teichmueller set already     *)
(* holds the domains; its zero divisors are there as in every GR(p^k, r).  *)
(***************************************************************************)
EXTENDS RingElements

-----------------------------------------------------------------------------
(* Domain: offset * <root>, in the order of its elements.  points is the   *)
(* table of Domain::element.                                               *)

MakeDomain(offset, root, size) ==
  [offset |-> offset, root |-> root, size |-> size,
   points |-> Tabulated([i \in 0 .. size - 1 |-> Times(offset, Power(root, i))])]

(* What the constructor demands of the arguments.                          *)
IsDomain(d) ==
  /\ d.size \in Nat \ {0} /\ d.offset \in Ring /\ d.root \in Ring
  /\ IsUnit(d.offset) /\ IsUnit(d.root)
  /\ HasExactOrder(d.root, d.size)
  /\ d = MakeDomain(d.offset, d.root, d.size)

TeichmullerCoset(offset, size) ==
  MakeDomain(offset, SubgroupGenerator(size), size)

IsTeichmullerSubset(d) == IsTeichmuller(d.offset) /\ IsTeichmuller(d.root)

Gcd(a, b) ==
  CHOOSE g \in 1 .. a :
    /\ a % g = 0 /\ b % g = 0
    /\ \A h \in g + 1 .. a : ~(a % h = 0 /\ b % h = 0)

PowMap(d, e) ==
  MakeDomain(Power(d.offset, e), Power(d.root, e), d.size \div Gcd(d.size, e))

-----------------------------------------------------------------------------
(* Polynomial: [size, at], at holding the coefficients 0 .. size - 1; the  *)
(* constructor drops leading zeros.                                        *)

Trim(size, at) ==
  LET top == CHOOSE n \in 0 .. size :
               /\ \A i \in n .. size - 1 : at[i] = 0
               /\ n = 0 \/ at[n - 1] # 0
  IN  [size |-> top, at |-> Tabulated([i \in 0 .. top - 1 |-> at[i]])]

Degree(f) == IF f.size = 0 THEN 0 ELSE f.size - 1

(* Horner, on n coefficients from the given one on.                        *)
Horner(at, first, n, x) ==
  LET h[k \in 0 .. n] ==
        IF k = 0 THEN 0 ELSE Plus(Times(h[k - 1], x), at[first + n - k])
  IN  h[n]

(* Nine coefficients at a time (TLC's stack is not deep).                  *)
Evaluate(f, x) ==
  LET blocks == (f.size + 8) \div 9
      x9     == Power(x, 9)
      Block(b) == Horner(f.at, 9 * b, IF b + 1 = blocks THEN f.size - 9 * b ELSE 9, x)
      acc[m \in 0 .. blocks] ==
        IF m = 0 THEN 0 ELSE Plus(Times(acc[m - 1], x9), Block(blocks - m))
  IN  acc[blocks]

(* The values of f on a domain, as rs_encode returns them. *)
Encode(d, f) == [i \in 0 .. d.size - 1 |-> Evaluate(f, d.points[i])]

(* prod (X - x_i) over the first n points. *)
Vanishing(points, n) ==
  LET v[m \in 0 .. n] ==
        IF m = 0 THEN [j \in {0} |-> OfInteger(1)]
        ELSE LET w == Tabulated(v[m - 1])
             IN  [j \in 0 .. m |-> Minus(IF j = 0 THEN 0 ELSE w[j - 1],
                                        IF j = m THEN 0 ELSE Times(w[j], points[m - 1]))]
  IN  v[n]

(* DivideByMonicLinear on size coefficients: synthetic division. *)
DivideByLinear(at, size, root) ==
  LET q[j \in 0 .. size - 1] ==
        IF j = size - 1 THEN 0 ELSE Plus(at[j + 1], Times(root, q[j + 1]))
  IN  [j \in 0 .. size - 2 |-> q[j]]

(* interpolate_for_gr_wrapper: barycentric weights from the derivative of  *)
(* the vanishing polynomial; throws unless the points are exceptional.     *)
Exceptional(points, n) ==
  \A i, j \in 0 .. n - 1 : i # j => IsUnit(Minus(points[i], points[j]))

Interpolate(points, values, n) ==
  LET x          == Tabulated(points)
      vanishing  == Tabulated(Vanishing(x, n))
      derivative == Tabulated([j \in 0 .. n - 1 |-> Times(vanishing[j + 1], OfInteger(j + 1))])
      slope(i)   == Evaluate([size |-> n, at |-> derivative], x[i])
      scale      == Tabulated([i \in 0 .. n - 1 |-> Times(values[i], Inv(slope(i)))])
      basis      == Tabulated([i \in 0 .. n - 1 |->
                      Tabulated(DivideByLinear(vanishing, n + 1, x[i]))])
  IN  Trim(n, Tabulated([j \in 0 .. n - 1 |->
                 RingSum([i \in 0 .. n - 1 |-> Times(basis[i][j], scale[i])], n)]))

(* quotient_polynomial_from_answers for one answer: (f - value) / (X - x). *)
QuotientAt(f, x, value) ==
  LET numerator == Trim(IF f.size = 0 THEN 1 ELSE f.size,
                        [i \in 0 .. (IF f.size = 0 THEN 0 ELSE f.size - 1) |->
                           Minus(IF f.size = 0 THEN 0 ELSE f.at[i],
                                 IF i = 0 THEN value ELSE 0)])
  IN  IF numerator.size = 0 THEN numerator
      ELSE Trim(numerator.size - 1, DivideByLinear(numerator.at, numerator.size, x))
=============================================================================
