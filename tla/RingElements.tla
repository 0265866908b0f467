---------------------------- MODULE RingElements ----------------------------
(***************************************************************************)
(* The elements of the ring the protocols compute in, GRContext's          *)
(* GR(p^k, r).  With r = 1 it is the integers modulo p^k.  With p^k = 4 it *)
(* is, up to isomorphism, the pairs (c, d) over the field of 2^r elements, *)
(* standing for T(c) + 2 T(d) where T is the Teichmueller lift; (c, d) is  *)
(* written c + 2^r d, and a field element 0 or 1 + i for the power x^i: so *)
(* 0 is zero and 1 is one.                                                 *)
(* WHIR accepts p = 2 only; FRI and STIR are instantiated with r = 1.      *)
(* The operations are constants: ModularPlus, ... or PairPlus, ... below.  *)
(***************************************************************************)
EXTENDS Integers

CONSTANTS
  Prime,           (* cfg.p     *)
  Exponent,        (* cfg.k_exp *)
  ExtensionDegree, (* cfg.r     *)
  Plus(_, _), Minus(_, _), Times(_, _)

ASSUME RingAssumption ==
  /\ Prime \in Nat \ {0, 1} /\ Exponent \in Nat \ {0}
  /\ ExtensionDegree = 1 \/ (Prime = 2 /\ Exponent = 2 /\ ExtensionDegree = 6)

Modulus == Prime^Exponent
ResidueSize == Prime^ExtensionDegree
Ring == 0 .. Modulus^ExtensionDegree - 1

(* What these powers are.                                                  *)
ASSUME SizesAssumption ==
  /\ Modulus \in Nat \ {0, 1} /\ Modulus % Prime = 0
  /\ ExtensionDegree = 1 => Ring = 0 .. Modulus - 1
  /\ ResidueSize \in Nat \ {0, 1} /\ Modulus^ExtensionDegree \in Nat \ {0}

(* The function f; TLC computes it once, not at every application.         *)
Tabulated(f) == CHOOSE g \in {f} : g = g

-----------------------------------------------------------------------------
(* r = 1 *)

ModularPlus(x, y)  == (x + y) % Modulus
ModularMinus(x, y) == (x - y) % Modulus
ModularTimes(x, y) == (x * y) % Modulus

-----------------------------------------------------------------------------
(* The field of q = 2^r elements, where p = 2.  A table of pairs has c, d  *)
(* at c q + d.                                                             *)

FieldSize == 2^ExtensionDegree

FieldTimes(q, c, d) == IF c = 0 \/ d = 0 THEN 0 ELSE 1 + ((c + d - 2) % (q - 1))

FieldRoot(q, c) == IF c = 0 THEN 0 ELSE 1 + (((c - 1) * (q \div 2)) % (q - 1))

(* c + 1 for the c from 1 on, in the field of 64 elements on x^6 + x + 1.  *)
Successor ==
  << 0, 7, 13, 33, 25, 63, 2, 27, 49, 46, 62, 26, 3, 36, 53, 24, 34, 48, 28, 57, 60,
     43, 51, 16, 5, 12, 8, 19, 42, 61, 47, 35, 4, 17, 32, 14, 55, 45, 50, 44, 56, 29,
     22, 40, 38, 10, 31, 18, 9, 39, 23, 54, 15, 52, 37, 41, 20, 59, 58, 21, 30, 11, 6 >>

(* c + d = c (1 + d / c) *)
FieldSums ==
  Tabulated([pair \in 0 .. 4095 |->
    LET c == pair \div 64
        d == pair % 64
    IN  IF c = 0 THEN d ELSE FieldTimes(64, c, IF d = 0 THEN 1 ELSE Successor[1 + ((d - c) % 63)])])

(* An addition that scales with the product, as this one does, and has     *)
(* these laws makes a field of characteristic two, where x + 1 is x^6.     *)
ASSUME FieldAssumption ==
  ExtensionDegree = 6 =>
    LET Add(c, d) == FieldSums[64 * c + d]
    IN  /\ Add(1, 1) = 0 /\ Add(2, 1) = 7
        /\ \A c, d \in 0 .. 63 :
             Add(c, d) = Add(d, c) /\ Add(Add(1, c), d) = Add(1, Add(c, d))

(* T(c) + T(d) carries sqrt(c d) into the second place.                    *)
PlusBy(q, sums, x, y) ==
  LET Add(c, d) == sums[c * q + d]
  IN  Add(x % q, y % q)
        + q * Add(Add(x \div q, y \div q), FieldRoot(q, FieldTimes(q, x % q, y % q)))

(* -1 is 3, that is 1 + 2.                                                 *)
MinusBy(q, sums, x, y) ==
  PlusBy(q, sums, x, (y % q) + q * sums[(y % q) * q + (y \div q)])

TimesBy(q, sums, x, y) ==
  FieldTimes(q, x % q, y % q)
    + q * sums[FieldTimes(q, x % q, y \div q) * q + FieldTimes(q, x \div q, y % q)]

PairPlus(x, y)  == PlusBy(FieldSize, FieldSums, x, y)
PairMinus(x, y) == MinusBy(FieldSize, FieldSums, x, y)
PairTimes(x, y) == TimesBy(FieldSize, FieldSums, x, y)

-----------------------------------------------------------------------------
(* Arithmetic *)

(* n times one. *)
OfInteger(n) ==
  IF ExtensionDegree = 1 THEN n % Modulus ELSE (n % 2) + FieldSize * ((n \div 2) % 2)

(* Sum and product of f[0], ..., f[n - 1]. *)
RingSum(f, n) ==
  LET s[i \in 0 .. n] == IF i = 0 THEN 0 ELSE Plus(s[i - 1], f[i - 1]) IN s[n]
RingProduct(f, n) ==
  LET s[i \in 0 .. n] == IF i = 0 THEN OfInteger(1) ELSE Times(s[i - 1], f[i - 1]) IN s[n]

(* PowerByZZ: square and multiply. *)
Power(x, e) ==
  LET pw[n \in 0 .. e] ==
        IF n = 0 THEN OfInteger(1)
        ELSE LET half == pw[n \div 2]
             IN  Times(Times(half, half), IF n % 2 = 1 THEN x ELSE OfInteger(1))
  IN  pw[e]

IsUnit(x) == IF ExtensionDegree = 1 THEN x % Prime # 0 ELSE x % FieldSize # 0

(* The units are a group of p^((k-1) r) (p^r - 1) elements. *)
UnitCount == ResidueSize^(Exponent - 1) * (ResidueSize - 1)
InverseTable ==
  Tabulated([x \in {y \in Ring : IsUnit(y)} |-> Power(x, UnitCount - 1)])

(* Inv: zero for a zero divisor. *)
Inv(x) == IF IsUnit(x) THEN InverseTable[x] ELSE 0

(* Lagrange's theorem for the group of the units. *)
ASSUME InverseAssumption ==
  \A x \in Ring : IsUnit(x) => Inv(x) \in Ring /\ Times(x, Inv(x)) = OfInteger(1)

-----------------------------------------------------------------------------
(* Teichmueller set *)

IsTeichmuller(x) == x = 0 \/ (IsUnit(x) /\ Power(x, ResidueSize - 1) = OfInteger(1))
TeichmullerSet == {x \in Ring : IsTeichmuller(x)}

(* The elements of the set lie in different residue classes. *)
ASSUME TeichmullerAssumption ==
  \A x, y \in TeichmullerSet : x # y => IsUnit(Minus(x, y))

PrimeDivisors(n) ==
  {d \in 2 .. n : n % d = 0 /\ \A e \in 2 .. d - 1 : d % e # 0}

HasExactOrder(x, order) ==
  /\ order > 0
  /\ Power(x, order) = OfInteger(1)
  /\ \A d \in PrimeDivisors(order) : Power(x, order \div d) # OfInteger(1)

(* One generator of the subgroup of this size, the same every time. *)
SubgroupGenerator(size) ==
  CHOOSE x \in TeichmullerSet : HasExactOrder(x, size)
=============================================================================
