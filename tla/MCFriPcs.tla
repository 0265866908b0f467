------------------------------ MODULE MCFriPcs ------------------------------
(***************************************************************************)
(* FriPcs on GR(19^k, 1), where the Teichmueller set has 19 elements and   *)
(* domains of 3 and 9 points fit in it.                                    *)
(***************************************************************************)
EXTENDS FriPcs

(* A generator of the group that holds the domains, and a root of its own. *)
g9 == SubgroupGenerator(9)
g18 == SubgroupGenerator(18)

Setup(fold, stop, repetitions, domain, bound) ==
  [fold_factor |-> fold, stop_degree |-> stop, repetition_count |-> repetitions,
   domain |-> domain, degree_bound |-> bound]

Nine == TeichmullerCoset(1, 9)
NineCoset == TeichmullerCoset(g18, 9)
Three == TeichmullerCoset(1, 3)
One == TeichmullerCoset(1, 1)

Poly(size, at(_)) == Trim(size, [i \in 0 .. size - 1 |-> at(i) % Modulus])

(* Two rounds 9 -> 3 -> 1, the second without folding, one round 3 -> 1,   *)
(* and none: openings of these are also delivered damaged.                 *)
DamagedSetups ==
  { Setup(3, 1, 2, Nine, 8), Setup(3, 2, 2, NineCoset, 8), Setup(3, 2, 1, Three, 2),
    Setup(3, 1, 1, Three, 1), Setup(3, 1, 1, Three, 0), Setup(3, 1, 1, One, 0) }

(* One round 9 -> 3, one of folding by 9; then setups commit refuses.      *)
AllSetups == DamagedSetups \cup
  { Setup(3, 2, 1, NineCoset, 7), Setup(9, 1, 1, Nine, 8),
    Setup(3, 8, 1, Three, 1), Setup(3, 1, 2, Three, 2), Setup(3, 1, 1, Nine, 0),
    Setup(3, 1, 1, Three, 3), Setup(9, 1, 1, Three, 2), Setup(3, 0, 1, Nine, 8),
    Setup(3, 1, 1, TeichmullerCoset(2, 9), 8) }

FewPolynomials ==
  { Poly(9, LAMBDA i : 7 * i + 3), Poly(3, LAMBDA i : i + 5), Poly(1, LAMBDA i : 4) }
AllPolynomials == FewPolynomials \cup
  { Poly(8, LAMBDA i : IF i = 7 THEN 1 ELSE 19 * i), Poly(2, LAMBDA i : i + 5), Poly(0, LAMBDA i : 0) }

AllPoints == {0, 1, g9, g18, 2}
AllChallenges == {0, 1, g9, Minus(0, 1), 2, 20}

AllCases == DamagedSetups \X FewPolynomials
=============================================================================
