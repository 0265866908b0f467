---------------------------- MODULE MCFoldTable -----------------------------
(***************************************************************************)
(* FoldTable on GR(31^2, 1) with a domain of 30 points and folding by 3:   *)
(* ten slots, in chunks of three and one left over.                        *)
(* Folding is linear in the polynomial, so monomials of every residue and  *)
(* one with a zero divisor as coefficient cover it; challenges are taken   *)
(* in and outside the Teichmueller set.                                    *)
(***************************************************************************)
EXTENDS FoldTable

Monomial(j, c) == [size |-> j + 1, at |-> [i \in 0 .. j |-> IF i = j THEN c ELSE 0]]

MCPolynomials ==
  {Monomial(j, 1) : j \in {0, 1, 29}} \cup {Monomial(5, 31)}
  \cup {[size |-> 12, at |-> [i \in 0 .. 11 |-> 3 * i + 31]]}
MCOffsets == {1, 2}
MCAlphas == {0, 2, 31, SubgroupGenerator(5)}
=============================================================================
