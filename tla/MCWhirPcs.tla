----------------------------- MODULE MCWhirPcs ------------------------------
(***************************************************************************)
(* WhirPcs on GR(4, 6): 63 Teichmueller units, so domains of 9, 21 and 63  *)
(* points exist, and an omega of order 3.                                  *)
(***************************************************************************)
EXTENDS WhirPcs

g63 == SubgroupGenerator(63)
Omega == Power(g63, 21)
Coset(offset, size) == MakeDomain(offset, Power(g63, 63 \div size), size)

Params == [folding_factor |-> 1, lambda_target |-> 32, hash_profile |-> "STIR_NATIVE"]

PublicParameters(m, widths, repetitions, domain) ==
  [variable_count |-> m, layer_widths |-> widths, shift_repetitions |-> repetitions,
   degree_bounds |-> [l \in DOMAIN widths |-> 4], deltas |-> [l \in DOMAIN widths |-> <<1, 4>>],
   final_repetitions |-> 1, lambda_target |-> 32, hash_profile |-> "STIR_NATIVE",
   domain |-> domain, omega |-> Omega, ternary_grid |-> TernaryGrid(Omega)]

Setup(pp) == [params |-> Params, pp |-> pp]

One9 == PublicParameters(1, <<1>>, <<1>>, Coset(1, 9))
One63 == PublicParameters(1, <<1>>, <<2>>, Coset(g63, 63))
Steps == PublicParameters(2, <<1, 1>>, <<2, 1>>, Coset(1, 63))
Wide == PublicParameters(2, <<2>>, <<1>>, Coset(1, 63))
WideDense == PublicParameters(2, <<2>>, <<7>>, Coset(g63, 63))

(* One variable; two, one after the other or both at once, by single fibers*)
(* or by the whole table; a degree bound honest polynomials exceed.        *)
OpenedSetups ==
  { Setup(One9), Setup(One63), Setup(Steps), Setup(Wide), Setup(WideDense),
    Setup([One9 EXCEPT !.final_repetitions = 20, !.degree_bounds = <<3>>]) }

(* Refused: a delta over (1 - rho) / 2, widths that do not add up, a rate  *)
(* of 1, an omega of order 9, another hash, a domain outside T; open alone *)
(* refuses to draw no final position.                                      *)
RefusedSetups ==
  { Setup([One9 EXCEPT !.deltas = <<<<1, 2>>>>]),
    Setup([Steps EXCEPT !.layer_widths = <<2, 1>>]),
    Setup([Wide EXCEPT !.domain = Coset(1, 9)]),
    Setup([One9 EXCEPT !.omega = Power(g63, 7), !.ternary_grid = TernaryGrid(Power(g63, 7))]),
    Setup([One9 EXCEPT !.hash_profile = "WHIR_NATIVE"]),
    Setup([One9 EXCEPT !.domain = Coset(65, 9)]),
    Setup([One9 EXCEPT !.final_repetitions = 0]) }

(* What is also delivered damaged.                                         *)
DamagedSetups == { Setup(One9), Setup(One63), Setup(Steps), Setup(Wide) }

AllSetups == OpenedSetups \cup RefusedSetups

Quad(m, size, at(_)) == [multilinear |-> FALSE, m |-> m, f |-> Trim(size, [i \in 0 .. size - 1 |-> at(i)])]
Linear(m, size, at(_)) == [Quad(m, size, at) EXCEPT !.multilinear = TRUE]

AllSources ==
  { Quad(1, 3, LAMBDA i : 70 * i + 67), Linear(1, 2, LAMBDA i : 131 * i + 2),
    Quad(2, 8, LAMBDA i : (517 * i + 64) % 4096), Linear(2, 4, LAMBDA i : 1000 * i + 65) }

(* A point of T and one outside it; one partly on the grid.                *)
AllTargets == { <<g63>>, <<66>>, <<Omega, 77>>, <<2, 3000>> }

AllChallenges == { Power(g63, 5), 0 }

(* Openings of two variables at once, of one after the other, and of one.  *)
AllCases ==
  DamagedSetups
    \X { Quad(1, 3, LAMBDA i : 70 * i + 67), Quad(2, 8, LAMBDA i : (517 * i + 64) % 4096) }
    \X { <<66>>, <<2, 3000>> }

ZeroSources == { Quad(1, 0, LAMBDA i : 0), Quad(1, 3, LAMBDA i : 70 * i + 67) }
ZeroSetups == { Setup(One9) }
NoCases == {}
=============================================================================
