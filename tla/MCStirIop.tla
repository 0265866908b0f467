----------------------------- MODULE MCStirIop ------------------------------
(***************************************************************************)
(* StirIop on GR(163^2, 1): the Teichmueller units are a group of 162, so  *)
(* domains of 9, 18, 27, 54, 81 and 162 points exist.                      *)
(***************************************************************************)
EXTENDS StirIop

g162 == SubgroupGenerator(162)
Root162(e) == Power(g162, e)

Coset(offset, size) == MakeDomain(offset, Root162(162 \div size), size)

Manual(mode, ood, queries, stop) ==
  [virtual_fold_factor |-> 9, shift_power |-> 3, ood_samples |-> ood, stop_degree |-> stop,
   query_repetitions |-> queries, sec_mode |-> "ConjectureCapacity", effective_bits |-> 128,
   protocol_mode |-> mode, theorem_sampling |-> TRUE]
Auto(mode, sec, bits) ==
  [Manual(mode, 1, <<>>, 5) EXCEPT !.sec_mode = sec, !.effective_bits = bits]
Theorem == "TheoremGr"
Prototype == "PrototypeEngineering"

Setup(params, domain, degree) == [params |-> params, domain |-> domain, degree |-> degree]

Poly(size, at(_)) == Trim(size, [i \in 0 .. size - 1 |-> at(i) % Modulus])

(* One round on 54 points with a bound that is not 9 k - 1; as many answers*)
(* as coefficients; a coset; two rounds on a coset outside T; no round.    *)
ProvedSetups ==
  { Setup(Manual(Theorem, 1, <<1, 2>>, 5), Coset(1, 54), 50),
    Setup(Manual(Theorem, 2, <<1, 1>>, 3), Coset(1, 27), 26),
    Setup(Auto(Theorem, "Conservative", 128), Coset(g162, 54), 53),
    Setup(Auto(Prototype, "Conservative", 64), Coset(1, 54), 50),
    Setup(Manual(Prototype, 1, <<1>>, 1), Coset(2, 162), 161),
    Setup(Manual(Theorem, 1, <<1>>, 8), Coset(1, 9), 8) }

(* Refused: the pool is empty, no budget for queries, a domain that stops  *)
(* dividing, a sampler of the other mode, a domain outside T, too high a   *)
(* degree.                                                                 *)
RefusedSetups ==
  { Setup(Manual(Theorem, 1, <<1>>, 18), Coset(1, 162), 161),
    Setup(Manual(Prototype, 3, <<1>>, 3), Coset(1, 27), 26),
    Setup(Manual(Prototype, 1, <<1>>, 5), Coset(1, 18), 17),
    Setup([Manual(Theorem, 1, <<1>>, 5) EXCEPT !.theorem_sampling = FALSE], Coset(1, 54), 50),
    Setup(Manual(Theorem, 1, <<1>>, 5), Coset(2, 54), 50),
    Setup(Manual(Prototype, 1, <<1>>, 5), Coset(1, 54), 54) }

AllSetups == ProvedSetups \cup RefusedSetups

AllPolynomials ==
  { Poly(162, LAMBDA i : 7 * i + 3), Poly(51, LAMBDA i : 7 * i + 3), Poly(9, LAMBDA i : 163 * i + 1) }

(* g^-3 is the inverse of a shifted point of Coset(1, 54).                 *)
AllChallenges == { Root162(159), Root162(159) * 164 % Modulus, Root162(5) }

(* What is also delivered damaged: one round, and none.                    *)
AllCases ==
  { <<Setup(Manual(Theorem, 1, <<1, 2>>, 5), Coset(1, 54), 50), Poly(51, LAMBDA i : 7 * i + 3)>>,
    <<Setup(Manual(Theorem, 1, <<1>>, 8), Coset(1, 9), 8), Poly(9, LAMBDA i : 163 * i + 1)>> }
=============================================================================
