--------------------------- MODULE MCWhirSelector ---------------------------
(***************************************************************************)
(* WhirSelector with words of eight bits: domains of up to 255 points.     *)
(***************************************************************************)
EXTENDS WhirSelector

Rates == {<<1, 3>>, <<1, 2>>, <<4, 5>>, <<1, 20>>}
Given(lambda, m, bmax, rho0, fixed, maxr, maxn, steps) ==
  [lambda_target |-> lambda, ring_exponent |-> 2, variable_count |-> m, max_layer_width |-> bmax,
   rho0 |-> rho0, fixed_extension_degree |-> fixed, max_extension_degree |-> maxr,
   max_domain_size |-> maxn, max_n0_search_steps |-> steps]

(* Widths of one and two, of up to four variables: the last do not fit.    *)
MCInputs ==
  {Given(lambda, m, bmax, rho0, fixed, 0, 0, steps) :
     lambda \in {1, 5}, m \in 1 .. 4, bmax \in 1 .. 3, rho0 \in Rates, fixed \in {0, 18, 20, 12},
     steps \in {50}}
  \cup {Given(2, m, bmax, rho0, 0, maxr, maxn, steps) :
          m \in 1 .. 2, bmax \in 1 .. 2, rho0 \in Rates, maxr \in {12, 20}, maxn \in {0, 100},
          steps \in {2, 50}}
  \cup {Given(0, 1, 1, <<1, 2>>, 0, 0, 0, 5), Given(1, 1, 0, <<1, 2>>, 0, 0, 0, 5),
        Given(1, 1, 1, <<2, 2>>, 0, 0, 0, 5), Given(1, 1, 1, <<1, 2>>, 12, 8, 0, 5),
        Given(250, 1, 1, <<1, 2>>, 0, 0, 0, 5)}
=============================================================================
