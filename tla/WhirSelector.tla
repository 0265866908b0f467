---------------------------- MODULE WhirSelector ----------------------------
(***************************************************************************)
(* select_whir_unique_decoding_parameters: the search for the size n0 of   *)
(* WHIR's first domain and the extension degree r of the ring it lives in. *)
(* Candidates are odd multiples of a power of three; each is analysed for  *)
(* unique decoding, and the first with a sound, admissible r is selected.  *)
(* Machine words have WordBits bits.                                       *)
(*                                                                         *)
(* Errors are compared in bits.  The number of repetitions of a layer is   *)
(* the quotient of two real numbers, rounded up: all that is kept of it is *)
(* that it exceeds the bits asked for, as 1 - delta is more than a half,   *)
(* and that the repetitions' errors then add up to at most 2^-(lambda + 1).*)
(***************************************************************************)
EXTENDS WhirRules
LOCAL INSTANCE FiniteSetsExt
LOCAL INSTANCE TLC

CONSTANTS
  Inputs,           (* Records of WhirUniqueDecodingInputs, with rho0 as    *)
                    (* <<numerator, denominator>>.                          *)
  WordBits,         (* 64 in the code *)
  ExtraRepetitions  (* By how much repetitions are taken to exceed the bits.*)

ASSUME SelectorAssumption == WordBits \in Nat \ {0} /\ ExtraRepetitions \subseteq Nat \ {0}

VARIABLES
  pc,        (* "start", "search", "done", "throws"                        *)
  inputs,
  extra,     (* How many repetitions more than bits: one of                *)
             (* ExtraRepetitions.                                          *)
  candidate, (* n0 *)
  attempt,
  notes,     (* What was skipped and why: [n0, r, why].                     *)
  selection  (* [feasible], and [pp, r, bound, fits] once feasible.        *)

vars == <<pc, inputs, extra, candidate, attempt, notes, selection>>

kWhirSumcheckDegreeBound == 4

NoSelection == [feasible |-> FALSE]

Init ==
  /\ pc = "start" /\ inputs \in Inputs /\ extra \in ExtraRepetitions
  /\ candidate = 0 /\ attempt = 0 /\ notes = <<>> /\ selection = NoSelection

-----------------------------------------------------------------------------
(* Arithmetic *)

(* CheckedAdd, CheckedMul, ZZToUint64 throw when this fails. *)
InWord(n) == n < 2^WordBits

CeilDiv(n, d) == n \div d + IF n % d = 0 THEN 0 ELSE 1

(* CeilLog2U64, CeilLog2ZZ *)
CeilLog2(n) == CHOOSE b \in 0 .. n : 2^b >= n /\ \A c \in 0 .. b - 1 : 2^c < n
NumBits(n) == CeilLog2(n + 1)

(* Mutant: the reduction comes after an addition in the word. *)
MutAddThenReduce(x, y, n) == ((x + y) % 2^WordBits) % n

AddMod(x, y, n) == IF x >= n - y THEN x - (n - y) ELSE (x + y) % 2^WordBits

(* Double and add, square and multiply, from the lowest bit. *)
MulMod(x, y, n) ==
  LET f[e \in Nat, b \in Nat] ==
        IF e = 0 THEN 0
        ELSE LET rest == f[e \div 2, IF e > 1 THEN AddMod(b, b, n) ELSE b]
             IN  IF e % 2 = 1 THEN AddMod(b, rest, n) ELSE rest
  IN  f[y, x % n]

PowMod(x, y, n) ==
  LET f[e \in Nat, b \in Nat] ==
        IF e = 0 THEN 1
        ELSE LET rest == f[e \div 2, IF e > 1 THEN MulMod(b, b, n) ELSE b]
             IN  IF e % 2 = 1 THEN MulMod(b, rest, n) ELSE rest
  IN  IF n = 1 THEN 0 ELSE f[y, x % n]

(* n without its factors d *)
Without(n, d) ==
  LET f[v \in Nat] == IF v % d = 0 THEN f[v \div d] ELSE v IN f[n]

(* UniquePrimeFactors: two, then the odd divisors up to the square root of *)
(* what is left, then what is left.                                        *)
UniquePrimeFactors(n) ==
  LET f[d \in Nat, v \in Nat] ==
        IF d > v \div d THEN IF v > 1 THEN {v} ELSE {}
        ELSE IF v % d = 0 THEN {d} \cup f[d + 2, Without(v, d)]
        ELSE f[d + 2, v]
  IN  IF n % 2 = 0 THEN {2} \cup f[3, Without(n, 2)] ELSE f[3, n]

EulerPhi(n) == FoldSet(LAMBDA d, phi : (phi \div d) * (d - 1), n, UniquePrimeFactors(n))

(* multiplicative_order_mod_odd *)
MultiplicativeOrder(n, base) ==
  LET reduce(d, order) ==
        LET f[o \in Nat] ==
              IF o % d = 0 /\ PowMod(base, o \div d, n) = 1 THEN f[o \div d] ELSE o
        IN  f[order]
  IN  FoldSet(reduce, EulerPhi(n), UniquePrimeFactors(EulerPhi(n)))

(* domain_divides_teichmuller_group *)
DividesTeichmullerGroup(n, r) == n % 2 = 1 /\ (n = 1 \/ PowMod(2, r, n) = 1)

-----------------------------------------------------------------------------
(* From the inputs *)

ValidInputs ==
  /\ inputs.lambda_target # 0 /\ inputs.ring_exponent # 0 /\ inputs.variable_count # 0
  /\ inputs.max_layer_width # 0 /\ inputs.max_n0_search_steps # 0
  /\ inputs.fixed_extension_degree = 0 \/ inputs.max_extension_degree = 0
       \/ inputs.fixed_extension_degree <= inputs.max_extension_degree
  /\ inputs.rho0[1] # 0 /\ inputs.rho0[1] < inputs.rho0[2]

LayerWidths ==
  LET m == inputs.variable_count
      b == inputs.max_layer_width
  IN  [l \in 1 .. CeilDiv(m, b) |-> Min({b, m - (l - 1) * b})]

Layers == Len(LayerWidths)

RequiredDivisor == 3^Max({l - 1 + LayerWidths[l] : l \in 1 .. Layers})
LowerBoundForN0 == CeilDiv(3^inputs.variable_count * inputs.rho0[2], inputs.rho0[1])
Step == 2 * RequiredDivisor

FirstOddMultipleAtLeast(bound, divisor) ==
  LET quotient == CeilDiv(bound, divisor)
  IN  (IF quotient % 2 = 0 THEN quotient + 1 ELSE quotient) * divisor

FirstCandidate == FirstOddMultipleAtLeast(LowerBoundForN0, RequiredDivisor)

-----------------------------------------------------------------------------
(* AnalyzeCandidate *)

RepetitionSecurityBits == inputs.lambda_target + 1 + CeilLog2(Layers + 1)

(* The analysis of n0 goes through, for layers 1 .. Layers. *)
Analysable(n0) ==
  /\ \A l \in 1 .. Layers :
       LET size == n0 \div 3^(l - 1)
       IN  /\ n0 % 3^(l - 1) = 0
           /\ size % 3^LayerWidths[l] = 0
           /\ 3^LiveVariables([variable_count |-> inputs.variable_count,
                               layer_widths   |-> LayerWidths], l - 1) < size
  /\ n0 % 3^Layers = 0 /\ n0 \div 3^Layers > 1

Repetitions == [l \in 1 .. Layers + 1 |-> RepetitionSecurityBits + extra]

(* Mutant: the rate is taken over the first domain in every layer. *)
MutGapOfFirstDomain(pp, l) ==
  <<pp.domain.size - 3^LiveVariables(pp, l - 1), 2 * pp.domain.size>>

(* (1 - rho) / 2 *)
HalfGap(pp, l) ==
  LET size == pp.domain.size \div 3^(l - 1)
  IN  <<size - 3^LiveVariables(pp, l - 1), 2 * size>>

PublicParameters(n0) ==
  LET pp == [variable_count |-> inputs.variable_count, layer_widths |-> LayerWidths,
             shift_repetitions |-> SubSeq(Repetitions, 1, Layers),
             final_repetitions |-> Repetitions[Layers + 1],
             degree_bounds |-> [l \in 1 .. Layers |-> kWhirSumcheckDegreeBound],
             lambda_target |-> inputs.lambda_target, domain |-> [size |-> n0]]
  IN  [deltas |-> [l \in 1 .. Layers |-> HalfGap(pp, l)]] @@ pp

AlgebraicBound(n0) ==
  LET folds(l) == FoldSet(LAMBDA j, sum : sum + 2 * (n0 \div 3^(l - 1 + j))^2, 0,
                          1 .. LayerWidths[l])
  IN  FoldSet(LAMBDA l, sum : sum + folds(l) + LayerWidths[l] * kWhirSumcheckDegreeBound
                                  + Repetitions[l] + 1,
              0, 1 .. Layers)

Rsec(bound) == inputs.lambda_target + 1 + CeilLog2(bound)

SelectedR(n0, bound) ==
  LET rdom == MultiplicativeOrder(n0, 2)
  IN  IF inputs.fixed_extension_degree # 0 THEN inputs.fixed_extension_degree
      ELSE rdom * CeilDiv(Rsec(bound), rdom)

(* bound / 2^r below 2^-lambda; in all at most 2^-lambda, which is certain *)
(* when bound / 2^r takes no more than half of it.                         *)
Feasible(n0, r, bound) ==
  LET bits == r - inputs.lambda_target
  IN  IF ~DividesTeichmullerGroup(n0, r) \/ NumBits(bound) > bits THEN {FALSE}
      ELSE IF CeilLog2(bound) < bits THEN {TRUE} ELSE BOOLEAN

Analyses(n0) ==
  LET bound == AlgebraicBound(n0)
      r     == SelectedR(n0, bound)
  IN  {[feasible |-> feasible, pp |-> PublicParameters(n0), r |-> r, bound |-> bound,
        fits |-> \A n \in {RepetitionSecurityBits, Rsec(bound), r} : InWord(n)] :
         feasible \in Feasible(n0, r, bound)}

-----------------------------------------------------------------------------
(* The search *)

Throw == pc' = "throws" /\ UNCHANGED <<inputs, extra, candidate, attempt, notes, selection>>

Refuse == pc = "start" /\ ~ValidInputs /\ Throw

StartFits ==
  \A n \in {RequiredDivisor, 3^inputs.variable_count, LowerBoundForN0, FirstCandidate, Step} : InWord(n)

Begin ==
  /\ pc = "start" /\ ValidInputs
  /\ StartFits
  /\ pc' = "search" /\ candidate' = FirstCandidate
  /\ UNCHANGED <<inputs, extra, attempt, notes, selection>>

OverflowAtStart ==
  /\ pc = "start" /\ ValidInputs
  /\ ~StartFits
  /\ Throw

InRoom == inputs.max_domain_size = 0 \/ candidate <= inputs.max_domain_size
Searching == pc = "search" /\ attempt < inputs.max_n0_search_steps /\ InRoom
Admitted(r) == inputs.max_extension_degree = 0 \/ r <= inputs.max_extension_degree

GiveUp ==
  /\ pc = "search"
  /\ attempt = inputs.max_n0_search_steps \/ ~InRoom
  /\ pc' = "done"
  /\ UNCHANGED <<inputs, extra, candidate, attempt, notes, selection>>

Select ==
  /\ Searching /\ Analysable(candidate)
  /\ \E a \in Analyses(candidate) :
       /\ a.fits /\ a.feasible /\ Admitted(a.r)
       /\ selection' = a
  /\ pc' = "done"
  /\ UNCHANGED <<inputs, extra, candidate, attempt, notes>>

(* candidate += step, unless that is more than a word holds *)
Advance ==
  IF candidate > 2^WordBits - 1 - Step
  THEN pc' = "done" /\ UNCHANGED <<candidate, attempt>>
  ELSE candidate' = candidate + Step /\ attempt' = attempt + 1 /\ UNCHANGED pc

Skip ==
  /\ Searching
  /\ \E a \in Analyses(candidate) :
       /\ a.fits /\ ~(Analysable(candidate) /\ a.feasible /\ Admitted(a.r))
       /\ notes' = IF ~Analysable(candidate) THEN notes
                   ELSE Append(notes, [n0 |-> candidate, r |-> a.r,
                                       why |-> IF a.feasible THEN "degree" ELSE "infeasible"])
  /\ Advance
  /\ UNCHANGED <<inputs, extra, selection>>

OverflowInSearch ==
  /\ Searching /\ Analysable(candidate)
  /\ \E a \in Analyses(candidate) : ~a.fits
  /\ Throw

Returned == pc \in {"done", "throws"} /\ UNCHANGED vars

Next == Refuse \/ OverflowAtStart \/ Begin \/ GiveUp \/ Select \/ Skip \/ OverflowInSearch \/ Returned

Spec == Init /\ [][Next]_vars

-----------------------------------------------------------------------------

(* 2^r = 1 modulo n, by the first power of two that is one. *)
OrderDivides(n, r) ==
  LET power[i \in 0 .. n] == IF i = 0 THEN 1 ELSE (2 * power[i - 1]) % n
      order == CHOOSE k \in 1 .. n : power[k] = 1 /\ \A i \in 1 .. k - 1 : power[i] # 1
  IN  r % order = 0

(* WHIR's own validate takes what the search selects, layer by layer; a    *)
(* subgroup of n0 points and an omega of order three exist in the selected *)
(* ring; and r leaves the algebraic error below its share.                 *)
SelectionIsUsable ==
  selection.feasible =>
    LET pp == selection.pp
    IN  /\ \A l \in 1 .. Layers : LayerFits(pp, l)
        /\ LiveVariables(pp, Layers) = 0
        /\ pp.domain.size % 3 = 0 /\ OrderDivides(pp.domain.size, selection.r)
        /\ \E b \in 0 .. selection.r - inputs.lambda_target : selection.bound < 2^b

(* The domains the layers can use: odd, at the rate asked for or below.    *)
Usable ==
  {n \in 1 .. candidate - 1 :
     /\ n % 2 = 1 /\ n * inputs.rho0[1] >= 3^inputs.variable_count * inputs.rho0[2]
     /\ \A l \in 1 .. Layers : n % 3^(l - 1 + LayerWidths[l]) = 0}

(* No smaller domain is passed over: each was analysed and is too large a  *)
(* degree, or, of a given degree, has no subgroup or too large an error.   *)
(* A degree the search chooses is always sound.                            *)
SkippedForCause ==
  pc \in {"search", "done"} =>
    /\ Usable \subseteq {notes[i].n0 : i \in DOMAIN notes}
    /\ \A i \in DOMAIN notes :
         LET n == notes[i]
         IN  IF n.why = "degree"
             THEN inputs.fixed_extension_degree = 0 /\ n.r > inputs.max_extension_degree
             ELSE /\ inputs.fixed_extension_degree # 0
                  /\ \/ ~OrderDivides(n.n0, n.r)
                     \/ 2 * AlgebraicBound(n.n0) > 2^(n.r - inputs.lambda_target)
=============================================================================
