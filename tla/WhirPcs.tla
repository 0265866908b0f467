------------------------------ MODULE WhirPcs -------------------------------
(***************************************************************************)
(* WHIR: WhirProver::commit and open, an opening that may be damaged on    *)
(* its way, and WhirVerifier::verify.  The transcript is a random oracle:  *)
(* equal histories give equal challenges, others any.  A layer runs one    *)
(* sumcheck step per variable it fixes, then commits to the restricted     *)
(* polynomial on the domain of cubes and samples the fold of the last      *)
(* oracle, on the domain of 3^width-th powers.                             *)
(***************************************************************************)
EXTENDS WhirRules, TLC
LOCAL INSTANCE SequencesExt

CONSTANTS
  Setups,           (* [params, pp]: params_ and the public parameters.    *)
  Sources,          (* What is committed to: [multilinear, m, f].          *)
  Targets,          (* The points opened at.                               *)
  ChallengeSample,  (* Ring elements tried as challenges.                  *)
  PositionBound,    (* How many positions are tried; see PositionDraws.    *)
  DamagedCases      (* The <<setup, source, target>> whose openings may be damaged. *)

VARIABLES
  pc,           (* "commit", "committed", "sumcheck", "layer", "finish",   *)
                (* "deliver", "verify", "check", "draw", "final", "done"   *)
  setup, source, target,
  commitment,   (* oracle_root; its public parameters are setup.pp.        *)
  state,        (* WhirCommitmentState; NoState if commit got no pointer.  *)
  current,      (* The prover's current_polynomial and current_oracle, and *)
                (* the sumcheck polynomials of the layer.                  *)
  layer, constraint, sigma, alphas,  (* of the party that is running       *)
  drawn,        (* What it drew in the layers behind it, and the values of *)
                (* the fold it found there.                                *)
  opening,      (* WhirOpening: [value, rounds, final_constant,            *)
                (* final_openings]                                         *)
  damage,
  transcript,   (* What was absorbed, and <<"squeeze", label, answer>>.      *)
  memo,         (* The prover's transcript: whoever asks for the same after *)
                (* the same gets its answer.                               *)
  verdict       (* "none"; "refused" or "failed" if the prover threw;      *)
                (* "accept", "reject"                                      *)

party == <<layer, constraint, sigma, alphas, drawn>>
vars == <<pc, setup, source, target, commitment, state, current, party, opening, damage,
          transcript, memo, verdict>>

NoState == <<>>
NoOpening == [value |-> 0, rounds |-> <<>>, final_constant |-> 0, final_openings |-> NoProof]
Nothing == Trim(0, <<>>)
Idle == [polynomial |-> Nothing, oracle |-> <<>>, sumchecks |-> <<>>]

Init ==
  /\ pc = "commit" /\ verdict = "none" /\ damage = "none"
  /\ setup \in Setups /\ source \in Sources /\ target \in Targets
  /\ commitment = <<>> /\ state = NoState /\ current = Idle /\ opening = NoOpening
  /\ layer = 1 /\ constraint = <<>> /\ sigma = 0 /\ alphas = <<>> /\ drawn = <<>>
  /\ transcript = <<>> /\ memo = <<>>

-----------------------------------------------------------------------------
(* Both sides *)

Pp == setup.pp
Layers == Len(Pp.layer_widths)
Width == Pp.layer_widths[layer]
Live == LiveVariables(Pp, layer - 1)
DomainAt(l) == RoundDomain([fold_factor |-> 3], Pp.domain, l - 1)
ShiftSize == DomainAt(layer).size \div 3^Width
ShiftDomain == PowMap(DomainAt(layer), 3^Width)
Challenges == ChallengeSample \cap TeichmullerSet

(* derive_unique_positions: that many, in the order they came.  Of all the *)
(* draws those of one more than enough positions are tried, forwards and   *)
(* backwards.                                                              *)
PositionDraws(count, size) ==
  LET n == Min({count, size})
  IN  UNION {{Ascending(S), Reverse(Ascending(S))} :
               S \in kSubset(n, 0 .. Min({PositionBound + n - 1, size}) - 1)}

Started == [t |-> transcript, got |-> <<>>]
Absorb(s, what) == [s EXCEPT !.t = Append(@, what)]
Ask(s, label, S) ==
  LET next  == Len(s.t) + 1
      asked == /\ next <= Len(memo) /\ SubSeq(memo, 1, next - 1) = s.t
               /\ Head(memo[next]) = "squeeze" /\ memo[next][2] = label
  IN  {[t |-> Append(s.t, <<"squeeze", label, v>>), got |-> Append(s.got, v)] :
         v \in IF asked THEN {memo[next][3]} ELSE S}

(* absorb_opening_preamble *)
Preamble(value) == <<"open", Pp, commitment, target, value>>

(* The first constraint: A(x) = eq(target, x), whose sum is the value.     *)
FirstConstraint ==
  [grid |-> Pp.ternary_grid, terms |-> <<[weight |-> OfInteger(1), point |-> target]>>]

Begin(value) ==
  /\ transcript' = <<Preamble(value)>>
  /\ layer' = 1 /\ constraint' = FirstConstraint /\ sigma' = value
  /\ alphas' = <<>> /\ drawn' = <<>>

AlphaDraws(h) ==
  Ask(Absorb(Started, <<"sumcheck", layer, Len(alphas), h>>),
      <<"alpha", layer, Len(alphas)>>, Challenges)

(* The new root and the shift positions; then gamma. *)
ShiftDraws(root) ==
  Ask(Absorb(Started, <<"g_root", layer, root>>), <<"shift", layer>>,
      PositionDraws(Pp.shift_repetitions[layer], ShiftSize))
GammaDraws(s) == Ask(s, <<"gamma", layer>>, Challenges)

FinalDraws(final_constant) ==
  Ask(Absorb(Started, <<"final_constant", final_constant>>), <<"final">>,
      PositionDraws(Pp.final_repetitions, DomainAt(Layers + 1).size))

(* Mutant: in ascending order, which is not the order they were drawn in.  *)
MutShiftPointsSorted(positions) ==
  [j \in DOMAIN positions |->
     PowM(ShiftDomain.points[Ascending(Positions(positions))[j]], Live - Width)]

ShiftPoints(positions) ==
  [j \in DOMAIN positions |->
     PowM(ShiftDomain.points[positions[j]], Live - Width)]

(* The end of a layer, from the restricted constraint and the folds found. *)
EndLayer(restricted, values, s) ==
  LET positions == s.got[1]
  IN  /\ constraint' = AddShiftTerms(restricted, s.got[2], ShiftPoints(positions))
      /\ sigma' = Plus(sigma, GammaSum(s.got[2], values))
      /\ drawn' = Append(drawn, [alphas |-> alphas, positions |-> positions,
                                 gamma |-> s.got[2], values |-> values])
      /\ alphas' = <<>> /\ layer' = layer + 1
      /\ transcript' = s.t

AllOk(folds) == \A j \in DOMAIN folds : folds[j].ok
ValuesOf(folds) == [j \in DOMAIN folds |-> folds[j].value]

Stop(v) ==
  /\ pc' = "done" /\ verdict' = v
  /\ UNCHANGED <<setup, source, target, commitment, state, current, party, opening, damage,
                 transcript, memo>>

-----------------------------------------------------------------------------
(* WhirProver *)

(* The polynomial of a source; a multilinear one is embedded first.        *)
Quadratic(from) == IF from.multilinear THEN ToMultiQuadratic(from.f, from.m) ELSE from.f
ValueOf(from, x) == IF from.multilinear THEN MultilinearAt(from.f, x) ELSE EvaluateAt(from.f, x)

StateFor(from) ==
  LET oracle == Tabulated(Encode(Pp.domain, Quadratic(from)))
  IN  [polynomial |-> Quadratic(from), oracle |-> oracle, oracle_root |-> Root(oracle)]

MayCommit(from) ==
  ValidWhirParameters(setup.params, Pp) /\ from.m = Pp.variable_count

(* commit, with or without a state to fill. *)
Commit(keep) ==
  /\ pc = "commit"
  /\ IF MayCommit(source)
     THEN LET filled == StateFor(source)
          IN  /\ commitment' = filled.oracle_root
              /\ state' = IF keep THEN filled ELSE NoState
              /\ pc' = "committed"
              /\ UNCHANGED <<setup, source, target, current, party, opening, damage, transcript,
                             memo, verdict>>
     ELSE Stop("refused")

(* Another commit with the same state object: the commitment made before   *)
(* is still with the caller, the state is the new polynomial's.            *)
CommitAgain(other) ==
  /\ pc = "committed"
  /\ state # NoState /\ state.oracle_root = commitment
  /\ other # source /\ MayCommit(other)
  /\ state' = StateFor(other)
  /\ UNCHANGED <<pc, setup, source, target, commitment, current, party, opening, damage,
                 transcript, memo, verdict>>

(* Mutant: the root kept beside the state is not compared. *)
MutAnyState ==
  /\ ValidWhirParameters(setup.params, Pp)
  /\ state # NoState
  /\ Len(target) = Pp.variable_count
  /\ TableSize(state.oracle) = Pp.domain.size
  /\ Pp.final_repetitions # 0

MayOpen ==
  /\ ValidWhirParameters(setup.params, Pp)
  /\ state # NoState
  /\ Len(target) = Pp.variable_count
  /\ state.oracle_root = commitment /\ Root(state.oracle) = commitment
  /\ TableSize(state.oracle) = Pp.domain.size
  /\ Pp.final_repetitions # 0

Open ==
  /\ pc = "committed"
  /\ IF MayOpen
     THEN LET value == EvaluateAt(state.polynomial, target)
          IN  /\ Begin(value)
              /\ opening' = [opening EXCEPT !.value = value]
              /\ current' = [polynomial |-> state.polynomial, oracle |-> state.oracle,
                             sumchecks |-> <<>>]
              /\ pc' = "sumcheck"
              /\ UNCHANGED <<setup, source, target, commitment, state, damage, memo, verdict>>
     ELSE Stop("refused")

(* One variable of a layer. *)
Sumcheck ==
  /\ pc = "sumcheck"
  /\ LET h == HonestSumcheck(current.polynomial, constraint, alphas)
     IN  \E s \in AlphaDraws(h) :
           /\ sigma' = Evaluate(h, s.got[1]) /\ alphas' = Append(alphas, s.got[1])
           /\ current' = [current EXCEPT !.sumchecks = Append(@, h)]
           /\ transcript' = s.t
  /\ pc' = IF Len(alphas) + 1 = Width THEN "layer" ELSE "sumcheck"
  /\ UNCHANGED <<setup, source, target, commitment, state, layer, constraint, drawn, opening,
                 damage, memo, verdict>>

(* The folds at the positions: from the whole folded table when at least   *)
(* half of it is wanted, else fiber by fiber.                              *)
Dense(positions) == Len(positions) >= (ShiftSize + 1) \div 2

FoldsOf(oracle, positions) ==
  LET folded == Tabulated(RepeatedFoldTable(DomainAt(layer), oracle, alphas))
  IN  IF Dense(positions)
      THEN [j \in DOMAIN positions |-> [ok |-> TRUE, value |-> folded[positions[j]]]]
      ELSE [j \in DOMAIN positions |-> VirtualFold(DomainAt(layer), positions[j], alphas, oracle)]

(* The rest of the layer. *)
EndProverLayer ==
  LET next   == RestrictPrefix(current.polynomial, Live, alphas)
      oracle == Tabulated(Encode(DomainAt(layer + 1), next))
      Send(positions) ==
        [sumcheck_polynomials  |-> current.sumchecks,
         g_root                |-> Root(oracle),
         virtual_fold_openings |->
           OpenTree(current.oracle, ParentIndices(DomainAt(layer).size, Width, positions))]
  IN
  /\ pc = "layer"
  /\ \E s \in ShiftDraws(Root(oracle)) :
       LET folds == Tabulated(FoldsOf(current.oracle, s.got[1]))
       IN  IF AllOk(folds)
           THEN \E g \in GammaDraws(s) :
                  /\ EndLayer(RestrictConstraint(constraint, alphas), ValuesOf(folds), g)
                  /\ opening' = [opening EXCEPT !.rounds = Append(@, Send(s.got[1]))]
                  /\ current' = [polynomial |-> next, oracle |-> oracle, sumchecks |-> <<>>]
                  /\ pc' = IF layer = Layers THEN "finish" ELSE "sumcheck"
                  /\ UNCHANGED <<setup, source, target, commitment, state, damage, memo, verdict>>
           ELSE Stop("failed")

(* What is left is a constant. *)
FinishOpening ==
  LET final_constant == EvaluateAt(current.polynomial, <<>>)
  IN
  /\ pc = "finish"
  /\ \E s \in FinalDraws(final_constant) :
       /\ opening' = [opening EXCEPT
            !.final_constant = final_constant,
            !.final_openings = OpenTree(current.oracle, Positions(s.got[1]))]
       /\ memo' = s.t
  /\ pc' = "deliver"
  /\ UNCHANGED <<setup, source, target, commitment, state, current, party, damage, transcript,
                 verdict>>

-----------------------------------------------------------------------------
(* The opening on its way: intact, or damaged in one place.                *)

(* h + factor. *)
AddTo(h, factor) ==
  LET size == IF h.size > factor.size THEN h.size ELSE factor.size
  IN  Trim(size, [e \in 0 .. size - 1 |-> Plus(IF e < h.size THEN h.at[e] ELSE 0,
                                               IF e < factor.size THEN factor.at[e] ELSE 0)])
Longer(h) == [size |-> h.size + 1, at |-> [e \in 0 .. h.size |-> IF e < h.size THEN h.at[e] ELSE 0]]

(* X - alpha for the first alpha drawn: the sum changes, the next one not. *)
Tilt == [size |-> 2, at |-> [e \in 0 .. 1 |->
           IF e = 0 THEN Minus(0, drawn[1].alphas[1]) ELSE OfInteger(1)]]
(* X: its sum over the grid is 0, only what follows changes.               *)
Slope == [size |-> 2, at |-> [e \in 0 .. 1 |-> e]]

Received(kind) ==
  CASE kind \in {"none", "root"} -> opening
    [] kind = "value"    -> [opening EXCEPT !.value = Plus(@, 1)]
    [] kind = "tilt"     -> [opening EXCEPT !.rounds[1].sumcheck_polynomials[1] = AddTo(@, Tilt)]
    [] kind = "slope"    -> [opening EXCEPT !.rounds[1].sumcheck_polynomials[1] = AddTo(@, Slope)]
    [] kind = "longer"   -> [opening EXCEPT !.rounds[1].sumcheck_polynomials[1] = Longer(@)]
    [] kind = "empty"    -> [opening EXCEPT !.rounds[1].sumcheck_polynomials[1] = Nothing]
    [] kind = "fewer"    -> [opening EXCEPT !.rounds[1].sumcheck_polynomials = Tail(@)]
    [] kind = "more"     -> [opening EXCEPT !.rounds[1].sumcheck_polynomials = Append(@, Slope)]
    [] kind = "g_root"   -> [opening EXCEPT !.rounds[1].g_root[0] = Plus(@, 1)]
    [] kind = "no_root"  -> [opening EXCEPT !.rounds[1].g_root = <<>>]
    [] kind = "payload"  -> [opening EXCEPT !.rounds[1].virtual_fold_openings.leaf_payloads[1] = Plus(@, 1)]
    [] kind = "index"    -> [opening EXCEPT !.rounds[1].virtual_fold_openings.queried_indices[1] = @ + 1]
    [] kind = "siblings" -> [opening EXCEPT !.rounds[1].virtual_fold_openings.sibling_hashes = "changed"]
    [] kind = "round"    -> [opening EXCEPT !.rounds = Tail(@)]
    [] kind = "constant" -> [opening EXCEPT !.final_constant = Plus(@, 1)]
    [] kind = "last"     -> [opening EXCEPT !.final_openings.leaf_payloads[1] = Plus(@, 1)]
    [] kind = "last_index" -> [opening EXCEPT !.final_openings.queried_indices[1] = @ + 1]
    [] kind = "last_siblings" -> [opening EXCEPT !.final_openings.sibling_hashes = "changed"]

DamageKinds ==
  IF <<setup, source, target>> \notin DamagedCases THEN {"none"}
  ELSE { "none", "root", "value", "tilt", "slope", "longer", "empty", "fewer", "more", "g_root",
         "no_root", "payload", "index", "siblings", "round", "constant", "last", "last_index",
         "last_siblings" }

Deliver(kind) ==
  /\ pc = "deliver"
  /\ opening' = Received(kind) /\ damage' = kind
  /\ commitment' = IF kind = "root" THEN [commitment EXCEPT ![0] = Plus(@, 1)] ELSE commitment
  /\ current' = Idle /\ pc' = "verify"
  /\ UNCHANGED <<setup, source, target, state, party, transcript, memo, verdict>>

-----------------------------------------------------------------------------
(* WhirVerifier::verify *)

VerifyStart ==
  /\ pc = "verify"
  /\ IF /\ ValidWhirParameters(setup.params, Pp) /\ commitment # <<>>
        /\ Len(target) = Pp.variable_count
        /\ ProofShapeValid(opening) /\ Len(opening.rounds) = Layers
     THEN /\ Begin(opening.value)
          /\ pc' = "check"
          /\ UNCHANGED <<setup, source, target, commitment, state, current, opening, damage, memo,
                         verdict>>
     ELSE Stop("reject")

Sent == opening.rounds[layer]

(* One variable: the polynomial is absorbed, alpha drawn, then the check.  *)
VerifySumcheck ==
  /\ pc = "check"
  /\ IF Len(Sent.sumcheck_polynomials) # Width \/ Width > Live THEN Stop("reject")
     ELSE LET h == Sent.sumcheck_polynomials[Len(alphas) + 1]
          IN  \E s \in AlphaDraws(h) :
                IF SumcheckHolds(Pp.ternary_grid, h, sigma, Pp.degree_bounds[layer])
                THEN /\ sigma' = Evaluate(h, s.got[1]) /\ alphas' = Append(alphas, s.got[1])
                     /\ transcript' = s.t
                     /\ pc' = IF Len(alphas) + 1 = Width THEN "draw" ELSE "check"
                     /\ UNCHANGED <<setup, source, target, commitment, state, current, layer,
                                    constraint, drawn, opening, damage, memo,
                                    verdict>>
                ELSE Stop("reject")

CurrentRoot == IF layer = 1 THEN commitment ELSE opening.rounds[layer - 1].g_root

(* The openings are those of the drawn positions, under the last root.     *)
OpeningsHold(positions) ==
  /\ SameQueries(ParentIndices(DomainAt(layer).size, Width, positions), Sent.virtual_fold_openings)
  /\ TreeAccepts(CurrentRoot, DomainAt(layer).size, Sent.virtual_fold_openings)

VerifierShiftDraws == ShiftDraws(Sent.g_root)

(* The rest of a layer.  A throw while folding is a rejection.             *)
VerifyLayer ==
  LET opened == [i \in 0 .. DomainAt(layer).size - 1 |->
                   Opened(Sent.virtual_fold_openings, i)]
      Folds(positions) ==
        [j \in DOMAIN positions |-> VirtualFold(DomainAt(layer), positions[j], alphas, opened)]
  IN
  /\ pc = "draw"
  /\ \E s \in VerifierShiftDraws :
       IF ~OpeningsHold(s.got[1]) THEN Stop("reject")
       ELSE LET folds == Tabulated(Folds(s.got[1]))
            IN  IF AllOk(folds)
                THEN \E g \in GammaDraws(s) :
                       /\ EndLayer(RestrictPrefixWithEqCache(EqCache(Pp.ternary_grid), constraint,
                                                             alphas),
                                   ValuesOf(folds), g)
                       /\ pc' = IF layer = Layers THEN "final" ELSE "check"
                       /\ UNCHANGED <<setup, source, target, commitment, state, current, opening,
                                      damage, memo, verdict>>
                ELSE Stop("reject")

(* W(final_constant, ()) = sigma, without variables: the constant times    *)
(* the sum of the weights.                                                 *)
FinalSumHolds ==
  Times(opening.final_constant,
        EvaluateAWithEqCache(EqCache(Pp.ternary_grid), constraint, <<>>)) = sigma

FinalHolds(positions) ==
  LET opened == opening.final_openings
  IN  /\ SameQueries(Positions(positions), opened)
      /\ TreeAccepts(CurrentRoot, DomainAt(Layers + 1).size, opened)
      /\ \A j \in DOMAIN opened.leaf_payloads : opened.leaf_payloads[j] = opening.final_constant

VerifyFinal ==
  /\ pc = "final"
  /\ IF FinalSumHolds
     THEN \E s \in FinalDraws(opening.final_constant) :
            /\ pc' = "done"
            /\ drawn' = Append(drawn, [positions |-> s.got[1]])
            /\ verdict' = IF FinalHolds(s.got[1]) THEN "accept" ELSE "reject"
            /\ UNCHANGED <<setup, source, target, commitment, state, current, layer, constraint,
                           sigma, alphas, opening, damage, transcript, memo>>
     ELSE Stop("reject")

Return == pc = "done" /\ UNCHANGED vars

Next ==
  \/ \E keep \in BOOLEAN : Commit(keep)
  \/ \E other \in Sources : CommitAgain(other)
  \/ Open \/ Sumcheck \/ EndProverLayer \/ FinishOpening
  \/ pc = "deliver" /\ \E kind \in DamageKinds : Deliver(kind)
  \/ VerifyStart \/ VerifySumcheck \/ VerifyLayer \/ VerifyFinal
  \/ Return

Spec == Init /\ [][Next]_vars
-----------------------------------------------------------------------------

(* What the prover carries through a layer: sigma is the sum over the grid *)
(* that is left of the current polynomial times the constraint, with the   *)
(* variables drawn so far fixed.  So it is when a variable is fixed, when  *)
(* the polynomial and the constraint are restricted, and when the values   *)
(* found at the shift points enter sigma and their terms the constraint,   *)
(* though those values are folds of the last oracle and the terms speak of *)
(* the next polynomial.                                                    *)
SigmaIsConstraintSum ==
  pc \in {"sumcheck", "layer", "finish"} =>
    sigma = GridSumOfProduct(current.polynomial, Live, constraint, alphas)

(* The prover's sumcheck polynomial, put together from coefficient tables, *)
(* is the one interpolated from sums over the grid at five points.         *)
SumcheckMatchesEvaluator ==
  pc = "sumcheck" =>
    HonestSumcheck(current.polynomial, constraint, alphas) =
      SumcheckByEvaluation(current.polynomial, Live, constraint, alphas)

(* The folds of the last oracle, whether the whole table was folded or     *)
(* single fibers, are the next polynomial's values at the shift points:    *)
(* the domain of 3^width-th powers, and not the domain of cubes its own    *)
(* oracle is on.                                                           *)
FoldsAreNextPolynomial ==
  pc \in {"sumcheck", "finish"} /\ layer > 1 /\ alphas = <<>> =>
    LET last == drawn[layer - 1]
        b    == Len(last.alphas)
        over == PowMap(DomainAt(layer - 1), 3^b)
    IN  \A j \in DOMAIN last.positions :
          last.values[j] = EvaluateAt(current.polynomial,
                                      PowM(over.points[last.positions[j]], Live))

(* An opening is the value of the polynomial behind the commitment it was  *)
(* asked for, of a multilinear one as such, whatever else the state object *)
(* was used for in between.                                                *)
OpeningAnswersCommitment ==
  pc = "deliver" => opening.value = ValueOf(source, target)

(* The prover's own sumcheck polynomial is refused: it is zero, of which   *)
(* no coefficient is left, or its degree is over the layer's bound (one    *)
(* that validate accepts may be as small as 1).                            *)
HonestPolynomialRefused ==
  \E l \in DOMAIN opening.rounds :
    \E j \in DOMAIN opening.rounds[l].sumcheck_polynomials :
      LET h == opening.rounds[l].sumcheck_polynomials[j]
      IN  h.size = 0 \/ Degree(h) > Pp.degree_bounds[l]

(* Completeness: the prover opens what it may open, and the verifier       *)
(* accepts the opening for all challenges and all positions, in whichever  *)
(* order they are drawn, unless it refuses a sumcheck polynomial as such.  *)
IntactIsAccepted ==
  /\ verdict # "failed"
  /\ damage = "none" /\ verdict = "reject" => HonestPolynomialRefused

(* What the roundtrip tests state, without the exception.                  *)
HonestIsAccepted == damage = "none" => verdict # "reject"

(* The table under the root of oracle l. *)
TableUnder(l) == IF l = 1 THEN commitment ELSE opening.rounds[l - 1].g_root

(* The polynomial through the fiber of oracle l over a position, its       *)
(* coefficients weighted as a multiquadratic polynomial's at the alphas.   *)
FoldOf(l, position) ==
  LET domain == DomainAt(l)
      fiber  == Ascending(ParentIndices(domain.size, Pp.layer_widths[l], <<position>>))
      over   == Tabulated([i \in 0 .. Len(fiber) - 1 |-> domain.points[fiber[i + 1]]])
      values == Tabulated([i \in 0 .. Len(fiber) - 1 |-> TableUnder(l)[fiber[i + 1]]])
  IN  EvaluateAt(Interpolate(over, values, Len(fiber)), drawn[l].alphas)

FoldsOfLayer(l) ==
  Tabulated([j \in DOMAIN drawn[l].positions |-> FoldOf(l, drawn[l].positions[j])])

(* A sumcheck polynomial at its alpha: the sum claimed of what is left.    *)
After(l, j) == Evaluate(opening.rounds[l].sumcheck_polynomials[j], drawn[l].alphas[j])

(* The sum claimed before variable j of layer l.                           *)
Claim(l, j) ==
  IF j > 1 THEN After(l, j - 1)
  ELSE IF l = 1 THEN opening.value
  ELSE Plus(After(l - 1, Pp.layer_widths[l - 1]), GammaSum(drawn[l - 1].gamma, FoldsOfLayer(l - 1)))

AlphasFrom(l) == FlattenSeq([k \in 1 .. Layers + 1 - l |-> drawn[l + k - 1].alphas])

(* The final weight of a point: eq at all the alphas that came after it.   *)
(* On the grid of the cube roots of one eq(z, x) is (1 + z x^2 + z^2 x) / 3. *)
WeightOf(z, after) ==
  LET eq(a, b) == Plus(OfInteger(1), Plus(Times(a, Times(b, b)), Times(Times(a, a), b)))
  IN  RingProduct([v \in 0 .. Len(after) - 1 |->
                     Times(Inv(OfInteger(3)), eq(z[v + 1], after[v + 1]))], Len(after))

(* What the shift points of layer l weigh together.                        *)
ShiftWeights(l) ==
  LET over  == PowMap(DomainAt(l), 3^Pp.layer_widths[l])
      after == AlphasFrom(l + 1)
  IN  GammaSum(drawn[l].gamma,
               Tabulated([j \in DOMAIN drawn[l].positions |->
                 WeightOf(PowM(over.points[drawn[l].positions[j]], LiveVariables(Pp, l)), after)]))

(* What acceptance says of the tables under the roots: each sumcheck       *)
(* polynomial is within its bound and sums to the claim before it, where   *)
(* the claims take in the folds of the tables at the drawn positions; the  *)
(* last claim is the constant times the weights of all the points, taken   *)
(* at once and not layer by layer; and the last table holds the constant   *)
(* wherever it was drawn.                                                  *)
AcceptMeansConsistent ==
  verdict = "accept" =>
    /\ \A l \in 1 .. Layers : \A j \in 1 .. Pp.layer_widths[l] :
         LET h == opening.rounds[l].sumcheck_polynomials[j]
         IN  /\ h.size - 1 <= Pp.degree_bounds[l]
             /\ SumcheckGridSum(Pp.ternary_grid, h) = Claim(l, j)
    /\ Claim(Layers + 1, 1) =
         Times(opening.final_constant,
               Plus(WeightOf(target, AlphasFrom(1)),
                    RingSum([l \in 0 .. Layers - 1 |-> ShiftWeights(l + 1)], Layers)))
    /\ \A j \in DOMAIN drawn[Layers + 1].positions :
         TableUnder(Layers + 1)[drawn[Layers + 1].positions[j]] = opening.final_constant
=============================================================================
