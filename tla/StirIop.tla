------------------------------ MODULE StirIop -------------------------------
(***************************************************************************)
(* STIR: StirProver::prove_with_witness, a proof that may be damaged on    *)
(* its way, and StirVerifier::verify.  As in FriPcs the transcript is a    *)
(* random oracle: what was absorbed and squeezed so far determines the     *)
(* answer, and an answer nobody asked for before is any of its range.  The *)
(* attempts of one rejection sampler are one squeeze; its answer <<>> says *)
(* that it ran out of attempts.                                            *)
(***************************************************************************)
EXTENDS StirRules

CONSTANTS
  Setups,           (* [params, domain, degree]: params_ and the instance. *)
  Polynomials,      (* What may be proved about.                           *)
  ChallengeSample,  (* Ring elements tried as folding and comb challenges. *)
  PoolBound,        (* How many points of a pool are tried; see FewOf.     *)
  PositionBound,    (* As many positions are tried; see PositionDraws.     *)
  DamagedCases      (* The <<setup, polynomial>> whose proofs may be damaged. *)

ASSUME SetupsAssumption ==
  \A s \in Setups :
    /\ IsDomain(s.domain) /\ IsTeichmuller(s.domain.root)
    /\ s.degree \in Nat
    /\ s.params.stop_degree \in Nat /\ s.params.ood_samples \in Nat
    /\ s.params.query_repetitions \in Seq(Nat)

ASSUME InputsAssumption ==
  /\ \A f \in Polynomials : f.size \in Nat /\ \A i \in 0 .. f.size - 1 : f.at[i] \in Ring
  /\ PoolBound \in Nat \ {0} /\ PositionBound \in Nat \ {0}

VARIABLES
  pc,           (* "prove", "fold", "answer", "finish", "deliver",         *)
                (* "verify", "check", "final", "done"                      *)
  setup, polynomial,
  round,        (* round_index                                             *)
  current,      (* The prover's current_polynomial, and the table of       *)
                (* current_actual_tree: [polynomial, committed].           *)
  alpha,        (* The folding challenge of the party that is running.     *)
  witness,      (* StirRoundWitness of the round.                          *)
  proof,        (* StirProof: [initial_root, rounds, final_polynomial,     *)
                (* queries_to_final, prover_rounds]                        *)
  damage,
  transcript, memo,
  function,     (* The verifier's virtual_function.                        *)
  checked,      (* What it drew in the rounds that passed.                 *)
  verdict       (* "none"; "refused", "no_sample", "overflow" if prove     *)
                (* threw; "accept", "reject"                               *)

proving == <<current, witness>>
vars == <<pc, setup, polynomial, round, proving, alpha, proof, damage, transcript, memo,
          function, checked, verdict>>

NoWitness == <<>>
NoStirProof == [initial_root |-> <<>>, rounds |-> <<>>, final_polynomial |-> ZeroPolynomial,
                queries_to_final |-> NoProof, prover_rounds |-> 0]

Init ==
  /\ pc = "prove" /\ verdict = "none" /\ damage = "none" /\ round = 0
  /\ setup \in Setups /\ polynomial \in Polynomials
  /\ current = [polynomial |-> ZeroPolynomial, committed |-> <<>>]
  /\ alpha = 0 /\ witness = NoWitness /\ proof = NoStirProof
  /\ transcript = <<>> /\ memo = <<>> /\ checked = <<>>
  /\ function = [initial |-> TRUE]

-----------------------------------------------------------------------------
(* Both sides *)

Params == setup.params
K == Params.virtual_fold_factor
Rounds == StirRoundCount(Params, setup.degree)
DomainAt(r) == StirDomain(Params, setup.domain, r)
BoundAt(r) == BoundAfter(Params, setup.degree, r)
FinalDomain == PowMap(DomainAt(Rounds), K)

Challenges ==
  IF Params.protocol_mode = "TheoremGr" THEN ChallengeSample \cap TeichmullerSet
  ELSE ChallengeSample \cap Ring

(* n different ones of a set: only PoolBound more than n - 1 are tried.    *)
FewOf(S, n) ==
  LET s == Ascending(S)
  IN  OodSamples({s[i] : i \in 1 .. Least(PoolBound + n - 1, Len(s))}, n)

(* derive_unique_positions and SortedPositions: that many, in order; only  *)
(* PositionBound more than count - 1 are tried.                            *)
PositionDraws(count, size) ==
  LET n     == Least(count, size)
      tried == 0 .. Least(PositionBound + n - 1, size) - 1
  IN  {Ascending(S) : S \in {T \in SUBSET tried : Cardinality(T) = n}}

(* Squeezing on: the transcript, the oracle's memory, the answers so far. *)
Started == [t |-> transcript, m |-> memo, got |-> <<>>]
Absorb(d, what) == [d EXCEPT !.t = Append(@, what)]
Ask(d, label, S) ==
  LET asked     == Append(d.t, label)
      memory(v) == [key \in DOMAIN d.m \cup {asked} |-> IF key = asked THEN v ELSE d.m[key]]
  IN  {[t |-> asked, m |-> memory(v), got |-> Append(d.got, v)] :
         v \in IF asked \in DOMAIN d.m THEN {d.m[asked]} ELSE S}

(* The domain's points at these positions. *)
PointsAt(d, positions) == [i \in DOMAIN positions |-> d.points[positions[i]]]
QuotientPoints(ds, d) == d.got[1] \o PointsAt(ds.folded, d.got[4])

(* The squeezes of a round, after the root was absorbed: the ood points,   *)
(* and, once their betas are absorbed, comb_randomness, the next alpha, the*)
(* query positions and the shake point; <<>> where a sampler ran out.      *)
OodDraws(ds) ==
  Ask(Started, <<"ood", round>>,
      FewOf(OodPool(Params, ds), Params.ood_samples) \cup {<<>>})

CombDraws(d)         == Ask(d, <<"comb", round>>, Challenges)
AlphaDraws(d)        == Ask(d, <<"alpha", round + 1>>, Challenges)
QueryDraws(ds, n, d) == Ask(d, <<"query", round>>, PositionDraws(n, ds.folded.size))
ShakeDraws(ds, d) ==
  LET points == QuotientPoints(ds, d)
      pool   == ShakePool(Params, ds, {points[i] : i \in DOMAIN points})
  IN  Ask(d, <<"shake", round>>, FewOf(pool, 1) \cup {<<>>})

RoundDraws(ds, count, oods, betas) ==
  UNION {UNION {UNION {ShakeDraws(ds, q) : q \in QueryDraws(ds, count, a)}
                : a \in AlphaDraws(c)}
         : c \in CombDraws(Absorb(oods, <<"betas", betas>>))}

RanOut(d) == d.got[Len(d.got)] = <<>>

-----------------------------------------------------------------------------
(* StirProver *)

MayProve ==
  /\ ValidStirInstance(Params, setup.domain, setup.degree)
  /\ Degree(polynomial) <= setup.degree

Stop(v) ==
  /\ pc' = "done" /\ verdict' = v
  /\ UNCHANGED <<setup, polynomial, round, proving, alpha, proof, damage, transcript, memo,
                 function, checked>>

(* The first root, and the first folding challenge. *)
ProveStart ==
  /\ pc = "prove"
  /\ IF MayProve
     THEN LET table == Tabulated(Encode(setup.domain, polynomial))
              root  == Root(Bundles(table, K))
          IN  /\ \E d \in Ask(Absorb(Started, <<"root", root>>), <<"alpha", 0>>, Challenges) :
                   transcript' = d.t /\ memo' = d.m /\ alpha' = d.got[1]
              /\ current' = [polynomial |-> polynomial, committed |-> table]
              /\ proof' = [proof EXCEPT !.initial_root = root]
              /\ pc' = IF Rounds = 0 THEN "finish" ELSE "fold"
              /\ UNCHANGED <<setup, polynomial, round, witness, damage, function, checked, verdict>>
     ELSE Stop("refused")

(* A round up to its commitment: fold, interpolate, encode on the shifted  *)
(* domain, absorb the root.                                                *)
FoldRound ==
  /\ pc = "fold"
  /\ LET ds      == RoundDomains(Params, DomainAt(round))
         table   == Tabulated(Encode(ds.input, current.polynomial))
         answers == Tabulated(FoldTableK(ds.input, table, K, alpha))
         folded  == Interpolate(ds.folded.points, answers, ds.folded.size)
         shifted == Tabulated(Encode(ds.shift, folded))
     IN  /\ witness' = [folded |-> folded, answers |-> answers, shifted |-> shifted]
         /\ transcript' = Append(transcript, <<"root", Root(Bundles(shifted, K))>>)
  /\ pc' = "answer"
  /\ UNCHANGED <<setup, polynomial, round, current, alpha, proof, damage, memo, function,
                 checked, verdict>>

Betas(folded, ood) == [i \in DOMAIN ood |-> Evaluate(folded, ood[i])]

(* The round's polynomials from its draws. *)
Answered(ds, d) ==
  LET points  == QuotientPoints(ds, d)
      values  == Betas(witness.folded, d.got[1])
                   \o [i \in DOMAIN d.got[4] |-> witness.answers[d.got[4][i]]]
      ans     == AnswerPolynomial(points, values)
      q       == QuotientFromAnswers(witness.folded, ans, points)
      bound   == BoundAt(round + 1)
  IN  [shifted   |-> witness.shifted,
       answer    |-> ans,
       vanishing |-> VanishingPolynomial(points),
       quotient  |-> q,
       shake     |-> ShakePolynomial(ans, points, values),
       exact     |-> DividesExactly(witness.folded, ans, points),
       comb      |-> d.got[2],
       next      |-> DegreeCorrection(q, bound, SaturatingSubtract(bound, Len(points)), d.got[2]),
       points    |-> points]

(* A round's message, and what the next round starts from. *)
SendRound(d, a, fits) ==
  /\ proof' = [proof EXCEPT !.rounds = Append(@,
       [g_root           |-> Root(Bundles(a.shifted, K)),
        betas            |-> Betas(witness.folded, d.got[1]),
        ans_polynomial   |-> a.answer,
        queries_to_prev  |-> OpenTree(Bundles(current.committed, K), Positions(d.got[4])),
        shake_polynomial |-> a.shake])]
  /\ witness' = a
  /\ current' = [polynomial |-> a.next, committed |-> a.shifted]
  /\ transcript' = d.t /\ memo' = d.m /\ alpha' = d.got[3]
  /\ round' = round + 1
  /\ verdict' = IF fits THEN "none" ELSE "overflow"
  /\ pc' = CASE ~fits -> "done"
            [] fits /\ round + 1 = Rounds -> "finish"
            [] fits /\ round + 1 < Rounds -> "fold"
  /\ UNCHANGED <<setup, polynomial, damage, function, checked>>

(* The rest of a round.  It throws when a sampler ran out, when a division *)
(* is not exact or the corrected polynomial leaves its degree bound.       *)
AnswerRound ==
  LET ds    == RoundDomains(Params, DomainAt(round))
      count == EffectiveQueries(Params, setup.domain.size, setup.degree, round)
  IN
  /\ pc = "answer"
  /\ \E o \in OodDraws(ds) :
       IF RanOut(o) THEN Stop("no_sample")
       ELSE \E d \in RoundDraws(ds, count, o, Betas(witness.folded, o.got[1])) :
              IF RanOut(d) THEN Stop("no_sample")
              ELSE LET a == Answered(ds, d)
                   IN  SendRound(d, a, a.exact /\ Degree(a.next) <= BoundAt(round + 1))

FinalCount == FinalQueries(Params, FinalDomain.size, FoldedDegreeBound(BoundAt(Rounds), K), Rounds)
FinalDraws == Ask(Started, <<"final", Rounds>>, PositionDraws(FinalCount, FinalDomain.size))

(* The last function is folded once more and sent as a polynomial. *)
ProveFinish ==
  /\ pc = "finish"
  /\ LET table  == Tabulated(Encode(DomainAt(Rounds), current.polynomial))
         folded == FoldTableK(DomainAt(Rounds), table, K, alpha)
         final  == Interpolate(FinalDomain.points, folded, FinalDomain.size)
         fits   == Degree(final) <= FoldedDegreeBound(BoundAt(Rounds), K)
     IN  \E d \in FinalDraws :
           /\ proof' = [proof EXCEPT
                !.final_polynomial = final,
                !.queries_to_final = OpenTree(Bundles(current.committed, K), Positions(d.got[1])),
                !.prover_rounds = Rounds]
           /\ memo' = d.m
           /\ verdict' = IF fits THEN "none" ELSE "overflow"
           /\ pc' = IF fits THEN "deliver" ELSE "done"
  /\ UNCHANGED <<setup, polynomial, round, proving, alpha, damage, transcript, function, checked>>

-----------------------------------------------------------------------------
(* The proof on its way: intact, or damaged in one place.                  *)

One == Trim(1, [i \in {0} |-> 1])
Monomial(n) == Trim(n + 1, [i \in 0 .. n |-> IF i = n THEN 1 ELSE 0])

Received(kind) ==
  CASE kind = "none"     -> proof
    [] kind = "root"     -> [proof EXCEPT !.initial_root[0][0] = Plus(@, 1)]
    [] kind = "stats"    -> [proof EXCEPT !.prover_rounds = @ + 1]
    [] kind = "final"    -> [proof EXCEPT !.final_polynomial = AddPolynomials(@, One)]
    [] kind = "longer"   -> [proof EXCEPT !.final_polynomial = AddPolynomials(@, Monomial(FinalDomain.size))]
    [] kind = "last"     -> [proof EXCEPT !.queries_to_final.leaf_payloads[1][0] = Plus(@, 1)]
    [] kind = "index"    -> [proof EXCEPT !.queries_to_final.queried_indices[1] = @ + 1]
    [] kind = "g_root"   -> [proof EXCEPT !.rounds[1].g_root[0][0] = Plus(@, 1)]
    [] kind = "beta"     -> [proof EXCEPT !.rounds[1].betas[1] = Plus(@, 1)]
    [] kind = "betas"    -> [proof EXCEPT !.rounds[1].betas = Tail(@)]
    [] kind = "ans"      -> [proof EXCEPT !.rounds[1].ans_polynomial = AddPolynomials(@, One)]
    [] kind = "shake"    -> [proof EXCEPT !.rounds[1].shake_polynomial = AddPolynomials(@, One)]
    [] kind = "payload"  -> [proof EXCEPT !.rounds[1].queries_to_prev.leaf_payloads[1][0] = Plus(@, 1)]
    [] kind = "siblings" -> [proof EXCEPT !.rounds[1].queries_to_prev.sibling_hashes = "changed"]
    [] kind = "round"    -> [proof EXCEPT !.rounds = Tail(@)]

DamageKinds ==
  IF <<setup, polynomial>> \notin DamagedCases THEN {"none"}
  ELSE {"none", "root", "stats", "final", "longer", "last", "index"}
    \cup (IF Rounds = 0 THEN {}
          ELSE {"g_root", "beta", "betas", "ans", "shake", "payload", "siblings", "round"})

Deliver(kind) ==
  /\ pc = "deliver"
  /\ proof' = Received(kind) /\ damage' = kind
  /\ pc' = "verify" /\ transcript' = <<>> /\ round' = 0
  /\ current' = [polynomial |-> ZeroPolynomial, committed |-> <<>>] /\ witness' = NoWitness
  /\ UNCHANGED <<setup, polynomial, alpha, memo, function, checked, verdict>>

-----------------------------------------------------------------------------
(* StirVerifier::verify *)

EntryHolds ==
  /\ ValidStirInstance(Params, setup.domain, setup.degree)
  /\ Len(proof.rounds) = Rounds /\ proof.prover_rounds = Rounds

VerifyStart ==
  /\ pc = "verify"
  /\ IF EntryHolds
     THEN /\ \E d \in Ask(Absorb(Started, <<"root", proof.initial_root>>), <<"alpha", 0>>, Challenges) :
               transcript' = d.t /\ memo' = d.m /\ alpha' = d.got[1]
          /\ pc' = IF Rounds = 0 THEN "final" ELSE "check"
          /\ UNCHANGED <<setup, polynomial, round, proving, proof, damage, function, checked, verdict>>
     ELSE Stop("reject")

CurrentRoot(r) == IF r = 0 THEN proof.initial_root ELSE proof.rounds[r].g_root

AllOk(answers) == \A i \in DOMAIN answers : answers[i].ok
ValuesOf(answers) == [i \in DOMAIN answers |-> answers[i].value]

(* The sampler found its points, and there is a beta for each. *)
BetasFit(sent, oods) == ~RanOut(oods) /\ Len(sent.betas) = Len(oods.got[1])

(* Mutant: a folded answer is compared with nothing. *)
MutQueriesUnused(ds, d) ==
  LET sent    == proof.rounds[round + 1]
      answers == FoldedAnswers(ds.input, BoundAt(round), function, alpha, K, d.got[4],
                               sent.queries_to_prev)
  IN  /\ ~RanOut(d)
      /\ BundlesFit(d.got[4], sent.queries_to_prev, K) /\ AllOk(answers)
      /\ ShakeConsistent(sent.ans_polynomial, sent.shake_polynomial, QuotientPoints(ds, d),
           sent.betas \o [i \in DOMAIN answers |->
                            Evaluate(sent.ans_polynomial, ds.folded.points[d.got[4][i]])],
           d.got[5][1])

(* Openings at the drawn positions, and the shake equation at the drawn    *)
(* point between the answers they fold to and the polynomials sent.        *)
RoundHolds(ds, d) ==
  LET sent    == proof.rounds[round + 1]
      answers == FoldedAnswers(ds.input, BoundAt(round), function, alpha, K, d.got[4],
                               sent.queries_to_prev)
  IN  /\ ~RanOut(d)
      /\ BundlesFit(d.got[4], sent.queries_to_prev, K) /\ AllOk(answers)
      /\ ShakeConsistent(sent.ans_polynomial, sent.shake_polynomial, QuotientPoints(ds, d),
                         sent.betas \o ValuesOf(answers), d.got[5][1])

(* The openings belong to the last root; then the new root is absorbed. *)
VerifyRound ==
  LET sent == proof.rounds[round + 1]
  IN
  /\ pc = "check"
  /\ IF TreeAccepts(CurrentRoot(round), DomainAt(round).size \div K, sent.queries_to_prev)
     THEN /\ transcript' = Append(transcript, <<"root", sent.g_root>>)
          /\ pc' = "draw"
          /\ UNCHANGED <<setup, polynomial, round, proving, alpha, proof, damage, memo,
                         function, checked, verdict>>
     ELSE Stop("reject")

(* The function it queries from now on is the quotient by these answers.   *)
AdvanceRound(ds, d) ==
  /\ function' = [initial |-> FALSE, comb_randomness |-> d.got[2],
                  ans_polynomial |-> proof.rounds[round + 1].ans_polynomial,
                  quotient_set |-> QuotientPoints(ds, d)]
  /\ checked' = Append(checked, [alpha |-> alpha, got |-> d.got])
  /\ transcript' = d.t /\ memo' = d.m /\ alpha' = d.got[3]
  /\ round' = round + 1
  /\ pc' = IF round + 1 = Rounds THEN "final" ELSE "check"
  /\ UNCHANGED <<setup, polynomial, proving, proof, damage, verdict>>

(* The rest of the round. *)
DrawRound ==
  LET ds    == RoundDomains(Params, DomainAt(round))
      count == EffectiveQueries(Params, setup.domain.size, setup.degree, round)
      sent  == proof.rounds[round + 1]
  IN
  /\ pc = "draw"
  /\ \E o \in OodDraws(ds) :
       IF BetasFit(sent, o)
       THEN \E d \in RoundDraws(ds, count, o, sent.betas) :
              IF RoundHolds(ds, d) THEN AdvanceRound(ds, d) ELSE Stop("reject")
       ELSE Stop("reject")

FinalHolds(positions) ==
  LET opened  == proof.queries_to_final
      answers == FoldedAnswers(DomainAt(Rounds), BoundAt(Rounds), function, alpha, K,
                               positions, opened)
  IN  /\ TreeAccepts(CurrentRoot(Rounds), FinalDomain.size, opened)
      /\ BundlesFit(positions, opened, K) /\ AllOk(answers)
      /\ \A i \in DOMAIN positions :
           Evaluate(proof.final_polynomial, FinalDomain.points[positions[i]]) = answers[i].value

FinalBoundHolds == Degree(proof.final_polynomial) <= FoldedDegreeBound(BoundAt(Rounds), K)

VerifyFinal ==
  /\ pc = "final"
  /\ IF FinalBoundHolds
     THEN \E d \in FinalDraws :
            /\ pc' = "done" /\ memo' = d.m
            /\ IF FinalHolds(d.got[1])
               THEN verdict' = "accept" /\ checked' = Append(checked, [alpha |-> alpha, got |-> d.got])
               ELSE verdict' = "reject" /\ UNCHANGED checked
            /\ UNCHANGED <<setup, polynomial, round, proving, alpha, proof, damage, transcript, function>>
     ELSE Stop("reject")

Return == pc = "done" /\ UNCHANGED vars

Next ==
  \/ ProveStart \/ FoldRound \/ AnswerRound \/ ProveFinish
  \/ pc = "deliver" /\ \E kind \in DamageKinds : Deliver(kind)
  \/ VerifyStart \/ VerifyRound \/ DrawRound \/ VerifyFinal
  \/ Return

Spec == Init /\ [][Next]_vars
-----------------------------------------------------------------------------

(* At some point of the domain 1 - x comb is a zero divisor other than 0.  *)
DegenerateComb(d, comb) ==
  \E x \in DomainPoints(d) :
    LET below == Minus(1, Times(x, comb)) IN below # 0 /\ ~IsUnit(below)

(* Completeness.  In theorem mode the verifier accepts every proof an      *)
(* honest prover sends, for all challenges, points and positions drawn; in *)
(* prototype mode, where the comb challenge is any ring element, it fails  *)
(* only where degree_correction_eval cannot divide, which the prover, who  *)
(* multiplies polynomials, does not notice.                                *)
IntactIsAccepted ==
  damage = "none" /\ verdict = "reject" =>
    /\ Params.protocol_mode # "TheoremGr"
    /\ ~function.initial
    /\ DegenerateComb(DomainAt(round), function.comb_randomness)

(* A validated instance and a polynomial within its degree: the prover     *)
(* ends with a proof unless a sampler runs out; none of its divisions is   *)
(* inexact and no polynomial outgrows the schedule's bound.                *)
ProverKeepsBounds == verdict # "overflow"

(* In theorem mode what validate checked before anything was drawn is      *)
(* enough for every round: whichever points are drawn and positions        *)
(* queried, one point is left for the shake.  (The queried points are in   *)
(* the folded domain, the others are ood_samples points of the pool.)      *)
ShakePoolNeverEmpty ==
  pc = "answer" /\ Params.protocol_mode = "TheoremGr" =>
    LET ds == RoundDomains(Params, DomainAt(round))
    IN  Cardinality(SafeComplement(ds, {})) > Params.ood_samples

(* The next function, a polynomial to the prover, is on the shifted domain *)
(* the division of the committed table point by point.  The helper         *)
(* try_reuse_next_round_input_oracle computes it so; prove does not call   *)
(* it.  Wherever it does not give up, its table is the encoding of the     *)
(* degree-corrected quotient, the one prove commits to.  In theorem mode,  *)
(* where all points are Teichmueller, it never gives up.                   *)
ReuseIsEncoding ==
  pc \in {"fold", "finish"} /\ round > 0 =>
    LET bound == BoundAt(round)
        works == CanReuse(DomainAt(round), witness.vanishing)
    IN  /\ Params.protocol_mode = "TheoremGr" => works
        /\ works => ReusedOracle(DomainAt(round), witness.shifted, witness.answer,
                                witness.vanishing, witness.quotient, witness.comb, bound,
                                SaturatingSubtract(bound, Len(witness.points)))
                     = Encode(DomainAt(round), witness.next)

(* What acceptance says of the tables under the roots.  CommittedAt has,   *)
(* on a fiber, the values of round r's function: the table itself, then    *)
(* the quotient by the answers of the round before, times                  *)
(* 1 + (x comb) + ... + (x comb)^gap.                                      *)
Under(root, n) == [i \in 0 .. n - 1 |-> root[i % (n \div K)][i \div (n \div K)]]

CommittedAt(r, fiber) ==
  LET d     == DomainAt(r)
      table == Under(CurrentRoot(r), d.size)
      comb  == checked[r].got[2]
      set   == QuotientPoints(RoundDomains(Params, DomainAt(r - 1)), checked[r])
      ans   == proof.rounds[r].ans_polynomial
      gap   == BoundAt(r) - SaturatingSubtract(BoundAt(r), Len(set))
      below(x) == RingProduct([k \in 0 .. Len(set) - 1 |-> Minus(x, set[k + 1])], Len(set))
      scale(x) == RingSum([e \in 0 .. gap |-> Power(Times(x, comb), e)], gap + 1)
      value(i, x) == Times(Times(Minus(table[i], Evaluate(ans, x)), Inv(below(x))), scale(x))
  IN  Tabulated([o \in DOMAIN fiber |->
        IF r = 0 THEN table[fiber[o]] ELSE value(fiber[o], d.points[fiber[o]])])

(* The polynomial through one fiber of round r's function, at its alpha.   *)
FoldOf(r, position) ==
  LET d     == DomainAt(r)
      m     == d.size \div K
      fiber == [o \in 0 .. K - 1 |-> position + o * m]
  IN  Evaluate(Interpolate(FiberPoints(d, position, m, K), CommittedAt(r, fiber), K),
               checked[r + 1].alpha)

(* The shake equation of round r, with those folds for the answers.        *)
RoundConsistent(r) ==
  LET got    == checked[r + 1].got
      sent   == proof.rounds[r + 1]
      points == QuotientPoints(RoundDomains(Params, DomainAt(r)), checked[r + 1])
      values == sent.betas \o [i \in DOMAIN got[4] |-> FoldOf(r, got[4][i])]
      s      == got[5][1]
      at     == Evaluate(sent.ans_polynomial, s)
  IN  /\ Len(values) = Len(points)
      /\ Evaluate(sent.shake_polynomial, s) =
           RingSum([i \in 0 .. Len(points) - 1 |->
                      Times(Minus(at, values[i + 1]), Inv(Minus(s, points[i + 1])))], Len(points))

(* Soundness of the query phase: every accepted proof satisfies the shake  *)
(* equation of each round and the terminal comparison for the tables it    *)
(* committed to, at all the positions the transcript drew, and its last    *)
(* polynomial is within the bound.                                         *)
AcceptMeansConsistent ==
  verdict = "accept" =>
    /\ Len(checked) = Rounds + 1
    /\ \A r \in 0 .. Rounds - 1 : RoundConsistent(r)
    /\ Degree(proof.final_polynomial) <= FoldedDegreeBound(BoundAt(Rounds), K)
    /\ \A i \in DOMAIN checked[Rounds + 1].got[1] :
         LET position == checked[Rounds + 1].got[1][i]
         IN  Evaluate(proof.final_polynomial, FinalDomain.points[position]) = FoldOf(Rounds, position)
=============================================================================
