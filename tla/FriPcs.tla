------------------------------- MODULE FriPcs -------------------------------
(***************************************************************************)
(* The FRI polynomial commitment: FriProver::commit and ::open, a message  *)
(* that may be damaged on its way, and FriVerifier::verify.                *)
(*                                                                         *)
(* The transcript is a random oracle: what was absorbed and squeezed so    *)
(* far determines a challenge, and a challenge nobody asked for before is  *)
(* any value of its range.                                                 *)
(***************************************************************************)
EXTENDS FriRules, TLC

CONSTANTS
  Setups,           (* [fold_factor, stop_degree, repetition_count, domain, degree_bound] *)
  Polynomials,      (* What may be committed to and opened.                *)
  OpeningPoints,    (* Where.                                              *)
  ChallengeSample,  (* Ring elements a folding challenge is tried with.    *)
  DamagedCases      (* The <<setup, polynomial>> whose messages may be damaged. *)

(* Words of the machine, and a domain.                                     *)
ASSUME SetupsAssumption ==
  \A s \in Setups :
    /\ s.stop_degree \in Nat /\ s.repetition_count \in Nat /\ s.degree_bound \in Nat
    /\ IsDomain(s.domain)

(* Coefficients and points are elements of the ring.                       *)
ASSUME InputsAssumption ==
  /\ \A f \in Polynomials : f.size \in Nat /\ \A i \in 0 .. f.size - 1 : f.at[i] \in Ring
  /\ OpeningPoints \subseteq Ring

VARIABLES
  pc,           (* "commit", "open", "fold", "query", "deliver", "verify", *)
                (* "replay", "final", "check", "done"                      *)
  setup, polynomial,   (* params_, and the argument of commit              *)
  commitment,   (* [domain, degree_bound, oracle_root]                     *)
  tables,       (* The prover's tables: committed, quotient, then folded.  *)
  statement,    (* [alpha, value]: what the verifier is asked about        *)
  opening,      (* [claim, oracle_roots, rounds, final_oracle, revealed]   *)
  damage,       (* What happened to the message.                           *)
  transcript,   (* Of the party that is running.                           *)
  memo,         (* The random oracle, as far as anybody asked.             *)
  round,        (* round_index                                             *)
  betas,        (* folding_betas of the verifier                           *)
  checked,      (* The round_queries of the rounds that passed.            *)
  verdict       (* "none", "refused" (commit or open threw), "accept", "reject" *)

messages == <<commitment, statement, opening>>
vars == <<pc, setup, polynomial, messages, tables, damage, transcript, memo,
          round, betas, checked, verdict>>

NoOpening == [claim |-> <<>>, oracle_roots |-> <<>>, rounds |-> <<>>,
              final_oracle |-> <<>>, revealed |-> <<>>]

Init ==
  /\ pc = "commit"
  /\ setup \in Setups /\ polynomial \in Polynomials
  /\ commitment = <<>> /\ statement = <<>> /\ opening = NoOpening
  /\ tables = <<>> /\ transcript = <<>> /\ memo = <<>>
  /\ damage = "none" /\ round = 0 /\ betas = <<>> /\ checked = <<>>
  /\ verdict = "none"

-----------------------------------------------------------------------------
(* Both sides *)

K == setup.fold_factor
ReducedBound == OpeningDegreeBound(commitment.degree_bound)
Rounds == RoundCount(setup, ReducedBound)
DomainAt(r) == RoundDomain(setup, commitment.domain, r)
MayBeDamaged == <<setup, polynomial>> \in DamagedCases

(* challenge_teichmuller *)
FoldingChallenges == ChallengeSample \cap TeichmullerSet

(* derive_query_positions: duplicates are possible. *)
QueryPositions(r) == [1 .. setup.repetition_count -> 0 .. DomainAt(r + 1).size - 1]

(* A party with this transcript squeezes v, one of S, under this label.    *)
Squeezes(soFar, label, S, v) ==
  LET asked == Append(soFar, <<"squeeze", label>>)
  IN  /\ IF asked \in DOMAIN memo THEN v = memo[asked] ELSE v \in S
      /\ memo' = [key \in DOMAIN memo \cup {asked} |-> IF key = asked THEN v ELSE memo[key]]

(* The commitment root and the claim: the start of every transcript.       *)
ClaimTranscript(claim) ==
  <<<<"root", commitment.oracle_root>>, <<"alpha", claim.alpha>>, <<"value", claim.value>>>>

-----------------------------------------------------------------------------
(* FriProver *)

MayCommit ==
  /\ ValidInstance(setup, setup.domain, setup.degree_bound)
  /\ Degree(polynomial) <= setup.degree_bound
  /\ IsTeichmullerSubset(setup.domain)

Refuse(stage) ==
  /\ pc = stage
  /\ pc' = "done" /\ verdict' = "refused"
  /\ UNCHANGED <<setup, polynomial, messages, tables, damage, transcript, memo,
                 round, betas, checked>>

CommitRefuses == pc = "commit" /\ ~MayCommit /\ Refuse("commit")

Commit ==
  /\ pc = "commit" /\ MayCommit
  /\ commitment' = [domain |-> setup.domain, degree_bound |-> setup.degree_bound,
                    oracle_root |-> Root(Encode(setup.domain, polynomial))]
  /\ pc' = "open"
  /\ UNCHANGED <<setup, polynomial, tables, statement, opening, damage, transcript,
                 memo, round, betas, checked, verdict>>

(* Mutant: the polynomial is not compared with the commitment.             *)
MutRootNotCompared(f, alpha) ==
  /\ ValidCommitment(setup, commitment)
  /\ IsTeichmuller(alpha)
  /\ Degree(f) <= commitment.degree_bound
  /\ ValidInstance(setup, commitment.domain, ReducedBound)

(* Everything open requires before it starts folding.                      *)
MayOpen(f, alpha) ==
  /\ ValidCommitment(setup, commitment)
  /\ IsTeichmuller(alpha)
  /\ Degree(f) <= commitment.degree_bound
  /\ Root(Encode(commitment.domain, f)) = commitment.oracle_root
  /\ ValidInstance(setup, commitment.domain, ReducedBound)

OpenRefuses(f, alpha) == pc = "open" /\ ~MayOpen(f, alpha) /\ Refuse("open")

Open(f, alpha) ==
  LET claim == [alpha |-> alpha, value |-> Evaluate(f, alpha)]
      table == Encode(commitment.domain, f)
  IN
  /\ pc = "open" /\ MayOpen(f, alpha)
  /\ statement' = claim
  /\ tables' = <<table, Encode(commitment.domain, QuotientAt(f, alpha, claim.value))>>
  /\ transcript' = ClaimTranscript(claim)
  /\ opening' = [NoOpening EXCEPT !.claim = claim,
                                  !.revealed = IF Rounds = 0 THEN table ELSE <<>>]
  /\ pc' = IF Rounds = 0 THEN "deliver" ELSE "fold"
  /\ UNCHANGED <<setup, polynomial, commitment, damage, memo, round, betas, checked, verdict>>

(* One folding round.  Where damage may happen, the table may come out     *)
(* with a wrong entry.                                                     *)
FoldRound(beta, slip) ==
  LET label  == <<"fold", round>>
      folded == FoldTableK(DomainAt(round), tables[round + 2], K, beta)
      table  == IF slip THEN [folded EXCEPT ![0] = Plus(@, 1)] ELSE folded
      last   == round + 1 = Rounds
  IN
  /\ pc = "fold"
  /\ slip => damage = "none" /\ MayBeDamaged
  /\ Squeezes(transcript, label, FoldingChallenges, beta)
  /\ transcript' = transcript \o <<<<"squeeze", label>>, <<"root", Root(table)>>>>
  /\ tables' = Append(tables, table)
  /\ opening' = [opening EXCEPT !.oracle_roots = Append(@, Root(table)),
                                !.final_oracle = IF last THEN table ELSE @]
  /\ damage' = IF slip THEN "slot" ELSE damage
  /\ round' = IF last THEN 0 ELSE round + 1
  /\ pc' = IF last THEN "query" ELSE "fold"
  /\ UNCHANGED <<setup, polynomial, commitment, statement, betas, checked, verdict>>

(* One round of openings: the fibers in the parent, the slots in the child *)
(* unless the child is sent whole.                                         *)
QueryRound(queries) ==
  LET label  == <<"query", round>>
      last   == round + 1 = Rounds
      parent == tables[IF round = 0 THEN 1 ELSE round + 2]
      fibers == ExpandFiberIndices(queries, DomainAt(round + 1).size, K)
  IN
  /\ pc = "query"
  /\ Squeezes(transcript, label, QueryPositions(round), queries)
  /\ transcript' = Append(transcript, <<"squeeze", label>>)
  /\ opening' = [opening EXCEPT !.rounds = Append(@,
       [parent |-> OpenTree(parent, fibers),
        child  |-> IF last THEN NoProof ELSE OpenTree(tables[round + 3], Positions(queries))])]
  /\ round' = IF last THEN 0 ELSE round + 1
  /\ pc' = IF last THEN "deliver" ELSE "query"
  /\ UNCHANGED <<setup, polynomial, commitment, statement, tables, damage, betas,
                 checked, verdict>>

-----------------------------------------------------------------------------
(* The message on its way: intact, or damaged in one place.                *)

LastRound == Len(opening.rounds)

Received(kind) ==
  LET intact == [commitment |-> commitment, statement |-> statement, opening |-> opening]
      final  == opening.final_oracle
  IN
  CASE kind = "none"       -> intact
    [] kind = "statement"  -> [intact EXCEPT !.statement.value = Plus(@, 1)]
    [] kind = "claim"      -> [intact EXCEPT !.statement.value = Plus(@, 1),
                                             !.opening.claim.value = Plus(@, 1)]
    [] kind = "commitment" -> [intact EXCEPT !.commitment.oracle_root[0] = Plus(@, 1)]
    [] kind = "revealed"   -> [intact EXCEPT !.opening.revealed =
                                 IF Rounds = 0 THEN [opening.revealed EXCEPT ![0] = Plus(@, 1)]
                                 ELSE final]
    [] kind = "final"      -> [intact EXCEPT !.opening.final_oracle[0] = Plus(@, 1)]
    [] kind = "longer"     -> [intact EXCEPT !.opening.final_oracle =
                                 [i \in 0 .. TableSize(final) |->
                                    final[IF i = TableSize(final) THEN i - 1 ELSE i]]]
    [] kind = "root"       -> [intact EXCEPT !.opening.oracle_roots[1][0] = Plus(@, 1)]
    [] kind = "payload"    -> [intact EXCEPT !.opening.rounds[1].parent.leaf_payloads[1] = Plus(@, 1)]
    [] kind = "index"      -> [intact EXCEPT !.opening.rounds[1].parent.queried_indices[1] = @ + 1]
    [] kind = "siblings"   -> [intact EXCEPT !.opening.rounds[1].parent.sibling_hashes = "changed"]
    [] kind = "round"      -> [intact EXCEPT !.opening.rounds = SubSeq(@, 1, Len(@) - 1)]
    [] kind = "child"      -> [intact EXCEPT !.opening.rounds[LastRound].child.sibling_hashes = "intact"]

(* Without folding rounds there are no roots and no query rounds.          *)
DamageKinds ==
  IF ~MayBeDamaged THEN {"none"}
  ELSE IF Rounds = 0 THEN {"none", "statement", "claim", "commitment", "revealed"}
  ELSE {"none", "statement", "claim", "commitment", "revealed", "final", "longer",
        "root", "payload", "index", "siblings", "round", "child"}

Deliver(kind) ==
  /\ pc = "deliver"
  /\ kind # "none" => damage = "none"
  /\ commitment' = Received(kind).commitment
  /\ statement' = Received(kind).statement
  /\ opening' = Received(kind).opening
  /\ damage' = IF kind = "none" THEN damage ELSE kind
  /\ pc' = "verify" /\ tables' = <<>> /\ transcript' = <<>>
  /\ UNCHANGED <<setup, polynomial, memo, round, betas, checked, verdict>>

(* Or the message is another prover's, who committed to any polynomial,    *)
(* also to one commit refuses for its degree, and claims any value. It is  *)
(* modelled where the verifier sees the whole table.                       *)
Substitute(f, value) ==
  LET table == Encode(commitment.domain, f)
      claim == [statement EXCEPT !.value = value]
  IN
  /\ pc = "deliver" /\ Rounds = 0 /\ MayBeDamaged
  /\ commitment' = [commitment EXCEPT !.oracle_root = Root(table)]
  /\ statement' = claim
  /\ opening' = [opening EXCEPT !.claim = claim, !.revealed = table]
  /\ damage' = "substituted"
  /\ pc' = "verify" /\ tables' = <<>> /\ transcript' = <<>>
  /\ UNCHANGED <<setup, polynomial, memo, round, betas, checked, verdict>>

-----------------------------------------------------------------------------
(* FriVerifier::verify *)

Decide(v) ==
  /\ pc' = "done" /\ verdict' = v
  /\ UNCHANGED <<setup, polynomial, messages, tables, damage, round, betas>>

Rejects == Decide("reject") /\ UNCHANGED <<transcript, memo, checked>>

EntryHolds ==
  /\ ValidCommitment(setup, commitment)
  /\ ValidClaim(commitment, statement)
  /\ opening.claim = statement

(* Which parts of the proof are there. *)
ShapeHolds ==
  LET sent == TableSize(opening.revealed)
  IN
  /\ Len(opening.oracle_roots) = Rounds /\ Len(opening.rounds) = Rounds
  /\ sent = IF Rounds = 0 THEN commitment.domain.size ELSE 0
  /\ (TableSize(opening.final_oracle) = 0) <=> (Rounds = 0)

VerifyRefuses == pc = "verify" /\ ~(EntryHolds /\ ShapeHolds) /\ Rejects

RevealedHolds ==
  /\ Root(opening.revealed) = commitment.oracle_root
  /\ VerifyZeroFold(commitment.domain, opening.revealed, statement, ReducedBound)

VerifyZeroRounds ==
  /\ pc = "verify" /\ EntryHolds /\ ShapeHolds /\ Rounds = 0
  /\ Decide(IF RevealedHolds THEN "accept" ELSE "reject")
  /\ UNCHANGED <<transcript, memo, checked>>

VerifyStart ==
  /\ pc = "verify" /\ EntryHolds /\ ShapeHolds /\ Rounds > 0
  /\ pc' = "replay" /\ round' = 0
  /\ transcript' = ClaimTranscript(statement)
  /\ UNCHANGED <<setup, polynomial, messages, tables, damage, memo, betas, checked, verdict>>

(* The challenges again, from the roots that arrived.                      *)
ReplayRound(beta) ==
  LET label == <<"fold", round>>
      last  == round + 1 = Rounds
  IN
  /\ pc = "replay"
  /\ Squeezes(transcript, label, FoldingChallenges, beta)
  /\ transcript' = transcript \o <<<<"squeeze", label>>, <<"root", opening.oracle_roots[round + 1]>>>>
  /\ betas' = Append(betas, beta)
  /\ round' = IF last THEN 0 ELSE round + 1
  /\ pc' = IF last THEN "final" ELSE "replay"
  /\ UNCHANGED <<setup, polynomial, messages, tables, damage, checked, verdict>>

(* Mutant: a final oracle of another size is interpolated all the same.    *)
MutFinalSizeUnchecked ==
  LET domain == DomainAt(Rounds)
  IN
  /\ Root(opening.final_oracle) = opening.oracle_roots[Rounds]
  /\ Degree(Interpolate(domain.points, opening.final_oracle, domain.size)) <=
       AfterFoldings(setup, ReducedBound, Rounds)

(* The final oracle is sent whole: rs_interpolate wants the domain's size. *)
FinalOracleHolds ==
  LET domain == DomainAt(Rounds)
  IN
  /\ Root(opening.final_oracle) = opening.oracle_roots[Rounds]
  /\ TableSize(opening.final_oracle) = domain.size
  /\ Degree(Interpolate(domain.points, opening.final_oracle, domain.size)) <=
       AfterFoldings(setup, ReducedBound, Rounds)

CheckFinalOracle ==
  /\ pc = "final"
  /\ \/ /\ FinalOracleHolds
        /\ pc' = "check"
        /\ UNCHANGED <<setup, polynomial, messages, tables, damage, transcript, memo,
                       round, betas, checked, verdict>>
     \/ ~FinalOracleHolds /\ Rejects

ParentRoot(r) == IF r = 0 THEN commitment.oracle_root ELSE opening.oracle_roots[r]

(* The round's openings are for these queries and belong to the trees.     *)
OpeningsHold(r, queries) ==
  LET proof     == opening.rounds[r + 1]
      childSize == DomainAt(r + 1).size
  IN
  /\ proof.parent.queried_indices = Ascending(ExpandFiberIndices(queries, childSize, K))
  /\ TreeAccepts(ParentRoot(r), DomainAt(r).size, proof.parent)
  /\ IF r + 1 = Rounds THEN proof.child = NoProof
     ELSE /\ proof.child.queried_indices = Ascending(Positions(queries))
          /\ TreeAccepts(opening.oracle_roots[r + 1], childSize, proof.child)

(* One queried slot of the child against its fiber in the parent.          *)
FiberHolds(r, child) ==
  LET proof      == opening.rounds[r + 1]
      childSize  == DomainAt(r + 1).size
      points     == FiberPoints(DomainAt(r), child, childSize, K)
      values     == [offset \in 0 .. K - 1 |-> Opened(proof.parent, child + offset * childSize)]
      childValue == IF r + 1 = Rounds THEN opening.final_oracle[child]
                                      ELSE Opened(proof.child, child)
  IN  IF r = 0 THEN VerifyVirtualFiber(points, values, K, statement, betas[1], childValue)
               ELSE VerifyExplicitFiber(points, values, K, betas[r + 1], childValue)

(* Mutant: only the first query of a round is checked.                     *)
MutFirstQueryOnly(r, queries) == OpeningsHold(r, queries) /\ FiberHolds(r, queries[1])

RoundHolds(r, queries) ==
  OpeningsHold(r, queries) /\ \A child \in Positions(queries) : FiberHolds(r, child)

VerifyRound(queries) ==
  LET label == <<"query", round>>
  IN
  /\ pc = "check"
  /\ Squeezes(transcript, label, QueryPositions(round), queries)
  /\ transcript' = Append(transcript, <<"squeeze", label>>)
  /\ \/ /\ RoundHolds(round, queries)
        /\ checked' = Append(checked, queries)
        /\ \/ /\ round + 1 < Rounds
              /\ round' = round + 1
              /\ UNCHANGED <<pc, setup, polynomial, messages, tables, damage, betas, verdict>>
           \/ round + 1 = Rounds /\ Decide("accept")
     \/ ~RoundHolds(round, queries) /\ Decide("reject") /\ UNCHANGED checked

Return == pc = "done" /\ UNCHANGED vars

Next ==
  \/ CommitRefuses \/ Commit
  \/ \E f \in Polynomials, alpha \in OpeningPoints : OpenRefuses(f, alpha) \/ Open(f, alpha)
  \/ pc = "fold" /\ \E beta \in FoldingChallenges, slip \in BOOLEAN : FoldRound(beta, slip)
  \/ pc = "query" /\ \E queries \in QueryPositions(round) : QueryRound(queries)
  \/ pc = "deliver" /\ \E kind \in DamageKinds : Deliver(kind)
  \/ pc = "deliver" /\ \E f \in Polynomials, value \in Ring : Substitute(f, value)
  \/ VerifyRefuses \/ VerifyZeroRounds \/ VerifyStart
  \/ pc = "replay" /\ \E beta \in FoldingChallenges : ReplayRound(beta)
  \/ CheckFinalOracle
  \/ pc = "check" /\ \E queries \in QueryPositions(round) : VerifyRound(queries)
  \/ Return

Spec == Init /\ [][Next]_vars

-----------------------------------------------------------------------------

Accepted == verdict = "accept"

(* Completeness: what an honest prover sends is accepted, whatever the     *)
(* challenges and the query positions are, also when the opening point is  *)
(* in the evaluation domain and the verifier cannot compute the quotient   *)
(* there.                                                                  *)
IntactIsAccepted == damage = "none" => verdict # "reject"

(* A commitment that commit returned can be opened by its polynomial at    *)
(* every point of T: open has no reason to throw.                          *)
CommitPromisesOpen ==
  pc = "open" => \A alpha \in OpeningPoints : IsTeichmuller(alpha) => MayOpen(polynomial, alpha)

(* Opening a polynomial means opening the committed one: the claimed value *)
(* of an opening is the committed polynomial's.                            *)
OpeningAnswersCommitment ==
  pc = "deliver" => opening.claim.value = Evaluate(polynomial, opening.claim.alpha)

(* The table under a root. *)
Under(root, n) == [i \in 0 .. n - 1 |-> root[i]]

(* The value at beta of the polynomial of degree < K through one fiber.    *)
FiberFoldsTo(points, values, beta, childValue) ==
  Evaluate(Interpolate(points, values, K), beta) = childValue

(* What an accepted query says about the tables under the roots, not about *)
(* the openings: the child's slot is the fold of the parent's fiber, with  *)
(* the quotient (f - value) / (X - alpha) for parent in the first round.   *)
(* On a fiber with alpha the quotient has a value there for which it is.   *)
TablesConsistent(r, child) ==
  LET m         == DomainAt(r + 1).size
      points    == FiberPoints(DomainAt(r), child, m, K)
      values    == [o \in 0 .. K - 1 |-> ParentRoot(r)[child + o * m]]
      quotients == DerivedValues(points, values, K, statement)
      slot      == Under(opening.oracle_roots[r + 1], m)[child]
      atAlpha   == {o \in 0 .. K - 1 : points[o] = statement.alpha}
  IN  IF r > 0 THEN FiberFoldsTo(points, values, betas[r + 1], slot)
      ELSE IF atAlpha = {} THEN FiberFoldsTo(points, quotients, betas[1], slot)
      ELSE \A o \in atAlpha :
             /\ values[o] = statement.value
             /\ \E q \in Ring : FiberFoldsTo(points, [quotients EXCEPT ![o] = q], betas[1], slot)

(* Soundness of the query phase: after acceptance every round was checked  *)
(* at positions the transcript drew, all of them consistent.               *)
AcceptMeansConsistent ==
  Accepted /\ Rounds > 0 =>
    /\ Len(checked) = Rounds /\ Len(betas) = Rounds
    /\ \A r \in 0 .. Rounds - 1 :
         \A child \in Positions(checked[r + 1]) : TablesConsistent(r, child)

(* Without folding rounds the verifier sees the whole table, whoever built *)
(* it: what it accepts is the table of a polynomial within the bound which *)
(* has the claimed value.  There is one exception to the bound: it measures*)
(* the quotient against opening_degree_bound, which does not go below 0,   *)
(* so that a commitment to a constant may hold a linear polynomial.        *)
(* (A domain of one point says nothing about another point.)               *)
ZeroRoundClaimIsTrue ==
  Accepted /\ Rounds = 0 /\ commitment.domain.size > 1 =>
    LET n == commitment.domain.size
        f == Interpolate(commitment.domain.points, Under(commitment.oracle_root, n), n)
    IN  /\ Degree(f) <= IF commitment.degree_bound = 0 THEN 1 ELSE commitment.degree_bound
        /\ Evaluate(f, statement.alpha) = statement.value

(* While queries are checked, the final oracle has an entry for every      *)
(* query position: the verifier indexes it without looking at its size.    *)
FinalOracleIndexable ==
  pc = "check" => DOMAIN opening.final_oracle = 0 .. DomainAt(Rounds).size - 1
=============================================================================
