# Verification of the STIR / WHIR over Galois rings code base

TLA+ models of the C++ implementation of low-degree tests over Galois rings
GR(p^k, r): FRI as a polynomial commitment, STIR as an interactive oracle
proof, WHIR, and the ring, transform, Merkle-tree and transcript layers under
them. TLC checks every model on small instances; TLAPS proves the theorems of the
`*Proofs` modules for all values of the constants (section 4).

Paths below are relative to the repository (`src/` holds the implementation,
`include/` its headers).

## 1. Inventory of the system

| component | state | operations |
|---|---|---|
| Ring context `algebra/gr_context` | prime, modulus; a `LazyState` shared by copies (two `once_flag`s, base and lifted polynomial, Teichmueller generator) | `with_ntl_context`, `parallel_for[_chunks]_with_ntl_context`, `teich_generator`, `inv`, `batch_inv`, serialization |
| Teichmueller set and subgroups `algebra/teichmuller`, `subgroup` | none | membership, enumeration by index, subgroup generators |
| Domains `domain` | context, offset, root, size | `pow_map`, `scale_offset`, `element`, subset tests |
| Polynomials `poly_utils/{polynomial, interpolation, quotient, degree_correction}` | coefficients, trimmed | encode, interpolate, answer, vanishing and quotient polynomials, degree correction |
| Transforms `poly_utils/fft3` | a process-wide plan cache | look up or build a plan, forward and inverse transform |
| Folding `poly_utils/folding` | none, but a table written by several threads | `fold_table_k`, `fold_eval_k`, fiber caches |
| Merkle tree `crypto/merkle_tree` | leaves, levels, root | construction, `open`, `verify`, the multiproof planner |
| Transcript `crypto/fs/transcript` | hash state, squeeze counter | absorb, squeeze, ring / Teichmueller / index challenges by rejection sampling |
| FRI `fri` | parameters; prover: tree and table of the commitment | `commit`, `open`, `verify`, two `validate`s, query schedules |
| STIR `stir` | parameters; per run: current polynomial, tree, challenge | `prove_with_witness`, `verify`, `validate`, schedules, point samplers |
| WHIR `whir` | public parameters; the caller's commitment state; per run: constraint, running sum, current polynomial and oracle, live variables | `commit`, `open`, `verify`, `validate`, constraints, multiquadratic polynomials, repeated folding |
| Soundness calculators `soundness`, `*/soundness` | none | floating-point bounds; the query counts of the schedules; WHIR's search for a domain and an extension degree |

How they interact: provers encode a polynomial on a domain (transforms, through
the plan cache, in the ring's NTL context), fold it (threads), put each oracle
under a Merkle root, absorb the root and squeeze challenges. The verifier
replays the absorbs and squeezes from the proof alone, recomputes positions,
checks openings against the roots and checks algebra on the opened fibers. Its
whole argument rests on seeing the same challenges as the prover in the same
order, on what `MerkleTree::verify` binds, and on schedules (degree bounds,
domain sizes, query counts) that both sides compute separately.

What is hard in it, and what makes each part correct:

- **Planner and tree**: prover and verifier run the same walk over different
  inputs and consume one flat list of hashes. Correct when a plan holds exactly
  the hashes the queried leaves cannot produce, an accepted proof speaks of
  the committed leaves only, and an intact proof is accepted.
- **Folded table**: chunks on several threads step a running inverse. Correct
  when every slot is written once, with the fold of its own fiber.
- **Plan cache**: look-up, build and insert are three critical sections, and a
  key holds a raw context address. Correct when a transform never runs with
  another ring's plan and every domain has one plan.
- **NTL contexts**: moduli and the random stream are thread-wide; calls nest,
  throw, and share a lazily built state. Correct when every body runs under
  its ring's moduli, every exit restores the caller's, and the ring does not
  depend on which thread built it.
- **Transforms**: an inexact split into residues, strides through one array and
  chunks of one stage on several threads. Correct when every stage holds the
  values of the residue polynomials and the result is the polynomial's table.
- **Transcript**: draws with rejection from a chain of hashes. Correct when equal
  challenges mean equal histories and no value is likelier than another.
- **WHIR's parameter search**: modular arithmetic in words that must not wrap,
  an early stop, and a second validation by other code. Correct when what it
  selects passes that validation and nothing smaller was passed over.
- **FRI, STIR, WHIR**: transcript order; schedules that saturate or do not
  divide; points where a denominator is zero or a zero divisor; samplers that
  give up; proofs changed on their way. Correct when an intact proof is
  accepted (for which the verifier must ask the transcript exactly what the prover
  asked), an accepted proof satisfies the round relations for the committed tables, and
  prover and verifier never leave the bounds `validate` promised.

There is no persistence, network or timer in the code: no crash recovery and no
timeouts, but two kinds of bounded retry (the samplers) and one unbounded.

## 2. Modules

| module | models | state and actions |
|---|---|---|
| `MultiproofPlan` | `proof_planner.cpp` as a set definition | operators: `Lone`, `PlanSiblings`, `PlanOrder` |
| `ProofPlanner` | `build_pruned_multiproof_plan`, loop by loop | `PairedNode`, `LoneNode`, `CloseLevel` are the iterations; checked against `MultiproofPlan` |
| `VectorCommitment` | what the protocols rely on | abstract specification: present, accept, reject |
| `MerkleTree` | constructor, `open`, `verify` | `pc` is the phase; `levels`, `root` as in the class; `current`, `vwidth`, `cursor` are the locals of `verify`; refines `VectorCommitment` |
| `RingElements` | the ring: GR(p^k, 1) as Z/p^k, and GR(4, 6) | operators; addition and product are constants, `ModularPlus` ... or `PairPlus` ... |
| `GaloisRing` | domains, encode, interpolate, quotient | operators |
| `Encoding`, `MCEncoding` | `rs_encode`, `rs_interpolate` and the encoding of WHIR's prover: the dispatch by size, the recursive radix-3 transform with its loops on threads, chunked Horner evaluation | `stack` holds the frames of the recursion and `buffers` their arrays; of a loop on threads `at` has each chunk's slot and `point` its running point |
| `Folding`, `FoldTable`, `MCFoldTable` | folding one fiber, folding a table by threads | `out`, and per chunk its slot `at` and its `base_inverse` |
| `Transcript`, `MCTranscript` | the hash chain, squeezing in blocks, `challenge_teichmuller`, `challenge_index`, unique positions | per party `state`, `counter` and the request being answered; `oracle` has the blocks the hash has given |
| `FriRules`, `FriPcs`, `MCFriPcs` | validation, schedules, round checks; commit, open, delivery and verify | `transcript`, `memo` (the random oracle), messages, verdict |
| `StirRules`, `StirIop`, `MCStirIop` | the same for STIR: schedules, pools, answer / shake / quotient / degree-correction algebra; prove, delivery, verify | one action per round half: `FoldRound` commits, `AnswerRound` draws and answers; `VerifyRound`, `DrawRound` replay them |
| `WhirRules`, `WhirPcs`, `MCWhirPcs` | WHIR's validation, multiquadratic polynomials, constraints, sumcheck and repeated folding; commit, open, delivery, verify | `Sumcheck` fixes one variable, `EndProverLayer` sends a root and the openings; `VerifySumcheck`, `VerifyLayer` replay them; `state` is the caller's `WhirCommitmentState` |
| `WhirSelector`, `MCWhirSelector` | WHIR's parameter search: orders modulo n0, candidates, early stop, the parameters it returns | the `candidate` n0, `notes` of what was skipped and why, the `selection` |
| `PlanCache` | `GetOrBuildRadix3Plan`, ownership of contexts | heap of contexts, what threads own, cache entries; `LookUp`, `Build`, `Insert` are the three critical sections |
| `NtlContext` | `with_ntl_context`, the two lazy initialisers | per thread: what NTL holds and a stack of calls; per context: flags and lazy state |
| `Threading` | the threads of the two models below | constants `Threads`, `None` |
| `ProofPlannerProofs`, `FoldTableProofs`, `FriPcsProofs`, `StirIopProofs` | – | the theorems about the module each is named after, which it extends |
| `CryptoProofs` | – | the theorems about `MerkleTree` and `Transcript` |
| `ContextProofs` | – | the theorems about `NtlContext` and `PlanCache` |
| `RingFacts` | – | theorems about the operators of `RingElements`, `GaloisRing`, `Folding` and `FriRules`: sums, products and powers, polynomials and their zeros, interpolation, quotients, folding, domains, tables under roots |
| `SharedFacts` | – | lemmas the proofs share: natural numbers and powers of two, increasing vectors, the trees and order of `MultiproofPlan` |

`FriPcs`, `StirIop` and `WhirPcs` extend their rules, which extend `Folding` or
`FriRules` and `GaloisRing`; they use `TreeAccepts` and `OpenTree`, the behaviour `MerkleTree`
is shown to have, in place of the tree.

Modelling decisions worth knowing:

- **Hashes** are terms: leaf and parent hashes are one-to-one and never
  collide. A root is therefore the table it commits to.
- **The transcript is a random oracle** in the protocols. Its state is the
  sequence of all absorbs and labels so far; a query asked before gets its old
  answer, a new one gets any value of its range. The `memo` survives delivery: a
  verifier that asks anything else than the prover gets other challenges in
  some behaviour, and `IntactIsAccepted` fails there. `Transcript` shows why this
  abstraction is right: the code's chain of hashes binds the whole history
  (`ChallengesBindHistory`) and its samplers are even (`SamplingIsEven`).
  All attempts of one rejection sampler are one squeeze; in STIR the answer
  `<<>>` stands for a sampler that gave up, which throws in the code.
- **Delivery** either keeps a message or changes one field of it. Changed
  fields are indistinguishable from sending a proof made in another way, as far
  as a single field goes. Where the verifier sees the whole table (FRI without rounds) the
  message may also be another prover's (`Substitute`), with the table of any polynomial under
  its root and any claimed value; in the other cases arbitrary provers are not modelled.
- **Rings.** FRI, STIR and the transforms run in Z/p^2 (19^2, 31^2, 163^2), which
  has zero divisors and a Teichmueller set. WHIR accepts p = 2 only, and GR(2^k, 1)
  has no element of order three, so it runs in GR(4, 6), whose elements are pairs
  over the field of 64 elements (`RingElements` says how they add and multiply;
  `FieldAssumption` checks the table the addition rests on). Extension arithmetic
  itself is the vendored library's work.
- **Soundness arithmetic** is floating point. The query count STIR derives from
  it is modelled for the rates where the logarithms fall into known cases. WHIR's
  search is modelled with the exact integers it uses for orders and sizes, in
  words of 8 bits in place of 64; the repetition counts its logarithms give
  are the bits that are needed and one of `ExtraRepetitions` more.
- **Mutants.** Definitions whose names begin with `Mut` are plausible mistakes
  in the code. Each property is violated when a definition is replaced by the
  one PROJECT.json pairs with it, so no property holds vacuously.

## 3. Runs

| run | what it asks | bounds, and why they are enough |
|---|---|---|
| `ProofPlanner` | Does the walk plan the exact frontier, and what the closed form says? | 0..8 leaves, query vectors of up to 3 entries with repeats and any order: three levels, odd sizes, paired, lone and joining paths all occur |
| `MerkleTree` | Does an accepted proof bind, is its sibling list unique, does the tree implement `VectorCommitment`? | 0..5 leaves (padded 1, 2, 4, 8), two payloads, up to 3 queries, one change anywhere in the proof |
| `FoldTable` | Is the table right in every interleaving of chunks? | domain of 30 points, factor 3, ten slots in chunks of 3 + 3 + 3 + 1 (and as cut for one thread); the code starts threads at 27 slots, the model at once |
| `Encoding` | Is the result the polynomial's table, and does every stage hold the residues, in every interleaving of chunks? | 31 calls in GR(163^2, 1): domains of 1 to 81 points, there and back, counts of coefficients that thirds divide and do not, more of them than points; the second threshold is 9 in place of the code's 128, so that every branch is taken |
| `PlanCache` | Right plan, one plan, no starvation? | three threads, two addresses, two rings: an address can be freed and reused by another ring while a third thread builds. The process may stop, so deadlock is not checked |
| `NtlContext` | Right moduli inside, caller's moduli outside, deterministic ring, no deadlock on the flags? | two threads, three contexts (searched generator, derived generator, one whose initialisation throws), nesting depth two |
| `Transcript` | Do equal challenges mean equal histories, are the samplers even? | two transcripts, bytes of two values, indices and blocks of two bytes, histories of up to two operations; a modulus of 3 rejects, one of 5 needs more than a block. Who uses a transcript may stop, so deadlock is not checked |
| `FriPcs` | Completeness: whatever is committed can be opened, and verifies. What does acceptance of a changed opening say? | 15 setups: 0, 1 and 2 rounds, a coset, folding by 9, bound 0, and those that are refused; opening points in and outside the domain and the Teichmueller set; p = 19, k = 2; for six setups and three polynomials 13 kinds of change, without rounds also every polynomial of the run with every claimed value |
| `StirIop` | Completeness and the prover's bounds, both modes. What does acceptance of a changed proof say? | 12 setups (6 refused by `validate`), 3 polynomials, folding by 9, 0 to 2 rounds, 1 or 2 out-of-domain samples, automatic and manual query counts, domains of 9 to 162 points in Z/163^2; for two cases (a setup with a source and a target polynomial) 14 kinds of change |
| `WhirPcs` | Completeness, what the prover carries from layer to layer, folds by both paths. What does acceptance of a changed opening say? | 13 setups (6 valid), domains of 9 and 63 points in GR(4, 6), one and two variables, widths 1, 1 + 1 and 2, multiquadratic and multilinear sources, targets on and off the grid, a state object used twice; for four setups 18 kinds of change |
| `WhirZero` | Is every honest opening accepted? (Violated.) | the zero polynomial and another one, on 9 points |
| `WhirSelector` | Does what is selected pass validation; was nothing skipped without cause? | words of 8 bits, over 500 inputs: up to four variables, widths up to 3, four rates, given and searched extension degrees and domain limits, `ExtraRepetitions` 1 and 3 |

In `StirIop` and `WhirPcs`, `PoolBound` and `PositionBound` limit, per squeeze, how
many points of a pool and how many positions are tried (one, respectively two, more
than needed minus one). Both are choices of an oracle whose values the algebra treats alike; every
kind of point the code distinguishes is among them.

What the runs show:

- The planner's and the tree's internal rejections inside the verify loop cannot
  fire (`WalkStaysOnPlan`); the only effective checks are the shape checks at
  entry and the root comparison at the end.
- FRI: `CommitPromisesOpen` - a commitment `commit` accepts can be opened at
  every admissible point although the opening's degree bound is one smaller.
  The final table is never indexed past its end.
- FRI without rounds: what is accepted is true, whoever sent it
  (`ZeroRoundClaimIsTrue`; the domain has more than one point), with one exception in the degree. `opening_degree_bound`
  (`src/fri/common.cpp:209`) saturates at 0 and `VerifyZeroFoldVirtualQuotient`
  (`src/fri/verifier.cpp:258`) bounds the quotient only, so under a commitment with
  bound 0 the verifier also accepts the table of a linear polynomial. `commit` never
  makes such a commitment; the run reaches it through `Substitute`.
- STIR: the comment at `src/stir/parameters.cpp:160` on the capacity for the
  shake point is confirmed (`ShakePoolNeverEmpty`): what is reserved before
  anything is drawn suffices for every draw. No division in the prover is
  inexact and no polynomial outgrows its bound (`ProverKeepsBounds`).
- STIR, prototype mode: the comb challenge may be any ring element, and
  `degree_correction_eval` throws where 1 - x comb is a zero divisor other than
  zero, so there the verifier may reject an honest proof; the model reaches it and
  `IntactIsAccepted` names exactly that case. In theorem mode it cannot occur.
- `try_reuse_next_round_input_oracle`, a helper `prove` does not call, where it does
  not give up computes the encoding the prover computes from coefficients (`ReuseIsEncoding`).
- The verifier's shake check compares values at one point and bounds no degree
  of the two polynomials sent; `AcceptMeansConsistent` says what acceptance
  means and no more.

- WHIR: the running sum is the constraint's sum over what is left of the grid
  after every variable and every layer (`SigmaIsConstraintSum`), and shift
  positions index the domain of 3^width-th powers on both sides although the
  next oracle lives on the domain of cubes (`FoldsAreNextPolynomial`).
- WHIR, `WhirZero`: a sumcheck polynomial that is zero is sent without
  coefficients, which the verifier refuses as malformed
  (`src/whir/common.cpp:147`); the zero polynomial can therefore be committed to
  and opened, but its opening is never accepted. `IntactIsAccepted` names this
  case and the other one, a layer whose degree bound is below what an honest
  polynomial reaches, which `validate` lets pass.
- WHIR's search: whatever it selects passes `validate` (`SelectionIsUsable`), and
  a domain it passes over has an extension degree out of range, too large a
  domain or too few bits (`SkippedForCause`), which needs `AddMod` not to wrap.
- Transcript: the rejection limit is one block below what it could be when the
  modulus divides the number of words; it costs attempts, not evenness.

**Fairness.** `MerkleTree`: constructor and
`verify` run to their end; nobody must call. `PlanCache`: a thread inside a
transform proceeds; nothing outside must happen. `NtlContext`: a thread in a call
and an exception proceed, but nothing says that a body ever ends, and
`WaitersProceed` holds without it. The other
modules state no liveness: they run to their end without waiting for anybody,
and that they do not stop before it is checked as freedom from deadlock.

## 4. Proofs

Each theorem holds for every value of the constants that the named assumption
admits. An invariant a run checks is seldom inductive; each section says what had to be
added and why.

| theorem | states |
|---|---|
| `ProofPlannerProofs.FrontierIsExact`, `PlanIsClosedForm` | `PlanIsExactFrontier`, `PlanMatchesClosedForm` |
| `CryptoProofs.TypeCorrect`, `AcceptedProofsBind` | `TypeOK`, `Binding` |
| `CryptoProofs.WalkOnPlan`, `AcceptedSiblingsAreUnique` | `WalkStaysOnPlan`, `SiblingsAreUnique` |
| `CryptoProofs.TreeIsVectorCommitment` | the safety part of `VectorCommitment` |
| `FoldTableProofs.WritesNeverMeet` | `SlotsWrittenOnce` (action property) |
| `FriPcsProofs.FinalOracleInRange`, `CommitmentsOpen` | `FinalOracleIndexable`, `CommitPromisesOpen` |
| `FriPcsProofs.AcceptedQueriesPassOnTables` | what acceptance says of the tables under the roots |
| `ContextProofs.PlansFitDomains`, `PlansAreShared` | `PlanFitsDomain`, `OnePlanPerDomain` |
| `ContextProofs.BodiesInContext`, `CallsLeaveNoTrace` | `BodyInContext`, `LeavesNoTrace` |
| `ContextProofs.LazyStatesDeterministic`, `LazyStatesPublishedOnce` | `LazyStateDeterministic`, `PublishedOnce` (action property) |
| `CryptoProofs.ChallengesAreBinding`, `SamplingStaysEven` | `ChallengesBindHistory`, `SamplingIsEven` |
| `RingFacts.ModularRing` | the ring of the FRI and STIR runs has the `RingLaws` |
| `RingFacts.InterpolateFacts`, `FoldIsLagrange`, `FoldOfValues`, `QuotientFacts` | what the algorithms of the ring layer compute |
| over every ring with `RingLaws`: | |
| `FoldTableProofs.FoldedTableIsEncoding` | `TableEncodesFold` |
| `FriPcsProofs.OpeningsAnswerCommitments`, `ZeroRoundClaimsTrue` | `OpeningAnswersCommitment`, `ZeroRoundClaimIsTrue` |
| `FriPcsProofs.AcceptedTablesConsistent` | `AcceptMeansConsistent` |
| `FriPcsProofs.IntactAccepted` | `IntactIsAccepted` |
| `StirIopProofs.ShakePoolLeavesOne` | `ShakePoolNeverEmpty` |
| `StirIopProofs.ProverStaysWithinBounds`, `ReusedTableIsEncoding` | `ProverKeepsBounds`, `ReuseIsEncoding` |
| `StirIopProofs.AcceptedProofIsConsistent` | `AcceptMeansConsistent` |
| `StirIopProofs.IntactProofIsAccepted` | `IntactIsAccepted` |

**Planner** (`PlannerBounds`: at least one leaf is allowed). `Inv` describes
the two loops at any point. `ScanIsHalfway`: of the level being scanned, what
lies before `i` has produced exactly its parents and its missing siblings, both
in increasing order, and no parent still to come is among them (`Halfway`); the entries
are the queried leaves' ancestors at that level. `LevelsAreClosed`: in each level
already pushed the nodes and siblings together are the children of the parents.
`SiblingsAreCounted` ties the running count to the lists. The closed form needs
one more step: lists that are in the proof order and have the same
elements are equal (`ListedUnique`).

**Merkle tree** (`BoundsAssumption`: both bounds are natural numbers). From an arbitrary
state of the walk nothing follows about the root comparison, so `Binding`
is not inductive. `TreeInv`: widths are powers of two that halve,
level one holds the leaves' hashes, each node is the hash of its two children
and the root is on top. `ClimbInv`: if any row of the received proof lies about its
leaf, some known node carries a hash that the tree does not have there. Injective
hashes (`HashLeafInjective`, `HashParentInjective`) carry the lie from a node
to its parent (`VerifyLevelClimbs`); at width one it contradicts the root
comparison (`VerifyFinishBinds`).

`WalkInv` says what the walk has consumed: the known nodes are the queried
leaves' ancestors, the cursor stands after exactly the planned siblings
of the closed levels, a sibling that is not the tree's leaves a wrong known node
above it, and when nothing received is wrong all known nodes are the
tree's. It gives `WalkStaysOnPlan`, the uniqueness of the sibling list
and, with `MessagesTyped` (the proof in flight is the honest one of its indices), the
completeness that `VectorCommitment` promises. `TreeIsVectorCommitment` is the refinement:
initial states map to initial states, every step to a step or a stutter. That
the tree also has the fairness of the abstract specification is checked by the run.

**The ring** (`RingLaws`). `RingElements` takes addition and multiplication as
constants, so what they are is a hypothesis: `RingLaws` says that they form
a commutative ring with one, in which `OfInteger` counts, zero is no unit and a divisor of
one is. `ModularRing` proves it of `ModularPlus`, `ModularMinus` and `ModularTimes`,
the case r = 1 in which FRI, STIR and the transforms are run, so it is a hypothesis
with models. Beyond it two facts of algebra are assumed and checked by TLC for
every ring a run uses: a power of a unit inverts it (`InverseAssumption`, Lagrange's theorem), and
different Teichmueller elements differ by a unit (`TeichmullerAssumption`).

The algorithms of the ring layer are recursive functions (Horner's rule, power by
squaring, products of linear factors, division by one). A lemma for each
says what its values are by the recursion's own equations (`HornerValues`,
`VanishingValues`, `DivisionValues`), and polynomials are then treated as
sequences of coefficients (`Value`, `Linear`, `Quotient`). The centre is that a polynomial of degree
below n with n zeros that are apart by units is zero (`OnlyZero`): it makes
interpolation unique. `FoldIsLagrange` has both branches of `fold_eval_k`, the
short cut for cosets included; `FoldOfValues` connects folding values with folding
coefficients.

**Folded table** (`FoldTableAssumption`, `InputsAssumption`: the offsets make
domains of different points whose root is a Teichmueller element, the table has at most as many coefficients as
points). `ChunkInv`: each chunk's slot is inside the chunk and what lies ahead of
it is unset. The division of the slots into chunks is proved disjoint for every
number of threads. For `TableEncodesFold` the table alone is not inductive: the next slot
is computed from the chunk's running inverse. `SlotsHold` says that each
`base_inverse` is the inverse of the point its slot is at (`InversesRun`), and that every slot behind it holds its
fold (`FoldedBehind`).

**FRI** (`SetupsAssumption`: sizes and counts are natural numbers, domains have
different points; `InputsAssumption`: polynomials and opening points are the ring's). `FriInv`: no domain that `validate`
let through becomes empty (`Setting`); each replayed round added one challenge
(`Replayed`); while queries are checked the final oracle has its domain's
size and is the table under the last root, and each round already checked holds of the *tables*,
not only of the opened rows (`Checking`) - because an accepted multiproof shows
the table's entries, and fiber and child indices name the same slots on both sides. It gives
`FinalOracleIndexable` and `AcceptedTablesPass`, the
protocol half of `AcceptMeansConsistent`.

The algebraic half needs that what is under the roots are tables over the ring and that the
challenges are Teichmueller elements, although messages were changed on their way. `RingInv`
says so for each phase: what `validate` promised (`Validated`: roots of
domains are Teichmueller elements, so fibers are apart by units), the claim
(`ClaimMade`), the prover's tables (`TablesMade`), messages after delivery with
every kind of damage (`Arrived`) and the replayed challenges (`Drawn`). With
`FoldIsLagrange` the verifier's test on the tables then is the fold that
`AcceptMeansConsistent` names.

`ZeroRoundClaimIsTrue` is about the only case in which the verifier sees a whole table: it is
sent, its root compared, the points other than alpha interpolated. The tests
the verifier made are kept after acceptance (`AcceptedRevealed`); from them follows that
the table is that of a polynomial one degree above the quotient's (`ZeroFoldSound`).
Nothing is assumed of who built the table. A bound above 0 is one above
the quotient's bound, so the degree is within it. The bound 0 is its own
reduced bound, and the theorem gives degree 1 there and no better.

Completeness (`IntactIsAccepted`) is a statement about two parties: it holds because the verifier asks the
random oracle what the prover asked. `Follows` has three witnesses: the quotient
polynomial q, and for each round the transcripts before the fold challenge
and before the positions are drawn (`heard`, `asked`). It says that each
root was absorbed and each challenge remembered under exactly those keys, that each
oracle is the fold of the one before, and where in the chain the party
whose turn it is stands. The verifier's replay walks the same chain, so that its challenges
are the prover's (`ReplayedSame`). That its tests then succeed needs that
every oracle is a codeword of the degree bound of its round (`IsCodeword`, `FoldOfEncoding`)
and that openings of own tables are accepted (`OwnOpening`).

`CommitmentsOpen` compares two validations. `commit` divides the degree bound
until it is at the stop degree, `open` does so with a bound one smaller, and
each counts its own rounds. Repeated division is monotone (`AfterFoldings`), so
the second schedule is no longer than the first, and what holds at each of its
rounds for the larger bound holds for the smaller (`SmallerInstance`).

**STIR** (`SetupsAssumption`: domains whose root is a Teichmueller element, counts that are
natural numbers; `InputsAssumption`: polynomials over the ring). The schedule first: what `validate`
settles for each round (`StirInstance`, `RoundIsSettled`) follows from the loops that compute
it, which the model has as recursive functions; `StirSetting` says that whoever is at
work in a round works on a schedule that passed.

`ShakePoolNeverEmpty` compares cardinalities. The code reserves before anything is drawn one point
more than it draws: the number of Teichmueller units less the points of three domains. The
theorem shows that the pool the sampler uses has at least that many (`PoolIsLarge`, `LeftOver`):
different Teichmueller elements differ by a unit, so nothing else is left out of it.

`ProverKeepsBounds` and `ReuseIsEncoding` are about the algebra of one round. The shape of
what the oracle may answer is carried along (`Answers`: every remembered answer is
one of its label's); so out-of-domain points come from their pool, positions are different, and
the points of a round differ by units from one another and from the next domain
(`RoundPoints`, `BelowIsUnit`), although they come from
different samplers. Interpolating through them and dividing by the product of linear factors is then
exact (`QuotientIs`), the corrected polynomial is within the bound although its factor has the
degree of the gap (`CorrectedFits`), and, since the vanishing polynomial is a unit
on the next domain, dividing there point by point gives the same table (`ReusedIsEncoding`).
`ProverState` ties these to the phases; between rounds it needs that the
polynomial carried on is below the bound (`CurrentFits`), and inside one that the table sent
is the encoding of the folded polynomial (`WitnessAt`).

For `AcceptMeansConsistent`, `ProofState` says that a message is readable however it was damaged: its roots
are rows of ring elements, its polynomials over the ring. `VerifierState` carries the rounds that passed
(`Going`): the function queried is the quotient by what the last of them drew, and each satisfies its shake
equation with the folds of what is *under its root* (`RoundKept`), because an
accepted multiproof opens the rows of the root (`FoldedAnswersAre`) and degree correction
at a point is the geometric sum wherever it divides (`CorrectionIs`). `CommittedIsQueried` then
identifies the verifier's function with the one the property is about.

Completeness (`IntactIsAccepted`) follows FRI's argument with five challenges a round. `Past` has as witnesses the
beginning of each round (its polynomial, table, fold challenge, transcript and the
verifier's function) and what was drawn in it; `Heard` says that the oracle's memory holds those draws under
the transcripts the prover reached, and `ClosedBy` the same for the final queries. The memory only grows
(`PastStays`), so what `ProvingFrom` says of the prover while it sends is still there when the verifier
repeats the squeezes (`CheckingFrom`): it gets the prover's points, positions and challenges
(`DrawsAgain`). Its answers are then the folds the prover computed (`ServesFolds`), the answer
polynomial takes them (`ShakeHonest`, `HoldsAgain`), and the final polynomial those of the last table
(`EndsAgain`). What carries over from round to round is `Serves`: the verifier's function, asked where the
table is, gives the values of the polynomial the prover committed to (`ServesNext`). That the query goes through is
another matter: in theorem mode no degree correction divides by a zero divisor (`NeverDegenerate`), in prototype mode it
may, and only then (`Excused`) is the rejection the property allows.

**Plan cache** (`NoneAssumption`). The danger is a key whose address was
freed and given to another ring. `OwnersAlive`: whoever holds a plan, threads and
entries alike, keeps its context on the heap with its ring, so that an address cannot
be reused while an entry names it; `KeysNameOwnedContexts`: an entry's
key names the very context its plan owns; `ThreadsInStep` ties what a thread
looked up to what is in the cache, whoever inserted it.

**NTL contexts** (`Kinds`). What NTL holds depends on calls still on the stack,
so the invariant reconstructs it: for each stack there is a sequence `env`
of what NTL held when each call was entered, each call's guards saved what they
overwrote (`Undoes`) and installed what its place needs (`Installed`). Popping
a call, normally or by an exception, returns to the previous element.
`CallsFounded` and `OneInitialiser` say that a flag is "running" for exactly one call, and
that a call that waited finds the lazy state complete. `RightBase`,
`RightExtension` and `RightGenerator` are functions of the context alone.

**Transcript** (`TranscriptAssumption`). State terms alone do not determine a history: two
parties could reach one state by different ones. `Bound` therefore says that all states and histories
belong to one set of moments, closed towards the start, in which each state has one
history; the set is a ghost, quantified in the invariant. `SamplingIsEven` is an
identity of residue classes below the rejection limit (`ResidueClass`).

Where an argument wants induction over numbers, `SharedFacts.LeastElement` takes
its place: every non-empty set of natural numbers has a least element, which
follows from the library's well-foundedness of finite subsets and takes no operator as a
parameter. `SetInduction` and `InductionUpTo` restate it for sets, and
`RecursionExists` derives that a function with given recursion equations exists, which is what
lets a lemma speak of the values of a recursive function. Powers of two, chains of domains and of divisions, sums and products over
sequences are handled with them.

Only model-checked, and why:

- Liveness (`TransformsReturn`, `WaitersProceed`, the liveness half of
  `ImplementsVectorCommitment`) and freedom from deadlock: fairness and ENABLED are
  out of the prover's reach.
- `WhirPcs` and `Encoding`: the facts about rings they need beyond
  `RingFacts` are sums over grids and the recursion of the transform.
- `SelectionIsUsable`, `SkippedForCause`: orders modulo n0 are iterated products.

## 5. Not modelled, and why

FRI's and STIR's soundness analyses (logarithms in floating point, no state);
the decoding of `challenge_ring` and the hash functions behind the transcript;
the path of `interpolate_for_gr_wrapper` for `k_exp = 1` (`src/poly_utils/interpolation.cpp:175`),
where the vendored library interpolates over a field with the same result;
serialization and statistics; the vendored ring library; benchmarks, scripts
and tests. `derive_unique_query_positions` draws until
it has enough different positions with no bound on attempts; it ends by
the transcript's randomness, which the models replace by the set it ends with.

## 6. Plan

Done in this order: planner, tree and its abstract specification with the first
theorems; ring and folding; FRI; plan cache and NTL contexts; STIR; the
extension ring and WHIR; the transforms; WHIR's parameter search; the transcript.

Left for later: `OracleCommitment`, an abstract specification of "intact is accepted,
accepted is consistent" that `FriPcs`, `StirIop` and `WhirPcs` implement, and the
theorems about `WhirPcs`, along the chain of transcripts of STIR's.
