---------------------------- MODULE FriPcsProofs ----------------------------
(***************************************************************************)
(* Proofs about FriPcs, for any ring, any setups and polynomials and any   *)
(* challenges: the verifier indexes the final oracle within its size, every*)
(* query it accepted holds of the tables under the roots, and what commit  *)
(* validated open does not refuse.                                         *)
(*                                                                         *)
(* Under RingLaws, the second half: an honest opening gives the value of   *)
(* the committed polynomial at alpha, what is accepted is consistent from  *)
(* round to round and with the claimed value, a commitment without rounds  *)
(* claims what its table says, and what arrives intact is accepted.        *)
(***************************************************************************)
EXTENDS FriPcs, RingFacts

-----------------------------------------------------------------------------
(* Domains *)

(* The greatest common divisor of a positive number divides it.            *)
LEMMA GcdDivides ==
  ASSUME NEW a \in Nat \ {0}, NEW b \in Nat
  PROVE  Gcd(a, b) \in 1 .. a /\ a % Gcd(a, b) = 0
<1> DEFINE Divides(g) == a % g = 0 /\ b % g = 0
           rest == {x \in 0 .. a - 1 : Divides(a - x)}
<1>1. rest \in SUBSET Nat /\ rest # {}
  <2>1. a - 1 \in rest
    BY SMT
  <2>2. \A x \in 0 .. a - 1 : x \in Nat
    OBVIOUS
  <2> HIDE DEF Divides
  <2>3. rest \in SUBSET Nat
    BY <2>2
  <2> QED
    BY <2>1, <2>3
<1>2. PICK x \in rest : \A y \in rest : x <= y
  BY <1>1, LeastElement
<1> DEFINE top == a - x
<1>3. top \in 1 .. a /\ Divides(top)
  BY <1>2
<1>4. ASSUME NEW h \in top + 1 .. a, Divides(h) PROVE FALSE
  <2>1. a - h \in 0 .. a - 1 /\ a - (a - h) = h /\ a - h < x
    BY <1>2, <1>3
  <2>2. a - h \in rest
    BY <1>4, <2>1
  <2> QED
    BY <1>2, <2>1, <2>2
<1> HIDE DEF top
<1>5. \E g \in 1 .. a :
        /\ a % g = 0 /\ b % g = 0
        /\ \A h \in g + 1 .. a : ~(a % h = 0 /\ b % h = 0)
  BY <1>3, <1>4
<1> QED
  BY <1>5 DEF Gcd

(* The image of a domain under x |-> x^e has points left.                  *)
LEMMA PowMapSize ==
  ASSUME NEW d, d.size \in Nat \ {0}, NEW e \in Nat
  PROVE  PowMap(d, e).size \in Nat \ {0}
<1> DEFINE g == Gcd(d.size, e)
           n == d.size
<1>1. g \in 1 .. n /\ n % g = 0 /\ n \in Nat \ {0}
  BY GcdDivides
<1>2. PowMap(d, e).size = n \div g
  BY DEF PowMap, MakeDomain
<1> HIDE DEF g, n
<1>3. n \div g \in Nat \ {0}
  BY <1>1
<1> QED
  BY <1>2, <1>3

(* The domains after r foldings, as RoundDomain computes them one after    *)
(* another.                                                                *)
IsChain(f, k, domain, r) ==
  f = [i \in 0 .. r |-> IF i = 0 THEN domain ELSE PowMap(f[i - 1], k)]

(* They exist for every r: the least r for which not would follow one for  *)
(* which they do.                                                          *)
LEMMA ChainExists ==
  ASSUME NEW k, NEW domain, NEW r \in Nat
  PROVE  \E f : IsChain(f, k, domain, r)
<1> DEFINE bad == {n \in Nat : ~\E f : IsChain(f, k, domain, n)}
<1> SUFFICES ASSUME bad # {} PROVE FALSE
  OBVIOUS
<1>1. PICK n \in bad : \A m \in bad : n <= m
  BY LeastElement
<1>2. CASE n = 0
  <2> DEFINE f == [i \in 0 .. 0 |-> domain]
  <2>1. IsChain(f, k, domain, 0)
    BY DEF IsChain
  <2> QED
    BY <1>1, <1>2, <2>1
<1>3. CASE n # 0
  <2>1. n - 1 \in Nat /\ n - 1 \notin bad
    BY <1>1, <1>3
  <2>2. PICK f : IsChain(f, k, domain, n - 1)
    BY <2>1
  <2> DEFINE g == [i \in 0 .. n |-> IF i = n THEN PowMap(f[n - 1], k) ELSE f[i]]
             step(h, i) == IF i = 0 THEN domain ELSE PowMap(h[i - 1], k)
  <2>3. \A i \in 0 .. n - 1 : f[i] = step(f, i)
    BY <2>2 DEF IsChain
  <2>4. ASSUME NEW i \in 0 .. n PROVE g[i] = step(g, i)
    <3>1. CASE i = n
      BY <1>1, <1>3, <3>1
    <3>2. CASE i # n
      <4>1. i \in 0 .. n - 1 /\ g[i] = f[i]
        BY <1>1, <3>2
      <4>2. i # 0 => i - 1 \in 0 .. n - 1 /\ i - 1 \in 0 .. n /\ i - 1 # n
        BY <1>1, <4>1
      <4>3. i # 0 => g[i - 1] = f[i - 1]
        BY <4>2
      <4> HIDE DEF g
      <4> QED
        BY <2>3, <4>1, <4>3
    <3> QED
      BY <3>1, <3>2
  <2>5. g = [i \in 0 .. n |-> g[i]]
    OBVIOUS
  <2> HIDE DEF g
  <2>6. g = [i \in 0 .. n |-> step(g, i)]
    BY <2>4, <2>5
  <2>7. IsChain(g, k, domain, n)
    BY <2>6 DEF IsChain
  <2> QED
    BY <1>1, <2>7
<1> QED
  BY <1>2, <1>3

(* No folding leaves an empty domain.                                      *)
LEMMA RoundDomainSize ==
  ASSUME NEW params, params.fold_factor \in Nat, NEW domain, domain.size \in Nat \ {0},
         NEW r \in Nat
  PROVE  RoundDomain(params, domain, r).size \in Nat \ {0}
<1> DEFINE k == params.fold_factor
           f == CHOOSE f : IsChain(f, k, domain, r)
<1>1. IsChain(f, k, domain, r)
  BY ChainExists
<1>2. RoundDomain(params, domain, r) = f[r]
  BY DEF RoundDomain, IsChain
<1> HIDE DEF f
<1> DEFINE bad == {i \in 0 .. r : f[i].size \notin Nat \ {0}}
<1> SUFFICES ASSUME bad # {} PROVE FALSE
  BY <1>2
<1>3. PICK i \in bad : \A j \in bad : i <= j
  <2>1. bad \in SUBSET Nat
    OBVIOUS
  <2> QED
    BY <2>1, LeastElement
<1>4. f[0] = domain /\ \A j \in 1 .. r : f[j] = PowMap(f[j - 1], k)
  BY <1>1 DEF IsChain
<1>5. i # 0 /\ i \in 1 .. r /\ i - 1 \in 0 .. r /\ i - 1 < i
  BY <1>3, <1>4
<1>6. i - 1 \notin bad
  BY <1>3, <1>5
<1> QED
  BY <1>3, <1>4, <1>5, <1>6, PowMapSize

-----------------------------------------------------------------------------
(* Queries *)

(* What may be drawn for a round's queries.                                *)
Draws(n) == [1 .. setup.repetition_count -> 0 .. n - 1]

(* The positions of a draw, and the fibers over them, are finitely many.   *)
LEMMA FibersFinite ==
  ASSUME setup.repetition_count \in Nat, NEW n \in Nat, NEW queries \in Draws(n), NEW k \in Nat
  PROVE  /\ Positions(queries) \in SUBSET (0 .. n - 1) /\ Positions(queries) \in SUBSET Nat
         /\ IsFiniteSet(Positions(queries))
         /\ ExpandFiberIndices(queries, n, k) \in SUBSET Nat
         /\ IsFiniteSet(ExpandFiberIndices(queries, n, k))
         /\ \A c \in Positions(queries), o \in 0 .. k - 1 :
              c + o * n \in ExpandFiberIndices(queries, n, k)
<1> DEFINE P == Positions(queries)
           O == 0 .. k - 1
           E == ExpandFiberIndices(queries, n, k)
<1>1. P \in SUBSET (0 .. n - 1) /\ P \in SUBSET Nat
  <2>1. P \in SUBSET (0 .. n - 1)
    BY DEF Positions, Draws
  <2>2. \A x \in 0 .. n - 1 : x \in Nat
    OBVIOUS
  <2> QED
    BY <2>1, <2>2
<1>2. IsFiniteSet(P) /\ IsFiniteSet(O)
  <2>1. n - 1 \in Int /\ k - 1 \in Int /\ 0 \in Int
    OBVIOUS
  <2>2. IsFiniteSet(0 .. n - 1)
    BY <2>1, FS_Interval
  <2>3. IsFiniteSet(O)
    BY <2>1, FS_Interval
  <2> QED
    BY <1>1, <2>2, <2>3, FS_Subset
<1>3. E = {c + o * n : c \in P, o \in O}
  BY DEF ExpandFiberIndices
<1> HIDE DEF P, E
<1> DEFINE f == [x \in P \X O |-> x[1] + x[2] * n]
<1>4. \A c \in P, o \in O : c + o * n \in Nat
  <2> SUFFICES ASSUME NEW c \in P, NEW o \in O PROVE c + o * n \in Nat
    OBVIOUS
  <2>1. c \in Nat /\ o \in Nat
    BY <1>1
  <2> QED
    BY <2>1
<1> HIDE DEF O
<1>5. E = Range(f)
  <2>1. \A c \in P, o \in O : f[<<c, o>>] = c + o * n /\ <<c, o>> \in DOMAIN f
    OBVIOUS
  <2>2. \A x \in DOMAIN f : x[1] \in P /\ x[2] \in O /\ f[x] = x[1] + x[2] * n
    OBVIOUS
  <2> HIDE DEF f
  <2>3. ASSUME NEW v \in E PROVE v \in Range(f)
    <3>1. PICK c \in P, o \in O : v = c + o * n
      BY <1>3
    <3>2. <<c, o>> \in DOMAIN f /\ f[<<c, o>>] = v
      BY <2>1, <3>1
    <3> QED
      BY <3>2 DEF Range
  <2>4. \A v \in Range(f) : v \in E
    BY <1>3, <2>2 DEF Range
  <2> QED
    BY <2>3, <2>4
<1>6. IsFiniteSet(P \X O)
  BY <1>2, FS_Product
<1>7. IsFiniteSet(E)
  <2>1. f \in Surjection(P \X O, E)
    BY <1>5 DEF Surjection, Range
  <2> QED
    BY <1>6, <2>1, FS_Surjection
<1>8. \A c \in P, o \in O : c + o * n \in E
  BY <1>3
<1>9. E \in SUBSET Nat
  BY <1>3, <1>4
<1>10. IsFiniteSet(P)
  BY <1>2
<1> QED
  BY ONLY <1>1, <1>7, <1>8, <1>9, <1>10 DEF P, E, O

-----------------------------------------------------------------------------
(* The inductive invariant. *)

(* From commit's validation on, the domains and the fold factor.           *)
Setting ==
  /\ setup \in Setups /\ round \in Nat
  /\ pc \notin {"commit", "done"} =>
       /\ K \in {3, 9} /\ setup.domain.size \in Nat \ {0}
       /\ DOMAIN commitment = {"domain", "degree_bound", "oracle_root"}
       /\ commitment.domain = setup.domain

(* The parts of the message; the final oracle is a table of some size.     *)
Parts ==
  /\ DOMAIN opening = {"claim", "oracle_roots", "rounds", "final_oracle", "revealed"}
  /\ \E m \in Nat : DOMAIN opening.final_oracle = 0 .. m - 1

(* The verifier has replayed as many challenges as rounds.                 *)
Replayed ==
  /\ pc \in {"commit", "open", "fold", "query", "deliver", "verify"} => betas = <<>>
  /\ pc = "replay" => betas \in Seq(FoldingChallenges) /\ Len(betas) = round
  /\ pc \in {"final", "check"} => Rounds \in Nat \ {0} /\ Len(betas) = Rounds
  /\ pc \notin {"check", "done"} => checked = <<>>
  /\ pc = "final" => round = 0

(* The fiber over a slot in the table under the parent's root.             *)
FiberUnderRoot(r, child) ==
  [o \in 0 .. K - 1 |-> ParentRoot(r)[child + o * DomainAt(r + 1).size]]

(* The verifier's test of a query, with the values under the roots in the  *)
(* place of the opened ones.                                               *)
TablesPass(r, child) ==
  LET points == FiberPoints(DomainAt(r), child, DomainAt(r + 1).size, K)
      slot   == opening.oracle_roots[r + 1][child]
  IN  IF r = 0
      THEN VerifyVirtualFiber(points, FiberUnderRoot(r, child), K, statement, betas[1], slot)
      ELSE VerifyExplicitFiber(points, FiberUnderRoot(r, child), K, betas[r + 1], slot)

AllPass(n) == \A r \in 0 .. n - 1 : \A child \in Positions(checked[r + 1]) : TablesPass(r, child)

AllDraws == UNION {Draws(n) : n \in Nat}

(* While queries are checked: the final oracle is the last root's and of   *)
(* its domain's size, and all rounds so far passed on the tables.          *)
Checking ==
  pc = "check" =>
    /\ FinalOracleIndexable
    /\ Root(opening.final_oracle) = opening.oracle_roots[Rounds]
    /\ checked \in Seq(AllDraws) /\ Len(checked) = round
    /\ AllPass(round)

(* Acceptance says of every drawn query, of every round, that it holds of  *)
(* the tables the roots commit to, whatever was opened.                    *)
AcceptedTablesPass ==
  Accepted /\ Rounds > 0 =>
    /\ Len(checked) = Rounds /\ Len(betas) = Rounds
    /\ AllPass(Rounds)

FriInv ==
  /\ Setting /\ Parts /\ Replayed /\ Checking /\ AcceptedTablesPass
  /\ pc # "done" => verdict = "none"

(* The domains of the rounds are not empty.                                *)
LEMMA DomainSizes ==
  ASSUME Setting, pc \notin {"commit", "done"}, NEW r \in Nat
  PROVE  DomainAt(r).size \in Nat \ {0} /\ setup.repetition_count \in Nat /\ K \in Nat
<1>1. setup.fold_factor \in Nat /\ commitment.domain.size \in Nat \ {0}
  BY DEF Setting, K
<1>2. setup.repetition_count \in Nat
  BY SetupsAssumption DEF Setting
<1> QED
  BY <1>1, <1>2, RoundDomainSize DEF DomainAt, K

(* A query that the openings pass, the tables pass: each opened value is   *)
(* the one under the root, and the final oracle is under the last root.    *)
LEMMA QueryPasses ==
  ASSUME FriInv, pc = "check", NEW queries \in QueryPositions(round), RoundHolds(round, queries),
         round + 1 <= Rounds, NEW child \in Positions(queries)
  PROVE  TablesPass(round, child)
<1> DEFINE n == DomainAt(round + 1).size
           proof == opening.rounds[round + 1]
           I == ExpandFiberIndices(queries, n, K)
           opened == [o \in 0 .. K - 1 |-> Opened(proof.parent, child + o * n)]
           value == IF round + 1 = Rounds THEN opening.final_oracle[child]
                    ELSE Opened(proof.child, child)
           points == FiberPoints(DomainAt(round), child, n, K)
<1>1. round \in Nat /\ Rounds \in Nat \ {0} /\ K \in Nat /\ setup.repetition_count \in Nat
      /\ n \in Nat \ {0}
  BY DomainSizes DEF FriInv, Setting, Replayed
<1>2. queries \in Draws(n)
  BY DEF QueryPositions, Draws
<1>3. /\ Positions(queries) \in SUBSET (0 .. n - 1) /\ Positions(queries) \in SUBSET Nat
      /\ IsFiniteSet(Positions(queries)) /\ I \in SUBSET Nat /\ IsFiniteSet(I)
      /\ \A o \in 0 .. K - 1 : child + o * n \in I
  BY <1>1, <1>2, FibersFinite
<1>4. OpeningsHold(round, queries) /\ FiberHolds(round, child)
  BY DEF RoundHolds
<1>5. /\ proof.parent.queried_indices = Ascending(I)
      /\ TreeAccepts(ParentRoot(round), DomainAt(round).size, proof.parent)
      /\ round + 1 # Rounds =>
           /\ proof.child.queried_indices = Ascending(Positions(queries))
           /\ TreeAccepts(opening.oracle_roots[round + 1], n, proof.child)
  BY <1>4 DEF OpeningsHold
<1>6. opened = FiberUnderRoot(round, child)
  <2> DEFINE at(o) == child + o * n
  <2>1. \A o \in 0 .. K - 1 : Opened(proof.parent, at(o)) = ParentRoot(round)[at(o)]
    <3> SUFFICES ASSUME NEW o \in 0 .. K - 1
                 PROVE  Opened(proof.parent, at(o)) = ParentRoot(round)[at(o)]
      OBVIOUS
    <3>1. at(o) \in I
      BY <1>3
    <3> HIDE DEF at, I, proof
    <3> QED
      BY <1>3, <1>5, <3>1, OpenedIsUnderRoot
  <2> HIDE DEF proof
  <2> QED
    BY <2>1 DEF FiberUnderRoot
<1>7. value = opening.oracle_roots[round + 1][child]
  <2>1. CASE round + 1 = Rounds
    <3>1. DOMAIN opening.final_oracle = 0 .. n - 1
      BY <2>1 DEF FriInv, Checking, FinalOracleIndexable
    <3>2. Root(opening.final_oracle)[child] = opening.final_oracle[child]
      BY <1>1, <1>3, <3>1, RootHasTable
    <3> QED
      BY <2>1, <3>2 DEF FriInv, Checking
  <2>2. CASE round + 1 # Rounds
    <3>1. Opened(proof.child, child) = opening.oracle_roots[round + 1][child]
      <4> DEFINE P == Positions(queries)
      <4>1. P \in SUBSET Nat /\ IsFiniteSet(P) /\ child \in P
        BY <1>3
      <4> HIDE DEF P, proof, n
      <4> QED
        BY <1>5, <2>2, <4>1, OpenedIsUnderRoot DEF P
    <3> QED
      BY <2>2, <3>1
  <2> QED
    BY <2>1, <2>2
<1>8. IF round = 0 THEN VerifyVirtualFiber(points, opened, K, statement, betas[1], value)
      ELSE VerifyExplicitFiber(points, opened, K, betas[round + 1], value)
  BY <1>4 DEF FiberHolds
<1> HIDE DEF opened, value, points, n
<1> QED
  BY <1>6, <1>7, <1>8 DEF TablesPass, points, n

-----------------------------------------------------------------------------
(* Its proof, action by action. *)

(* A run starts with the invariant.                                        *)
LEMMA InitEstablishes == Init => FriInv
<1> SUFFICES ASSUME Init PROVE FriInv
  OBVIOUS
<1> USE DEF Init
<1>1. Setting
  BY DEF Setting
<1>2. Parts
  <2>1. DOMAIN opening.final_oracle = 0 .. 0 - 1
    BY DEF NoOpening
  <2>2. 0 \in Nat
    OBVIOUS
  <2>3. \E m \in Nat : DOMAIN opening.final_oracle = 0 .. m - 1
    BY <2>1, <2>2
  <2> QED
    BY <2>3 DEF Parts, NoOpening
<1>3. Replayed /\ Checking /\ AcceptedTablesPass
  BY DEF Replayed, Checking, AcceptedTablesPass, Accepted
<1> QED
  BY <1>1, <1>2, <1>3 DEF FriInv

(* A prover that throws ends the run without a verdict of the verifier.    *)
LEMMA RefuseKeeps ==
  ASSUME FriInv, NEW stage, Refuse(stage)
  PROVE  FriInv'
<1> USE DEF FriInv, Refuse, messages
<1>1. Setting'
  BY DEF Setting
<1>2. Parts'
  BY DEF Parts
<1>3. Replayed' /\ Checking' /\ AcceptedTablesPass'
  BY DEF Replayed, Checking, AcceptedTablesPass, Accepted
<1> QED
  BY <1>1, <1>2, <1>3

(* Committing fixes the domain and the fold factor.                        *)
LEMMA CommitKeeps ==
  ASSUME FriInv, Commit
  PROVE  FriInv'
<1> USE DEF FriInv, Commit
<1>1. Setting'
  <2>1. K \in {3, 9} /\ setup.domain.size > 0
    BY DEF MayCommit, ValidInstance, ValidParameters, IsPowerOfThree, K
  <2>2. setup.domain.size \in Nat \ {0}
    BY <2>1, SetupsAssumption DEF Setting, IsDomain
  <2> QED
    BY <2>1, <2>2 DEF Setting, K
<1>2. Parts'
  BY DEF Parts
<1>3. Replayed' /\ Checking' /\ AcceptedTablesPass'
  BY DEF Replayed, Checking, AcceptedTablesPass, Accepted
<1> QED
  BY <1>1, <1>2, <1>3

(* An opening starts without a final oracle.                               *)
LEMMA OpenKeeps ==
  ASSUME FriInv, NEW f, NEW alpha, Open(f, alpha)
  PROVE  FriInv'
<1> USE DEF FriInv, Open
<1>1. pc' \in {"deliver", "fold"} /\ pc = "open"
  OBVIOUS
<1>2. Setting'
  BY <1>1 DEF Setting, K
<1>3. Parts'
  <2>1. /\ DOMAIN opening' = {"claim", "oracle_roots", "rounds", "final_oracle", "revealed"}
        /\ opening'.final_oracle = <<>>
    BY DEF NoOpening
  <2>2. DOMAIN opening'.final_oracle = 0 .. 0 - 1 /\ 0 \in Nat
    BY <2>1
  <2> QED
    BY <2>1, <2>2 DEF Parts
<1>4. Replayed' /\ Checking' /\ AcceptedTablesPass'
  BY <1>1 DEF Replayed, Checking, AcceptedTablesPass, Accepted
<1> QED
  BY <1>1, <1>2, <1>3, <1>4

(* A folded table has a slot for each point of the next domain.            *)
LEMMA FoldRoundKeeps ==
  ASSUME FriInv, NEW beta, NEW slip \in BOOLEAN, FoldRound(beta, slip)
  PROVE  FriInv'
<1> DEFINE folded == FoldTableK(DomainAt(round), tables[round + 2], K, beta)
           table  == IF slip THEN [folded EXCEPT ![0] = Plus(@, 1)] ELSE folded
           last   == round + 1 = Rounds
           m      == DomainAt(round).size \div K
<1> USE DEF FriInv
<1>1. pc = "fold" /\ pc' \in {"query", "fold"} /\ round \in Nat /\ round' \in Nat
  BY DEF FoldRound, Setting
<1>2. m \in Nat /\ DOMAIN table = 0 .. m - 1
  <2>1. DomainAt(round).size \in Nat /\ K \in {3, 9}
    BY <1>1, DomainSizes DEF Setting
  <2>2. m \in Nat
    BY <2>1
  <2>3. DOMAIN folded = 0 .. m - 1
    BY DEF FoldTableK
  <2> HIDE DEF folded
  <2> QED
    BY <2>2, <2>3
<1>3. /\ opening' = [opening EXCEPT !.oracle_roots = Append(@, Root(table)),
                                    !.final_oracle = IF last THEN table ELSE @]
      /\ UNCHANGED <<setup, commitment, betas, checked, verdict>>
  BY DEF FoldRound
<1> HIDE DEF table, last, m
<1>4. Setting'
  BY <1>1, <1>3 DEF Setting, K
<1>5. Parts'
  <2>1. /\ DOMAIN opening' = DOMAIN opening
        /\ opening'.final_oracle = IF last THEN table ELSE opening.final_oracle
    BY <1>3 DEF Parts
  <2> QED
    BY <1>2, <2>1 DEF Parts
<1>6. Replayed' /\ Checking' /\ AcceptedTablesPass'
  BY <1>1, <1>3 DEF Replayed, Checking, AcceptedTablesPass, Accepted
<1> QED
  BY <1>1, <1>3, <1>4, <1>5, <1>6

(* A round of openings leaves the final oracle alone.                      *)
LEMMA QueryRoundKeeps ==
  ASSUME FriInv, NEW queries, QueryRound(queries)
  PROVE  FriInv'
<1> USE DEF FriInv
<1>1. /\ pc = "query" /\ pc' \in {"query", "deliver"} /\ round' \in Nat
      /\ UNCHANGED <<setup, commitment, betas, checked, verdict>>
  BY DEF QueryRound, Setting
<1>2. PICK v : opening' = [opening EXCEPT !.rounds = v]
  BY DEF QueryRound
<1>3. Setting'
  BY <1>1 DEF Setting, K
<1>4. Parts'
  BY <1>2 DEF Parts
<1>5. Replayed' /\ Checking' /\ AcceptedTablesPass'
  BY <1>1 DEF Replayed, Checking, AcceptedTablesPass, Accepted
<1> QED
  BY <1>1, <1>3, <1>4, <1>5

(* Whatever happens to the message: it has its parts, the commitment has   *)
(* its domain, and the final oracle is a table of some size.               *)
LEMMA ReceivedParts ==
  ASSUME FriInv, pc = "deliver", NEW kind \in DamageKinds
  PROVE  /\ DOMAIN Received(kind).commitment = DOMAIN commitment
         /\ Received(kind).commitment.domain = commitment.domain
         /\ Received(kind).commitment.degree_bound = commitment.degree_bound
         /\ DOMAIN Received(kind).opening = DOMAIN opening
         /\ \E m \in Nat : DOMAIN Received(kind).opening.final_oracle = 0 .. m - 1
<1> DEFINE intact == [commitment |-> commitment, statement |-> statement, opening |-> opening]
           Well(r) == /\ DOMAIN r.commitment = DOMAIN commitment
                      /\ r.commitment.domain = commitment.domain
                      /\ r.commitment.degree_bound = commitment.degree_bound
                      /\ DOMAIN r.opening = DOMAIN opening
                      /\ \E m \in Nat : DOMAIN r.opening.final_oracle = 0 .. m - 1
<1>1. /\ DOMAIN opening = {"claim", "oracle_roots", "rounds", "final_oracle", "revealed"}
      /\ DOMAIN commitment = {"domain", "degree_bound", "oracle_root"}
  BY DEF FriInv, Parts, Setting
<1>2. PICK m \in Nat : DOMAIN opening.final_oracle = 0 .. m - 1
  BY DEF FriInv, Parts
<1>3. Well(intact)
  BY <1>2
<1>4. kind \in {"none", "statement", "claim", "commitment", "revealed", "final", "longer",
                "root", "payload", "index", "siblings", "round", "child"}
  BY DEF DamageKinds
<1>5. CASE kind = "none"
  BY <1>3, <1>5 DEF Received
<1>6. CASE kind = "statement"
  <2>1. Received(kind) = [intact EXCEPT !.statement.value = Plus(@, 1)]
    BY <1>6 DEF Received
  <2> QED
    BY <1>3, <2>1
<1>7. CASE kind = "claim"
  <2>1. Received(kind) = [intact EXCEPT !.statement.value = Plus(@, 1),
                                        !.opening.claim.value = Plus(@, 1)]
    BY <1>7 DEF Received
  <2>2. /\ Received(kind).commitment = commitment
        /\ Received(kind).opening = [opening EXCEPT !.claim.value = Plus(@, 1)]
    BY <2>1
  <2> QED
    BY <1>2, <2>2
<1>8. CASE kind = "commitment"
  <2>1. Received(kind) = [intact EXCEPT !.commitment.oracle_root[0] = Plus(@, 1)]
    BY <1>8 DEF Received
  <2>2. /\ Received(kind).opening = opening
        /\ Received(kind).commitment = [commitment EXCEPT !.oracle_root[0] = Plus(@, 1)]
    BY <2>1
  <2> QED
    BY <1>2, <2>2
<1>9. CASE kind = "revealed"
  <2>1. PICK v : Received(kind) = [intact EXCEPT !.opening.revealed = v]
    BY <1>9 DEF Received
  <2>2. Received(kind).commitment = commitment
        /\ Received(kind).opening = [opening EXCEPT !.revealed = v]
    BY <2>1
  <2> QED
    BY <1>2, <2>2
<1>10. CASE kind = "final"
  <2>1. Received(kind) = [intact EXCEPT !.opening.final_oracle[0] = Plus(@, 1)]
    BY <1>10 DEF Received
  <2>2. Received(kind).commitment = commitment
        /\ Received(kind).opening = [opening EXCEPT !.final_oracle[0] = Plus(@, 1)]
    BY <2>1
  <2>3. Received(kind).opening.final_oracle = [opening.final_oracle EXCEPT ![0] = Plus(@, 1)]
    BY <1>1, <2>2
  <2>4. DOMAIN Received(kind).opening.final_oracle = 0 .. m - 1
    BY <1>2, <2>3
  <2> QED
    BY <1>2, <2>2, <2>4
<1>11. CASE kind = "longer"
  <2> DEFINE final == opening.final_oracle
             n == TableSize(final)
             longer == [i \in 0 .. n |-> final[IF i = n THEN i - 1 ELSE i]]
  <2>1. Received(kind) = [intact EXCEPT !.opening.final_oracle = longer]
    BY <1>11 DEF Received
  <2>2. DOMAIN longer = 0 .. (n + 1) - 1 /\ n + 1 \in Nat
    <3>1. n = m
      BY <1>2, TableSizeOf
    <3>2. DOMAIN longer = 0 .. n
      OBVIOUS
    <3> HIDE DEF n, longer
    <3> QED
      BY <3>1, <3>2
  <2> HIDE DEF longer
  <2>3. Received(kind).commitment = commitment
        /\ Received(kind).opening = [opening EXCEPT !.final_oracle = longer]
    BY <2>1
  <2>4. Received(kind).opening.final_oracle = longer /\ DOMAIN Received(kind).opening = DOMAIN opening
    BY <1>1, <2>3
  <2> HIDE DEF n
  <2>5. \E k \in Nat : DOMAIN Received(kind).opening.final_oracle = 0 .. k - 1
    BY <2>2, <2>4
  <2> QED
    BY <2>3, <2>4, <2>5
<1>12. CASE kind = "root"
  <2>1. Received(kind) = [intact EXCEPT !.opening.oracle_roots[1][0] = Plus(@, 1)]
    BY <1>12 DEF Received
  <2>2. Received(kind).commitment = commitment
        /\ Received(kind).opening = [opening EXCEPT !.oracle_roots[1][0] = Plus(@, 1)]
    BY <2>1
  <2> QED
    BY <1>2, <2>2
<1>13. CASE kind \in {"payload", "index", "siblings", "round", "child"}
  <2>1. PICK v : Received(kind) = [intact EXCEPT !.opening = [opening EXCEPT !.rounds = v]]
    BY <1>13 DEF Received
  <2>2. Received(kind).commitment = commitment
        /\ Received(kind).opening = [opening EXCEPT !.rounds = v]
    BY <2>1
  <2> QED
    BY <1>2, <2>2, SMTT(30)
<1> QED
  BY <1>4, <1>5, <1>6, <1>7, <1>8, <1>9, <1>10, <1>11, <1>12, <1>13

(* The message arrives with its parts.                                     *)
LEMMA DeliverKeeps ==
  ASSUME FriInv, NEW kind \in DamageKinds, Deliver(kind)
  PROVE  FriInv'
<1> USE DEF FriInv
<1>1. /\ pc = "deliver" /\ pc' = "verify"
      /\ commitment' = Received(kind).commitment /\ opening' = Received(kind).opening
      /\ UNCHANGED <<setup, round, betas, checked, verdict>>
  BY DEF Deliver
<1>2. /\ DOMAIN commitment' = DOMAIN commitment /\ commitment'.domain = commitment.domain
      /\ DOMAIN opening' = DOMAIN opening
      /\ \E m \in Nat : DOMAIN opening'.final_oracle = 0 .. m - 1
  BY <1>1, ReceivedParts
<1>3. Setting'
  BY <1>1, <1>2 DEF Setting, K
<1>4. Parts'
  BY <1>1, <1>2 DEF Parts
<1>5. Replayed' /\ Checking' /\ AcceptedTablesPass'
  BY <1>1 DEF Replayed, Checking, AcceptedTablesPass, Accepted
<1> QED
  BY <1>1, <1>3, <1>4, <1>5

(* Another prover's message: the commitment keeps its instance.            *)
LEMMA SubstituteParts ==
  ASSUME FriInv, NEW f, NEW value, Substitute(f, value)
  PROVE  LET table == Encode(commitment.domain, f)
         IN  /\ pc = "deliver" /\ pc' = "verify" /\ Rounds = 0 /\ damage' # "none"
             /\ UNCHANGED <<setup, polynomial, round, betas, checked, verdict>>
             /\ DOMAIN commitment' = DOMAIN commitment /\ DOMAIN opening' = DOMAIN opening
             /\ commitment'.domain = commitment.domain
             /\ commitment'.degree_bound = commitment.degree_bound
             /\ commitment'.oracle_root = Root(table) /\ opening'.revealed = table
             /\ opening'.oracle_roots = opening.oracle_roots
             /\ opening'.final_oracle = opening.final_oracle
<1> DEFINE table == Encode(commitment.domain, f)
           root == Root(table)
<1>1. PICK claim : /\ commitment' = [commitment EXCEPT !.oracle_root = root]
                   /\ opening' = [opening EXCEPT !.claim = claim, !.revealed = table]
  BY DEF Substitute
<1>2. /\ pc = "deliver" /\ pc' = "verify" /\ Rounds = 0 /\ damage' # "none"
      /\ UNCHANGED <<setup, polynomial, round, betas, checked, verdict>>
  BY DEF Substitute
<1>3. /\ DOMAIN opening = {"claim", "oracle_roots", "rounds", "final_oracle", "revealed"}
      /\ DOMAIN commitment = {"domain", "degree_bound", "oracle_root"}
  BY <1>2 DEF FriInv, Parts, Setting
<1> HIDE DEF table, root
<1>4. /\ DOMAIN commitment' = DOMAIN commitment /\ commitment'.domain = commitment.domain
      /\ commitment'.degree_bound = commitment.degree_bound /\ commitment'.oracle_root = root
  BY <1>1, <1>3
<1>5. /\ DOMAIN opening' = DOMAIN opening /\ opening'.revealed = table
      /\ opening'.oracle_roots = opening.oracle_roots
      /\ opening'.final_oracle = opening.final_oracle
  BY <1>1, <1>3
<1> QED
  BY <1>2, <1>4, <1>5 DEF table, root

LEMMA SubstituteKeeps ==
  ASSUME FriInv, NEW f, NEW value, Substitute(f, value)
  PROVE  FriInv'
<1> USE DEF FriInv
<1>1. /\ pc = "deliver" /\ pc' = "verify"
      /\ UNCHANGED <<setup, round, betas, checked, verdict>>
      /\ DOMAIN commitment' = DOMAIN commitment /\ commitment'.domain = commitment.domain
      /\ DOMAIN opening' = DOMAIN opening /\ opening'.final_oracle = opening.final_oracle
  BY SubstituteParts
<1>2. Setting'
  BY <1>1 DEF Setting, K
<1>3. Parts'
  BY <1>1 DEF Parts
<1>4. Replayed' /\ Checking' /\ AcceptedTablesPass'
  BY <1>1 DEF Replayed, Checking, AcceptedTablesPass, Accepted
<1> QED
  BY <1>1, <1>2, <1>3, <1>4

(* A run that ends needs a reason only if it accepts.                      *)
LEMMA EndKeeps ==
  ASSUME FriInv, pc' = "done", UNCHANGED <<setup, opening, round>>, AcceptedTablesPass'
  PROVE  FriInv'
<1> USE DEF FriInv
<1>1. Setting' /\ Parts'
  BY DEF Setting, Parts
<1>2. Replayed' /\ Checking'
  BY DEF Replayed, Checking
<1> QED
  BY <1>1, <1>2

(* Rejection needs none.                                                   *)
LEMMA RejectKeeps ==
  ASSUME FriInv, Decide("reject")
  PROVE  FriInv'
<1>1. AcceptedTablesPass'
  BY DEF Decide, AcceptedTablesPass, Accepted
<1> QED
  BY <1>1, EndKeeps DEF Decide, messages

(* Without rounds there are no queries to speak of.                        *)
LEMMA VerifyZeroRoundsKeeps ==
  ASSUME FriInv, VerifyZeroRounds
  PROVE  FriInv'
<1>1. PICK v : Decide(v)
  BY DEF VerifyZeroRounds
<1>2. Rounds = 0 /\ UNCHANGED <<setup, commitment>> /\ pc' = "done"
  BY <1>1 DEF VerifyZeroRounds, Decide, messages
<1>3. Rounds' = 0
  BY <1>2 DEF Rounds, ReducedBound
<1>4. AcceptedTablesPass'
  BY <1>3 DEF AcceptedTablesPass
<1> QED
  BY <1>1, <1>4, EndKeeps DEF Decide, messages

(* The replay starts with no challenge.                                    *)
LEMMA VerifyStartKeeps ==
  ASSUME FriInv, VerifyStart
  PROVE  FriInv'
<1> USE DEF FriInv
<1>1. /\ pc = "verify" /\ pc' = "replay" /\ round' = 0
      /\ UNCHANGED <<setup, commitment, opening, betas, checked, verdict>>
  BY DEF VerifyStart, messages
<1>2. Setting' /\ Parts'
  BY <1>1 DEF Setting, Parts, K
<1>3. Replayed' /\ Checking' /\ AcceptedTablesPass'
  BY <1>1 DEF Replayed, Checking, AcceptedTablesPass, Accepted
<1> QED
  BY <1>1, <1>2, <1>3

(* One challenge a round; after the last there are as many as rounds.      *)
LEMMA ReplayRoundKeeps ==
  ASSUME FriInv, NEW beta \in FoldingChallenges, ReplayRound(beta)
  PROVE  FriInv'
<1> USE DEF FriInv
<1>1. /\ pc = "replay" /\ round \in Nat
      /\ betas' = Append(betas, beta)
      /\ round' = IF round + 1 = Rounds THEN 0 ELSE round + 1
      /\ pc' = IF round + 1 = Rounds THEN "final" ELSE "replay"
      /\ UNCHANGED <<setup, commitment, opening, checked, verdict>>
  BY DEF ReplayRound, Setting, messages
<1>2. Rounds' = Rounds /\ FoldingChallenges' = FoldingChallenges
  BY <1>1 DEF Rounds, ReducedBound, FoldingChallenges
<1>3. Setting' /\ Parts'
  BY <1>1 DEF Setting, Parts, K
<1>4. betas' \in Seq(FoldingChallenges) /\ Len(betas') = round + 1
  <2>1. betas \in Seq(FoldingChallenges) /\ Len(betas) = round
    BY <1>1 DEF Replayed
  <2> QED
    BY <1>1, <2>1
<1>5. Replayed'
  <2>1. CASE round + 1 = Rounds
    BY <1>1, <1>2, <1>4, <2>1 DEF Replayed
  <2>2. CASE round + 1 # Rounds
    BY <1>1, <1>2, <1>4, <2>2 DEF Replayed
  <2> QED
    BY <2>1, <2>2
<1>6. Checking' /\ AcceptedTablesPass'
  BY <1>1 DEF Checking, AcceptedTablesPass, Accepted
<1> QED
  BY <1>1, <1>3, <1>5, <1>6

(* A final oracle that passes has an entry for every point.                *)
LEMMA CheckFinalOracleKeeps ==
  ASSUME FriInv, CheckFinalOracle
  PROVE  FriInv'
<1>1. CASE FinalOracleHolds /\ pc' = "check"
            /\ UNCHANGED <<setup, messages, round, betas, checked, verdict>>
  <2> USE DEF FriInv
  <2>1. pc = "final" /\ UNCHANGED <<setup, commitment, statement, opening, round, betas, checked, verdict>>
    BY <1>1 DEF CheckFinalOracle, messages
  <2>2. Setting' /\ Parts'
    BY <1>1, <2>1 DEF Setting, Parts, K
  <2>3. Rounds' = Rounds /\ DomainAt(Rounds)' = DomainAt(Rounds)
    BY <2>1 DEF Rounds, ReducedBound, DomainAt
  <2>4. Replayed'
    BY <1>1, <2>1, <2>3 DEF Replayed
  <2>5. DOMAIN opening.final_oracle = 0 .. DomainAt(Rounds).size - 1
    <3>1. PICK m \in Nat : DOMAIN opening.final_oracle = 0 .. m - 1
      BY DEF Parts
    <3>2. TableSize(opening.final_oracle) = m
      BY <3>1, TableSizeOf
    <3> QED
      BY <1>1, <3>1, <3>2 DEF FinalOracleHolds
  <2>6. round = 0 /\ checked = <<>>
    BY <2>1 DEF Replayed
  <2>7. Checking'
    <3>1. FinalOracleIndexable'
      BY <2>1, <2>3, <2>5 DEF FinalOracleIndexable
    <3>2. (Root(opening.final_oracle) = opening.oracle_roots[Rounds])'
      BY <1>1, <2>1, <2>3 DEF FinalOracleHolds
    <3>3. (checked \in Seq(AllDraws))' /\ (Len(checked) = round)'
      BY <2>1, <2>6
    <3>4. AllPass(round)'
      BY <2>1, <2>6 DEF AllPass
    <3> QED
      BY <3>1, <3>2, <3>3, <3>4 DEF Checking
  <2>8. AcceptedTablesPass'
    BY <2>1 DEF AcceptedTablesPass, Accepted
  <2> QED
    BY <1>1, <2>1, <2>2, <2>4, <2>7, <2>8
<1>2. CASE Rejects
  BY <1>2, RejectKeeps DEF Rejects
<1> QED
  BY <1>1, <1>2 DEF CheckFinalOracle

(* What passes on the tables still does when the messages and the          *)
(* challenges are the same.                                                *)
LEMMA SameTest ==
  ASSUME UNCHANGED <<setup, commitment, statement, opening, betas>>
  PROVE  /\ Rounds' = Rounds /\ DomainAt(Rounds)' = DomainAt(Rounds)
         /\ \A r, child : TablesPass(r, child)' <=> TablesPass(r, child)
<1>1. Rounds' = Rounds
  BY DEF Rounds, ReducedBound
<1>2. DomainAt(Rounds)' = DomainAt(Rounds)
  BY <1>1 DEF DomainAt
<1>3. ASSUME NEW r, NEW child PROVE TablesPass(r, child)' <=> TablesPass(r, child)
  BY DEF TablesPass, FiberUnderRoot, ParentRoot, DomainAt, K
<1> QED
  BY <1>1, <1>2, <1>3

(* A round that holds adds its draw to the ones that pass on the tables.   *)
LEMMA OneMorePasses ==
  ASSUME FriInv, pc = "check", NEW queries \in QueryPositions(round),
         RoundHolds(round, queries), round + 1 <= Rounds,
         checked' = Append(checked, queries),
         UNCHANGED <<setup, commitment, statement, opening, betas>>
  PROVE  /\ checked' \in Seq(AllDraws)' /\ Len(checked') = round + 1
         /\ \A r \in 0 .. round : \A child \in Positions(checked'[r + 1]) :
              TablesPass(r, child)'
<1>1. round \in Nat /\ DomainAt(round + 1).size \in Nat
  BY DomainSizes DEF FriInv, Setting
<1>2. checked \in Seq(AllDraws) /\ Len(checked) = round /\ AllPass(round)
  BY DEF FriInv, Checking
<1>3. queries \in AllDraws
  <2>1. queries \in Draws(DomainAt(round + 1).size)
    BY DEF QueryPositions, Draws
  <2> QED
    BY <1>1, <2>1 DEF AllDraws
<1>4. AllDraws' = AllDraws
  BY DEF AllDraws, Draws
<1>5. checked' \in Seq(AllDraws) /\ Len(checked') = round + 1
  BY <1>2, <1>3
<1>6. ASSUME NEW r \in 0 .. round, NEW child \in Positions(checked'[r + 1])
      PROVE  TablesPass(r, child)'
  <2>1. CASE r = round
    <3>1. checked'[r + 1] = queries
      BY <1>2, <1>1, <2>1, <1>3
    <3>2. TablesPass(r, child)
      BY <1>6, <2>1, <3>1, QueryPasses
    <3> QED
      BY <3>2, SameTest
  <2>2. CASE r # round
    <3>1. r \in 0 .. round - 1 /\ r + 1 \in 1 .. Len(checked)
      BY <1>1, <1>2, <2>2
    <3>2. checked'[r + 1] = checked[r + 1]
      BY <1>2, <1>3, <3>1
    <3>3. TablesPass(r, child)
      BY <1>2, <1>6, <3>1, <3>2 DEF AllPass
    <3> QED
      BY <3>3, SameTest
  <2> QED
    BY <2>1, <2>2
<1> QED
  BY <1>4, <1>5, <1>6

(* Rounds pass one after another, and acceptance follows the last.         *)
LEMMA VerifyRoundKeeps ==
  ASSUME FriInv, NEW queries \in QueryPositions(round), VerifyRound(queries)
  PROVE  FriInv'
<1>1. pc = "check" /\ round \in Nat /\ Rounds \in Nat /\ Len(betas) = Rounds
  BY DEF VerifyRound, FriInv, Setting, Replayed
<1>2. CASE RoundHolds(round, queries) /\ checked' = Append(checked, queries)
           /\ round + 1 < Rounds /\ round' = round + 1
           /\ UNCHANGED <<pc, setup, polynomial, messages, tables, damage, betas, verdict>>
  <2>1. /\ pc' = "check" /\ round' = round + 1 /\ round' \in Nat
        /\ UNCHANGED <<setup, commitment, statement, opening, betas, verdict>>
    BY <1>1, <1>2 DEF messages
  <2>2. /\ checked' \in Seq(AllDraws)' /\ Len(checked') = round + 1
        /\ \A r \in 0 .. round : \A child \in Positions(checked'[r + 1]) :
             TablesPass(r, child)'
    BY <1>1, <1>2, <2>1, OneMorePasses
  <2>3. Setting' /\ Parts'
    BY <1>1, <2>1 DEF FriInv, Setting, Parts, K
  <2>4. Rounds' = Rounds /\ DomainAt(Rounds)' = DomainAt(Rounds)
    BY <2>1, SameTest
  <2>5. Replayed'
    BY <1>1, <2>1, <2>4 DEF FriInv, Replayed
  <2>6. AllPass(round)'
    <3>1. 0 .. round' - 1 = 0 .. round
      BY <1>1, <2>1
    <3> QED
      BY <2>2, <3>1 DEF AllPass
  <2>7. FinalOracleIndexable' /\ (Root(opening.final_oracle) = opening.oracle_roots[Rounds])'
    BY <1>1, <2>1, <2>4 DEF FriInv, Checking, FinalOracleIndexable
  <2>8. Checking'
    BY <2>1, <2>2, <2>6, <2>7 DEF Checking
  <2>9. AcceptedTablesPass'
    BY <1>1, <2>1 DEF FriInv, AcceptedTablesPass, Accepted
  <2> QED
    BY <1>1, <2>1, <2>3, <2>5, <2>8, <2>9 DEF FriInv
<1>3. CASE RoundHolds(round, queries) /\ checked' = Append(checked, queries)
           /\ round + 1 = Rounds /\ Decide("accept")
  <2>1. pc' = "done" /\ UNCHANGED <<setup, commitment, statement, opening, round, betas>>
    BY <1>3 DEF Decide, messages
  <2>2. /\ Len(checked') = round + 1
        /\ \A r \in 0 .. round : \A child \in Positions(checked'[r + 1]) :
             TablesPass(r, child)'
    BY <1>1, <1>3, <2>1, OneMorePasses
  <2>3. Rounds' = Rounds /\ 0 .. Rounds - 1 = 0 .. round
    BY <1>1, <1>3, <2>1, SameTest
  <2>4. AllPass(Rounds)'
    BY <2>2, <2>3 DEF AllPass
  <2>5. AcceptedTablesPass'
    BY <1>1, <1>3, <2>1, <2>2, <2>3, <2>4 DEF AcceptedTablesPass
  <2> QED
    BY <2>1, <2>5, EndKeeps
<1>4. CASE Decide("reject")
  BY <1>4, RejectKeeps
<1> QED
  BY <1>2, <1>3, <1>4 DEF VerifyRound

(* Nothing changes, nothing breaks.                                        *)
LEMMA StutterKeeps ==
  ASSUME FriInv, UNCHANGED vars
  PROVE  FriInv'
<1> USE DEF FriInv, vars, messages
<1>1. Setting' /\ Parts'
  BY DEF Setting, Parts, K
<1>2. Rounds' = Rounds /\ DomainAt(Rounds)' = DomainAt(Rounds)
      /\ \A r, child : TablesPass(r, child)' <=> TablesPass(r, child)
  BY SameTest
<1>3. FoldingChallenges' = FoldingChallenges /\ AllDraws' = AllDraws
  BY DEF FoldingChallenges, AllDraws, Draws
<1>4. Replayed'
  BY <1>2, <1>3 DEF Replayed
<1>5. AllPass(round) => AllPass(round)'
  BY <1>2 DEF AllPass
<1>6. AllPass(Rounds) => AllPass(Rounds)'
  BY <1>2 DEF AllPass
<1>7. Checking'
  BY <1>2, <1>3, <1>5 DEF Checking, FinalOracleIndexable
<1>8. AcceptedTablesPass'
  BY <1>2, <1>6 DEF AcceptedTablesPass, Accepted
<1> QED
  BY <1>1, <1>4, <1>7, <1>8

-----------------------------------------------------------------------------

(* Each round's tables are of the size its domain has, and each round the  *)
(* verifier let pass holds of the tables under the roots.                  *)
THEOREM Invariance == Spec => []FriInv
<1>1. Init => FriInv
  BY InitEstablishes
<1>2. FriInv /\ [Next]_vars => FriInv'
  <2> SUFFICES ASSUME FriInv, [Next]_vars PROVE FriInv'
    OBVIOUS
  <2>1. CASE CommitRefuses
    BY <2>1, RefuseKeeps DEF CommitRefuses
  <2>2. CASE Commit
    BY <2>2, CommitKeeps
  <2>3. CASE \E f \in Polynomials, alpha \in OpeningPoints : OpenRefuses(f, alpha) \/ Open(f, alpha)
    BY <2>3, RefuseKeeps, OpenKeeps DEF OpenRefuses
  <2>4. CASE pc = "fold" /\ \E beta \in FoldingChallenges, slip \in BOOLEAN : FoldRound(beta, slip)
    BY <2>4, FoldRoundKeeps
  <2>5. CASE pc = "query" /\ \E queries \in QueryPositions(round) : QueryRound(queries)
    BY <2>5, QueryRoundKeeps
  <2>6. CASE pc = "deliver" /\ \E kind \in DamageKinds : Deliver(kind)
    BY <2>6, DeliverKeeps
  <2>7. CASE VerifyRefuses
    BY <2>7, RejectKeeps DEF VerifyRefuses, Rejects
  <2>8. CASE VerifyZeroRounds
    BY <2>8, VerifyZeroRoundsKeeps
  <2>9. CASE VerifyStart
    BY <2>9, VerifyStartKeeps
  <2>10. CASE pc = "replay" /\ \E beta \in FoldingChallenges : ReplayRound(beta)
    BY <2>10, ReplayRoundKeeps
  <2>11. CASE CheckFinalOracle
    BY <2>11, CheckFinalOracleKeeps
  <2>12. CASE pc = "check" /\ \E queries \in QueryPositions(round) : VerifyRound(queries)
    BY <2>12, VerifyRoundKeeps
  <2>13. CASE pc = "deliver" /\ \E f \in Polynomials, value \in Ring : Substitute(f, value)
    BY <2>13, SubstituteKeeps
  <2>14. CASE UNCHANGED vars
    BY <2>14, StutterKeeps
  <2> QED
    BY <2>1, <2>2, <2>3, <2>4, <2>5, <2>6, <2>7, <2>8, <2>9, <2>10, <2>11, <2>12, <2>13, <2>14
       DEF Next, Return
<1> QED
  BY <1>1, <1>2, PTL DEF Spec

(* While queries are checked the final oracle has an entry for every       *)
(* position that can be drawn in the last round.                           *)
THEOREM FinalOracleInRange == Spec => []FinalOracleIndexable
<1>1. FriInv => FinalOracleIndexable
  BY DEF FriInv, Checking, FinalOracleIndexable
<1> QED
  BY <1>1, Invariance, PTL

(* Whatever the openings showed, acceptance says that every query drawn    *)
(* passes the verifier's test on the tables under the roots.               *)
THEOREM AcceptedQueriesPassOnTables == Spec => []AcceptedTablesPass
<1>1. FriInv => AcceptedTablesPass
  BY DEF FriInv
<1> QED
  BY <1>1, Invariance, PTL

-----------------------------------------------------------------------------
(* The schedule of the rounds *)

(* n divided i times, as AfterFoldings computes it for i from 0 to r.      *)
Divisions(f, k, n, r) ==
  f = [i \in 0 .. r |-> IF i = 0 THEN n ELSE f[i - 1] \div k]

(* They exist for every r, as the domains do.                              *)
LEMMA DivisionsExist ==
  ASSUME NEW k, NEW n, NEW r \in Nat
  PROVE  \E f : Divisions(f, k, n, r)
<1> DEFINE bad == {t \in Nat : ~\E f : Divisions(f, k, n, t)}
<1> SUFFICES ASSUME bad # {} PROVE FALSE
  OBVIOUS
<1>1. PICK t \in bad : \A m \in bad : t <= m
  BY LeastElement
<1>2. CASE t = 0
  <2> DEFINE f == [i \in 0 .. 0 |-> n]
  <2>1. Divisions(f, k, n, 0)
    BY DEF Divisions
  <2> QED
    BY <1>1, <1>2, <2>1
<1>3. CASE t # 0
  <2>1. t - 1 \in Nat /\ t - 1 \notin bad
    BY <1>1, <1>3
  <2>2. PICK f : Divisions(f, k, n, t - 1)
    BY <2>1
  <2> DEFINE g == [i \in 0 .. t |-> IF i = t THEN f[t - 1] \div k ELSE f[i]]
             step(h, i) == IF i = 0 THEN n ELSE h[i - 1] \div k
  <2>3. \A i \in 0 .. t - 1 : f[i] = step(f, i)
    BY <2>2 DEF Divisions
  <2>4. ASSUME NEW i \in 0 .. t PROVE g[i] = step(g, i)
    <3>1. CASE i = t
      BY <1>1, <1>3, <3>1
    <3>2. CASE i # t
      <4>1. i \in 0 .. t - 1 /\ g[i] = f[i]
        BY <1>1, <3>2
      <4>2. i # 0 => i - 1 \in 0 .. t - 1 /\ i - 1 \in 0 .. t /\ i - 1 # t
        BY <1>1, <4>1
      <4>3. i # 0 => g[i - 1] = f[i - 1]
        BY <4>2
      <4> HIDE DEF g
      <4> QED
        BY <2>3, <4>1, <4>3
    <3> QED
      BY <3>1, <3>2
  <2>5. g = [i \in 0 .. t |-> g[i]]
    OBVIOUS
  <2> HIDE DEF g
  <2>6. g = [i \in 0 .. t |-> step(g, i)]
    BY <2>4, <2>5
  <2>7. Divisions(g, k, n, t)
    BY <2>6 DEF Divisions
  <2> QED
    BY <1>1, <2>7
<1> QED
  BY <1>2, <1>3

(* They agree wherever two of them are defined.                            *)
LEMMA DivisionsAgree ==
  ASSUME NEW k, NEW n, NEW r \in Nat, NEW s \in Nat,
         NEW f, Divisions(f, k, n, r), NEW g, Divisions(g, k, n, s)
  PROVE  \A i \in 0 .. r : i <= s => f[i] = g[i]
<1> DEFINE bad == {i \in 0 .. r : i <= s /\ f[i] # g[i]}
<1> SUFFICES ASSUME bad # {} PROVE FALSE
  OBVIOUS
<1>1. PICK i \in bad : \A j \in bad : i <= j
  <2>1. bad \in SUBSET Nat
    OBVIOUS
  <2> QED
    BY <2>1, LeastElement
<1>2. /\ \A j \in 0 .. r : f[j] = IF j = 0 THEN n ELSE f[j - 1] \div k
      /\ \A j \in 0 .. s : g[j] = IF j = 0 THEN n ELSE g[j - 1] \div k
  BY DEF Divisions
<1>3. i \in 0 .. r /\ i \in 0 .. s /\ f[i] # g[i]
  BY <1>1
<1>4. i # 0
  BY <1>2, <1>3
<1>5. i - 1 \in 0 .. r /\ i - 1 <= s /\ i - 1 < i
  BY <1>3, <1>4
<1>6. f[i - 1] = g[i - 1]
  <2>1. i - 1 \notin bad
    BY <1>1, <1>3, <1>5
  <2> QED
    BY <1>5, <2>1
<1> QED
  BY <1>2, <1>3, <1>4, <1>6

(* Folding no times leaves n; folding once more divides once more.         *)
LEMMA FoldingsStep ==
  ASSUME NEW params, NEW n, NEW r \in Nat
  PROVE  /\ AfterFoldings(params, n, 0) = n
         /\ AfterFoldings(params, n, r + 1) = AfterFoldings(params, n, r) \div params.fold_factor
<1> DEFINE k == params.fold_factor
           c(t) == CHOOSE f : Divisions(f, k, n, t)
<1>1. ASSUME NEW t \in Nat PROVE Divisions(c(t), k, n, t)
  BY DivisionsExist
<1>2. ASSUME NEW t \in Nat PROVE AfterFoldings(params, n, t) = c(t)[t]
  BY DEF AfterFoldings, Divisions
<1> HIDE DEF c
<1>3. c(0)[0] = n
  BY <1>1 DEF Divisions
<1>4. r + 1 \in Nat /\ r + 1 \in 0 .. r + 1 /\ r + 1 # 0 /\ (r + 1) - 1 = r /\ r \in 0 .. r /\ r <= r + 1
  OBVIOUS
<1>5. c(r + 1)[r + 1] = c(r + 1)[r] \div k
  BY <1>1, <1>4 DEF Divisions
<1>6. c(r)[r] = c(r + 1)[r]
  <2>1. Divisions(c(r), k, n, r) /\ Divisions(c(r + 1), k, n, r + 1)
    BY <1>1, <1>4
  <2> QED
    BY <1>4, <2>1, DivisionsAgree
<1> QED
  BY <1>2, <1>3, <1>4, <1>5, <1>6

(* Parameters that validate may have.                                      *)
Schedules(params) == params.fold_factor \in {3, 9} /\ params.stop_degree \in Nat

(* What is folded are natural numbers, which decrease until they are zero. *)
LEMMA FoldingsDecrease ==
  ASSUME NEW params, Schedules(params), NEW n \in Nat, NEW r \in Nat
  PROVE  /\ AfterFoldings(params, n, r) \in Nat
         /\ AfterFoldings(params, n, r) = 0 \/ AfterFoldings(params, n, r) + r <= n
<1> DEFINE A(t) == AfterFoldings(params, n, t)
           good(t) == A(t) \in Nat /\ (A(t) = 0 \/ A(t) + t <= n)
           bad == {t \in Nat : ~good(t)}
<1> SUFFICES ASSUME bad # {} PROVE FALSE
  OBVIOUS
<1>1. PICK t \in bad : \A m \in bad : t <= m
  BY LeastElement
<1>2. A(0) = n
  BY FoldingsStep
<1>3. t # 0
  BY <1>1, <1>2
<1>4. t - 1 \in Nat /\ t - 1 \notin bad
  BY <1>1, <1>3
<1>5. A((t - 1) + 1) = A(t - 1) \div params.fold_factor
  BY <1>4, FoldingsStep
<1>6. (t - 1) + 1 = t
  BY <1>1
<1>7. good(t - 1)
  BY <1>4
<1> HIDE DEF A
<1>8. A(t) = A(t - 1) \div params.fold_factor
  BY <1>5, <1>6
<1>9. A(t) \in Nat /\ (A(t) = 0 \/ A(t) < A(t - 1))
  BY <1>7, <1>8 DEF Schedules
<1>10. good(t)
  BY <1>4, <1>7, <1>9
<1> QED
  BY <1>1, <1>10

(* Folding keeps the order.                                                *)
LEMMA FoldingsMonotone ==
  ASSUME NEW params, Schedules(params), NEW n \in Nat, NEW m \in Nat, m <= n,
         NEW r \in Nat
  PROVE  AfterFoldings(params, m, r) <= AfterFoldings(params, n, r)
<1> DEFINE A(t) == AfterFoldings(params, m, t)
           B(t) == AfterFoldings(params, n, t)
           bad == {t \in Nat : ~(A(t) <= B(t))}
<1> SUFFICES ASSUME bad # {} PROVE FALSE
  OBVIOUS
<1>1. PICK t \in bad : \A u \in bad : t <= u
  BY LeastElement
<1>2. t # 0
  BY <1>1, FoldingsStep
<1>3. t - 1 \in Nat /\ t - 1 \notin bad /\ (t - 1) + 1 = t
  BY <1>1, <1>2
<1>4. A(t) = A(t - 1) \div params.fold_factor /\ B(t) = B(t - 1) \div params.fold_factor
  BY <1>3, FoldingsStep
<1>5. A(t - 1) \in Nat /\ B(t - 1) \in Nat /\ A(t - 1) <= B(t - 1)
  BY <1>3, FoldingsDecrease
<1> HIDE DEF A, B
<1>6. A(t) <= B(t)
  BY <1>4, <1>5 DEF Schedules
<1> QED
  BY <1>1, <1>6 DEF A, B

(* The number of rounds is the first at which the degree is small enough.  *)
LEMMA RoundCountIsFirst ==
  ASSUME NEW params, Schedules(params), NEW degree \in Nat
  PROVE  /\ RoundCount(params, degree) \in 0 .. degree
         /\ AfterFoldings(params, degree, RoundCount(params, degree)) <= params.stop_degree
         /\ \A s \in 0 .. RoundCount(params, degree) - 1 :
              AfterFoldings(params, degree, s) > params.stop_degree
<1> DEFINE A(r) == AfterFoldings(params, degree, r)
           small == {r \in 0 .. degree : A(r) <= params.stop_degree}
<1>1. ASSUME NEW r \in Nat
      PROVE  A(r) \in Nat /\ (A(r) = 0 \/ A(r) + r <= degree)
  BY FoldingsDecrease
<1>2. params.stop_degree \in Nat
  BY DEF Schedules
<1> HIDE DEF A
<1>3. degree \in small
  <2>1. A(degree) \in Nat /\ (A(degree) = 0 \/ A(degree) + degree <= degree)
    BY <1>1
  <2>2. A(degree) <= params.stop_degree
    BY <1>2, <2>1
  <2> QED
    BY <2>2
<1>4. PICK r \in small : \A s \in small : r <= s
  <2>1. small \in SUBSET Nat /\ small # {}
    BY <1>3
  <2> HIDE DEF small
  <2> QED
    BY <2>1, LeastElement
<1>5. ASSUME NEW s \in 0 .. r - 1 PROVE A(s) > params.stop_degree
  <2>1. s \in 0 .. degree /\ s \in Nat /\ ~(r <= s)
    BY <1>4
  <2>2. A(s) \in Nat
    BY <1>1, <2>1
  <2>3. s \notin small
    BY <1>4, <2>1
  <2> QED
    BY <1>2, <2>1, <2>2, <2>3
<1>6. \E t \in 0 .. degree :
        /\ A(t) <= params.stop_degree
        /\ \A s \in 0 .. t - 1 : A(s) > params.stop_degree
  BY <1>4, <1>5
<1> QED
  BY <1>6 DEF RoundCount, A

(* A smaller degree bound asks for no more rounds, so a domain that folds  *)
(* evenly for a bound does for every smaller one.                          *)
LEMMA SmallerInstance ==
  ASSUME NEW params, Schedules(params), NEW domain, domain.size \in Nat,
         NEW n \in Nat, NEW m \in Nat, m <= n, ValidInstance(params, domain, n)
  PROVE  ValidInstance(params, domain, m)
<1> DEFINE R == RoundCount(params, n)
           S == RoundCount(params, m)
           A(r) == AfterFoldings(params, n, r)
           B(r) == AfterFoldings(params, m, r)
<1>1. params.stop_degree \in Nat
  BY DEF Schedules
<1>2. R \in Nat /\ A(R) <= params.stop_degree
  <2>1. R \in 0 .. n /\ A(R) <= params.stop_degree
    BY RoundCountIsFirst
  <2> QED
    BY <2>1
<1>3. S \in Nat /\ \A s \in 0 .. S - 1 : B(s) > params.stop_degree
  <2>1. S \in 0 .. m /\ \A s \in 0 .. S - 1 : B(s) > params.stop_degree
    BY RoundCountIsFirst
  <2> QED
    BY <2>1
<1>4. A(R) \in Nat /\ B(R) \in Nat /\ B(R) <= A(R)
  <2> HIDE DEF R
  <2> QED
    BY <1>2, FoldingsDecrease, FoldingsMonotone
<1>5. \A r \in 0 .. R - 1 : AfterFoldings(params, domain.size, r) % params.fold_factor = 0
  BY DEF ValidInstance, FoldsEvenly
<1>6. m < domain.size
  BY DEF ValidInstance
<1> HIDE DEF A, B, R, S
<1>7. S <= R
  <2> SUFFICES ASSUME R < S PROVE FALSE
    BY <1>2, <1>3
  <2>1. R \in 0 .. S - 1
    BY <1>2, <1>3
  <2>2. B(R) > params.stop_degree
    BY <1>3, <2>1
  <2> QED
    BY <1>1, <1>2, <1>4, <2>2
<1>8. \A r \in 0 .. S - 1 : AfterFoldings(params, domain.size, r) % params.fold_factor = 0
  <2>1. \A r \in 0 .. S - 1 : r \in 0 .. R - 1
    BY <1>2, <1>3, <1>7
  <2> QED
    BY <1>5, <2>1
<1>9. FoldsEvenly(params, domain, m)
  BY <1>8 DEF FoldsEvenly, S
<1> QED
  BY <1>6, <1>9 DEF ValidInstance

(* Between commit and open: what was validated, and what was committed to. *)
Committed ==
  pc = "open" =>
    /\ MayCommit
    /\ commitment = [domain |-> setup.domain, degree_bound |-> setup.degree_bound,
                     oracle_root |-> Root(Encode(setup.domain, polynomial))]

(* What commit validated is what open looks at: the same conditions, once  *)
(* for the committed bound and once for the smaller one of the quotient.   *)
LEMMA CommittedMayOpen ==
  ASSUME FriInv, Committed
  PROVE  CommitPromisesOpen
<1> SUFFICES ASSUME pc = "open", NEW alpha \in OpeningPoints, IsTeichmuller(alpha)
             PROVE  MayOpen(polynomial, alpha)
  BY DEF CommitPromisesOpen
<1>1. /\ MayCommit
      /\ commitment.domain = setup.domain /\ commitment.degree_bound = setup.degree_bound
      /\ commitment.oracle_root = Root(Encode(commitment.domain, polynomial))
  BY DEF Committed
<1>2. ValidInstance(setup, commitment.domain, commitment.degree_bound)
  BY <1>1 DEF MayCommit
<1>3. Schedules(setup) /\ commitment.domain.size \in Nat /\ commitment.degree_bound \in Nat
  <2>1. setup.fold_factor \in {3, 9}
    BY <1>2 DEF ValidInstance, ValidParameters
  <2>2. setup \in Setups
    BY DEF FriInv, Setting
  <2> QED
    BY <1>1, <2>1, <2>2, SetupsAssumption DEF Schedules, IsDomain
<1>4. ReducedBound \in Nat /\ ReducedBound <= commitment.degree_bound
  BY <1>3 DEF ReducedBound, OpeningDegreeBound
<1>5. ValidInstance(setup, commitment.domain, ReducedBound)
  <2> DEFINE d == commitment.domain
             n == commitment.degree_bound
             m == ReducedBound
  <2>1. d.size \in Nat /\ n \in Nat /\ m \in Nat /\ m <= n /\ ValidInstance(setup, d, n)
    BY <1>2, <1>3, <1>4
  <2> HIDE DEF d, n, m
  <2>2. ValidInstance(setup, d, m)
    BY <1>3, <2>1, SmallerInstance
  <2> QED
    BY <2>2 DEF d, m
<1>6. ValidCommitment(setup, commitment) /\ Degree(polynomial) <= commitment.degree_bound
  BY <1>1, <1>2 DEF MayCommit, ValidCommitment
<1> QED
  BY <1>1, <1>5, <1>6 DEF MayOpen

(* It is established by Commit, and every other step leaves this stage.    *)
LEMMA CommittedHolds == Spec => []Committed
<1>1. Init => Committed
  BY DEF Init, Committed
<1>2. Committed /\ [Next]_vars => Committed'
  <2> SUFFICES ASSUME Committed, [Next]_vars, pc' = "open"
               PROVE  Committed'
    BY DEF Committed
  <2>1. CASE Commit
    BY <2>1 DEF Commit, Committed, MayCommit
  <2>2. CASE UNCHANGED vars
    BY <2>2 DEF vars, messages, Committed, MayCommit
  <2>3. Commit \/ UNCHANGED vars
    <3>1. ASSUME NEW f, NEW alpha, OpenRefuses(f, alpha) \/ Open(f, alpha) PROVE FALSE
      BY <3>1 DEF OpenRefuses, Refuse, Open
    <3>2. ASSUME NEW beta, NEW slip, FoldRound(beta, slip) PROVE FALSE
      BY <3>2 DEF FoldRound
    <3>3. ASSUME NEW queries, QueryRound(queries) \/ VerifyRound(queries) PROVE FALSE
      BY <3>3 DEF QueryRound, VerifyRound, Decide
    <3>4. ASSUME NEW kind, NEW f, NEW value, Deliver(kind) \/ Substitute(f, value) PROVE FALSE
      BY <3>4 DEF Deliver, Substitute
    <3>5. ASSUME NEW beta, ReplayRound(beta) PROVE FALSE
      BY <3>5 DEF ReplayRound
    <3>6. ASSUME CommitRefuses \/ VerifyRefuses \/ VerifyZeroRounds \/ VerifyStart \/ CheckFinalOracle
          PROVE  FALSE
      BY <3>6 DEF CommitRefuses, Refuse, VerifyRefuses, Rejects, Decide, VerifyZeroRounds,
                  VerifyStart, CheckFinalOracle
    <3> QED
      BY <3>1, <3>2, <3>3, <3>4, <3>5, <3>6 DEF Next, Return
  <2> QED
    BY <2>1, <2>2, <2>3
<1> QED
  BY <1>1, <1>2, PTL DEF Spec

(* A commitment that commit returned can be opened at every point of the   *)
(* Teichmueller set: open has no reason to throw.                          *)
THEOREM CommitmentsOpen == Spec => []CommitPromisesOpen
  BY CommittedHolds, Invariance, CommittedMayOpen, PTL

-----------------------------------------------------------------------------
(* The domains of the rounds *)

(* Two chains agree wherever both are defined.                             *)
LEMMA ChainsAgree ==
  ASSUME NEW k, NEW domain, NEW r \in Nat, NEW s \in Nat,
         NEW f, IsChain(f, k, domain, r), NEW g, IsChain(g, k, domain, s)
  PROVE  \A i \in 0 .. r : i <= s => f[i] = g[i]
<1> DEFINE bad == {i \in 0 .. r : i <= s /\ f[i] # g[i]}
<1> SUFFICES ASSUME bad # {} PROVE FALSE
  OBVIOUS
<1>1. PICK i \in bad : \A j \in bad : i <= j
  <2>1. bad \in SUBSET Nat
    OBVIOUS
  <2> QED
    BY <2>1, LeastElement
<1>2. /\ \A j \in 0 .. r : f[j] = IF j = 0 THEN domain ELSE PowMap(f[j - 1], k)
      /\ \A j \in 0 .. s : g[j] = IF j = 0 THEN domain ELSE PowMap(g[j - 1], k)
  BY DEF IsChain
<1>3. i \in 0 .. r /\ i \in 0 .. s /\ f[i] # g[i]
  BY <1>1
<1>4. i # 0
  BY <1>2, <1>3
<1>5. i - 1 \in 0 .. r /\ i - 1 <= s /\ i - 1 < i
  BY <1>3, <1>4
<1>6. f[i - 1] = g[i - 1]
  <2>1. i - 1 \notin bad
    BY <1>1, <1>3, <1>5
  <2> QED
    BY <1>5, <2>1
<1> QED
  BY <1>2, <1>3, <1>4, <1>6

(* Each round's domain is the image of the one before.                     *)
LEMMA RoundDomainStep ==
  ASSUME NEW params, NEW domain, NEW r \in Nat
  PROVE  /\ RoundDomain(params, domain, 0) = domain
         /\ RoundDomain(params, domain, r + 1)
              = PowMap(RoundDomain(params, domain, r), params.fold_factor)
<1> DEFINE k == params.fold_factor
           c(t) == CHOOSE f : IsChain(f, k, domain, t)
<1>1. ASSUME NEW t \in Nat PROVE IsChain(c(t), k, domain, t)
  BY ChainExists
<1>2. ASSUME NEW t \in Nat PROVE RoundDomain(params, domain, t) = c(t)[t]
  BY DEF RoundDomain, IsChain
<1> HIDE DEF c
<1>3. c(0)[0] = domain
  BY <1>1 DEF IsChain
<1>4. r + 1 \in Nat /\ r + 1 \in 0 .. r + 1 /\ r + 1 # 0 /\ (r + 1) - 1 = r /\ r \in 0 .. r /\ r <= r + 1
  OBVIOUS
<1>5. c(r + 1)[r + 1] = PowMap(c(r + 1)[r], k)
  BY <1>1, <1>4 DEF IsChain
<1>6. c(r)[r] = c(r + 1)[r]
  <2>1. IsChain(c(r), k, domain, r) /\ IsChain(c(r + 1), k, domain, r + 1)
    BY <1>1, <1>4
  <2> QED
    BY <1>4, <2>1, ChainsAgree
<1> QED
  BY <1>2, <1>3, <1>4, <1>5, <1>6

(* Dividing by the fold factor keeps a bound below a size it divides.      *)
LEMMA BoundBelowSize ==
  ASSUME NEW k \in {3, 9}, NEW a \in Nat, NEW n \in Nat \ {0}, a < n, n % k = 0
  PROVE  a \div k < n \div k
<1>1. CASE k = 3
  BY <1>1
<1>2. CASE k = 9
  BY <1>2
<1> QED
  BY <1>1, <1>2

(* What a validated instance says of its rounds' domains: they are of      *)
(* Teichmueller units, each of them the image of the one before, and too   *)
(* large for the degree that is left.                                      *)
DomainFits(params, domain, degree, r) ==
  LET d == RoundDomain(params, domain, r)
  IN  /\ IsDomain(d) /\ IsTeichmullerSubset(d)
      /\ d.size = AfterFoldings(params, domain.size, r)
      /\ AfterFoldings(params, degree, r) \in Nat
      /\ AfterFoldings(params, degree, r) < d.size

(* What validation let pass fits: each round divides its domain, and its   *)
(* degree stays below the size.                                            *)
LEMMA DomainsFit ==
  ASSUME RingLaws, NEW params, Schedules(params), NEW domain, IsDomain(domain),
         IsTeichmullerSubset(domain), NEW degree \in Nat, ValidInstance(params, domain, degree)
  PROVE  /\ RoundCount(params, degree) \in Nat
         /\ \A r \in 0 .. RoundCount(params, degree) : DomainFits(params, domain, degree, r)
         /\ \A r \in 0 .. RoundCount(params, degree) - 1 :
              /\ RoundDomain(params, domain, r).size % params.fold_factor = 0
              /\ RoundDomain(params, domain, r + 1)
                   = PowMap(RoundDomain(params, domain, r), params.fold_factor)
<1> DEFINE R == RoundCount(params, degree)
           k == params.fold_factor
           D(r) == RoundDomain(params, domain, r)
           A(r) == AfterFoldings(params, domain.size, r)
           B(r) == AfterFoldings(params, degree, r)
           good(r) == DomainFits(params, domain, degree, r)
<1>1. R \in Nat
  BY RoundCountIsFirst
<1>2. k \in {3, 9}
  BY DEF Schedules
<1>3. D(0) = domain /\ A(0) = domain.size /\ B(0) = degree
  BY RoundDomainStep, FoldingsStep
<1>4. ASSUME NEW r \in Nat
      PROVE  /\ D(r + 1) = PowMap(D(r), k) /\ A(r + 1) = A(r) \div k /\ B(r + 1) = B(r) \div k
             /\ B(r) \in Nat
  BY <1>4, RoundDomainStep, FoldingsStep, FoldingsDecrease
<1>5. \A r \in 0 .. R - 1 : A(r) % k = 0
  BY DEF ValidInstance, FoldsEvenly
<1>6. degree < domain.size
  BY DEF ValidInstance
<1>7. \A r : good(r) <=> /\ IsDomain(D(r)) /\ IsTeichmullerSubset(D(r))
                          /\ D(r).size = A(r) /\ B(r) \in Nat /\ B(r) < D(r).size
  BY DEF DomainFits
<1> HIDE DEF R, k, D, A, B, good
<1>8. good(0)
  BY <1>3, <1>4, <1>6, <1>7
<1>9. ASSUME NEW r \in Nat, r < R, good(r) PROVE good(r + 1)
  <2>1. A(r) % k = 0
    BY <1>1, <1>5, <1>9
  <2>2. k \in Nat \ {0} /\ D(r).size % k = 0 /\ IsDomain(D(r))
    BY <1>2, <1>7, <1>9, <2>1
  <2>3. IsDomain(PowMap(D(r), k)) /\ IsTeichmullerSubset(PowMap(D(r), k))
    BY <1>7, <1>9, <2>2, PowMapIsDomain
  <2>4. PowMap(D(r), k).size = D(r).size \div k
    BY <2>2, PowMapParts
  <2>5. D(r).size \in Nat \ {0}
    BY <2>2 DEF IsDomain
  <2>6. B(r) \div k < D(r).size \div k
    <3> DEFINE n == D(r).size
               b == B(r)
    <3>1. n \in Nat \ {0} /\ b \in Nat /\ b < n /\ n % k = 0
      BY <1>4, <1>7, <1>9, <2>2, <2>5
    <3> HIDE DEF n, b
    <3>2. b \div k < n \div k
      BY <1>2, <3>1, BoundBelowSize
    <3> QED
      BY <3>2 DEF n, b
  <2>7. B(r + 1) \in Nat
    <3>1. r + 1 \in Nat
      OBVIOUS
    <3> QED
      BY <1>4, <3>1
  <2> QED
    BY <1>4, <1>7, <1>9, <2>3, <2>4, <2>6, <2>7
<1>10. {r \in 0 .. R : good(r)} = 0 .. R
  <2> DEFINE P == {r \in 0 .. R : good(r)}
  <2>1. P \in SUBSET (0 .. R) /\ 0 \in P
    BY <1>1, <1>8
  <2>2. ASSUME NEW j \in P, j < R PROVE j + 1 \in P
    BY <1>1, <1>9, <2>2
  <2> HIDE DEF P
  <2>3. P = 0 .. R
    BY <1>1, <2>1, <2>2, InductionUpTo
  <2> QED
    BY <2>3 DEF P
<1>11. \A r \in 0 .. R : good(r)
  BY <1>10
<1>12. \A r \in 0 .. R - 1 : D(r).size % k = 0 /\ D(r + 1) = PowMap(D(r), k)
  <2> SUFFICES ASSUME NEW r \in 0 .. R - 1 PROVE D(r).size % k = 0 /\ D(r + 1) = PowMap(D(r), k)
    OBVIOUS
  <2>1. r \in Nat /\ r \in 0 .. R
    BY <1>1
  <2> QED
    BY <1>4, <1>5, <1>7, <1>11, <2>1
<1> QED
  BY <1>1, <1>11, <1>12 DEF R, k, D, good

-----------------------------------------------------------------------------
(* The steps *)

(* A step of the verifier leaves the messages alone.                       *)
VerifierStep ==
  /\ pc \in {"verify", "replay", "final", "check"}
  /\ pc' \in {"replay", "final", "check", "done"}
  /\ verdict' \in {verdict, "accept", "reject"}
  /\ UNCHANGED <<setup, polynomial, commitment, statement, opening, tables, damage>>

(* Each of the verifier's actions is a step of the verifier.               *)
LEMMA VerifierSteps ==
  ASSUME VerifyRefuses \/ VerifyZeroRounds \/ VerifyStart \/ (\E beta : ReplayRound(beta))
         \/ CheckFinalOracle \/ (\E queries : VerifyRound(queries))
  PROVE  VerifierStep
<1> USE DEF VerifierStep, messages
<1>1. CASE VerifyRefuses
  BY <1>1 DEF VerifyRefuses, Rejects, Decide
<1>2. CASE VerifyZeroRounds
  BY <1>2 DEF VerifyZeroRounds, Decide
<1>3. CASE VerifyStart
  BY <1>3 DEF VerifyStart
<1>4. ASSUME NEW beta, ReplayRound(beta) PROVE VerifierStep
  BY <1>4 DEF ReplayRound
<1>5. CASE CheckFinalOracle
  BY <1>5 DEF CheckFinalOracle, Rejects, Decide
<1>6. ASSUME NEW queries, VerifyRound(queries) PROVE VerifierStep
  BY <1>6 DEF VerifyRound, Decide
<1> QED
  BY <1>1, <1>2, <1>3, <1>4, <1>5, <1>6

(* What a step can be.                                                     *)
LEMMA StepCases ==
  ASSUME [Next]_vars
  PROVE  \/ \E stage : Refuse(stage)
         \/ Commit
         \/ \E f \in Polynomials, alpha \in OpeningPoints : Open(f, alpha)
         \/ \E beta \in FoldingChallenges, slip \in BOOLEAN : FoldRound(beta, slip)
         \/ \E queries \in QueryPositions(round) : QueryRound(queries)
         \/ \E kind \in DamageKinds : Deliver(kind)
         \/ \E f \in Polynomials, value \in Ring : Substitute(f, value)
         \/ VerifierStep
         \/ UNCHANGED vars
<1>1. CASE CommitRefuses
  BY <1>1 DEF CommitRefuses
<1>2. CASE \E f \in Polynomials, alpha \in OpeningPoints : OpenRefuses(f, alpha) \/ Open(f, alpha)
  BY <1>2 DEF OpenRefuses
<1>3. CASE \/ VerifyRefuses \/ VerifyZeroRounds \/ VerifyStart
           \/ pc = "replay" /\ \E beta \in FoldingChallenges : ReplayRound(beta)
           \/ CheckFinalOracle
           \/ pc = "check" /\ \E queries \in QueryPositions(round) : VerifyRound(queries)
  BY <1>3, VerifierSteps
<1> QED
  BY <1>1, <1>2, <1>3 DEF Next, Return

-----------------------------------------------------------------------------
(* What was validated *)

(* Whatever happens on the way, the commitment is for the instance that    *)
(* commit validated.                                                       *)
Validated ==
  /\ polynomial \in Polynomials
  /\ pc # "commit" /\ verdict # "refused" =>
       /\ MayCommit
       /\ commitment.domain = setup.domain /\ commitment.degree_bound = setup.degree_bound

(* Nothing goes on without having been validated.                          *)
LEMMA ValidatedKeeps ==
  ASSUME FriInv, Validated, [Next]_vars
  PROVE  Validated'
<1> USE DEF Validated
<1>1. ASSUME NEW stage, Refuse(stage) PROVE Validated'
  BY <1>1 DEF Refuse
<1>2. CASE Commit
  <2>1. commitment'.domain = setup.domain /\ commitment'.degree_bound = setup.degree_bound
        /\ MayCommit /\ UNCHANGED <<setup, polynomial>>
    BY <1>2 DEF Commit
  <2> QED
    BY <2>1 DEF MayCommit
<1>3. ASSUME UNCHANGED <<setup, polynomial>>, commitment'.domain = commitment.domain,
             commitment'.degree_bound = commitment.degree_bound,
             pc # "commit", verdict # "refused"
      PROVE  Validated'
  BY <1>3 DEF MayCommit
<1>4. pc # "done" => verdict = "none"
  BY DEF FriInv
<1>5. ASSUME NEW f, NEW alpha, Open(f, alpha) PROVE Validated'
  BY <1>3, <1>4, <1>5 DEF Open
<1>6. ASSUME NEW beta, NEW slip, FoldRound(beta, slip) PROVE Validated'
  BY <1>3, <1>4, <1>6 DEF FoldRound
<1>7. ASSUME NEW queries, QueryRound(queries) PROVE Validated'
  BY <1>3, <1>4, <1>7 DEF QueryRound
<1>8. ASSUME NEW kind \in DamageKinds, Deliver(kind) PROVE Validated'
  <2>1. pc = "deliver" /\ commitment' = Received(kind).commitment /\ UNCHANGED <<setup, polynomial>>
    BY <1>8 DEF Deliver
  <2>2. /\ Received(kind).commitment.domain = commitment.domain
        /\ Received(kind).commitment.degree_bound = commitment.degree_bound
    BY <2>1, ReceivedParts
  <2> QED
    BY <1>3, <1>4, <2>1, <2>2
<1>9. CASE VerifierStep
  BY <1>3, <1>4, <1>9 DEF VerifierStep
<1>10. CASE UNCHANGED vars
  BY <1>10 DEF vars, messages, MayCommit
<1>11. ASSUME NEW f, NEW value, Substitute(f, value) PROVE Validated'
  <2>1. /\ pc = "deliver" /\ UNCHANGED <<setup, polynomial>>
        /\ commitment'.domain = commitment.domain
        /\ commitment'.degree_bound = commitment.degree_bound
    BY <1>11, SubstituteParts
  <2> QED
    BY <1>3, <1>4, <2>1
<1> QED
  BY <1>1, <1>2, <1>5, <1>6, <1>7, <1>8, <1>9, <1>10, <1>11, StepCases

(* What that means for the rounds.                                         *)
Instance ==
  /\ K \in {3, 9} /\ K = setup.fold_factor /\ setup.repetition_count \in Nat
  /\ IsDomain(commitment.domain) /\ IsTeichmullerSubset(commitment.domain)
  /\ commitment.degree_bound \in Nat /\ commitment.degree_bound < commitment.domain.size
  /\ ReducedBound = OpeningDegreeBound(commitment.degree_bound) /\ ReducedBound \in Nat
  /\ ValidInstance(setup, commitment.domain, commitment.degree_bound)
  /\ Rounds \in Nat /\ DomainAt(0) = commitment.domain

RoundFits(r) ==
  /\ IsDomain(DomainAt(r)) /\ IsTeichmullerSubset(DomainAt(r))
  /\ AfterFoldings(setup, ReducedBound, r) \in Nat
  /\ AfterFoldings(setup, ReducedBound, r) < DomainAt(r).size

FoldFits(r) ==
  /\ DomainAt(r).size % K = 0
  /\ DomainAt(r + 1) = PowMap(DomainAt(r), K)
  /\ DomainAt(r + 1).size = DomainAt(r).size \div K

(* So every round has a domain, a degree that fits it and the next domain  *)
(* as its image.                                                           *)
LEMMA InstanceFacts ==
  ASSUME RingLaws, FriInv, Validated, pc # "commit", verdict # "refused"
  PROVE  /\ Instance
         /\ \A r \in 0 .. Rounds : RoundFits(r)
         /\ \A r \in 0 .. Rounds - 1 : FoldFits(r)
<1> DEFINE d == commitment.domain
           b == commitment.degree_bound
           c == ReducedBound
<1>1. setup \in Setups /\ MayCommit /\ d = setup.domain /\ b = setup.degree_bound
  BY DEF FriInv, Setting, Validated
<1>2. ValidInstance(setup, d, b) /\ IsTeichmullerSubset(d)
  BY <1>1 DEF MayCommit
<1>3. IsDomain(d) /\ b \in Nat /\ setup.repetition_count \in Nat /\ setup.stop_degree \in Nat
  BY <1>1, SetupsAssumption
<1>4. setup.fold_factor \in {3, 9} /\ b < d.size
  BY <1>2 DEF ValidInstance, ValidParameters
<1>5. Schedules(setup)
  BY <1>3, <1>4 DEF Schedules
<1>6. c \in Nat /\ c <= b
  BY <1>3 DEF ReducedBound, OpeningDegreeBound
<1>7. d.size \in Nat
  BY <1>3 DEF IsDomain
<1>8. c = OpeningDegreeBound(b)
  BY DEF ReducedBound
<1>9. Rounds = RoundCount(setup, c) /\ \A r : DomainAt(r) = RoundDomain(setup, d, r)
  BY DEF Rounds, DomainAt
<1> HIDE DEF d, b, c
<1>10. ValidInstance(setup, d, c)
  BY <1>2, <1>3, <1>5, <1>6, <1>7, SmallerInstance
<1> DEFINE R == RoundCount(setup, c)
<1>11. /\ R \in Nat
       /\ \A r \in 0 .. R : DomainFits(setup, d, c, r)
       /\ \A r \in 0 .. R - 1 :
            /\ RoundDomain(setup, d, r).size % setup.fold_factor = 0
            /\ RoundDomain(setup, d, r + 1) = PowMap(RoundDomain(setup, d, r), setup.fold_factor)
  BY <1>2, <1>3, <1>5, <1>6, <1>10, DomainsFit
<1>12. DomainAt(0) = d
  BY <1>9, RoundDomainStep
<1> HIDE DEF R
<1>13. Rounds = R
  BY <1>9 DEF R
<1>14. Instance
  BY <1>2, <1>3, <1>4, <1>6, <1>8, <1>11, <1>12, <1>13 DEF Instance, K, d, b, c
<1>15. ASSUME NEW r \in 0 .. Rounds PROVE RoundFits(r)
  <2>1. DomainFits(setup, d, c, r)
    BY <1>11, <1>13
  <2> QED
    BY <1>9, <2>1 DEF DomainFits, RoundFits, c
<1>16. ASSUME NEW r \in 0 .. Rounds - 1 PROVE FoldFits(r)
  <2>1. r \in 0 .. R /\ r \in Nat
    BY <1>11, <1>13
  <2>2. DomainAt(r).size % K = 0 /\ DomainAt(r + 1) = PowMap(DomainAt(r), K)
    BY <1>9, <1>11, <1>13 DEF K
  <2>3. IsDomain(DomainAt(r))
    BY <1>15, <2>1, <1>13 DEF RoundFits
  <2>4. K \in Nat \ {0}
    BY <1>14 DEF Instance
  <2>5. PowMap(DomainAt(r), K).size = DomainAt(r).size \div K
    BY <2>2, <2>3, <2>4, PowMapParts
  <2> QED
    BY <2>2, <2>5 DEF FoldFits
<1> QED
  BY <1>14, <1>15, <1>16

-----------------------------------------------------------------------------
(* Polynomials *)

(* A polynomial that is committed to or opened.                            *)
LEMMA InputFacts ==
  ASSUME NEW f \in Polynomials
  PROVE  IsPolynomial(f) /\ (\A n \in Nat : Degree(f) < n => f.size <= n)
<1>1. IsPolynomial(f)
  BY InputsAssumption DEF IsPolynomial
<1> QED
  BY <1>1 DEF IsPolynomial, Degree

-----------------------------------------------------------------------------
(* What the prover claims *)

(* The committed table. *)
HonestTable == Encode(commitment.domain, polynomial)

(* What open accepts is the committed polynomial.                          *)
LEMMA OpenedIsCommitted ==
  ASSUME RingLaws, FriInv, Validated, Committed, pc = "open",
         NEW f \in Polynomials, NEW alpha, MayOpen(f, alpha)
  PROVE  /\ commitment.oracle_root = Root(HonestTable)
         /\ Encode(commitment.domain, f) = HonestTable
         /\ \A z \in Ring : Evaluate(f, z) = Evaluate(polynomial, z)
         /\ \A z \in Ring : Evaluate(f, z) \in Ring
<1> DEFINE d == commitment.domain
           n == d.size
           p == polynomial
<1>1. verdict # "refused"
  BY DEF FriInv
<1>2. /\ IsDomain(d) /\ IsTeichmullerSubset(d) /\ commitment.degree_bound < n
      /\ commitment.degree_bound \in Nat
  BY <1>1, InstanceFacts DEF Instance
<1>3. commitment.oracle_root = Root(Encode(d, p)) /\ Degree(p) <= commitment.degree_bound
  BY DEF Committed, MayCommit
<1>4. Root(Encode(d, f)) = commitment.oracle_root /\ Degree(f) <= commitment.degree_bound
  BY DEF MayOpen
<1>5. n \in Nat
  BY <1>2 DEF IsDomain
<1>6. IsPolynomial(f) /\ IsPolynomial(p) /\ f.size \in Nat /\ p.size \in Nat
      /\ f.size <= n /\ p.size <= n
  <2>1. p \in Polynomials
    BY DEF Validated
  <2>2. IsPolynomial(f) /\ IsPolynomial(p)
    BY <2>1, InputFacts
  <2>3. Degree(f) \in Nat /\ Degree(p) \in Nat
    BY <2>2 DEF IsPolynomial, Degree
  <2>4. Degree(f) < n /\ Degree(p) < n
    BY <1>2, <1>3, <1>4, <1>5, <2>3
  <2> HIDE DEF n, p
  <2>5. f.size <= n /\ p.size <= n
    BY <1>5, <2>1, <2>4, InputFacts
  <2> QED
    BY <2>2, <2>5 DEF IsPolynomial
<1>7. /\ DOMAIN Encode(d, f) = 0 .. n - 1 /\ DOMAIN Encode(d, p) = 0 .. n - 1
      /\ \A i \in 0 .. n - 1 : Encode(d, f)[i] = Evaluate(f, d.points[i])
      /\ \A i \in 0 .. n - 1 : Encode(d, p)[i] = Evaluate(p, d.points[i])
  BY DEF Encode
<1>8. Apart(d.points, n)
  BY <1>2, DomainApart
<1>9. Encode(d, f) = [i \in 0 .. n - 1 |-> Encode(d, f)[i]]
      /\ Encode(d, p) = [i \in 0 .. n - 1 |-> Encode(d, p)[i]]
  BY DEF Encode
<1> DEFINE t == Encode(d, f)
           u == Encode(d, p)
           x == d.points
<1> HIDE DEF d, p, n, t, u, x
<1>10. \A i \in 0 .. n - 1 : t[i] = u[i]
  <2>1. DOMAIN t = 0 .. n - 1 /\ DOMAIN u = 0 .. n - 1 /\ Root(t) = Root(u)
    BY <1>3, <1>4, <1>7 DEF t, u
  <2> QED
    BY <1>5, <2>1, RootDetermines
<1>11. \A i \in 0 .. n - 1 : Evaluate(f, x[i]) = Evaluate(p, x[i])
  BY <1>7, <1>10 DEF t, u, x
<1>12. Apart(x, n)
  BY <1>8 DEF x
<1>13. \A z \in Ring : Evaluate(f, z) = Evaluate(p, z)
  BY <1>5, <1>6, <1>11, <1>12, AgreeingPolynomials
<1>14. t = u
  BY <1>9, <1>10 DEF t, u
<1>15. \A z \in Ring : Evaluate(f, z) \in Ring
  BY <1>6, EvaluateIsValue
<1> QED
  BY <1>3, <1>13, <1>14, <1>15 DEF HonestTable, t, u, d, p

(* Until the message is on its way the statement is what the committed     *)
(* polynomial makes true.                                                  *)
ClaimMade ==
  pc \in {"fold", "query", "deliver"} =>
    /\ statement = opening.claim
    /\ statement = [alpha |-> statement.alpha, value |-> statement.value]
    /\ statement.alpha \in Ring /\ IsTeichmuller(statement.alpha)
    /\ statement.value = Evaluate(polynomial, statement.alpha)
    /\ commitment.oracle_root = Root(HonestTable)
    /\ opening.revealed = IF Rounds = 0 THEN HonestTable ELSE <<>>

(* Whatever happens after Open, the claim is the committed polynomial's    *)
(* value.                                                                  *)
LEMMA ClaimMadeKeeps ==
  ASSUME RingLaws, FriInv, Validated, Committed, ClaimMade, [Next]_vars
  PROVE  ClaimMade'
<1>1. ASSUME NEW stage, Refuse(stage) PROVE ClaimMade'
  BY <1>1 DEF Refuse, ClaimMade
<1>2. CASE Commit
  BY <1>2 DEF Commit, ClaimMade
<1>3. ASSUME NEW f \in Polynomials, NEW alpha \in OpeningPoints, Open(f, alpha) PROVE ClaimMade'
  <2> DEFINE v == Evaluate(f, alpha)
             claim == [alpha |-> alpha, value |-> v]
             t == Encode(commitment.domain, f)
  <2>1. /\ pc = "open" /\ MayOpen(f, alpha) /\ statement' = claim
        /\ UNCHANGED <<setup, polynomial, commitment>>
    BY <1>3 DEF Open
  <2>2. opening' = [NoOpening EXCEPT !.claim = claim, !.revealed = IF Rounds = 0 THEN t ELSE <<>>]
    BY <1>3 DEF Open
  <2>3. alpha \in Ring
    BY InputsAssumption
  <2>4. IsTeichmuller(alpha)
    BY <2>1 DEF MayOpen
  <2>5. /\ commitment.oracle_root = Root(HonestTable) /\ t = HonestTable
        /\ v = Evaluate(polynomial, alpha)
    BY <2>1, <2>3, OpenedIsCommitted
  <2>6. Rounds' = Rounds /\ HonestTable' = HonestTable
    BY <2>1 DEF Rounds, ReducedBound, HonestTable
  <2> HIDE DEF v, t
  <2>7. opening'.claim = claim /\ opening'.revealed = IF Rounds = 0 THEN t ELSE <<>>
    BY <2>2 DEF NoOpening
  <2>8. statement' = claim /\ claim.alpha = alpha /\ claim.value = v
    BY <2>1
  <2> HIDE DEF claim
  <2>9. claim = [alpha |-> claim.alpha, value |-> claim.value]
    BY <2>8 DEF claim
  <2> QED
    BY <2>1, <2>3, <2>4, <2>5, <2>6, <2>7, <2>8, <2>9 DEF ClaimMade
<1>4. ASSUME UNCHANGED <<setup, polynomial, commitment, statement>>,
             opening'.claim = opening.claim, opening'.revealed = opening.revealed,
             pc \in {"fold", "query", "deliver"}
      PROVE  ClaimMade'
  <2>1. Rounds' = Rounds /\ HonestTable' = HonestTable
    BY <1>4 DEF Rounds, ReducedBound, HonestTable
  <2> QED
    BY <1>4, <2>1 DEF ClaimMade
<1>5. ASSUME NEW beta, NEW slip, FoldRound(beta, slip) PROVE ClaimMade'
  <2>1. /\ pc = "fold" /\ UNCHANGED <<setup, polynomial, commitment, statement>>
        /\ \E a, b : opening' = [opening EXCEPT !.oracle_roots = a, !.final_oracle = b]
    BY <1>5 DEF FoldRound
  <2>2. opening'.claim = opening.claim /\ opening'.revealed = opening.revealed
    BY <2>1 DEF FriInv, Parts
  <2> QED
    BY <1>4, <2>1, <2>2
<1>6. ASSUME NEW queries, QueryRound(queries) PROVE ClaimMade'
  <2>1. /\ pc = "query" /\ UNCHANGED <<setup, polynomial, commitment, statement>>
        /\ \E a : opening' = [opening EXCEPT !.rounds = a]
    BY <1>6 DEF QueryRound
  <2>2. opening'.claim = opening.claim /\ opening'.revealed = opening.revealed
    BY <2>1 DEF FriInv, Parts
  <2> QED
    BY <1>4, <2>1, <2>2
<1>7. ASSUME NEW kind, NEW f, NEW value, Deliver(kind) \/ Substitute(f, value) PROVE ClaimMade'
  BY <1>7 DEF Deliver, Substitute, ClaimMade
<1>8. CASE VerifierStep
  BY <1>8 DEF VerifierStep, ClaimMade
<1>9. CASE UNCHANGED vars
  BY <1>9 DEF vars, messages, ClaimMade, Rounds, ReducedBound, HonestTable
<1> QED
  BY <1>1, <1>2, <1>3, <1>5, <1>6, <1>7, <1>8, <1>9, StepCases

(* What open claims of the opened polynomial is true of the committed one. *)
THEOREM OpeningsAnswerCommitments ==
  ASSUME RingLaws PROVE Spec => []OpeningAnswersCommitment
<1> DEFINE I == Validated /\ ClaimMade
<1>1. Init => I
  BY DEF Init, Validated, ClaimMade
<1>2. FriInv /\ Committed /\ I /\ [Next]_vars => I'
  BY ValidatedKeeps, ClaimMadeKeeps
<1>3. I => OpeningAnswersCommitment
  BY DEF ClaimMade, OpeningAnswersCommitment
<1> QED
  BY <1>1, <1>2, <1>3, Invariance, CommittedHolds, PTL DEF Spec

-----------------------------------------------------------------------------
(* The tables of the prover *)

(* The committed table, the quotient's and one for each folding, and a     *)
(* root for each of these.                                                 *)
Made == Len(opening.oracle_roots)

TablesMade ==
  pc \in {"fold", "query", "deliver"} =>
    /\ tables \in Seq(AnyTable) /\ opening.oracle_roots \in Seq(AnyTable)
    /\ Len(tables) = Made + 2
    /\ IF pc = "fold" THEN Made = round /\ round < Rounds ELSE Made = Rounds
    /\ tables[1] = HonestTable
    /\ \A r \in 0 .. Made : tables[r + 2] \in Tables(DomainAt(r).size)
    /\ \A r \in 1 .. Made : opening.oracle_roots[r] = Root(tables[r + 2])
    /\ opening.final_oracle = IF Rounds = 0 \/ pc = "fold" THEN <<>> ELSE tables[Rounds + 2]

(* A folding gives a table for the next domain, slip or not.               *)
LEMMA FoldGivesTable ==
  ASSUME RingLaws, FriInv, Validated, TablesMade, NEW beta \in FoldingChallenges,
         NEW slip \in BOOLEAN, pc = "fold", NEW folded,
         folded = FoldTableK(DomainAt(round), tables[round + 2], K, beta)
  PROVE  /\ folded \in Tables(DomainAt(round + 1).size)
         /\ [folded EXCEPT ![0] = Plus(@, 1)] \in Tables(DomainAt(round + 1).size)
         /\ DomainAt(round + 1).size \in Nat \ {0}
<1> DEFINE d == DomainAt(round)
           m == d.size \div K
           t == tables[round + 2]
<1>1. verdict # "refused"
  BY DEF FriInv
<1>2. round \in 0 .. Rounds - 1 /\ round \in 0 .. Rounds /\ round + 1 \in 0 .. Rounds /\ Made = round
  BY <1>1, InstanceFacts DEF TablesMade, Instance, FriInv, Setting
<1>3. RoundFits(round) /\ FoldFits(round) /\ RoundFits(round + 1) /\ Instance
  BY <1>1, <1>2, InstanceFacts
<1>4. IsDomain(d) /\ IsTeichmullerSubset(d) /\ d.size % K = 0 /\ DomainAt(round + 1).size = m
      /\ K \in Nat \ {0} /\ DomainAt(round + 1).size \in Nat \ {0}
  BY <1>3 DEF RoundFits, FoldFits, Instance, IsDomain
<1>5. beta \in Ring
  BY DEF FoldingChallenges, TeichmullerSet
<1>6. t \in Tables(d.size)
  <2>1. \A r \in 0 .. Made : tables[r + 2] \in Tables(DomainAt(r).size)
    BY DEF TablesMade
  <2> QED
    BY <1>2, <2>1
<1>7. \A i \in 0 .. d.size - 1 : t[i] \in Ring
  BY <1>6 DEF Tables
<1>8. folded = FoldTableK(d, t, K, beta)
  OBVIOUS
<1> HIDE DEF d, t
<1>9. folded \in Tables(m)
  BY <1>4, <1>5, <1>7, <1>8, FoldTableInRing DEF IsTeichmullerSubset
<1> HIDE DEF m
<1>10. [folded EXCEPT ![0] = Plus(@, 1)] \in Tables(m)
  BY <1>9, DamagedTable DEF Tables
<1> QED
  BY <1>4, <1>9, <1>10

(* The prover's next table is the fold of the last one.                    *)
LEMMA TablesMadeFold ==
  ASSUME RingLaws, FriInv, Validated, TablesMade, NEW beta \in FoldingChallenges,
         NEW slip \in BOOLEAN, FoldRound(beta, slip)
  PROVE  TablesMade'
<1> DEFINE folded == FoldTableK(DomainAt(round), tables[round + 2], K, beta)
           table  == IF slip THEN [folded EXCEPT ![0] = Plus(@, 1)] ELSE folded
           last   == round + 1 = Rounds
           roots  == opening.oracle_roots
           root   == Root(table)
           n == DomainAt(round + 1).size
<1>1. /\ pc = "fold" /\ tables' = Append(tables, table)
      /\ opening' = [opening EXCEPT !.oracle_roots = Append(@, root),
                                    !.final_oracle = IF last THEN table ELSE @]
      /\ round' = IF last THEN 0 ELSE round + 1
      /\ pc' = IF last THEN "query" ELSE "fold"
      /\ UNCHANGED <<setup, polynomial, commitment>>
  BY DEF FoldRound
<1>2. table \in Tables(n) /\ n \in Nat \ {0}
  <2> HIDE DEF folded
  <2>1. /\ folded \in Tables(n) /\ n \in Nat \ {0}
        /\ [folded EXCEPT ![0] = Plus(@, 1)] \in Tables(n)
    BY <1>1, FoldGivesTable DEF folded
  <2> QED
    BY <2>1
<1> HIDE DEF table, n
<1>3. root \in AnyTable /\ table \in AnyTable
  BY <1>2, RootInRing
<1> HIDE DEF root
<1>4. /\ tables \in Seq(AnyTable) /\ roots \in Seq(AnyTable)
      /\ Len(tables) = Made + 2 /\ Made = round /\ round < Rounds
      /\ tables[1] = HonestTable
      /\ \A r \in 0 .. Made : tables[r + 2] \in Tables(DomainAt(r).size)
      /\ \A r \in 1 .. Made : roots[r] = Root(tables[r + 2])
      /\ opening.final_oracle = <<>>
  BY <1>1 DEF TablesMade
<1>5. Rounds' = Rounds /\ HonestTable' = HonestTable /\ \A r : DomainAt(r)' = DomainAt(r)
  BY <1>1 DEF Rounds, ReducedBound, HonestTable, DomainAt
<1>6. round \in Nat /\ Rounds \in Nat
  <2>1. verdict # "refused"
    BY <1>1 DEF FriInv
  <2> QED
    BY <1>1, <2>1, InstanceFacts DEF Instance, FriInv, Setting
<1>7. opening'.oracle_roots = Append(roots, root)
      /\ opening'.final_oracle = IF last THEN table ELSE opening.final_oracle
  BY <1>1 DEF FriInv, Parts
<1>8. /\ tables' \in Seq(AnyTable) /\ opening'.oracle_roots \in Seq(AnyTable)
      /\ Len(tables') = round + 3 /\ Made' = round + 1
      /\ \A i \in 1 .. round + 2 : tables'[i] = tables[i]
      /\ tables'[round + 3] = table
      /\ \A i \in 1 .. round : opening'.oracle_roots[i] = roots[i]
      /\ opening'.oracle_roots[round + 1] = root
  BY <1>1, <1>3, <1>4, <1>6, <1>7 DEF Made
<1>9. IF pc' = "fold" THEN Made' = round' /\ round' < Rounds ELSE Made' = Rounds
  BY <1>1, <1>4, <1>6, <1>8
<1>10. ASSUME NEW r \in 0 .. Made' PROVE tables'[r + 2] \in Tables(DomainAt(r).size)
  <2>1. CASE r = round + 1
    <3>1. r + 2 = round + 3
      BY <1>6, <2>1
    <3> QED
      BY <1>2, <1>8, <2>1, <3>1 DEF n
  <2>2. CASE r # round + 1
    <3>1. r \in 0 .. Made /\ r + 2 \in 1 .. round + 2
      BY <1>4, <1>6, <1>8, <2>2
    <3> QED
      BY <1>4, <1>8, <3>1
  <2> QED
    BY <2>1, <2>2
<1>11. ASSUME NEW r \in 1 .. Made' PROVE opening'.oracle_roots[r] = Root(tables'[r + 2])
  <2>1. CASE r = round + 1
    <3>1. r + 2 = round + 3
      BY <1>6, <2>1
    <3> QED
      BY <1>8, <2>1, <3>1 DEF root
  <2>2. CASE r # round + 1
    <3>1. r \in 1 .. Made /\ r + 2 \in 1 .. round + 2 /\ r \in 1 .. round
      BY <1>4, <1>6, <1>8, <2>2
    <3> QED
      BY <1>4, <1>8, <3>1
  <2> QED
    BY <2>1, <2>2
<1>12. tables'[1] = HonestTable
  BY <1>4, <1>6, <1>8
<1>13. opening'.final_oracle = IF Rounds = 0 \/ pc' = "fold" THEN <<>> ELSE tables'[Rounds + 2]
  BY <1>1, <1>4, <1>6, <1>7, <1>8
<1>14. pc' \in {"fold", "query"} /\ Len(tables') = Made' + 2
  BY <1>1, <1>6, <1>8
<1> QED
  BY <1>5, <1>8, <1>9, <1>10, <1>11, <1>12, <1>13, <1>14 DEF TablesMade

(* Phases start at their first round.                                      *)
RoundStarts == pc \in {"commit", "open", "deliver"} => round = 0

(* Every step keeps it.                                                    *)
LEMMA RoundStartsKeeps ==
  ASSUME RoundStarts, [Next]_vars
  PROVE  RoundStarts'
<1> USE DEF RoundStarts
<1>1. ASSUME NEW stage, Refuse(stage) PROVE RoundStarts'
  BY <1>1 DEF Refuse
<1>2. CASE Commit
  BY <1>2 DEF Commit
<1>3. ASSUME NEW f, NEW alpha, Open(f, alpha) PROVE RoundStarts'
  BY <1>3 DEF Open
<1>4. ASSUME NEW beta, NEW slip, FoldRound(beta, slip) PROVE RoundStarts'
  BY <1>4 DEF FoldRound
<1>5. ASSUME NEW queries, QueryRound(queries) PROVE RoundStarts'
  BY <1>5 DEF QueryRound
<1>6. ASSUME NEW kind, NEW f, NEW value, Deliver(kind) \/ Substitute(f, value) PROVE RoundStarts'
  BY <1>6 DEF Deliver, Substitute
<1>7. CASE VerifierStep
  BY <1>7 DEF VerifierStep
<1>8. CASE UNCHANGED vars
  BY <1>8 DEF vars
<1> QED
  BY <1>1, <1>2, <1>3, <1>4, <1>5, <1>6, <1>7, <1>8, StepCases

(* The first table is the encoding of the quotient.                        *)
LEMMA TablesMadeOpen ==
  ASSUME RingLaws, FriInv, Validated, Committed, RoundStarts,
         NEW f \in Polynomials, NEW alpha \in OpeningPoints, Open(f, alpha)
  PROVE  TablesMade'
<1> DEFINE d == commitment.domain
           v == Evaluate(f, alpha)
           q == QuotientAt(f, alpha, v)
           t == Encode(d, f)
           u == Encode(d, q)
<1>1. /\ pc = "open" /\ MayOpen(f, alpha) /\ tables' = <<t, u>>
      /\ pc' = IF Rounds = 0 THEN "deliver" ELSE "fold"
      /\ UNCHANGED <<setup, polynomial, commitment, round>>
  BY DEF Open
<1>2. opening'.oracle_roots = <<>> /\ opening'.final_oracle = <<>>
  BY DEF Open, NoOpening
<1>3. Rounds' = Rounds /\ HonestTable' = HonestTable /\ \A r : DomainAt(r)' = DomainAt(r)
  BY <1>1 DEF Rounds, ReducedBound, HonestTable, DomainAt
<1>4. verdict # "refused"
  BY <1>1 DEF FriInv
<1>5. IsDomain(d) /\ Rounds \in Nat /\ DomainAt(0) = d
  BY <1>1, <1>4, InstanceFacts DEF Instance
<1>6. alpha \in Ring /\ IsPolynomial(f)
  BY InputsAssumption, InputFacts
<1>7. IsPolynomial(q)
  BY <1>6, QuotientFacts
<1> HIDE DEF v, q
<1>8. t \in Tables(d.size) /\ u \in Tables(d.size)
  BY <1>5, <1>6, <1>7, EncodeIsTable
<1>9. t = HonestTable
  BY <1>1, OpenedIsCommitted
<1> DEFINE n == d.size
<1>10. n \in Nat /\ n = DomainAt(0).size
  BY <1>5 DEF IsDomain
<1> HIDE DEF t, u, n
<1>11. t \in AnyTable /\ u \in AnyTable
  BY <1>8, <1>10 DEF AnyTable, Tables, n
<1>12. tables' \in Seq(AnyTable) /\ Len(tables') = 2 /\ tables'[1] = t /\ tables'[2] = u
  BY <1>1, <1>11
<1>13. round = 0
  BY <1>1 DEF RoundStarts
<1>14. Made' = 0
  BY <1>2 DEF Made
<1>15. opening'.oracle_roots \in Seq(AnyTable)
  BY <1>2
<1>16. \A r \in 0 .. 0 : tables'[r + 2] \in Tables(DomainAt(r).size)
  <2>1. tables'[2] \in Tables(DomainAt(0).size)
    BY <1>8, <1>10, <1>12 DEF n
  <2>2. \A r \in 0 .. 0 : r = 0 /\ r + 2 = 2
    OBVIOUS
  <2> QED
    BY <2>1, <2>2
<1>17. pc' \in {"fold", "deliver"} /\ (pc' = "deliver" <=> Rounds = 0)
  BY <1>1
<1> QED
  BY <1>1, <1>2, <1>3, <1>5, <1>9, <1>12, <1>13, <1>14, <1>15, <1>16, <1>17 DEF TablesMade

(* The prover's tables stay tables over their domains.                     *)
LEMMA TablesMadeKeeps ==
  ASSUME RingLaws, FriInv, Validated, Committed, RoundStarts, TablesMade, [Next]_vars
  PROVE  TablesMade'
<1>1. ASSUME NEW stage, Refuse(stage) PROVE TablesMade'
  BY <1>1 DEF Refuse, TablesMade
<1>2. CASE Commit
  BY <1>2 DEF Commit, TablesMade
<1>3. ASSUME NEW f \in Polynomials, NEW alpha \in OpeningPoints, Open(f, alpha) PROVE TablesMade'
  BY <1>3, TablesMadeOpen
<1>4. ASSUME NEW beta \in FoldingChallenges, NEW slip \in BOOLEAN, FoldRound(beta, slip)
      PROVE  TablesMade'
  BY <1>4, TablesMadeFold
<1>5. ASSUME UNCHANGED <<setup, polynomial, commitment, tables>>,
             opening'.oracle_roots = opening.oracle_roots,
             opening'.final_oracle = opening.final_oracle,
             (UNCHANGED <<pc, round>>) \/ (pc = "query" /\ pc' \in {"query", "deliver"})
      PROVE  TablesMade'
  <2>1. Rounds' = Rounds /\ HonestTable' = HonestTable /\ (\A r : DomainAt(r)' = DomainAt(r))
        /\ Made' = Made
    BY <1>5 DEF Rounds, ReducedBound, HonestTable, DomainAt, Made
  <2> QED
    BY <1>5, <2>1 DEF TablesMade
<1>6. ASSUME NEW queries, QueryRound(queries) PROVE TablesMade'
  <2>1. /\ pc = "query" /\ pc' \in {"query", "deliver"}
        /\ UNCHANGED <<setup, polynomial, commitment, tables>>
        /\ \E a : opening' = [opening EXCEPT !.rounds = a]
    BY <1>6 DEF QueryRound
  <2>2. opening'.oracle_roots = opening.oracle_roots /\ opening'.final_oracle = opening.final_oracle
    BY <2>1 DEF FriInv, Parts
  <2> QED
    BY <1>5, <2>1, <2>2
<1>7. ASSUME NEW kind, NEW f, NEW value, Deliver(kind) \/ Substitute(f, value) PROVE TablesMade'
  BY <1>7 DEF Deliver, Substitute, TablesMade
<1>8. CASE VerifierStep
  BY <1>8 DEF VerifierStep, TablesMade
<1>9. CASE UNCHANGED vars
  <2>1. UNCHANGED <<setup, polynomial, commitment, tables, opening, pc, round>>
    BY <1>9 DEF vars, messages
  <2> QED
    BY <1>5, <2>1
<1> QED
  BY <1>1, <1>2, <1>3, <1>4, <1>6, <1>7, <1>8, <1>9, StepCases

-----------------------------------------------------------------------------
(* What arrives *)

Slipped(table) == [table EXCEPT ![0] = Plus(@, 1)]

(* What the damages do to the values, the roots and the revealed table.    *)
LEMMA ReceivedValues ==
  ASSUME FriInv, ClaimMade, pc = "deliver", NEW kind \in DamageKinds
  PROVE  LET received == Received(kind)
             roots    == opening.oracle_roots
         IN  /\ received.statement.alpha = statement.alpha
             /\ received.statement.value \in {statement.value, Plus(statement.value, 1)}
             /\ received.commitment.oracle_root
                  \in {commitment.oracle_root, Slipped(commitment.oracle_root)}
             /\ \/ received.opening.oracle_roots = roots
                \/ Rounds # 0 /\ received.opening.oracle_roots = [roots EXCEPT ![1][0] = Plus(@, 1)]
             /\ Rounds = 0 =>
                  received.opening.revealed \in {opening.revealed, Slipped(opening.revealed)}
<1> DEFINE intact == [commitment |-> commitment, statement |-> statement, opening |-> opening]
           R == Received(kind)
<1>1. /\ DOMAIN opening = {"claim", "oracle_roots", "rounds", "final_oracle", "revealed"}
      /\ DOMAIN commitment = {"domain", "degree_bound", "oracle_root"}
  BY DEF FriInv, Parts, Setting
<1>2. statement = [alpha |-> statement.alpha, value |-> statement.value]
  BY DEF ClaimMade
<1>3. kind \in {"none", "statement", "claim", "commitment", "revealed", "final", "longer",
                "root", "payload", "index", "siblings", "round", "child"}
  BY DEF DamageKinds
<1>4. kind \in {"final", "longer", "root", "payload", "index", "siblings", "round", "child"}
        => Rounds # 0
  BY DEF DamageKinds
<1>6. CASE kind = "none"
  <2>1. R = intact
    BY <1>6 DEF Received
  <2> HIDE DEF R
  <2>2. R.commitment = commitment /\ R.statement = statement /\ R.opening = opening
    BY <2>1
  <2> QED
    BY <2>2 DEF R
<1>7. CASE kind = "statement"
  <2>1. R = [intact EXCEPT !.statement.value = Plus(@, 1)]
    BY <1>7 DEF Received
  <2> HIDE DEF R
  <2>2. /\ R.commitment = commitment /\ R.opening = opening
        /\ R.statement = [statement EXCEPT !.value = Plus(@, 1)]
    BY <2>1
  <2>3. R.statement.alpha = statement.alpha /\ R.statement.value = Plus(statement.value, 1)
    BY <1>2, <2>2
  <2> QED
    BY <2>2, <2>3 DEF R
<1>8. CASE kind = "claim"
  <2>1. R = [intact EXCEPT !.statement.value = Plus(@, 1), !.opening.claim.value = Plus(@, 1)]
    BY <1>8 DEF Received
  <2> HIDE DEF R
  <2>2. /\ R.commitment = commitment
        /\ R.opening = [opening EXCEPT !.claim.value = Plus(@, 1)]
        /\ R.statement = [statement EXCEPT !.value = Plus(@, 1)]
    BY <2>1
  <2>3. R.statement.alpha = statement.alpha /\ R.statement.value = Plus(statement.value, 1)
    BY <1>2, <2>2
  <2>4. R.opening.oracle_roots = opening.oracle_roots /\ R.opening.revealed = opening.revealed
    BY <1>1, <2>2
  <2> QED
    BY <2>2, <2>3, <2>4 DEF R
<1>9. CASE kind = "commitment"
  <2>1. R = [intact EXCEPT !.commitment.oracle_root[0] = Plus(@, 1)]
    BY <1>9 DEF Received
  <2> HIDE DEF R
  <2>2. /\ R.opening = opening /\ R.statement = statement
        /\ R.commitment = [commitment EXCEPT !.oracle_root[0] = Plus(@, 1)]
    BY <2>1
  <2>3. R.commitment.oracle_root = Slipped(commitment.oracle_root)
    BY <1>1, <2>2 DEF Slipped
  <2> QED
    BY <2>2, <2>3 DEF R
<1>10. CASE kind = "revealed"
  <2> DEFINE new == IF Rounds = 0 THEN [opening.revealed EXCEPT ![0] = Plus(@, 1)]
                    ELSE opening.final_oracle
  <2>1. R = [intact EXCEPT !.opening.revealed = new]
    BY <1>10 DEF Received
  <2>2. Rounds = 0 => new = Slipped(opening.revealed)
    BY DEF Slipped
  <2> HIDE DEF R, new
  <2>3. /\ R.commitment = commitment /\ R.statement = statement
        /\ R.opening = [opening EXCEPT !.revealed = new]
    BY <2>1
  <2>4. R.opening.oracle_roots = opening.oracle_roots /\ R.opening.revealed = new
    BY <1>1, <2>3
  <2> QED
    BY <2>2, <2>3, <2>4 DEF R
<1>11. CASE kind \in {"final", "longer"}
  <2>1. PICK v : R = [intact EXCEPT !.opening = [opening EXCEPT !.final_oracle = v]]
    BY <1>11 DEF Received
  <2> HIDE DEF R
  <2>2. /\ R.commitment = commitment /\ R.statement = statement
        /\ R.opening = [opening EXCEPT !.final_oracle = v]
    BY <2>1
  <2>3. R.opening.oracle_roots = opening.oracle_roots
    BY <1>1, <2>2
  <2> QED
    BY <1>4, <1>11, <2>2, <2>3, SMTT(30) DEF R
<1>12. CASE kind = "root"
  <2>1. R = [intact EXCEPT !.opening.oracle_roots[1][0] = Plus(@, 1)]
    BY <1>12 DEF Received
  <2> HIDE DEF R
  <2>2. /\ R.commitment = commitment /\ R.statement = statement
        /\ R.opening = [opening EXCEPT !.oracle_roots[1][0] = Plus(@, 1)]
    BY <2>1
  <2>3. R.opening.oracle_roots = [opening.oracle_roots EXCEPT ![1][0] = Plus(@, 1)]
    BY <1>1, <2>2
  <2> QED
    BY <1>4, <1>12, <2>2, <2>3 DEF R
<1>13. CASE kind \in {"payload", "index", "siblings", "round", "child"}
  <2>1. PICK v : R = [intact EXCEPT !.opening = [opening EXCEPT !.rounds = v]]
    BY <1>13 DEF Received
  <2> HIDE DEF R
  <2>2. /\ R.commitment = commitment /\ R.statement = statement
        /\ R.opening = [opening EXCEPT !.rounds = v]
    BY <2>1
  <2>3. R.opening.oracle_roots = opening.oracle_roots
    BY <1>1, <2>2
  <2> QED
    BY <1>4, <1>13, <2>2, <2>3, SMTT(30) DEF R
<1> QED
  BY <1>3, <1>6, <1>7, <1>8, <1>9, <1>10, <1>11, <1>12, <1>13

(* A wrong entry leaves a root a root of its kind.                         *)
LEMMA SlippedRoot ==
  ASSUME RingLaws, NEW n, NEW root \in Roots(n)
  PROVE  Slipped(root) \in Roots(n)
<1> DEFINE w == NextPowerOfTwo(n) - 1
<1>1. root \in [0 .. w -> Ring]
  BY DEF Roots
<1> HIDE DEF w
<1>2. [root EXCEPT ![0] = Plus(@, 1)] \in [0 .. w -> Ring]
  BY <1>1, DamagedTable
<1> QED
  BY <1>2 DEF Slipped, Roots, w

(* Whatever happened to the message, it holds elements of the ring, in     *)
(* roots of the trees' sizes.                                              *)
HasArrived ==
  pc \in {"verify", "replay", "final", "check"} \/ (pc = "done" /\ verdict # "refused")

Arrived ==
  HasArrived =>
    /\ statement.alpha \in Ring /\ statement.value \in Ring
    /\ commitment.oracle_root \in Roots(DomainAt(0).size)
    /\ Len(opening.oracle_roots) = Rounds
    /\ \A r \in 1 .. Rounds : opening.oracle_roots[r] \in Roots(DomainAt(r).size)
    /\ Rounds = 0 => opening.revealed \in Tables(DomainAt(0).size)

(* What the prover sent is like that.                                      *)
LEMMA SentFacts ==
  ASSUME RingLaws, FriInv, Validated, ClaimMade, TablesMade, pc = "deliver"
  PROVE  /\ statement.alpha \in Ring /\ statement.value \in Ring
         /\ HonestTable \in Tables(DomainAt(0).size)
         /\ commitment.oracle_root = Root(HonestTable)
         /\ commitment.oracle_root \in Roots(DomainAt(0).size)
         /\ opening.oracle_roots \in Seq(AnyTable) /\ Len(opening.oracle_roots) = Rounds
         /\ \A r \in 1 .. Rounds : opening.oracle_roots[r] \in Roots(DomainAt(r).size)
         /\ Rounds = 0 => opening.revealed = HonestTable
         /\ Rounds \in Nat
<1> DEFINE d == commitment.domain
           n(r) == DomainAt(r).size
<1>1. verdict # "refused"
  BY DEF FriInv
<1>2. /\ Instance /\ \A r \in 0 .. Rounds : RoundFits(r)
  BY <1>1, InstanceFacts
<1>3. IsDomain(d) /\ Rounds \in Nat /\ DomainAt(0) = d /\ d.size \in Nat \ {0}
  BY <1>2 DEF Instance, IsDomain
<1>4. IsPolynomial(polynomial)
  BY InputFacts DEF Validated
<1>5. HonestTable \in Tables(n(0))
  BY <1>3, <1>4, EncodeIsTable DEF HonestTable
<1>6. /\ statement.alpha \in Ring
      /\ statement.value = Evaluate(polynomial, statement.alpha)
      /\ commitment.oracle_root = Root(HonestTable)
      /\ opening.revealed = IF Rounds = 0 THEN HonestTable ELSE <<>>
  BY DEF ClaimMade
<1>7. statement.value \in Ring
  BY <1>4, <1>6, EvaluateIsValue
<1>8. /\ opening.oracle_roots \in Seq(AnyTable) /\ Len(opening.oracle_roots) = Rounds
      /\ \A r \in 0 .. Rounds : tables[r + 2] \in Tables(n(r))
      /\ \A r \in 1 .. Rounds : opening.oracle_roots[r] = Root(tables[r + 2])
  BY DEF TablesMade, Made
<1>9. \A r \in 0 .. Rounds : n(r) \in Nat \ {0}
  BY <1>2 DEF RoundFits, IsDomain
<1> HIDE DEF n
<1>10. ASSUME NEW r \in 1 .. Rounds PROVE opening.oracle_roots[r] \in Roots(n(r))
  <2> DEFINE t == tables[r + 2]
  <2>1. r \in 0 .. Rounds
    BY <1>3
  <2>2. t \in Tables(n(r)) /\ n(r) \in Nat \ {0} /\ opening.oracle_roots[r] = Root(t)
    BY <1>8, <1>9, <1>10, <2>1
  <2> HIDE DEF t
  <2> QED
    BY <2>2, RootInRing
<1>11. Root(HonestTable) \in Roots(n(0))
  <2>1. 0 \in 0 .. Rounds
    BY <1>3
  <2> QED
    BY <1>5, <1>9, <2>1, RootInRing
<1> QED
  BY <1>3, <1>5, <1>6, <1>7, <1>8, <1>10, <1>11 DEF n

(* However it is damaged, what arrives has entries in the ring.            *)
LEMMA ArrivedDeliver ==
  ASSUME RingLaws, FriInv, Validated, ClaimMade, TablesMade,
         NEW kind \in DamageKinds, Deliver(kind)
  PROVE  Arrived'
<1> DEFINE roots == opening.oracle_roots
           n == DomainAt(0).size
<1>1. /\ pc = "deliver" /\ pc' = "verify"
      /\ commitment' = Received(kind).commitment /\ statement' = Received(kind).statement
      /\ opening' = Received(kind).opening /\ UNCHANGED <<setup, polynomial>>
  BY DEF Deliver
<1>2. commitment'.domain = commitment.domain /\ commitment'.degree_bound = commitment.degree_bound
  BY <1>1, ReceivedParts
<1>3. Rounds' = Rounds /\ HonestTable' = HonestTable /\ \A r : DomainAt(r)' = DomainAt(r)
  BY <1>1, <1>2 DEF Rounds, ReducedBound, HonestTable, DomainAt
<1>4. /\ statement'.alpha = statement.alpha
      /\ statement'.value \in {statement.value, Plus(statement.value, 1)}
      /\ commitment'.oracle_root \in {commitment.oracle_root, Slipped(commitment.oracle_root)}
      /\ \/ opening'.oracle_roots = roots
         \/ Rounds # 0 /\ opening'.oracle_roots = [roots EXCEPT ![1][0] = Plus(@, 1)]
      /\ Rounds = 0 => opening'.revealed \in {opening.revealed, Slipped(opening.revealed)}
  BY <1>1, ReceivedValues
<1>5. /\ statement.alpha \in Ring /\ statement.value \in Ring
      /\ HonestTable \in Tables(n)
      /\ commitment.oracle_root = Root(HonestTable)
      /\ commitment.oracle_root \in Roots(n)
      /\ roots \in Seq(AnyTable) /\ Len(roots) = Rounds
      /\ \A r \in 1 .. Rounds : roots[r] \in Roots(DomainAt(r).size)
      /\ Rounds = 0 => opening.revealed = HonestTable
      /\ Rounds \in Nat
  BY <1>1, SentFacts
<1> HIDE DEF n
<1>6. statement'.alpha \in Ring /\ statement'.value \in Ring
  <2>1. Plus(statement.value, 1) \in Ring
    BY <1>5 DEF RingLaws, Closed, Counting
  <2> QED
    BY <1>4, <1>5, <2>1
<1>7. commitment'.oracle_root \in Roots(n)
  BY <1>4, <1>5, SlippedRoot
<1>8. Len(opening'.oracle_roots) = Rounds
      /\ \A r \in 1 .. Rounds : opening'.oracle_roots[r] \in Roots(DomainAt(r).size)
  <2>1. CASE opening'.oracle_roots = roots
    BY <1>5, <2>1
  <2>2. CASE Rounds # 0 /\ opening'.oracle_roots = [roots EXCEPT ![1][0] = Plus(@, 1)]
    <3> DEFINE new == Slipped(roots[1])
    <3>1. opening'.oracle_roots = [roots EXCEPT ![1] = new]
      BY <2>2 DEF Slipped
    <3>2. 1 \in 1 .. Rounds
      BY <1>5, <2>2
    <3>3. new \in Roots(DomainAt(1).size)
      BY <1>5, <3>2, SlippedRoot
    <3> HIDE DEF new
    <3>4. DOMAIN roots = 1 .. Rounds
      BY <1>5
    <3>5. DOMAIN opening'.oracle_roots = 1 .. Rounds
      BY <3>1, <3>4
    <3>6. Len(opening'.oracle_roots) = Rounds
      BY <1>5, <3>5
    <3>7. ASSUME NEW r \in 1 .. Rounds PROVE opening'.oracle_roots[r] \in Roots(DomainAt(r).size)
      BY <1>5, <3>1, <3>3, <3>4
    <3> QED
      BY <3>6, <3>7
  <2> QED
    BY <1>4, <2>1, <2>2
<1>9. ASSUME Rounds = 0
      PROVE  opening'.revealed \in Tables(n)
  <2>1. Slipped(HonestTable) \in Tables(n)
    <3> DEFINE m == n - 1
    <3>1. HonestTable \in [0 .. m -> Ring]
      BY <1>5 DEF Tables
    <3> HIDE DEF m
    <3>2. Slipped(HonestTable) \in [0 .. m -> Ring]
      BY <3>1, DamagedTable DEF Slipped
    <3> QED
      BY <3>2 DEF Tables, m
  <2> QED
    BY <1>4, <1>5, <1>9, <2>1
<1> QED
  BY <1>1, <1>3, <1>6, <1>7, <1>8, <1>9 DEF Arrived, n

(* And it is not touched again.                                            *)
(* Another prover's claim and table are elements of the ring as well.      *)
LEMMA ArrivedSubstitute ==
  ASSUME RingLaws, FriInv, Validated, ClaimMade, TablesMade,
         NEW f \in Polynomials, NEW value \in Ring, Substitute(f, value)
  PROVE  Arrived'
<1> DEFINE table == Encode(commitment.domain, f)
           n == DomainAt(0).size
<1>1. /\ pc = "deliver" /\ pc' = "verify" /\ Rounds = 0
      /\ UNCHANGED <<setup, polynomial, verdict>>
      /\ commitment'.domain = commitment.domain
      /\ commitment'.degree_bound = commitment.degree_bound
      /\ commitment'.oracle_root = Root(table) /\ opening'.revealed = table
      /\ opening'.oracle_roots = opening.oracle_roots
  BY SubstituteParts
<1>2. Rounds' = Rounds /\ \A r : DomainAt(r)' = DomainAt(r)
  BY <1>1 DEF Rounds, ReducedBound, DomainAt
<1>3. statement'.alpha \in Ring /\ statement'.value \in Ring
  <2>1. statement.alpha \in Ring
    BY <1>1, SentFacts
  <2>2. statement = [alpha |-> statement.alpha, value |-> statement.value]
    BY <1>1 DEF ClaimMade
  <2>3. statement' = [statement EXCEPT !.value = value]
    BY DEF Substitute
  <2> QED
    BY <2>1, <2>2, <2>3
<1>4. table \in Tables(n) /\ Root(table) \in Roots(n)
  <2>1. verdict # "refused"
    BY <1>1 DEF FriInv
  <2>2. IsDomain(commitment.domain) /\ DomainAt(0) = commitment.domain
    BY <2>1, <1>1, InstanceFacts DEF Instance
  <2>3. n \in Nat \ {0} /\ n = commitment.domain.size
    BY <2>2 DEF IsDomain
  <2>4. IsPolynomial(f)
    BY InputFacts
  <2>5. table \in Tables(n)
    BY <2>2, <2>3, <2>4, EncodeIsTable
  <2> HIDE DEF table, n
  <2> QED
    BY <2>3, <2>5, RootInRing
<1>5. Len(opening.oracle_roots) = 0
  BY <1>1, SentFacts
<1> HIDE DEF table, n
<1> QED
  BY <1>1, <1>2, <1>3, <1>4, <1>5 DEF Arrived, n

LEMMA ArrivedKeeps ==
  ASSUME RingLaws, FriInv, Validated, ClaimMade, TablesMade, Arrived, [Next]_vars
  PROVE  Arrived'
<1> USE DEF HasArrived
<1>1. ASSUME NEW stage, Refuse(stage) PROVE Arrived'
  BY <1>1 DEF Refuse, Arrived
<1>2. CASE Commit
  BY <1>2 DEF Commit, Arrived, FriInv
<1>3. ASSUME NEW f, NEW alpha, Open(f, alpha) PROVE Arrived'
  BY <1>3 DEF Open, Arrived, FriInv
<1>4. ASSUME NEW beta, NEW slip, FoldRound(beta, slip) PROVE Arrived'
  BY <1>4 DEF FoldRound, Arrived, FriInv
<1>5. ASSUME NEW queries, QueryRound(queries) PROVE Arrived'
  BY <1>5 DEF QueryRound, Arrived, FriInv
<1>6. ASSUME NEW kind \in DamageKinds, Deliver(kind) PROVE Arrived'
  BY <1>6, ArrivedDeliver
<1>7. ASSUME UNCHANGED <<setup, polynomial, commitment, statement, opening>>, HasArrived
      PROVE  Arrived'
  <2>1. Rounds' = Rounds /\ \A r : DomainAt(r)' = DomainAt(r)
    BY <1>7 DEF Rounds, ReducedBound, DomainAt
  <2> QED
    BY <1>7, <2>1 DEF Arrived
<1>8. CASE VerifierStep
  BY <1>7, <1>8 DEF VerifierStep
<1>9. CASE UNCHANGED vars
  <2>1. CASE HasArrived
    <3>1. UNCHANGED <<setup, polynomial, commitment, statement, opening>>
      BY <1>9 DEF vars, messages
    <3> QED
      BY <1>7, <2>1, <3>1
  <2>2. CASE ~HasArrived
    BY <1>9, <2>2 DEF vars, Arrived
  <2> QED
    BY <2>1, <2>2
<1>10. ASSUME NEW f \in Polynomials, NEW value \in Ring, Substitute(f, value) PROVE Arrived'
  BY <1>10, ArrivedSubstitute
<1> QED
  BY <1>1, <1>2, <1>3, <1>4, <1>5, <1>6, <1>8, <1>9, <1>10, StepCases

-----------------------------------------------------------------------------
(* The fiber through alpha *)

(* The opening point is in the ring.                                       *)
ClaimInRing(claim) == claim.alpha \in Ring /\ claim.value \in Ring

(* The quotient's values are in the ring, and zero at alpha.               *)
LEMMA DerivedInRing ==
  ASSUME RingLaws, NEW n \in Nat, NEW points, \A i \in 0 .. n - 1 : points[i] \in Ring,
         NEW values, \A i \in 0 .. n - 1 : values[i] \in Ring, NEW claim, ClaimInRing(claim)
  PROVE  /\ DOMAIN DerivedValues(points, values, n, claim) = 0 .. n - 1
         /\ \A i \in 0 .. n - 1 :
              /\ DerivedValues(points, values, n, claim)[i] \in Ring
              /\ DerivedValues(points, values, n, claim)[i] =
                   IF points[i] = claim.alpha THEN 0
                   ELSE Times(Minus(values[i], claim.value), Inv(Minus(points[i], claim.alpha)))
<1> DEFINE D == DerivedValues(points, values, n, claim)
           a == claim.alpha
           v == claim.value
<1>1. D = [i \in 0 .. n - 1 |-> IF points[i] = a THEN 0
                                ELSE Times(Minus(values[i], v), Inv(Minus(points[i], a)))]
  BY DEF DerivedValues
<1>2. a \in Ring /\ v \in Ring /\ 0 \in Ring
  BY DEF ClaimInRing, RingLaws, Closed
<1> HIDE DEF D, a, v
<1>3. ASSUME NEW i \in 0 .. n - 1 PROVE D[i] \in Ring
  <2>1. Minus(values[i], v) \in Ring /\ Minus(points[i], a) \in Ring
    BY <1>2 DEF RingLaws, Closed
  <2>2. Inv(Minus(points[i], a)) \in Ring
    BY <2>1, InverseInRing
  <2>3. Times(Minus(values[i], v), Inv(Minus(points[i], a))) \in Ring
    BY <2>1, <2>2 DEF RingLaws, Closed
  <2> QED
    BY <1>1, <1>2, <2>3
<1> QED
  BY <1>1, <1>3 DEF D, a, v

(* The point alpha is at most once in a fiber.                             *)
LEMMA AlphaOnce ==
  ASSUME RingLaws, NEW n \in Nat, NEW points, Apart(points, n), NEW alpha,
         NEW i \in 0 .. n - 1, points[i] = alpha, NEW j \in 0 .. n - 1, points[j] = alpha
  PROVE  i = j
<1>1. points[i] \in Ring /\ (i # j => IsUnit(Minus(points[i], points[j])))
  BY DEF Apart, Exceptional
<1>2. Minus(points[i], points[j]) = 0
  BY <1>1, DifferenceZero
<1> QED
  BY <1>1, <1>2 DEF RingLaws, Counting

(* With any value for the slot at alpha, the fold is the one with zero     *)
(* there and that value times the slot's weight.                           *)
LEMMA FoldWithSlot ==
  ASSUME RingLaws, NEW n \in Nat, n # 0, NEW points, Apart(points, n), NEW values,
         \A i \in 0 .. n - 1 : values[i] \in Ring, NEW o \in 0 .. n - 1, values[o] = 0,
         NEW q \in Ring, NEW changed,
         \A i \in 0 .. n - 1 : changed[i] = IF i = o THEN q ELSE values[i], NEW beta \in Ring
  PROVE  /\ BasisWeight(points, n, o, beta) = EvaluateGenericFiber(points, SlotOnly(n, o), n, beta)
         /\ BasisWeight(points, n, o, beta) \in Ring
         /\ FoldEvalK(points, values, n, beta) \in Ring
         /\ Evaluate(Interpolate(points, changed, n), beta)
              = Plus(FoldEvalK(points, values, n, beta), Times(q, BasisWeight(points, n, o, beta)))
         /\ FoldEvalK(points, changed, n, beta) = Evaluate(Interpolate(points, changed, n), beta)
<1> DEFINE s == SlotOnly(n, o)
           w == BasisWeight(points, n, o, beta)
<1>1. w = FoldEvalK(points, s, n, beta)
  BY DEF BasisWeight, SlotOnly
<1>2. \A i \in 0 .. n - 1 : s[i] \in Ring
  BY DEF SlotOnly, RingLaws, Closed
<1>3. \A i \in 0 .. n - 1 : changed[i] \in Ring
  OBVIOUS
<1>4. \A i \in 0 .. n - 1 : points[i] \in Ring
  BY DEF Apart
<1>5. EvaluateGenericFiber(points, changed, n, beta)
        = Plus(EvaluateGenericFiber(points, values, n, beta),
               Times(q, EvaluateGenericFiber(points, s, n, beta)))
  BY <1>4, WeightOfSlot
<1> HIDE DEF s, w
<1>6. w = EvaluateGenericFiber(points, s, n, beta) /\ w \in Ring
  BY <1>1, <1>2, FoldIsLagrange
<1>7. /\ FoldEvalK(points, values, n, beta) = EvaluateGenericFiber(points, values, n, beta)
      /\ FoldEvalK(points, values, n, beta) \in Ring
  BY FoldIsLagrange
<1>8. /\ FoldEvalK(points, changed, n, beta) = EvaluateGenericFiber(points, changed, n, beta)
      /\ FoldEvalK(points, changed, n, beta) = Evaluate(Interpolate(points, changed, n), beta)
  BY <1>3, FoldIsLagrange
<1> QED
  BY <1>5, <1>6, <1>7, <1>8 DEF s, w

(* What the verifier's test of a first-round fiber says: the slot is the   *)
(* fold of the quotient's values, with some value where its point is alpha.*)
LEMMA VirtualFiberSound ==
  ASSUME RingLaws, NEW n \in Nat, n # 0, NEW points, Apart(points, n), NEW values,
         \A i \in 0 .. n - 1 : values[i] \in Ring, NEW claim, ClaimInRing(claim),
         NEW beta \in Ring, NEW slot \in Ring,
         VerifyVirtualFiber(points, values, n, claim, beta, slot)
  PROVE  LET quotients == DerivedValues(points, values, n, claim)
             atAlpha   == {i \in 0 .. n - 1 : points[i] = claim.alpha}
         IN  /\ atAlpha = {} => Evaluate(Interpolate(points, quotients, n), beta) = slot
             /\ \A o \in atAlpha :
                  /\ values[o] = claim.value
                  /\ \E q \in Ring :
                       Evaluate(Interpolate(points, [quotients EXCEPT ![o] = q], n), beta) = slot
<1> DEFINE D == DerivedValues(points, values, n, claim)
           A == {i \in 0 .. n - 1 : points[i] = claim.alpha}
           fold == FoldEvalK(points, D, n, beta)
           weight == BasisWeight(points, n, CHOOSE i \in A : TRUE, beta)
<1>1. /\ \A i \in 0 .. n - 1 : PointFits(points[i], values[i], claim)
      /\ IF A = {} \/ weight = 0 THEN fold = slot ELSE IsUnit(weight)
  BY DEF VerifyVirtualFiber
<1>2. \A i \in 0 .. n - 1 : points[i] \in Ring
  BY DEF Apart
<1>3. /\ DOMAIN D = 0 .. n - 1 /\ \A i \in 0 .. n - 1 : D[i] \in Ring
      /\ \A i \in 0 .. n - 1 : points[i] = claim.alpha => D[i] = 0
  <2>1. /\ DOMAIN D = 0 .. n - 1
        /\ \A i \in 0 .. n - 1 :
             /\ D[i] \in Ring
             /\ D[i] = IF points[i] = claim.alpha THEN 0
                       ELSE Times(Minus(values[i], claim.value), Inv(Minus(points[i], claim.alpha)))
    BY <1>2, DerivedInRing, SMTT(30)
  <2> HIDE DEF D
  <2> QED
    BY <2>1
<1> HIDE DEF D
<1>4. A = {} => Evaluate(Interpolate(points, D, n), beta) = slot
  BY <1>1, <1>3, FoldIsLagrange
<1>5. ASSUME NEW o \in A
      PROVE  /\ values[o] = claim.value
             /\ \E q \in Ring : Evaluate(Interpolate(points, [D EXCEPT ![o] = q], n), beta) = slot
  <2>1. o \in 0 .. n - 1 /\ points[o] = claim.alpha /\ values[o] = claim.value
    BY <1>1 DEF PointFits
  <2>2. (CHOOSE i \in A : TRUE) = o
    <3>1. (CHOOSE i \in A : TRUE) \in A
      BY <1>5
    <3> QED
      BY <2>1, <3>1, AlphaOnce
  <2> DEFINE w == BasisWeight(points, n, o, beta)
             C(q) == [D EXCEPT ![o] = q]
  <2>3. ASSUME NEW q \in Ring
        PROVE  /\ w \in Ring /\ fold \in Ring
               /\ Evaluate(Interpolate(points, C(q), n), beta) = Plus(fold, Times(q, w))
    <3>1. \A i \in 0 .. n - 1 : C(q)[i] = IF i = o THEN q ELSE D[i]
      BY <1>3
    <3>2. D[o] = 0 /\ \A i \in 0 .. n - 1 : D[i] \in Ring
      BY <1>3, <2>1
    <3> DEFINE c == C(q)
    <3>3. \A i \in 0 .. n - 1 : c[i] = IF i = o THEN q ELSE D[i]
      BY <3>1
    <3> HIDE DEF c
    <3>4. /\ w \in Ring /\ fold \in Ring
          /\ Evaluate(Interpolate(points, c, n), beta) = Plus(fold, Times(q, w))
      BY <2>1, <3>2, <3>3, FoldWithSlot
    <3> QED
      BY <3>4 DEF c
  <2>4. weight = w
    BY <2>2
  <2>5. 0 \in Ring
    BY DEF RingLaws, Closed
  <2> HIDE DEF w, fold, weight, C
  <2>6. \E q \in Ring : Plus(fold, Times(q, w)) = slot
    <3>1. CASE w = 0
      <4>1. Plus(fold, Times(0, w)) = slot
        BY <1>1, <2>3, <2>4, <2>5, <3>1, TimesZero DEF RingLaws, Additive
      <4> QED
        BY <2>5, <4>1
    <3>2. CASE w # 0
      <4> DEFINE q == Times(Minus(slot, fold), Inv(w))
      <4>1. IsUnit(w) /\ w \in Ring /\ fold \in Ring
        BY <1>1, <1>5, <2>3, <2>4, <2>5, <3>2
      <4>2. Inv(w) \in Ring /\ Times(w, Inv(w)) = OfInteger(1) /\ Minus(slot, fold) \in Ring
        BY <4>1, InverseAssumption DEF RingLaws, Closed
      <4>3. q \in Ring
        BY <4>2 DEF RingLaws, Closed
      <4>4. Times(q, w) = Minus(slot, fold)
        <5> DEFINE d == Minus(slot, fold)
                   t == Inv(w)
        <5>1. d \in Ring /\ t \in Ring /\ w \in Ring /\ Times(w, t) = OfInteger(1)
          BY <4>1, <4>2
        <5> HIDE DEF d, t
        <5>2. Times(Times(d, t), w) = Times(d, Times(t, w)) /\ Times(t, w) = OfInteger(1)
          BY <5>1 DEF RingLaws, Multiplicative
        <5>3. Times(Times(d, t), w) = d
          BY <5>1, <5>2 DEF RingLaws, Multiplicative
        <5> QED
          BY <5>3 DEF d, t
      <4>5. Plus(fold, Minus(slot, fold)) = slot
        BY <4>1, <4>2 DEF RingLaws, Additive
      <4> HIDE DEF q
      <4> QED
        BY <4>3, <4>4, <4>5
    <3> QED
      BY <3>1, <3>2
  <2>7. PICK q \in Ring : Plus(fold, Times(q, w)) = slot
    BY <2>6
  <2>8. Evaluate(Interpolate(points, C(q), n), beta) = slot
    BY <2>3, <2>7
  <2> QED
    BY <2>1, <2>8 DEF C
<1> QED
  BY <1>4, <1>5 DEF D

(* And the true values of a quotient pass it.                              *)
LEMMA VirtualFiberComplete ==
  ASSUME RingLaws, NEW n \in Nat, n # 0, NEW points, Apart(points, n),
         \A i \in 0 .. n - 1 : points[i] \in TeichmullerSet,
         NEW values, NEW claim, ClaimInRing(claim), IsTeichmuller(claim.alpha),
         NEW quotients, \A i \in 0 .. n - 1 : quotients[i] \in Ring,
         \A i \in 0 .. n - 1 : values[i]
            = Plus(Times(Minus(points[i], claim.alpha), quotients[i]), claim.value),
         NEW beta \in TeichmullerSet
  PROVE  VerifyVirtualFiber(points, values, n, claim, beta, FoldEvalK(points, quotients, n, beta))
<1> DEFINE D == DerivedValues(points, values, n, claim)
           a == claim.alpha
           v == claim.value
           A == {i \in 0 .. n - 1 : points[i] = a}
           fold == FoldEvalK(points, D, n, beta)
           slot == FoldEvalK(points, quotients, n, beta)
           weight == BasisWeight(points, n, CHOOSE i \in A : TRUE, beta)
<1>1. a \in Ring /\ v \in Ring /\ a \in TeichmullerSet /\ beta \in Ring
  BY DEF ClaimInRing, TeichmullerSet
<1>2. \A i \in 0 .. n - 1 : points[i] \in Ring
  BY DEF Apart
<1>3. ASSUME NEW i \in 0 .. n - 1
      PROVE  /\ Minus(points[i], a) \in Ring /\ quotients[i] \in Ring
             /\ values[i] \in Ring /\ Minus(values[i], v) = Times(Minus(points[i], a), quotients[i])
             /\ points[i] # a => IsUnit(Minus(points[i], a))
             /\ points[i] = a => values[i] = v
  <2> DEFINE p == points[i]
             q == quotients[i]
             m == Minus(p, a)
  <2>1. p \in Ring /\ q \in Ring /\ m \in Ring
    BY <1>1, <1>2 DEF RingLaws, Closed
  <2>2. values[i] = Plus(Times(m, q), v) /\ Times(m, q) \in Ring
    BY <2>1 DEF RingLaws, Closed
  <2>3. p # a => IsUnit(m)
    BY <1>1, TeichmullerAssumption
  <2>4. p = a => m = 0
    BY <2>1, <1>1, DifferenceZero
  <2> HIDE DEF p, q, m
  <2>5. values[i] \in Ring /\ Minus(values[i], v) = Times(m, q)
    BY <1>1, <2>2, DifferenceIs DEF RingLaws, Closed
  <2>6. p = a => values[i] = v
    <3>1. Times(0, q) = 0 /\ Plus(0, v) = v
      BY <1>1, <2>1, TimesZero DEF RingLaws, Closed, Additive
    <3> QED
      BY <2>2, <2>4, <3>1
  <2> QED
    BY <2>1, <2>3, <2>5, <2>6 DEF p, q, m
<1>4. \A i \in 0 .. n - 1 : PointFits(points[i], values[i], claim)
  BY <1>3 DEF PointFits
<1>5. /\ DOMAIN D = 0 .. n - 1
      /\ \A i \in 0 .. n - 1 :
           /\ D[i] \in Ring
           /\ D[i] = IF points[i] = a THEN 0
                     ELSE Times(Minus(values[i], v), Inv(Minus(points[i], a)))
  BY <1>2, <1>3, DerivedInRing
<1> HIDE DEF D
<1>6. ASSUME NEW i \in 0 .. n - 1, points[i] # a PROVE D[i] = quotients[i]
  <2> DEFINE m == Minus(points[i], a)
             q == quotients[i]
  <2>1. m \in Ring /\ q \in Ring /\ IsUnit(m) /\ D[i] = Times(Times(m, q), Inv(m))
    BY <1>3, <1>5, <1>6
  <2> HIDE DEF m, q
  <2>2. Inv(m) \in Ring /\ Times(m, Inv(m)) = OfInteger(1)
    BY <2>1, InverseAssumption
  <2>3. Times(Times(m, q), Inv(m)) = Times(q, Times(m, Inv(m)))
    BY <2>1, <2>2 DEF RingLaws, Closed, Multiplicative
  <2> QED
    BY <2>1, <2>2, <2>3 DEF q, RingLaws, Multiplicative
<1>7. ASSUME A = {} PROVE fold = slot
  <2>1. \A i \in 0 .. n - 1 : D[i] = quotients[i] /\ D[i] \in Ring
    BY <1>5, <1>6, <1>7
  <2>2. EvaluateGenericFiber(points, D, n, beta) = EvaluateGenericFiber(points, quotients, n, beta)
    BY <2>1 DEF EvaluateGenericFiber
  <2>3. fold = EvaluateGenericFiber(points, D, n, beta)
    BY <1>1, <2>1, FoldIsLagrange
  <2>4. slot = EvaluateGenericFiber(points, quotients, n, beta)
    BY <1>1, FoldIsLagrange
  <2> QED
    BY <2>2, <2>3, <2>4
<1>8. ASSUME A # {} PROVE IsUnit(weight) \/ (weight = 0 /\ fold = slot)
  <2> DEFINE o == CHOOSE i \in A : TRUE
             w == BasisWeight(points, n, o, beta)
             g == EvaluateGenericFiber(points, SlotOnly(n, o), n, beta)
  <2>1. o \in A
    BY <1>8
  <2>2. o \in 0 .. n - 1 /\ points[o] = a
    BY <2>1
  <2> HIDE DEF o
  <2>3. D[o] = 0 /\ quotients[o] \in Ring
    BY <1>5, <2>2
  <2>4. \A i \in 0 .. n - 1 : quotients[i] = IF i = o THEN quotients[o] ELSE D[i]
    <3> SUFFICES ASSUME NEW i \in 0 .. n - 1, i # o PROVE quotients[i] = D[i]
      BY <2>2
    <3>1. points[i] # a
      BY <2>2, AlphaOnce
    <3> QED
      BY <1>6, <3>1
  <2>5. \A i \in 0 .. n - 1 : D[i] \in Ring
    BY <1>5
  <2>6. /\ w = g /\ w \in Ring /\ fold \in Ring /\ slot = Plus(fold, Times(quotients[o], w))
    BY <1>1, <2>2, <2>3, <2>4, <2>5, FoldWithSlot
  <2>7. \A j \in 0 .. n - 1 : points[j] = beta \/ IsUnit(Minus(beta, points[j]))
    BY TeichmullerAssumption
  <2>8. g = 0 \/ IsUnit(g)
    BY <1>1, <2>2, <2>7, WeightZeroOrUnit
  <2>9. weight = w
    BY DEF o
  <2> HIDE DEF w, g, fold, slot, weight
  <2>10. w = 0 => slot = fold
    <3>1. Times(quotients[o], 0) = 0 /\ Plus(fold, 0) = fold
      BY <2>3, <2>6, TimesZero DEF RingLaws, Additive
    <3> QED
      BY <2>6, <3>1
  <2> QED
    BY <2>6, <2>8, <2>9, <2>10
<1> HIDE DEF fold, weight, slot
<1>9. IF A = {} \/ weight = 0 THEN fold = slot ELSE IsUnit(weight)
  <2>1. ~IsUnit(0)
    BY DEF RingLaws, Counting
  <2> QED
    BY <1>7, <1>8, <2>1
<1> QED
  BY <1>4, <1>9 DEF VerifyVirtualFiber, D, fold, weight, slot

-----------------------------------------------------------------------------
(* The query phase *)

(* The challenges and the positions that were checked were drawn.          *)
Drawn ==
  /\ betas \in Seq(FoldingChallenges)
  /\ HasArrived => \A r \in 0 .. Len(checked) - 1 : checked[r + 1] \in QueryPositions(r)

(* What is squeezed is among the challenges and positions there are.       *)
LEMMA DrawnKeeps ==
  ASSUME FriInv, Drawn, [Next]_vars
  PROVE  Drawn'
<1>1. ASSUME UNCHANGED <<setup, commitment, betas, checked>>, HasArrived PROVE Drawn'
  <2>1. FoldingChallenges' = FoldingChallenges /\ \A r : QueryPositions(r)' = QueryPositions(r)
    BY <1>1 DEF FoldingChallenges, QueryPositions, DomainAt
  <2> QED
    BY <1>1, <2>1 DEF Drawn
<1>2. ASSUME UNCHANGED <<betas, checked>>, checked = <<>> \/ ~HasArrived' PROVE Drawn'
  <2>1. FoldingChallenges' = FoldingChallenges
    BY DEF FoldingChallenges
  <2>2. checked = <<>> => \A r \in 0 .. Len(checked) - 1 : FALSE
    OBVIOUS
  <2> QED
    BY <1>2, <2>1, <2>2 DEF Drawn
<1>3. pc \notin {"check", "done"} => checked = <<>>
  BY DEF FriInv, Replayed
<1>4. ASSUME NEW stage, Refuse(stage) PROVE Drawn'
  BY <1>2, <1>4 DEF Refuse, HasArrived
<1>5. CASE Commit
  BY <1>2, <1>3, <1>5 DEF Commit
<1>6. ASSUME NEW f, NEW alpha, Open(f, alpha) PROVE Drawn'
  BY <1>2, <1>3, <1>6 DEF Open
<1>7. ASSUME NEW beta, NEW slip, FoldRound(beta, slip) PROVE Drawn'
  BY <1>2, <1>3, <1>7 DEF FoldRound
<1>8. ASSUME NEW queries, QueryRound(queries) PROVE Drawn'
  BY <1>2, <1>3, <1>8 DEF QueryRound
<1>9. ASSUME NEW kind, NEW f, NEW value, Deliver(kind) \/ Substitute(f, value) PROVE Drawn'
  BY <1>2, <1>3, <1>9 DEF Deliver, Substitute
<1>10. CASE VerifyRefuses \/ VerifyZeroRounds \/ VerifyStart \/ CheckFinalOracle
  <2>1. UNCHANGED <<setup, commitment, betas, checked>> /\ pc \in {"verify", "final"}
    BY <1>10 DEF VerifyRefuses, VerifyZeroRounds, VerifyStart, CheckFinalOracle, Rejects, Decide,
                 messages
  <2> QED
    BY <1>1, <2>1 DEF HasArrived
<1>11. ASSUME NEW beta \in FoldingChallenges, ReplayRound(beta) PROVE Drawn'
  <2>1. pc = "replay" /\ betas' = Append(betas, beta) /\ UNCHANGED checked
    BY <1>11 DEF ReplayRound
  <2>2. FoldingChallenges' = FoldingChallenges /\ betas' \in Seq(FoldingChallenges)
    BY <2>1 DEF FoldingChallenges, Drawn
  <2>3. \A r \in 0 .. Len(checked') - 1 : FALSE
    BY <1>3, <2>1
  <2> QED
    BY <2>2, <2>3 DEF Drawn
<1>12. ASSUME NEW queries \in QueryPositions(round), VerifyRound(queries) PROVE Drawn'
  <2>1. pc = "check" /\ UNCHANGED <<setup, commitment, betas>>
    BY <1>12 DEF VerifyRound, Decide, messages
  <2>2. CASE UNCHANGED checked
    BY <1>1, <2>1, <2>2 DEF HasArrived
  <2>3. CASE checked' = Append(checked, queries)
    <3>1. checked \in Seq(AllDraws) /\ Len(checked) = round /\ round \in Nat
      BY <2>1 DEF FriInv, Checking, Setting
    <3>2. FoldingChallenges' = FoldingChallenges /\ \A r : QueryPositions(r)' = QueryPositions(r)
      BY <2>1 DEF FoldingChallenges, QueryPositions, DomainAt
    <3>3. \A r \in 0 .. Len(checked) - 1 : checked[r + 1] \in QueryPositions(r)
      BY <2>1 DEF Drawn, HasArrived
    <3>4. ASSUME NEW r \in 0 .. Len(checked') - 1 PROVE checked'[r + 1] \in QueryPositions(r)
      <4>1. Len(checked') = round + 1
        BY <2>3, <3>1
      <4>2. CASE r = round
        BY <2>3, <3>1, <4>2
      <4>3. CASE r # round
        <5>1. r \in 0 .. Len(checked) - 1 /\ r + 1 \in 1 .. Len(checked)
          BY <3>1, <4>1, <4>3
        <5>2. checked'[r + 1] = checked[r + 1]
          BY <2>3, <3>1, <5>1
        <5> QED
          BY <3>3, <5>1, <5>2
      <4> QED
        BY <4>2, <4>3
    <3> QED
      BY <2>1, <3>2, <3>4 DEF Drawn
  <2> QED
    BY <1>12, <2>2, <2>3 DEF VerifyRound
<1>13. CASE UNCHANGED vars
  <2>1. UNCHANGED <<pc, verdict, setup, commitment, betas, checked>>
    BY <1>13 DEF vars, messages
  <2> QED
    BY <1>1, <1>2, <2>1 DEF HasArrived
<1> QED
  BY <1>4, <1>5, <1>6, <1>7, <1>8, <1>9, <1>10, <1>11, <1>12, <1>13
     DEF Next, CommitRefuses, OpenRefuses, Return

(* What passes the verifier's test on the tables is consistent.            *)
LEMMA ConsistentQuery ==
  ASSUME RingLaws, FriInv, Validated, Arrived, Drawn, Accepted, pc = "done", Rounds > 0,
         Len(betas) = Rounds, NEW r \in 0 .. Rounds - 1,
         NEW child \in 0 .. DomainAt(r + 1).size - 1, TablesPass(r, child)
  PROVE  TablesConsistent(r, child)
<1> DEFINE m == DomainAt(r + 1).size
           d == DomainAt(r)
           points == FiberPoints(d, child, m, K)
           values == [o \in 0 .. K - 1 |-> ParentRoot(r)[child + o * m]]
           slot == Under(opening.oracle_roots[r + 1], m)[child]
           beta == betas[r + 1]
<1>1. verdict # "refused" /\ HasArrived
  BY DEF Accepted, HasArrived
<1>2. /\ Instance /\ \A s \in 0 .. Rounds : RoundFits(s)
      /\ \A s \in 0 .. Rounds - 1 : FoldFits(s)
  BY <1>1, InstanceFacts
<1>3. Rounds \in Nat /\ r \in Nat /\ r \in 0 .. Rounds /\ r + 1 \in 1 .. Rounds /\ r + 1 \in 0 .. Rounds
  BY <1>2 DEF Instance
<1>4. K \in Nat /\ K \in Nat \ {0} /\ K # 0
  BY <1>2 DEF Instance
<1>5. RoundFits(r) /\ RoundFits(r + 1) /\ FoldFits(r)
  BY <1>2, <1>3
<1>6. /\ IsDomain(d) /\ IsTeichmullerSubset(d) /\ d.size % K = 0 /\ m = d.size \div K
      /\ d.size \in Nat \ {0} /\ m \in Nat \ {0}
  BY <1>5 DEF RoundFits, FoldFits, IsDomain
<1>7. beta \in Ring
  <2>1. betas \in Seq(FoldingChallenges) /\ r + 1 \in 1 .. Len(betas)
    BY <1>3 DEF Drawn
  <2>2. beta \in FoldingChallenges
    BY <2>1
  <2> HIDE DEF beta
  <2> QED
    BY <2>2 DEF FoldingChallenges, TeichmullerSet
<1>8. /\ commitment.oracle_root \in Roots(DomainAt(0).size)
      /\ \A s \in 1 .. Rounds : opening.oracle_roots[s] \in Roots(DomainAt(s).size)
      /\ ClaimInRing(statement)
  BY <1>1 DEF Arrived, ClaimInRing
<1>9. ParentRoot(r) \in Roots(d.size)
  <2>1. CASE r = 0
    BY <1>8, <2>1 DEF ParentRoot
  <2>2. CASE r # 0
    <3>1. r \in 1 .. Rounds
      BY <1>3, <2>2
    <3> QED
      BY <1>8, <2>2, <3>1 DEF ParentRoot
  <2> QED
    BY <2>1, <2>2
<1>10. slot = opening.oracle_roots[r + 1][child] /\ slot \in Ring
  <2>1. opening.oracle_roots[r + 1] \in Roots(m)
    BY <1>3, <1>8
  <2>2. slot = opening.oracle_roots[r + 1][child]
    BY DEF Under
  <2> DEFINE root == opening.oracle_roots[r + 1]
  <2> HIDE DEF m, root
  <2>3. root[child] \in Ring
    BY <1>6, <2>1, RootEntries DEF m, root
  <2> QED
    BY <2>2, <2>3 DEF root
<1>11. points = FiberOf(d, child, m, K)
  BY DEF FiberPoints, FiberOf
<1>12. Apart(points, K)
  <2> HIDE DEF d, m, points
  <2>1. Apart(FiberOf(d, child, m, K), K)
    BY <1>4, <1>6, FiberApart DEF m
  <2> QED
    BY <1>11, <2>1
<1>13. values = FiberUnderRoot(r, child) /\ values = ValuesOnFiber(ParentRoot(r), child, m, K)
  BY DEF FiberUnderRoot, ValuesOnFiber
<1>14. \A o \in 0 .. K - 1 : values[o] \in Ring
  <2> DEFINE n == d.size
             t == ParentRoot(r)
  <2> HIDE DEF values, d, m, n, t
  <2>1. \A i \in 0 .. n - 1 : t[i] \in Ring
    BY <1>6, <1>9, RootEntries DEF n, t
  <2>2. n \in Nat \ {0} /\ n % K = 0 /\ m = n \div K /\ child \in 0 .. m - 1
    BY <1>6 DEF n, m
  <2>3. \A o \in 0 .. K - 1 : ValuesOnFiber(t, child, m, K)[o] \in Ring
    <3> DEFINE k == K
    <3>1. k \in Nat \ {0} /\ n % k = 0 /\ m = n \div k
      BY <1>4, <2>2
    <3> HIDE DEF k
    <3>2. \A o \in 0 .. k - 1 : ValuesOnFiber(t, child, m, k)[o] \in Ring
      <4> SUFFICES ASSUME NEW o \in 0 .. k - 1 PROVE ValuesOnFiber(t, child, m, k)[o] \in Ring
        OBVIOUS
      <4> QED
        BY <2>1, <2>2, <3>1, FiberValuesInRing
    <3> QED
      BY <3>2 DEF k
  <2> QED
    BY <1>13, <2>3 DEF t
<1>15. IF r = 0 THEN VerifyVirtualFiber(points, values, K, statement, beta, slot)
       ELSE VerifyExplicitFiber(points, values, K, beta, slot)
  <2> DEFINE c == opening.oracle_roots[r + 1][child]
  <2>1. IF r = 0 THEN VerifyVirtualFiber(points, FiberUnderRoot(r, child), K, statement, betas[1], c)
        ELSE VerifyExplicitFiber(points, FiberUnderRoot(r, child), K, betas[r + 1], c)
    BY DEF TablesPass
  <2>2. r = 0 => r + 1 = 1
    BY <1>3
  <2> HIDE DEF points, values, slot
  <2> QED
    BY <1>10, <1>13, <2>1, <2>2
<1> DEFINE quotients == DerivedValues(points, values, K, statement)
           A == {o \in 0 .. K - 1 : points[o] = statement.alpha}
<1>16. TablesConsistent(r, child) <=>
         IF r > 0 THEN FiberFoldsTo(points, values, beta, slot)
         ELSE IF A = {} THEN FiberFoldsTo(points, quotients, betas[1], slot)
         ELSE \A o \in A :
                /\ values[o] = statement.value
                /\ \E q \in Ring : FiberFoldsTo(points, [quotients EXCEPT ![o] = q], betas[1], slot)
  BY DEF TablesConsistent
<1>17. r = 0 => beta = betas[1]
  BY <1>3
<1> HIDE DEF points, values, slot, beta, m, d
<1>18. CASE r > 0
  <2>1. FoldEvalK(points, values, K, beta) = slot
    BY <1>3, <1>15, <1>18 DEF VerifyExplicitFiber
  <2>2. FoldEvalK(points, values, K, beta) = Evaluate(Interpolate(points, values, K), beta)
    BY <1>4, <1>7, <1>12, <1>14, FoldIsLagrange
  <2> QED
    BY <1>16, <1>18, <2>1, <2>2 DEF FiberFoldsTo
<1>19. CASE r = 0
  <2>1. VerifyVirtualFiber(points, values, K, statement, beta, slot)
    BY <1>15, <1>19
  <2>2. /\ A = {} => Evaluate(Interpolate(points, quotients, K), beta) = slot
        /\ \A o \in A :
             /\ values[o] = statement.value
             /\ \E q \in Ring :
                  Evaluate(Interpolate(points, [quotients EXCEPT ![o] = q], K), beta) = slot
    <3> DEFINE k == K
    <3>1. /\ k \in Nat /\ k # 0 /\ Apart(points, k) /\ \A i \in 0 .. k - 1 : values[i] \in Ring
          /\ ClaimInRing(statement) /\ beta \in Ring /\ slot \in Ring
          /\ VerifyVirtualFiber(points, values, k, statement, beta, slot)
      BY <1>4, <1>7, <1>8, <1>10, <1>12, <1>14, <2>1
    <3> HIDE DEF k
    <3>2. LET D == DerivedValues(points, values, k, statement)
              S == {i \in 0 .. k - 1 : points[i] = statement.alpha}
          IN  /\ S = {} => Evaluate(Interpolate(points, D, k), beta) = slot
              /\ \A o \in S :
                   /\ values[o] = statement.value
                   /\ \E q \in Ring :
                        Evaluate(Interpolate(points, [D EXCEPT ![o] = q], k), beta) = slot
      BY <3>1, VirtualFiberSound
    <3> QED
      BY <3>2 DEF k
  <2> QED
    BY <1>16, <1>17, <1>19, <2>2 DEF FiberFoldsTo
<1> QED
  BY <1>3, <1>18, <1>19

-----------------------------------------------------------------------------
(* The values, in any ring with the laws: what is inductive, with FriInv.  *)
RingInv == Validated /\ ClaimMade /\ RoundStarts /\ TablesMade /\ Arrived /\ Drawn

(* The tables, roots and challenges of every run are those of the prover   *)
(* and of the transcript, up to the damage.                                *)
LEMMA RingInvariance ==
  ASSUME RingLaws PROVE Spec => []RingInv
<1>1. Init => RingInv
  <2> SUFFICES ASSUME Init PROVE RingInv
    OBVIOUS
  <2>1. Drawn
    BY DEF Init, Drawn, HasArrived
  <2> QED
    BY <2>1 DEF Init, RingInv, Validated, ClaimMade, RoundStarts, TablesMade, Arrived, HasArrived
<1>2. FriInv /\ Committed /\ RingInv /\ [Next]_vars => RingInv'
  BY ValidatedKeeps, ClaimMadeKeeps, RoundStartsKeeps, TablesMadeKeeps, ArrivedKeeps, DrawnKeeps
     DEF RingInv
<1> QED
  BY <1>1, <1>2, Invariance, CommittedHolds, PTL DEF Spec

(* Soundness of the query phase: acceptance says that the tables under the *)
(* roots fold into each other at every position that was drawn.            *)
THEOREM AcceptedTablesConsistent ==
  ASSUME RingLaws PROVE Spec => []AcceptMeansConsistent
<1>1. ASSUME FriInv, RingInv PROVE AcceptMeansConsistent
  <2> SUFFICES ASSUME Accepted, Rounds > 0
               PROVE  /\ Len(checked) = Rounds /\ Len(betas) = Rounds
                      /\ \A r \in 0 .. Rounds - 1 :
                           \A child \in Positions(checked[r + 1]) : TablesConsistent(r, child)
    BY DEF AcceptMeansConsistent
  <2>1. Len(checked) = Rounds /\ Len(betas) = Rounds /\ AllPass(Rounds)
    BY <1>1 DEF FriInv, AcceptedTablesPass
  <2>2. pc = "done" /\ HasArrived
    BY <1>1 DEF FriInv, Accepted, HasArrived
  <2>3. ASSUME NEW r \in 0 .. Rounds - 1, NEW child \in Positions(checked[r + 1])
        PROVE  TablesConsistent(r, child)
    <3>1. TablesPass(r, child)
      BY <2>1, <2>3 DEF AllPass
    <3>2. checked[r + 1] \in QueryPositions(r)
      BY <1>1, <2>1, <2>2, <2>3 DEF RingInv, Drawn
    <3>3. child \in 0 .. DomainAt(r + 1).size - 1
      <4> DEFINE n == DomainAt(r + 1).size
      <4>1. checked[r + 1] \in [1 .. setup.repetition_count -> 0 .. n - 1]
        BY <3>2 DEF QueryPositions
      <4> HIDE DEF n
      <4>2. child \in 0 .. n - 1
        BY <2>3, <4>1 DEF Positions
      <4> QED
        BY <4>2 DEF n
    <3> QED
      BY <1>1, <2>1, <2>2, <2>3, <3>1, <3>3, ConsistentQuery DEF RingInv
  <2> QED
    BY <2>1, <2>3
<1> QED
  BY <1>1, Invariance, RingInvariance, PTL

-----------------------------------------------------------------------------
(* Without folding rounds *)

(* The points of a domain but alpha, their table entries, and the values   *)
(* of the quotient there.                                                  *)
OthersOf(x, N, claim) == {i \in 0 .. N - 1 : x[i] # claim.alpha}
CountOf(x, N, claim) == Cardinality(OthersOf(x, N, claim))
PickedOf(x, N, claim, f) ==
  [i \in 0 .. CountOf(x, N, claim) - 1 |-> f[Ascending(OthersOf(x, N, claim))[i + 1]]]

(* The verifier's test in these terms.                                     *)
LEMMA ZeroFoldIs ==
  ASSUME NEW domain, NEW table, NEW claim, NEW bound, NEW n, NEW points, NEW values,
         n = CountOf(domain.points, domain.size, claim),
         points = PickedOf(domain.points, domain.size, claim, domain.points),
         values = PickedOf(domain.points, domain.size, claim, table)
  PROVE  VerifyZeroFold(domain, table, claim, bound) <=>
           /\ \A i \in 0 .. domain.size - 1 : PointFits(domain.points[i], table[i], claim)
           /\ IF n = 0 THEN bound = 0
              ELSE Degree(Interpolate(points, DerivedValues(points, values, n, claim), n)) <= bound
  BY DEF VerifyZeroFold, CountOf, PickedOf, OthersOf

(* All but at most one of the points are others, each of them once.        *)
LEMMA OthersFacts ==
  ASSUME RingLaws, NEW N \in Nat, NEW x, Apart(x, N), NEW table,
         \A i \in 0 .. N - 1 : table[i] \in Ring, NEW claim, ClaimInRing(claim),
         NEW n, NEW points, NEW values,
         n = CountOf(x, N, claim), points = PickedOf(x, N, claim, x),
         values = PickedOf(x, N, claim, table)
  PROVE  /\ n \in Nat /\ N - 1 <= n /\ Apart(points, n)
         /\ \A i \in 0 .. n - 1 :
              /\ values[i] \in Ring /\ points[i] # claim.alpha
              /\ \E j \in 0 .. N - 1 : points[i] = x[j] /\ values[i] = table[j]
         /\ \A j \in 0 .. N - 1 : x[j] # claim.alpha =>
              \E i \in 0 .. n - 1 : points[i] = x[j] /\ values[i] = table[j]
<1> DEFINE S == OthersOf(x, N, claim)
           index == Ascending(S)
           at(i) == index[i + 1]
<1>1. S \in SUBSET (0 .. N - 1) /\ (\A i \in 0 .. N - 1 : i \in S <=> x[i] # claim.alpha)
  BY DEF OthersOf
<1>2. n = Cardinality(S) /\ index = Ascending(S)
  BY DEF CountOf
<1>3. /\ points = [i \in 0 .. n - 1 |-> x[at(i)]]
      /\ values = [i \in 0 .. n - 1 |-> table[at(i)]]
  BY DEF PickedOf
<1> HIDE DEF S, index
<1>4. /\ n \in Nat
      /\ \A i \in 0 .. n - 1 : index[i + 1] \in S
      /\ \A i, j \in 0 .. n - 1 : i # j => index[i + 1] # index[j + 1]
      /\ \A s \in S : \E i \in 0 .. n - 1 : index[i + 1] = s
  <2>1. NamesAll(index, n, S)
    BY <1>1, <1>2, AscendingNames
  <2> QED
    BY <2>1 DEF NamesAll
<1>5. /\ \A i \in 0 .. n - 1 : at(i) \in S /\ at(i) \in 0 .. N - 1
      /\ \A i, j \in 0 .. n - 1 : i # j => at(i) # at(j)
      /\ \A s \in S : \E i \in 0 .. n - 1 : at(i) = s
  BY <1>1, <1>4
<1> HIDE DEF at
<1>6. N - 1 <= n
  <2>1. IsFiniteSet(0 .. N - 1) /\ Cardinality(0 .. N - 1) = N
    BY FS_Interval
  <2>2. CASE S = 0 .. N - 1
    BY <1>2, <2>1, <2>2
  <2>3. CASE S # 0 .. N - 1
    <3>1. PICK o \in 0 .. N - 1 : o \notin S
      BY <1>1, <2>3
    <3>2. x[o] = claim.alpha
      BY <1>1, <3>1
    <3>3. S = (0 .. N - 1) \ {o}
      <4>1. ASSUME NEW i \in 0 .. N - 1, i # o PROVE i \in S
        <5>1. x[i] # claim.alpha
          BY <3>2, <4>1, AlphaOnce
        <5> QED
          BY <1>1, <5>1
      <4> QED
        BY <1>1, <3>1, <4>1
    <3>4. Cardinality(S) = N - 1
      BY <2>1, <3>3, FS_RemoveElement
    <3> QED
      BY <1>2, <3>4
  <2> QED
    BY <2>2, <2>3
<1>7. /\ \A i \in 0 .. N - 1 : x[i] \in Ring
      /\ \A i, j \in 0 .. N - 1 : i # j => IsUnit(Minus(x[i], x[j]))
  BY DEF Apart, Exceptional
<1>8. Apart(points, n)
  <2>1. \A i \in 0 .. n - 1 : points[i] \in Ring
    BY <1>3, <1>5, <1>7
  <2>2. \A i, j \in 0 .. n - 1 : i # j => IsUnit(Minus(points[i], points[j]))
    BY <1>3, <1>5, <1>7
  <2> QED
    BY <2>1, <2>2 DEF Apart, Exceptional
<1>9. \A i \in 0 .. n - 1 :
        /\ values[i] \in Ring /\ points[i] # claim.alpha
        /\ \E j \in 0 .. N - 1 : points[i] = x[j] /\ values[i] = table[j]
  <2> SUFFICES ASSUME NEW i \in 0 .. n - 1
               PROVE  /\ values[i] \in Ring /\ points[i] # claim.alpha
                      /\ \E j \in 0 .. N - 1 : points[i] = x[j] /\ values[i] = table[j]
    OBVIOUS
  <2>1. at(i) \in 0 .. N - 1 /\ at(i) \in S /\ points[i] = x[at(i)] /\ values[i] = table[at(i)]
    BY <1>3, <1>5
  <2> QED
    BY <1>1, <2>1
<1>10. ASSUME NEW j \in 0 .. N - 1, x[j] # claim.alpha
       PROVE  \E i \in 0 .. n - 1 : points[i] = x[j] /\ values[i] = table[j]
  <2>1. j \in S
    BY <1>1, <1>10
  <2>2. PICK i \in 0 .. n - 1 : at(i) = j
    BY <1>5, <2>1
  <2>3. points[i] = x[j] /\ values[i] = table[j]
    BY <1>3, <2>2
  <2> QED
    BY <2>3
<1> QED
  BY <1>4, <1>6, <1>8, <1>9, <1>10

(* Where the denominator is a unit, the quotient's value is the value's.   *)
LEMMA DerivedFits ==
  ASSUME RingLaws, NEW p \in Ring, NEW a \in Ring, NEW v \in Ring, NEW c \in Ring,
         IsUnit(Minus(p, a))
  PROVE  LET q == Times(Minus(c, v), Inv(Minus(p, a)))
         IN  /\ q \in Ring /\ Plus(Times(Minus(p, a), q), v) = c
             /\ \A w \in Ring : Plus(Times(Minus(p, a), w), v) = c => w = q
<1> DEFINE m == Minus(p, a)
           d == Minus(c, v)
           q == Times(d, Inv(m))
<1>1. m \in Ring /\ d \in Ring /\ Plus(d, v) = c /\ Inv(m) \in Ring /\ Times(m, Inv(m)) = OfInteger(1)
  BY InverseAssumption DEF RingLaws, Closed, Additive
<1> HIDE DEF m, d
<1>2. q \in Ring
  BY <1>1 DEF RingLaws, Closed
<1>3. Times(m, q) = d
  <2> DEFINE t == Inv(m)
  <2>1. t \in Ring /\ Times(m, t) = OfInteger(1)
    BY <1>1
  <2> HIDE DEF t
  <2>2. Times(m, Times(d, t)) = Times(d, Times(m, t))
    BY <1>1, <2>1 DEF RingLaws, Closed, Multiplicative
  <2>3. Times(m, Times(d, t)) = d
    BY <1>1, <2>1, <2>2 DEF RingLaws, Multiplicative
  <2> QED
    BY <2>3 DEF t
<1> HIDE DEF q
<1>4. ASSUME NEW w \in Ring, Plus(Times(m, w), v) = c PROVE w = q
  <2>1. Times(m, w) \in Ring
    BY <1>1 DEF RingLaws, Closed
  <2>2. Times(m, w) = d
    BY <1>1, <1>4, <2>1, SumCancels
  <2>3. IsUnit(m)
    BY DEF m
  <2> QED
    BY <1>1, <1>2, <1>3, <2>2, <2>3, UnitCancels
<1>5. Plus(Times(m, q), v) = c
  BY <1>1, <1>3
<1> QED
  BY <1>2, <1>4, <1>5 DEF q, m, d

(* The verifier's test, whoever sent the table: it is that of a polynomial *)
(* of degree at most bound + 1 which has the claimed value at alpha.       *)
LEMMA ZeroFoldSound ==
  ASSUME RingLaws, NEW d, IsDomain(d), IsTeichmullerSubset(d), NEW table,
         \A i \in 0 .. d.size - 1 : table[i] \in Ring, NEW claim, ClaimInRing(claim),
         NEW bound \in Nat, bound + 2 <= d.size, VerifyZeroFold(d, table, claim, bound)
  PROVE  LET f == Interpolate(d.points, table, d.size)
         IN  Degree(f) <= bound + 1 /\ Evaluate(f, claim.alpha) = claim.value
<1> DEFINE N == d.size
           x == d.points
           a == claim.alpha
           v == claim.value
           n == CountOf(x, N, claim)
           points == PickedOf(x, N, claim, x)
           values == PickedOf(x, N, claim, table)
           D == DerivedValues(points, values, n, claim)
           q == Interpolate(points, D, n)
           f == Interpolate(x, table, N)
<1>1. N \in Nat /\ Apart(x, N) /\ bound + 2 <= N /\ \A i \in 0 .. N - 1 : x[i] \in Ring
  BY DomainApart DEF IsDomain, Apart
<1>2. a \in Ring /\ v \in Ring
  BY DEF ClaimInRing
<1>3. /\ \A i \in 0 .. N - 1 : PointFits(x[i], table[i], claim)
      /\ IF n = 0 THEN bound = 0 ELSE Degree(q) <= bound
  BY ZeroFoldIs
<1>4. \A i \in 0 .. N - 1 : table[i] \in Ring
  OBVIOUS
<1> HIDE DEF N, x, n, points, values
<1>5. /\ n \in Nat /\ N - 1 <= n /\ Apart(points, n)
      /\ \A i \in 0 .. n - 1 :
           /\ values[i] \in Ring /\ points[i] # claim.alpha
           /\ \E j \in 0 .. N - 1 : points[i] = x[j] /\ values[i] = table[j]
      /\ \A j \in 0 .. N - 1 : x[j] # claim.alpha =>
           \E i \in 0 .. n - 1 : points[i] = x[j] /\ values[i] = table[j]
  BY <1>1, <1>4, OthersFacts DEF n, points, values
<1>6. \A i \in 0 .. n - 1 : points[i] \in Ring /\ values[i] \in Ring
  BY <1>5 DEF Apart
<1>7. \A i \in 0 .. n - 1 :
        D[i] \in Ring /\ D[i] = IF points[i] = a THEN 0 ELSE Times(Minus(values[i], v), Inv(Minus(points[i], a)))
  <2>1. n \in Nat /\ (\A i \in 0 .. n - 1 : points[i] \in Ring) /\ (\A i \in 0 .. n - 1 : values[i] \in Ring)
    BY <1>5, <1>6
  <2> HIDE DEF D
  <2>2. \A i \in 0 .. n - 1 :
          /\ D[i] \in Ring
          /\ D[i] = IF points[i] = claim.alpha THEN 0
                    ELSE Times(Minus(values[i], claim.value), Inv(Minus(points[i], claim.alpha)))
    <3>1. D = [i \in 0 .. n - 1 |->
                IF points[i] = a THEN 0 ELSE Times(Minus(values[i], v), Inv(Minus(points[i], a)))]
      BY DEF D, DerivedValues
    <3> HIDE DEF a, v
    <3>2. ASSUME NEW i \in 0 .. n - 1 PROVE D[i] \in Ring
      <4>1. Minus(values[i], v) \in Ring /\ Minus(points[i], a) \in Ring
        BY <1>2, <2>1 DEF RingLaws, Closed
      <4>2. Inv(Minus(points[i], a)) \in Ring /\ 0 \in Ring
        BY <4>1, InverseInRing DEF RingLaws, Closed
      <4>3. Times(Minus(values[i], v), Inv(Minus(points[i], a))) \in Ring
        BY <4>1, <4>2 DEF RingLaws, Closed
      <4> QED
        BY <3>1, <4>2, <4>3
    <3> QED
      BY <3>1, <3>2 DEF a, v
  <2> QED
    BY <2>2
<1> HIDE DEF D
<1>8. n # 0 /\ Degree(q) <= bound
  BY <1>1, <1>3, <1>5
<1>9. /\ IsPolynomial(q) /\ \A i \in 0 .. n - 1 : Evaluate(q, points[i]) = D[i]
  BY <1>5, <1>7, InterpolateFacts
<1>10. /\ IsPolynomial(f) /\ f.size <= N /\ Trimmed(f)
       /\ \A i \in 0 .. N - 1 : Evaluate(f, x[i]) = table[i]
  BY <1>1, <1>4, InterpolateFacts
<1> HIDE DEF q, f
<1>11. PICK g : /\ IsPolynomial(g) /\ g.size <= q.size + 1
                /\ \A z \in Ring : Evaluate(g, z) = Plus(Times(Minus(z, a), Evaluate(q, z)), v)
  BY <1>2, <1>9, LinearTimes
<1>12. q.size \in Nat /\ g.size \in Nat /\ f.size \in Nat
  BY <1>9, <1>10, <1>11 DEF IsPolynomial
<1>13. g.size <= bound + 2 /\ g.size <= N
  BY <1>1, <1>8, <1>11, <1>12 DEF Degree
<1>14. ASSUME NEW z \in Ring PROVE Evaluate(q, z) \in Ring /\ Evaluate(f, z) \in Ring
  BY <1>9, <1>10, EvaluateIsValue
<1>15. Evaluate(g, a) = v
  <2> DEFINE e == Evaluate(q, a)
  <2>1. e \in Ring /\ Minus(a, a) = 0
    BY <1>2, <1>14, DifferenceZero
  <2>2. Evaluate(g, a) = Plus(Times(Minus(a, a), e), v)
    BY <1>2, <1>11
  <2> HIDE DEF e
  <2>3. Times(0, e) = 0 /\ Plus(0, v) = v
    BY <1>2, <2>1, TimesZero DEF RingLaws, Closed, Additive
  <2> QED
    BY <2>1, <2>2, <2>3
<1>16. ASSUME NEW j \in 0 .. N - 1 PROVE Evaluate(f, x[j]) = Evaluate(g, x[j])
  <2>1. Evaluate(f, x[j]) = table[j] /\ PointFits(x[j], table[j], claim)
    BY <1>3, <1>10
  <2>2. CASE x[j] = a
    BY <1>15, <2>1, <2>2 DEF PointFits
  <2>3. CASE x[j] # a
    <3>1. PICK i \in 0 .. n - 1 : points[i] = x[j] /\ values[i] = table[j]
      BY <1>5, <2>3
    <3> DEFINE p == points[i]
               c == values[i]
               w == D[i]
    <3>2. p \in Ring /\ c \in Ring /\ w = Times(Minus(c, v), Inv(Minus(p, a)))
      BY <1>6, <1>7, <2>3, <3>1
    <3>3. IsUnit(Minus(p, a))
      BY <2>1, <2>3, <3>1 DEF PointFits
    <3>4. Evaluate(g, p) = Plus(Times(Minus(p, a), w), v)
      BY <1>9, <1>11, <3>2
    <3>5. p = x[j] /\ c = table[j]
      BY <3>1
    <3> HIDE DEF p, c, w
    <3>6. Plus(Times(Minus(p, a), w), v) = c
      BY <1>2, <3>2, <3>3, DerivedFits
    <3> QED
      BY <2>1, <3>4, <3>5, <3>6
  <2> QED
    BY <2>2, <2>3
<1>17. (\A z \in Ring : Evaluate(f, z) = Evaluate(g, z)) /\ f.size <= g.size
  BY <1>1, <1>10, <1>11, <1>13, <1>16, AgreeingPolynomials
<1>18. Degree(f) <= bound + 1
  BY <1>12, <1>13, <1>17 DEF Degree
<1> QED
  BY <1>2, <1>15, <1>17, <1>18 DEF f, x, N

(* And it lets the table of a polynomial with the claimed value pass.      *)
LEMMA ZeroFoldComplete ==
  ASSUME RingLaws, NEW d, IsDomain(d), IsTeichmullerSubset(d), NEW table,
         NEW claim, ClaimInRing(claim), IsTeichmuller(claim.alpha),
         NEW bound \in Nat, bound < d.size,
         NEW q, IsPolynomial(q), q.size <= bound + 1, q.size < d.size,
         \A i \in 0 .. d.size - 1 : table[i]
            = Plus(Times(Minus(d.points[i], claim.alpha), Evaluate(q, d.points[i])), claim.value)
  PROVE  VerifyZeroFold(d, table, claim, bound)
<1> DEFINE N == d.size
           x == d.points
           a == claim.alpha
           v == claim.value
           n == CountOf(x, N, claim)
           points == PickedOf(x, N, claim, x)
           values == PickedOf(x, N, claim, table)
           D == DerivedValues(points, values, n, claim)
           p == Interpolate(points, D, n)
<1>1. /\ N \in Nat /\ Apart(x, N)
      /\ \A i \in 0 .. N - 1 : x[i] \in Ring /\ x[i] \in TeichmullerSet
  BY DomainApart DEF IsDomain, Apart
<1>2. a \in Ring /\ v \in Ring /\ a \in TeichmullerSet
  BY DEF ClaimInRing, TeichmullerSet
<1>3. VerifyZeroFold(d, table, claim, bound) <=>
        /\ \A i \in 0 .. N - 1 : PointFits(x[i], table[i], claim)
        /\ IF n = 0 THEN bound = 0 ELSE Degree(p) <= bound
  BY ZeroFoldIs
<1>4. /\ bound < N /\ q.size < N /\ q.size \in Nat
      /\ \A i \in 0 .. N - 1 : table[i] = Plus(Times(Minus(x[i], a), Evaluate(q, x[i])), v)
  BY DEF IsPolynomial
<1> HIDE DEF N, x, n, points, values
<1>5. ASSUME NEW i \in 0 .. N - 1
      PROVE  /\ table[i] \in Ring /\ Evaluate(q, x[i]) \in Ring
             /\ x[i] # a => IsUnit(Minus(x[i], a))
             /\ x[i] = a => table[i] = v
  <2> DEFINE e == Evaluate(q, x[i])
             m == Minus(x[i], a)
  <2>1. e \in Ring /\ m \in Ring
    BY <1>1, <1>2, EvaluateIsValue DEF RingLaws, Closed
  <2>2. table[i] = Plus(Times(m, e), v)
    BY <1>4
  <2>3. x[i] # a => IsUnit(m)
    BY <1>1, <1>2, TeichmullerAssumption
  <2>4. x[i] = a => m = 0
    BY <1>1, <1>2, DifferenceZero
  <2> HIDE DEF e, m
  <2>5. table[i] \in Ring
    BY <1>2, <2>1, <2>2 DEF RingLaws, Closed
  <2>6. Times(0, e) = 0 /\ Plus(0, v) = v
    BY <1>2, <2>1, TimesZero DEF RingLaws, Closed, Additive
  <2>7. x[i] = a => table[i] = v
    BY <2>2, <2>4, <2>6
  <2> QED
    BY <2>1, <2>3, <2>5, <2>7 DEF e, m
<1>6. \A i \in 0 .. N - 1 : PointFits(x[i], table[i], claim)
  BY <1>5 DEF PointFits
<1>7. \A i \in 0 .. N - 1 : table[i] \in Ring
  BY <1>5
<1>8. /\ n \in Nat /\ N - 1 <= n /\ Apart(points, n)
      /\ \A i \in 0 .. n - 1 :
           /\ values[i] \in Ring /\ points[i] # claim.alpha
           /\ \E j \in 0 .. N - 1 : points[i] = x[j] /\ values[i] = table[j]
      /\ \A j \in 0 .. N - 1 : x[j] # claim.alpha =>
           \E i \in 0 .. n - 1 : points[i] = x[j] /\ values[i] = table[j]
  BY <1>1, <1>7, OthersFacts DEF n, points, values
<1>9. \A i \in 0 .. n - 1 : points[i] \in Ring /\ values[i] \in Ring
  BY <1>8 DEF Apart
<1>10. \A i \in 0 .. n - 1 :
         D[i] \in Ring /\ D[i] = IF points[i] = a THEN 0 ELSE Times(Minus(values[i], v), Inv(Minus(points[i], a)))
  <2>1. n \in Nat /\ (\A i \in 0 .. n - 1 : points[i] \in Ring) /\ (\A i \in 0 .. n - 1 : values[i] \in Ring)
    BY <1>8, <1>9
  <2> HIDE DEF D
  <2>2. \A i \in 0 .. n - 1 :
          /\ D[i] \in Ring
          /\ D[i] = IF points[i] = claim.alpha THEN 0
                    ELSE Times(Minus(values[i], claim.value), Inv(Minus(points[i], claim.alpha)))
    <3>1. D = [i \in 0 .. n - 1 |->
                IF points[i] = a THEN 0 ELSE Times(Minus(values[i], v), Inv(Minus(points[i], a)))]
      BY DEF D, DerivedValues
    <3> HIDE DEF a, v
    <3>2. ASSUME NEW i \in 0 .. n - 1 PROVE D[i] \in Ring
      <4>1. Minus(values[i], v) \in Ring /\ Minus(points[i], a) \in Ring
        BY <1>2, <2>1 DEF RingLaws, Closed
      <4>2. Inv(Minus(points[i], a)) \in Ring /\ 0 \in Ring
        BY <4>1, InverseInRing DEF RingLaws, Closed
      <4>3. Times(Minus(values[i], v), Inv(Minus(points[i], a))) \in Ring
        BY <4>1, <4>2 DEF RingLaws, Closed
      <4> QED
        BY <3>1, <4>2, <4>3
    <3> QED
      BY <3>1, <3>2 DEF a, v
  <2> QED
    BY <2>2
<1> HIDE DEF D
<1>11. /\ IsPolynomial(p) /\ p.size <= n /\ Trimmed(p)
       /\ \A i \in 0 .. n - 1 : Evaluate(p, points[i]) = D[i]
  BY <1>8, <1>10, InterpolateFacts
<1> HIDE DEF p
<1>12. ASSUME NEW i \in 0 .. n - 1 PROVE Evaluate(p, points[i]) = Evaluate(q, points[i])
  <2>1. PICK j \in 0 .. N - 1 : points[i] = x[j] /\ values[i] = table[j]
    BY <1>8
  <2> DEFINE y == points[i]
             c == values[i]
             w == Evaluate(q, y)
  <2>2. y \in Ring /\ c \in Ring /\ y # a
    BY <1>8, <1>9
  <2>3. w \in Ring /\ IsUnit(Minus(y, a)) /\ Plus(Times(Minus(y, a), w), v) = c
    BY <1>4, <1>5, <2>1, <2>2
  <2>4. D[i] = Times(Minus(c, v), Inv(Minus(y, a)))
    BY <1>10, <2>2
  <2>5. Evaluate(p, y) = D[i]
    BY <1>11
  <2> HIDE DEF y, c, w
  <2>6. w = Times(Minus(c, v), Inv(Minus(y, a)))
    BY <1>2, <2>2, <2>3, DerivedFits
  <2> QED
    BY <2>4, <2>5, <2>6 DEF w, y
<1>13. p.size <= q.size
  <2>1. q.size <= n
    BY <1>1, <1>4, <1>8
  <2> QED
    BY <1>8, <1>11, <1>12, <2>1, AgreeingPolynomials
<1>14. Degree(p) <= bound
  BY <1>4, <1>11, <1>13 DEF Degree, IsPolynomial
<1>15. n = 0 => bound = 0
  BY <1>1, <1>4, <1>8
<1> QED
  BY <1>3, <1>6, <1>14, <1>15

(* Acceptance without folding rounds is acceptance of the revealed table.  *)
AcceptedRevealed == Accepted /\ Rounds = 0 => RevealedHolds

(* Nothing else accepts, and afterwards nothing changes.                   *)
LEMMA AcceptedRevealedKeeps ==
  ASSUME FriInv, AcceptedRevealed, [Next]_vars
  PROVE  AcceptedRevealed'
<1>1. pc # "done" => verdict = "none"
  BY DEF FriInv
<1>2. ASSUME verdict' # "accept" PROVE AcceptedRevealed'
  BY <1>2 DEF AcceptedRevealed, Accepted
<1>3. ASSUME UNCHANGED <<setup, polynomial, commitment, statement, opening>>
      PROVE  Rounds' = Rounds /\ (RevealedHolds' <=> RevealedHolds)
  BY <1>3 DEF Rounds, ReducedBound, RevealedHolds
<1>4. ASSUME NEW stage, Refuse(stage) PROVE AcceptedRevealed'
  BY <1>2, <1>4 DEF Refuse
<1>5. CASE Commit
  BY <1>1, <1>2, <1>5 DEF Commit
<1>6. ASSUME NEW f, NEW alpha, Open(f, alpha) PROVE AcceptedRevealed'
  BY <1>1, <1>2, <1>6 DEF Open
<1>7. ASSUME NEW beta, NEW slip, FoldRound(beta, slip) PROVE AcceptedRevealed'
  BY <1>1, <1>2, <1>7 DEF FoldRound
<1>8. ASSUME NEW queries, QueryRound(queries) PROVE AcceptedRevealed'
  BY <1>1, <1>2, <1>8 DEF QueryRound
<1>9. ASSUME NEW kind, NEW f, NEW value, Deliver(kind) \/ Substitute(f, value)
      PROVE  AcceptedRevealed'
  BY <1>1, <1>2, <1>9 DEF Deliver, Substitute
<1>10. CASE VerifyRefuses
  BY <1>2, <1>10 DEF VerifyRefuses, Rejects, Decide
<1>11. CASE VerifyZeroRounds
  <2>1. UNCHANGED <<setup, polynomial, commitment, statement, opening>>
        /\ verdict' = IF RevealedHolds THEN "accept" ELSE "reject"
    BY <1>11 DEF VerifyZeroRounds, Decide, messages
  <2> QED
    BY <1>3, <2>1 DEF AcceptedRevealed, Accepted
<1>12. CASE VerifyStart
  BY <1>1, <1>2, <1>12 DEF VerifyStart
<1>13. ASSUME NEW beta, ReplayRound(beta) PROVE AcceptedRevealed'
  BY <1>1, <1>2, <1>13 DEF ReplayRound
<1>14. CASE CheckFinalOracle
  BY <1>1, <1>2, <1>14 DEF CheckFinalOracle, Rejects, Decide
<1>15. ASSUME NEW queries, VerifyRound(queries) PROVE AcceptedRevealed'
  <2>1. pc = "check" /\ UNCHANGED <<setup, polynomial, commitment, statement, opening>>
    BY <1>15 DEF VerifyRound, Decide, messages
  <2>2. Rounds' # 0
    BY <1>3, <2>1 DEF FriInv, Replayed
  <2> QED
    BY <2>2 DEF AcceptedRevealed
<1>16. CASE UNCHANGED vars
  <2>1. UNCHANGED <<verdict, setup, polynomial, commitment, statement, opening>>
    BY <1>16 DEF vars, messages
  <2> QED
    BY <1>3, <2>1 DEF AcceptedRevealed, Accepted
<1> QED
  BY <1>4, <1>5, <1>6, <1>7, <1>8, <1>9, <1>10, <1>11, <1>12, <1>13, <1>14, <1>15, <1>16
     DEF Next, CommitRefuses, OpenRefuses, Return

(* What acceptance of the revealed table says of the table under the root. *)
LEMMA ZeroRoundClaim ==
  ASSUME RingLaws, FriInv, Validated, Arrived, AcceptedRevealed,
         Accepted, Rounds = 0, commitment.domain.size > 1
  PROVE  LET n == commitment.domain.size
             f == Interpolate(commitment.domain.points, Under(commitment.oracle_root, n), n)
         IN  /\ Degree(f) <= IF commitment.degree_bound = 0 THEN 1 ELSE commitment.degree_bound
             /\ Evaluate(f, statement.alpha) = statement.value
<1> DEFINE d == commitment.domain
           n == d.size
           x == d.points
           u == Under(commitment.oracle_root, n)
           t == opening.revealed
           f == Interpolate(x, u, n)
           b == commitment.degree_bound
<1>1. pc = "done" /\ verdict # "refused" /\ HasArrived
  BY DEF FriInv, Accepted, HasArrived
<1>2. /\ IsDomain(d) /\ IsTeichmullerSubset(d) /\ b \in Nat /\ b < n
      /\ ReducedBound = (IF b = 0 THEN 0 ELSE b - 1) /\ DomainAt(0) = d /\ n \in Nat \ {0}
  BY <1>1, InstanceFacts DEF Instance, OpeningDegreeBound, IsDomain
<1>3. /\ Root(t) = commitment.oracle_root
      /\ VerifyZeroFold(d, t, statement, ReducedBound)
  BY DEF AcceptedRevealed, RevealedHolds
<1>4. t \in Tables(n) /\ ClaimInRing(statement)
  BY <1>1, <1>2 DEF Arrived, ClaimInRing
<1>5. DOMAIN t = 0 .. n - 1 /\ \A i \in 0 .. n - 1 : t[i] \in Ring
  BY <1>4 DEF Tables
<1>6. u = t
  <2> DEFINE root == commitment.oracle_root
  <2>1. n \in Nat /\ root = Root(t) /\ DOMAIN t = 0 .. n - 1
    BY <1>2, <1>3, <1>5
  <2>2. u = [i \in 0 .. n - 1 |-> root[i]]
    BY DEF Under
  <2>3. t = [i \in 0 .. n - 1 |-> t[i]]
    BY <1>4 DEF Tables
  <2> HIDE DEF root, n, u, t
  <2>4. \A i \in 0 .. n - 1 : root[i] = t[i]
    BY <2>1, RootHasTable
  <2> QED
    BY <2>2, <2>3, <2>4
<1>7. ReducedBound \in Nat /\ ReducedBound + 2 <= n
  BY <1>2
<1>8. Degree(f) <= ReducedBound + 1 /\ Evaluate(f, statement.alpha) = statement.value
  <2> DEFINE bound == ReducedBound
  <2>1. /\ bound \in Nat /\ bound + 2 <= d.size /\ VerifyZeroFold(d, t, statement, bound)
        /\ \A i \in 0 .. d.size - 1 : t[i] \in Ring
    BY <1>3, <1>5, <1>7
  <2> HIDE DEF bound, d, t
  <2>2. LET g == Interpolate(d.points, t, d.size)
        IN  Degree(g) <= bound + 1 /\ Evaluate(g, statement.alpha) = statement.value
    BY <1>2, <1>4, <2>1, ZeroFoldSound
  <2> QED
    BY <1>6, <2>2 DEF bound
<1>9. ReducedBound + 1 = IF b = 0 THEN 1 ELSE b
  BY <1>2
<1> QED
  BY <1>8, <1>9

(* Without folding rounds what the verifier accepts is true, whoever built *)
(* the table under the root: it is that of a polynomial which has the      *)
(* claimed value at the opening point, and within the bound, or linear     *)
(* where the bound is 0.                                                   *)
THEOREM ZeroRoundClaimsTrue ==
  ASSUME RingLaws PROVE Spec => []ZeroRoundClaimIsTrue
<1>1. Init => AcceptedRevealed
  BY DEF Init, AcceptedRevealed, Accepted
<1>2. FriInv /\ AcceptedRevealed /\ [Next]_vars => AcceptedRevealed'
  BY AcceptedRevealedKeeps
<1>3. FriInv /\ RingInv /\ AcceptedRevealed => ZeroRoundClaimIsTrue
  BY ZeroRoundClaim DEF RingInv, ZeroRoundClaimIsTrue
<1> QED
  BY <1>1, <1>2, <1>3, Invariance, RingInvariance, PTL DEF Spec

-----------------------------------------------------------------------------
(* An undamaged run *)

(* The polynomial whose table open folds: (f - value) / (X - alpha).       *)
IsQuotient(q) ==
  /\ IsPolynomial(q) /\ q.size <= ReducedBound + 1 /\ q.size < commitment.domain.size
  /\ \A z \in Ring :
       Evaluate(polynomial, z)
         = Plus(Times(Minus(z, statement.alpha), Evaluate(q, z)), statement.value)

(* The table that is folded in a round, and the one whose fibers are       *)
(* opened: the first quotient is not committed to.                         *)
RoundTable(q, r) == IF r = 0 THEN Encode(commitment.domain, q)
                    ELSE Under(opening.oracle_roots[r], DomainAt(r).size)
ParentTable(q, r) == IF r = 0 THEN HonestTable ELSE RoundTable(q, r)

FoldMark(r) == <<"squeeze", <<"fold", r>>>>
QueryMark(r) == <<"squeeze", <<"query", r>>>>

(* heard[r] is the transcript before round r, and FoldAsked(heard, r) what *)
(* the random oracle is asked for the round's challenge.                   *)
FoldAsked(heard, r) == Append(heard[r], FoldMark(r))

IsFolded(q, heard, r) ==
  LET beta == memo[FoldAsked(heard, r)]
  IN  /\ heard[r + 1] = heard[r] \o <<FoldMark(r), <<"root", opening.oracle_roots[r + 1]>>>>
      /\ FoldAsked(heard, r) \in DOMAIN memo /\ beta \in FoldingChallenges
      /\ RoundTable(q, r + 1) = FoldTableK(DomainAt(r), RoundTable(q, r), K, beta)
      /\ RoundTable(q, r + 1) \in Tables(DomainAt(r + 1).size)
      /\ opening.oracle_roots[r + 1] = Root(RoundTable(q, r + 1))

(* asked[r + 1] is what it is asked for the round's query positions.       *)
IsOpened(q, asked, r) ==
  LET drawn == memo[asked[r + 1]]
      n     == DomainAt(r + 1).size
  IN  /\ asked[r + 1] = Append(asked[r], QueryMark(r))
      /\ asked[r + 1] \in DOMAIN memo /\ drawn \in QueryPositions(r)
      /\ opening.rounds[r + 1] =
           [parent |-> OpenTree(ParentTable(q, r), ExpandFiberIndices(drawn, n, K)),
            child  |-> IF r + 1 = Rounds THEN NoProof
                       ELSE OpenTree(RoundTable(q, r + 1), Positions(drawn))]

Truthful ==
  /\ statement = opening.claim
  /\ statement.alpha \in Ring /\ IsTeichmuller(statement.alpha)
  /\ statement.value = Evaluate(polynomial, statement.alpha)
  /\ commitment.oracle_root = Root(HonestTable)
  /\ opening.revealed = IF Rounds = 0 THEN HonestTable ELSE <<>>

(* Where a party is in the transcript of its phase.                        *)
AtTranscript(heard, asked) ==
  /\ pc \in {"fold", "replay"} => transcript = heard[round]
  /\ pc \in {"query", "check"} => transcript = asked[round]
  /\ pc = "final" => transcript = heard[Rounds]
  /\ pc \in {"query", "replay", "check"} => round < Rounds

(* The message is the one of the quotient q, as far as it is made, and the *)
(* verifier draws what the prover drew.                                    *)
Follows(q, heard, asked) ==
  /\ Truthful /\ IsQuotient(q)
  /\ Made = (IF pc = "fold" THEN round ELSE Rounds)
  /\ \E S : opening.rounds \in Seq(S)
  /\ Len(opening.rounds) = (IF pc = "fold" THEN 0 ELSE IF pc = "query" THEN round ELSE Rounds)
  /\ heard[0] = ClaimTranscript(statement)
  /\ \A r \in 0 .. Made - 1 : IsFolded(q, heard, r)
  /\ pc # "fold" =>
       /\ asked[0] = heard[Rounds]
       /\ \A r \in 0 .. Len(opening.rounds) - 1 : IsOpened(q, asked, r)
       /\ opening.final_oracle = IF Rounds = 0 THEN <<>> ELSE RoundTable(q, Rounds)
  /\ AtTranscript(heard, asked)
  /\ pc \in {"fold", "query"} => tables[2] = RoundTable(q, 0)
  /\ pc \in {"replay", "final", "check"} =>
       \A r \in 0 .. Len(betas) - 1 : betas[r + 1] = memo[FoldAsked(heard, r)]

OnItsWay == pc \in {"fold", "query", "deliver", "verify", "replay", "final", "check"}

Undamaged ==
  damage = "none" => /\ verdict # "reject"
                     /\ OnItsWay => \E q, heard, asked : Follows(q, heard, asked)

(* The random oracle keeps its answers.                                    *)
Remembers == \A key \in DOMAIN memo : key \in DOMAIN memo' /\ memo'[key] = memo[key]

(* A squeeze is answered from the memory, or answered and remembered.      *)
LEMMA SqueezesRemember ==
  ASSUME NEW soFar, NEW label, NEW S, NEW v, Squeezes(soFar, label, S, v)
  PROVE  LET asked == Append(soFar, <<"squeeze", label>>)
         IN  /\ Remembers
             /\ asked \in DOMAIN memo' /\ memo'[asked] = v
             /\ asked \in DOMAIN memo => v = memo[asked]
<1> DEFINE asked == Append(soFar, <<"squeeze", label>>)
<1>1. /\ IF asked \in DOMAIN memo THEN v = memo[asked] ELSE v \in S
      /\ memo' = [key \in DOMAIN memo \cup {asked} |-> IF key = asked THEN v ELSE memo[key]]
  BY DEF Squeezes
<1> HIDE DEF asked
<1>2. asked \in DOMAIN memo' /\ memo'[asked] = v /\ (asked \in DOMAIN memo => v = memo[asked])
  BY <1>1
<1>3. Remembers
  BY <1>1 DEF Remembers
<1> QED
  BY <1>2, <1>3 DEF asked

(* What was folded and opened stays so when the message grows.             *)
LEMMA FoldedStays ==
  ASSUME Remembers, UNCHANGED <<setup, commitment>>, NEW q, NEW heard, NEW heard2, NEW r \in Nat,
         heard2[r] = heard[r], heard2[r + 1] = heard[r + 1],
         opening'.oracle_roots[r + 1] = opening.oracle_roots[r + 1],
         r # 0 => opening'.oracle_roots[r] = opening.oracle_roots[r],
         IsFolded(q, heard, r)
  PROVE  IsFolded(q, heard2, r)' /\ memo'[FoldAsked(heard2, r)] = memo[FoldAsked(heard, r)]
<1>1. FoldAsked(heard2, r) = FoldAsked(heard, r)
  BY DEF FoldAsked
<1>2. K' = K /\ DomainAt(r)' = DomainAt(r) /\ DomainAt(r + 1)' = DomainAt(r + 1)
      /\ FoldingChallenges' = FoldingChallenges
  BY DEF DomainAt, K, FoldingChallenges
<1>3. RoundTable(q, r)' = RoundTable(q, r) /\ RoundTable(q, r + 1)' = RoundTable(q, r + 1)
  <2>1. r + 1 # 0
    OBVIOUS
  <2> QED
    BY <1>2, <2>1 DEF RoundTable
<1>4. /\ FoldAsked(heard, r) \in DOMAIN memo'
      /\ memo'[FoldAsked(heard, r)] = memo[FoldAsked(heard, r)]
  BY DEF IsFolded, Remembers
<1> QED
  BY <1>1, <1>2, <1>3, <1>4 DEF IsFolded

(* An opening that answered a squeeze of the past answers it still.        *)
LEMMA OpenedStays ==
  ASSUME Remembers, UNCHANGED <<setup, polynomial, commitment>>, NEW q, NEW asked, NEW asked2,
         NEW r \in Nat, asked2[r] = asked[r], asked2[r + 1] = asked[r + 1],
         opening'.oracle_roots = opening.oracle_roots,
         opening'.rounds[r + 1] = opening.rounds[r + 1],
         IsOpened(q, asked, r)
  PROVE  IsOpened(q, asked2, r)'
<1>1. /\ K' = K /\ DomainAt(r + 1)' = DomainAt(r + 1) /\ QueryPositions(r)' = QueryPositions(r)
      /\ Rounds' = Rounds
  BY DEF DomainAt, K, QueryPositions, Rounds, ReducedBound
<1>2. RoundTable(q, r + 1)' = RoundTable(q, r + 1) /\ ParentTable(q, r)' = ParentTable(q, r)
  BY DEF RoundTable, ParentTable, HonestTable, DomainAt
<1>3. asked[r + 1] \in DOMAIN memo' /\ memo'[asked[r + 1]] = memo[asked[r + 1]]
  BY DEF IsOpened, Remembers
<1> QED
  BY <1>1, <1>2, <1>3 DEF IsOpened

(* Opening the committed polynomial starts such a run.                     *)
LEMMA OpenFollows ==
  ASSUME RingLaws, FriInv, Validated, Committed, RoundStarts,
         NEW f \in Polynomials, NEW alpha \in OpeningPoints, Open(f, alpha)
  PROVE  \E q, heard, asked : Follows(q, heard, asked)'
<1> DEFINE d == commitment.domain
           b == commitment.degree_bound
           v == Evaluate(f, alpha)
<1>1. /\ pc = "open" /\ MayOpen(f, alpha) /\ statement' = [alpha |-> alpha, value |-> v]
      /\ pc' = IF Rounds = 0 THEN "deliver" ELSE "fold"
      /\ UNCHANGED <<setup, polynomial, commitment, memo, round>>
      /\ tables' = <<Encode(d, f), Encode(d, QuotientAt(f, alpha, v))>>
      /\ transcript' = ClaimTranscript(statement')
  BY DEF Open
<1>2. /\ opening'.claim = statement' /\ opening'.oracle_roots = <<>> /\ opening'.rounds = <<>>
      /\ opening'.final_oracle = <<>>
      /\ opening'.revealed = IF Rounds = 0 THEN Encode(d, f) ELSE <<>>
  BY DEF Open, NoOpening
<1>3. Rounds' = Rounds /\ ReducedBound' = ReducedBound /\ HonestTable' = HonestTable
      /\ (\A r : DomainAt(r)' = DomainAt(r)) /\ Made' = 0 /\ round' = 0
  BY <1>1, <1>2 DEF Rounds, ReducedBound, HonestTable, DomainAt, Made, RoundStarts
<1>4. verdict # "refused"
  BY <1>1 DEF FriInv
<1>5. /\ d.size \in Nat \ {0} /\ b \in Nat /\ b < d.size /\ ReducedBound = (IF b = 0 THEN 0 ELSE b - 1)
      /\ Rounds \in Nat
  BY <1>1, <1>4, InstanceFacts DEF Instance, OpeningDegreeBound, IsDomain
<1>6. alpha \in Ring /\ IsPolynomial(f) /\ IsTeichmuller(alpha) /\ f.size \in Nat /\ f.size <= b + 1
  BY <1>1, <1>5, InputsAssumption, InputFacts DEF MayOpen, IsPolynomial, Degree
<1>7. /\ commitment.oracle_root = Root(HonestTable) /\ Encode(d, f) = HonestTable
      /\ \A z \in Ring : Evaluate(f, z) = Evaluate(polynomial, z)
  BY <1>1, OpenedIsCommitted
<1>8. PICK q : q = QuotientAt(f, alpha, v)
  OBVIOUS
<1>9. /\ IsPolynomial(q) /\ (q.size = 0 \/ q.size + 1 <= f.size)
      /\ \A z \in Ring : Evaluate(f, z) = Plus(Times(Minus(z, alpha), Evaluate(q, z)), v)
  BY <1>6, <1>8, QuotientFacts
<1>10. IsQuotient(q)'
  <2>1. q.size \in Nat
    BY <1>9 DEF IsPolynomial
  <2>2. q.size <= ReducedBound + 1 /\ q.size < d.size
    BY <1>5, <1>6, <1>9, <2>1
  <2>3. \A z \in Ring : Evaluate(polynomial, z) = Plus(Times(Minus(z, alpha), Evaluate(q, z)), v)
    BY <1>7, <1>9
  <2>4. statement'.alpha = alpha /\ statement'.value = v
    BY <1>1
  <2> QED
    BY <1>1, <1>3, <1>9, <2>2, <2>3, <2>4 DEF IsQuotient
<1>11. Truthful'
  <2>1. statement'.alpha = alpha /\ statement'.value = v /\ v = Evaluate(polynomial, alpha)
    BY <1>1, <1>6, <1>7
  <2> QED
    BY <1>1, <1>2, <1>3, <1>6, <1>7, <2>1 DEF Truthful
<1>12. PICK heard : heard = [r \in {0} |-> transcript']
  OBVIOUS
<1>13. /\ heard[0] = transcript' /\ pc' \in {"fold", "deliver"} /\ (pc' = "deliver" <=> Rounds = 0)
       /\ transcript' = ClaimTranscript(statement)'
  BY <1>1, <1>12 DEF ClaimTranscript
<1>14. tables'[2] = RoundTable(q, 0)'
  BY <1>1, <1>8 DEF RoundTable
<1>15. (\E S : opening'.rounds \in Seq(S)) /\ Len(opening'.rounds) = 0
  <2>1. opening'.rounds \in Seq({})
    BY <1>2
  <2> QED
    BY <1>2, <2>1
<1>16. AtTranscript(heard, heard)'
  BY <1>3, <1>13 DEF AtTranscript
<1>17. Follows(q, heard, heard)'
  <2>1. Made' = IF pc' = "fold" THEN round' ELSE Rounds'
    BY <1>3, <1>13
  <2>2. Len(opening'.rounds) = IF pc' = "fold" THEN 0 ELSE IF pc' = "query" THEN round' ELSE Rounds'
    BY <1>3, <1>13, <1>15
  <2>3. \A r \in 0 .. Made' - 1 : IsFolded(q, heard, r)'
    BY <1>3
  <2>4. pc' # "fold" => /\ heard[0] = heard[Rounds']
                        /\ \A r \in 0 .. Len(opening'.rounds) - 1 : IsOpened(q, heard, r)'
                        /\ opening'.final_oracle = IF Rounds' = 0 THEN <<>> ELSE RoundTable(q, Rounds)'
    BY <1>2, <1>3, <1>13, <1>15
  <2> QED
    BY <1>10, <1>11, <1>13, <1>14, <1>15, <1>16, <2>1, <2>2, <2>3, <2>4 DEF Follows
<1> QED
  BY <1>17

(* The prover's tables are those of the message.                           *)
LEMMA TableHeld ==
  ASSUME RingLaws, FriInv, Validated, TablesMade, pc \in {"fold", "query"},
         NEW q, NEW heard, NEW asked, Follows(q, heard, asked), NEW r \in 0 .. Made
  PROVE  RoundTable(q, r) = tables[r + 2] /\ ParentTable(q, r) = tables[IF r = 0 THEN 1 ELSE r + 2]
<1>1. /\ \A s \in 0 .. Made : tables[s + 2] \in Tables(DomainAt(s).size)
      /\ \A s \in 1 .. Made : opening.oracle_roots[s] = Root(tables[s + 2])
      /\ tables[1] = HonestTable
      /\ IF pc = "fold" THEN Made = round /\ round < Rounds ELSE Made = Rounds
  BY DEF TablesMade
<1>2. verdict # "refused"
  BY DEF FriInv
<1>3. Rounds \in Nat /\ round \in Nat /\ \A s \in 0 .. Rounds : DomainAt(s).size \in Nat \ {0}
  BY <1>2, InstanceFacts DEF Instance, FriInv, Setting, RoundFits, IsDomain
<1>4. RoundTable(q, r) = tables[r + 2]
  <2>1. CASE r = 0
    <3>1. tables[2] = RoundTable(q, 0)
      BY DEF Follows
    <3>2. r + 2 = 2
      BY <2>1
    <3> QED
      BY <2>1, <3>1, <3>2
  <2>2. CASE r # 0
    <3> DEFINE t == tables[r + 2]
               m == DomainAt(r).size
    <3>1. r \in 1 .. Made /\ r \in 0 .. Rounds
      BY <1>1, <1>3, <2>2
    <3>2. t \in Tables(m) /\ opening.oracle_roots[r] = Root(t) /\ m \in Nat \ {0}
      BY <1>1, <1>3, <3>1
    <3> HIDE DEF t
    <3>3. RoundTable(q, r) = [i \in 0 .. m - 1 |-> opening.oracle_roots[r][i]]
      BY <2>2 DEF RoundTable, Under
    <3> HIDE DEF m
    <3>4. \A i \in 0 .. m - 1 : opening.oracle_roots[r][i] = t[i]
      BY <3>2, RootInRing
    <3>5. t = [i \in 0 .. m - 1 |-> t[i]]
      BY <3>2 DEF Tables
    <3> QED
      BY <3>3, <3>4, <3>5 DEF t
  <2> QED
    BY <2>1, <2>2
<1> QED
  BY <1>1, <1>4 DEF ParentTable

(* Each folding is one more step of it.                                    *)
LEMMA FoldFollows ==
  ASSUME RingLaws, FriInv, Validated, TablesMade, NEW beta \in FoldingChallenges,
         FoldRound(beta, FALSE), NEW q, NEW heard, NEW asked, Follows(q, heard, asked)
  PROVE  \E heard2, asked2 : Follows(q, heard2, asked2)'
<1> DEFINE table == FoldTableK(DomainAt(round), tables[round + 2], K, beta)
           last  == round + 1 = Rounds
           roots == opening.oracle_roots
           root  == Root(table)
           n     == DomainAt(round + 1).size
<1>1. /\ pc = "fold" /\ Squeezes(transcript, <<"fold", round>>, FoldingChallenges, beta)
      /\ transcript' = transcript \o <<FoldMark(round), <<"root", root>>>>
      /\ tables' = Append(tables, table)
      /\ opening' = [opening EXCEPT !.oracle_roots = Append(@, root),
                                    !.final_oracle = IF last THEN table ELSE @]
      /\ round' = IF last THEN 0 ELSE round + 1
      /\ pc' = IF last THEN "query" ELSE "fold"
      /\ UNCHANGED <<setup, polynomial, commitment, statement>>
  BY DEF FoldRound, FoldMark
<1>2. table \in Tables(n) /\ n \in Nat \ {0}
  <2> HIDE DEF table
  <2>1. table \in Tables(n) /\ n \in Nat \ {0}
    BY <1>1, FoldGivesTable DEF table
  <2> QED
    BY <2>1
<1>3. /\ tables \in Seq(AnyTable) /\ roots \in Seq(AnyTable) /\ Len(tables) = round + 2
      /\ Made = round /\ round < Rounds /\ Len(roots) = round
      /\ tables[1] = HonestTable
      /\ \A r \in 0 .. Made : tables[r + 2] \in Tables(DomainAt(r).size)
      /\ \A r \in 1 .. Made : roots[r] = Root(tables[r + 2])
  BY <1>1 DEF TablesMade, Made
<1>4. verdict # "refused"
  BY <1>1 DEF FriInv
<1>5. round \in Nat /\ Rounds \in Nat /\ \A r \in 0 .. Rounds : DomainAt(r).size \in Nat \ {0}
  BY <1>1, <1>4, InstanceFacts DEF Instance, FriInv, Setting, RoundFits, IsDomain
<1>6. Rounds' = Rounds /\ ReducedBound' = ReducedBound /\ HonestTable' = HonestTable /\ K' = K
      /\ (\A r : DomainAt(r)' = DomainAt(r))
  BY <1>1 DEF Rounds, ReducedBound, HonestTable, DomainAt, K
<1>7. /\ opening'.oracle_roots = Append(roots, root)
      /\ opening'.final_oracle = IF last THEN table ELSE opening.final_oracle
      /\ opening'.claim = opening.claim /\ opening'.revealed = opening.revealed
      /\ opening'.rounds = opening.rounds
  BY <1>1 DEF FriInv, Parts
<1> HIDE DEF table, n
<1>8. root \in AnyTable /\ table \in AnyTable /\ DOMAIN table = 0 .. n - 1
      /\ \A i \in 0 .. n - 1 : root[i] = table[i]
  BY <1>2, RootInRing DEF Tables
<1> HIDE DEF root
<1>9. /\ Made' = round + 1
      /\ \A i \in 1 .. round + 2 : tables'[i] = tables[i]
      /\ \A i \in 1 .. round : opening'.oracle_roots[i] = roots[i]
      /\ opening'.oracle_roots[round + 1] = root
  BY <1>1, <1>3, <1>5, <1>7, <1>8 DEF Made
<1>10. RoundTable(q, round) = tables[round + 2]
  BY <1>1, <1>3, <1>5, TableHeld
<1>11. PICK i : i = round
  OBVIOUS
<1>12. i \in Nat /\ i + 1 # 0 /\ i + 1 = round + 1 /\ i \in 0 .. Rounds - 1 /\ i + 1 \in 1 .. Rounds
  BY <1>3, <1>5, <1>11
<1>13. RoundTable(q, i + 1)' = table /\ RoundTable(q, i)' = RoundTable(q, i)
  <2>1. RoundTable(q, i + 1)' = Under(opening'.oracle_roots[i + 1], n)
    BY <1>6, <1>11, <1>12 DEF RoundTable, n, Under
  <2>2. opening'.oracle_roots[i + 1] = root
    BY <1>9, <1>11
  <2>3. Under(root, n) = [j \in 0 .. n - 1 |-> root[j]]
    BY DEF Under
  <2>4. table = [j \in 0 .. n - 1 |-> table[j]]
    BY <1>2 DEF Tables
  <2>5. Under(root, n) = table
    BY <1>8, <2>3, <2>4
  <2>6. i # 0 => opening'.oracle_roots[i] = opening.oracle_roots[i]
    BY <1>9, <1>11, <1>12
  <2>7. RoundTable(q, i)' = RoundTable(q, i)
    <3>1. DomainAt(i)' = DomainAt(i) /\ commitment' = commitment
      BY <1>1, <1>6
    <3> QED
      BY <2>6, <3>1 DEF RoundTable
  <2> QED
    BY <2>1, <2>2, <2>5, <2>7
<1>14. PICK heard2 : heard2 = [r \in 0 .. i + 1 |-> IF r <= i THEN heard[r] ELSE transcript']
  OBVIOUS
<1>15. (\A r \in 0 .. i : heard2[r] = heard[r]) /\ heard2[i + 1] = transcript'
  BY <1>12, <1>14
<1>16. transcript = heard[i] /\ Remembers /\ FoldAsked(heard2, i) \in DOMAIN memo'
       /\ memo'[FoldAsked(heard2, i)] = beta
  <2>1. transcript = heard[i]
    BY <1>1, <1>11 DEF Follows, AtTranscript
  <2>2. FoldAsked(heard2, i) = Append(transcript, <<"squeeze", <<"fold", round>>>>)
    BY <1>11, <1>12, <1>15, <2>1 DEF FoldAsked, FoldMark
  <2> DEFINE asks == Append(transcript, <<"squeeze", <<"fold", round>>>>)
  <2>3. Squeezes(transcript, <<"fold", round>>, FoldingChallenges, beta)
    BY <1>1
  <2>4. Remembers /\ asks \in DOMAIN memo' /\ memo'[asks] = beta
    BY <2>3, SqueezesRemember
  <2> QED
    BY <2>1, <2>2, <2>4
<1>17. IsFolded(q, heard2, i)'
  <2>1. heard2[i + 1] = heard2[i] \o <<FoldMark(i), <<"root", opening'.oracle_roots[i + 1]>>>>
    <3>1. heard2[i + 1] = transcript \o <<FoldMark(i), <<"root", root>>>>
      BY <1>1, <1>11, <1>15
    <3>2. heard2[i] = transcript /\ opening'.oracle_roots[i + 1] = root
      BY <1>9, <1>11, <1>12, <1>15, <1>16
    <3> QED
      BY <3>1, <3>2
  <2>2. FoldingChallenges' = FoldingChallenges /\ beta \in FoldingChallenges
    BY DEF FoldingChallenges
  <2>3. table = FoldTableK(DomainAt(i), RoundTable(q, i), K, beta)
    BY <1>10, <1>11 DEF table
  <2>4. table \in Tables(DomainAt(i + 1).size)
    BY <1>2, <1>11 DEF n
  <2>5. opening'.oracle_roots[i + 1] = Root(table)
    BY <1>9, <1>11 DEF root
  <2>6. FoldAsked(heard2, i)' = FoldAsked(heard2, i)
    OBVIOUS
  <2>7. DomainAt(i)' = DomainAt(i) /\ DomainAt(i + 1)' = DomainAt(i + 1) /\ K' = K
    BY <1>6
  <2> HIDE DEF K
  <2> QED
    BY <1>13, <1>16, <2>1, <2>2, <2>3, <2>4, <2>5, <2>7 DEF IsFolded
<1>18. ASSUME NEW r \in 0 .. Made' - 1 PROVE IsFolded(q, heard2, r)'
  <2>1. CASE r = i
    BY <1>17, <2>1
  <2>2. CASE r # i
    <3>1. r \in Nat /\ r \in 0 .. Made - 1 /\ r \in 0 .. i /\ r + 1 \in 0 .. i /\ r + 1 \in 1 .. round
          /\ (r # 0 => r \in 1 .. round)
      BY <1>3, <1>9, <1>11, <1>12, <2>2
    <3>2. IsFolded(q, heard, r)
      BY <3>1 DEF Follows
    <3>3. heard2[r] = heard[r] /\ heard2[r + 1] = heard[r + 1]
          /\ opening'.oracle_roots[r + 1] = opening.oracle_roots[r + 1]
          /\ (r # 0 => opening'.oracle_roots[r] = opening.oracle_roots[r])
      BY <1>9, <1>15, <3>1
    <3>4. UNCHANGED <<setup, commitment>>
      BY <1>1
    <3> QED
      BY <1>16, <3>1, <3>2, <3>3, <3>4, FoldedStays
  <2> QED
    BY <2>1, <2>2
<1>19. PICK asked2 : asked2 = [r \in {0} |-> transcript']
  OBVIOUS
<1>20. Truthful' /\ IsQuotient(q)'
  <2>1. Truthful /\ IsQuotient(q)
    BY DEF Follows
  <2>2. Truthful'
    BY <1>1, <1>6, <1>7, <2>1 DEF Truthful
  <2>3. IsQuotient(q)'
    BY <1>1, <1>6, <2>1 DEF IsQuotient
  <2> QED
    BY <2>2, <2>3
<1>21. /\ heard2[0] = ClaimTranscript(statement)'
       /\ Made' = (IF pc' = "fold" THEN round' ELSE Rounds')
       /\ (\E S : opening'.rounds \in Seq(S)) /\ Len(opening'.rounds) = 0
  <2>1. heard[0] = ClaimTranscript(statement) /\ (\E S : opening.rounds \in Seq(S))
        /\ Len(opening.rounds) = 0
    BY <1>1 DEF Follows
  <2>2. ClaimTranscript(statement)' = ClaimTranscript(statement)
    BY <1>1 DEF ClaimTranscript
  <2>3. 0 \in 0 .. i
    BY <1>12
  <2> QED
    BY <1>1, <1>6, <1>7, <1>9, <1>15, <2>1, <2>2, <2>3
<1>22. pc' = "query" => /\ heard2[Rounds'] = asked2[0]
                        /\ opening'.final_oracle = RoundTable(q, Rounds)' /\ Rounds' # 0
                        /\ round' = 0
  <2>1. pc' = "query" => last /\ Rounds = i + 1 /\ round' = 0
    BY <1>1, <1>11
  <2>2. ASSUME pc' = "query" PROVE RoundTable(q, Rounds)' = RoundTable(q, i + 1)'
    BY <1>6, <1>12, <2>1, <2>2 DEF RoundTable
  <2> QED
    BY <1>6, <1>7, <1>12, <1>13, <1>15, <1>19, <2>1, <2>2
<1>23. AtTranscript(heard2, asked2)'
  <2>1. pc' = "fold" => round' = i + 1
    BY <1>1, <1>11
  <2>2. pc' = "query" => round' = 0 /\ 0 < Rounds'
    BY <1>5, <1>6, <1>22
  <2>3. asked2[0] = transcript'
    BY <1>19
  <2> QED
    BY <1>1, <1>15, <2>1, <2>2, <2>3 DEF AtTranscript
<1>24. tables'[2] = RoundTable(q, 0)'
  <2>1. tables[2] = RoundTable(q, 0)
    BY <1>1 DEF Follows
  <2>2. 2 \in 1 .. round + 2
    BY <1>5
  <2>3. tables'[2] = tables[2]
    BY <1>9, <2>2
  <2> QED
    BY <1>1, <2>1, <2>3 DEF RoundTable
<1>25. Follows(q, heard2, asked2)'
  <2>1. pc' \in {"fold", "query"}
    BY <1>1
  <2>2. Len(opening'.rounds) = IF pc' = "fold" THEN 0 ELSE IF pc' = "query" THEN round' ELSE Rounds'
    BY <1>21, <1>22, <2>1
  <2>3. pc' # "fold" => /\ asked2[0] = heard2[Rounds']
                        /\ \A r \in 0 .. Len(opening'.rounds) - 1 : IsOpened(q, asked2, r)'
                        /\ opening'.final_oracle = IF Rounds' = 0 THEN <<>> ELSE RoundTable(q, Rounds)'
    BY <1>21, <1>22, <2>1
  <2> QED
    BY <1>18, <1>20, <1>21, <1>23, <1>24, <2>1, <2>2, <2>3 DEF Follows
<1> QED
  BY <1>25

(* And so is each round of openings.                                       *)
LEMMA QueryFollows ==
  ASSUME RingLaws, FriInv, Validated, TablesMade, NEW queries \in QueryPositions(round),
         QueryRound(queries), NEW q, NEW heard, NEW asked, Follows(q, heard, asked)
  PROVE  \E heard2, asked2 : Follows(q, heard2, asked2)'
<1> DEFINE last   == round + 1 = Rounds
           parent == tables[IF round = 0 THEN 1 ELSE round + 2]
           fibers == ExpandFiberIndices(queries, DomainAt(round + 1).size, K)
           opened == [parent |-> OpenTree(parent, fibers),
                      child  |-> IF last THEN NoProof ELSE OpenTree(tables[round + 3], Positions(queries))]
<1>1. /\ pc = "query" /\ Squeezes(transcript, <<"query", round>>, QueryPositions(round), queries)
      /\ transcript' = Append(transcript, QueryMark(round))
      /\ opening' = [opening EXCEPT !.rounds = Append(@, opened)]
      /\ round' = IF last THEN 0 ELSE round + 1
      /\ pc' = IF last THEN "deliver" ELSE "query"
      /\ UNCHANGED <<setup, polynomial, commitment, statement, tables>>
  BY DEF QueryRound, QueryMark
<1>2. /\ opening'.rounds = Append(opening.rounds, opened)
      /\ opening'.oracle_roots = opening.oracle_roots
      /\ opening'.final_oracle = opening.final_oracle
      /\ opening'.claim = opening.claim /\ opening'.revealed = opening.revealed
  BY <1>1 DEF FriInv, Parts
<1> HIDE DEF opened
<1>3. verdict # "refused"
  BY <1>1 DEF FriInv
<1>4. round \in Nat /\ Rounds \in Nat
  BY <1>1, <1>3, InstanceFacts DEF Instance, FriInv, Setting
<1>5. /\ Truthful /\ IsQuotient(q) /\ Made = Rounds /\ (\E S : opening.rounds \in Seq(S))
      /\ Len(opening.rounds) = round /\ heard[0] = ClaimTranscript(statement)
      /\ \A r \in 0 .. Made - 1 : IsFolded(q, heard, r)
      /\ asked[0] = heard[Rounds]
      /\ \A r \in 0 .. round - 1 : IsOpened(q, asked, r)
      /\ opening.final_oracle = IF Rounds = 0 THEN <<>> ELSE RoundTable(q, Rounds)
      /\ transcript = asked[round] /\ tables[2] = RoundTable(q, 0) /\ round < Rounds
  BY <1>1 DEF Follows, AtTranscript
<1>6. Rounds' = Rounds /\ ReducedBound' = ReducedBound /\ HonestTable' = HonestTable /\ K' = K
      /\ (\A r : DomainAt(r)' = DomainAt(r)) /\ Made' = Made
  BY <1>1, <1>2 DEF Rounds, ReducedBound, HonestTable, DomainAt, K, Made
<1>7. /\ (\E S : opening'.rounds \in Seq(S)) /\ Len(opening'.rounds) = round + 1
      /\ \A i \in 1 .. round : opening'.rounds[i] = opening.rounds[i]
      /\ opening'.rounds[round + 1] = opened
  <2> DEFINE s == opening.rounds
             t == opening'.rounds
  <2>1. (\E S : s \in Seq(S)) /\ Len(s) = round /\ t = Append(s, opened)
    BY <1>2, <1>5
  <2> HIDE DEF s, t
  <2>2. /\ \E S : Append(s, opened) \in Seq(S)
        /\ Len(s) \in Nat /\ Len(Append(s, opened)) = Len(s) + 1
        /\ \A i \in 1 .. Len(s) : Append(s, opened)[i] = s[i]
        /\ Append(s, opened)[Len(s) + 1] = opened
    BY <2>1, AppendAnything
  <2>3. /\ (\E S : t \in Seq(S)) /\ Len(t) = round + 1
        /\ \A i \in 1 .. round : t[i] = s[i]
        /\ t[round + 1] = opened
    BY <2>1, <2>2
  <2> QED
    BY <2>3 DEF s, t
<1>8. PICK i : i = round
  OBVIOUS
<1>9. i \in Nat
  BY <1>4, <1>8
<1>10. PICK asked2 : asked2 = [r \in 0 .. i + 1 |-> IF r <= i THEN asked[r] ELSE transcript']
  OBVIOUS
<1>11. (\A r \in 0 .. i : asked2[r] = asked[r]) /\ asked2[i + 1] = transcript'
  BY <1>9, <1>10
<1>12. /\ Remembers /\ transcript' \in DOMAIN memo' /\ memo'[transcript'] = queries
  <2>1. transcript' = Append(transcript, <<"squeeze", <<"query", round>>>>)
    BY <1>1 DEF QueryMark
  <2> QED
    BY <1>1, <2>1, SqueezesRemember
<1>13. \A r : RoundTable(q, r)' = RoundTable(q, r) /\ ParentTable(q, r)' = ParentTable(q, r)
  <2> SUFFICES ASSUME NEW r
               PROVE  RoundTable(q, r)' = RoundTable(q, r) /\ ParentTable(q, r)' = ParentTable(q, r)
    OBVIOUS
  <2>1. DomainAt(r)' = DomainAt(r) /\ HonestTable' = HonestTable /\ commitment' = commitment
    BY <1>1, <1>6
  <2> QED
    BY <1>2, <2>1 DEF RoundTable, ParentTable
<1>14. IsOpened(q, asked2, i)'
  <2>1. asked2[i + 1] = Append(asked2[i], QueryMark(i))
    <3>1. asked2[i] = transcript /\ QueryMark(round) = QueryMark(i)
      BY <1>5, <1>8, <1>9, <1>11
    <3> QED
      BY <1>1, <1>11, <3>1
  <2>2. asked2[i + 1] \in DOMAIN memo' /\ memo'[asked2[i + 1]] = queries
    BY <1>11, <1>12
  <2>3. queries \in QueryPositions(i)'
    <3>1. QueryPositions(i)' = QueryPositions(i)
      BY <1>1, <1>6 DEF QueryPositions
    <3> QED
      BY <1>8, <3>1
  <2>4. ParentTable(q, i)' = parent
    <3>1. round \in 0 .. Made
      BY <1>4, <1>5
    <3>2. ParentTable(q, round) = parent
      BY <1>1, <3>1, TableHeld
    <3> QED
      BY <1>8, <1>13, <3>2
  <2>5. i + 1 # Rounds => RoundTable(q, i + 1)' = tables[i + 3]
    <3>1. round + 1 \in 0 .. Made /\ round + 1 + 2 = round + 3
      BY <1>4, <1>5
    <3>2. RoundTable(q, round + 1) = tables[round + 1 + 2]
      BY <1>1, <3>1, TableHeld
    <3> QED
      BY <1>8, <1>13, <3>1, <3>2
  <2>6. opening'.rounds[i + 1] = opened
    BY <1>7, <1>8
  <2>7. opened = [parent |-> OpenTree(parent, ExpandFiberIndices(queries, DomainAt(i + 1).size, K)),
                  child  |-> IF i + 1 = Rounds THEN NoProof
                             ELSE OpenTree(tables[i + 3], Positions(queries))]
    BY <1>8 DEF opened
  <2>8. DomainAt(i + 1)' = DomainAt(i + 1) /\ K' = K /\ Rounds' = Rounds
    BY <1>6
  <2> HIDE DEF K, parent
  <2> QED
    BY <2>1, <2>2, <2>3, <2>4, <2>5, <2>6, <2>7, <2>8 DEF IsOpened
<1>15. ASSUME NEW r \in 0 .. i PROVE IsOpened(q, asked2, r)'
  <2>1. CASE r = i
    BY <1>14, <2>1
  <2>2. CASE r # i
    <3>1. r \in Nat /\ r \in 0 .. round - 1 /\ r \in 0 .. i /\ r + 1 \in 0 .. i /\ r + 1 \in 1 .. round
      BY <1>8, <1>9, <2>2
    <3>2. IsOpened(q, asked, r)
      BY <1>5, <3>1
    <3>3. asked2[r] = asked[r] /\ asked2[r + 1] = asked[r + 1]
          /\ opening'.rounds[r + 1] = opening.rounds[r + 1]
      BY <1>7, <1>11, <3>1
    <3>4. UNCHANGED <<setup, polynomial, commitment>> /\ opening'.oracle_roots = opening.oracle_roots
      BY <1>1, <1>2
    <3> QED
      BY <1>12, <3>1, <3>2, <3>3, <3>4, OpenedStays
  <2> QED
    BY <2>1, <2>2
<1>16. ASSUME NEW r \in 0 .. Made' - 1 PROVE IsFolded(q, heard, r)'
  <2>1. r \in Nat /\ IsFolded(q, heard, r)
    BY <1>5, <1>6
  <2>2. UNCHANGED <<setup, commitment>> /\ opening'.oracle_roots = opening.oracle_roots
    BY <1>1, <1>2
  <2> QED
    BY <1>12, <2>1, <2>2, FoldedStays
<1>17. Truthful' /\ IsQuotient(q)'
  <2>1. Truthful'
    BY <1>1, <1>2, <1>5, <1>6 DEF Truthful
  <2>2. IsQuotient(q)'
    BY <1>1, <1>5, <1>6 DEF IsQuotient
  <2> QED
    BY <2>1, <2>2
<1>18. /\ heard[0] = ClaimTranscript(statement)'
       /\ asked2[0] = heard[Rounds']
       /\ opening'.final_oracle = IF Rounds' = 0 THEN <<>> ELSE RoundTable(q, Rounds)'
  <2>1. ClaimTranscript(statement)' = ClaimTranscript(statement)
    BY <1>1 DEF ClaimTranscript
  <2>2. 0 \in 0 .. i
    BY <1>9
  <2>3. RoundTable(q, Rounds)' = RoundTable(q, Rounds)
    BY <1>1, <1>2, <1>6 DEF RoundTable
  <2> QED
    BY <1>2, <1>5, <1>6, <1>11, <2>1, <2>2, <2>3
<1>19. AtTranscript(heard, asked2)'
  <2>1. pc' = "query" => round' = i + 1 /\ round' < Rounds'
    BY <1>1, <1>4, <1>5, <1>6, <1>8
  <2>2. pc' \in {"query", "deliver"}
    BY <1>1
  <2> QED
    BY <1>11, <2>1, <2>2 DEF AtTranscript
<1>20. tables'[2] = RoundTable(q, 0)'
  BY <1>1, <1>5, <1>13
<1>21. Follows(q, heard, asked2)'
  <2>1. pc' \in {"query", "deliver"} /\ Made' = Rounds'
    BY <1>1, <1>5, <1>6
  <2>2. Len(opening'.rounds) = IF pc' = "fold" THEN 0 ELSE IF pc' = "query" THEN round' ELSE Rounds'
    BY <1>1, <1>6, <1>7
  <2>3. \A r \in 0 .. Len(opening'.rounds) - 1 : IsOpened(q, asked2, r)'
    BY <1>7, <1>8, <1>9, <1>15
  <2> QED
    BY <1>7, <1>16, <1>17, <1>18, <1>19, <1>20, <2>1, <2>2, <2>3 DEF Follows
<1> QED
  BY <1>21

(* Once the message is made it is only read.                               *)
ReplayedSame(heard) ==
  pc \in {"replay", "final", "check"} =>
    \A r \in 0 .. Len(betas) - 1 : betas[r + 1] = memo[FoldAsked(heard, r)]

(* Of what verification only reads the prover's run stays what it was.     *)
LEMMA ReadOnly ==
  ASSUME NEW q, NEW heard, NEW asked, Follows(q, heard, asked), Rounds \in Nat,
         Remembers, UNCHANGED <<setup, polynomial, commitment, statement, opening>>,
         pc \in {"deliver", "verify", "replay", "final", "check"},
         pc' \in {"verify", "replay", "final", "check"},
         AtTranscript(heard, asked)', ReplayedSame(heard)'
  PROVE  Follows(q, heard, asked)'
<1>1. /\ Truthful /\ IsQuotient(q) /\ Made = Rounds /\ (\E S : opening.rounds \in Seq(S))
      /\ Len(opening.rounds) = Rounds /\ heard[0] = ClaimTranscript(statement)
      /\ \A r \in 0 .. Made - 1 : IsFolded(q, heard, r)
      /\ asked[0] = heard[Rounds]
      /\ \A r \in 0 .. Len(opening.rounds) - 1 : IsOpened(q, asked, r)
      /\ opening.final_oracle = IF Rounds = 0 THEN <<>> ELSE RoundTable(q, Rounds)
  BY DEF Follows
<1>2. Rounds' = Rounds /\ ReducedBound' = ReducedBound /\ HonestTable' = HonestTable
      /\ (\A r : DomainAt(r)' = DomainAt(r)) /\ Made' = Made
  BY DEF Rounds, ReducedBound, HonestTable, DomainAt, Made
<1>3. ASSUME NEW r \in 0 .. Made' - 1 PROVE IsFolded(q, heard, r)'
  <2>1. r \in Nat /\ IsFolded(q, heard, r)
    BY <1>1, <1>2
  <2> QED
    BY <2>1, FoldedStays
<1>4. ASSUME NEW r \in 0 .. Len(opening'.rounds) - 1 PROVE IsOpened(q, asked, r)'
  <2>1. r \in Nat /\ IsOpened(q, asked, r)
    BY <1>1
  <2> QED
    BY <2>1, OpenedStays
<1>5. Truthful' /\ IsQuotient(q)'
  <2>1. Truthful'
    BY <1>1, <1>2 DEF Truthful
  <2>2. IsQuotient(q)'
    BY <1>1, <1>2 DEF IsQuotient
  <2> QED
    BY <2>1, <2>2
<1>6. heard[0] = ClaimTranscript(statement)'
  BY <1>1 DEF ClaimTranscript
<1>7. opening'.final_oracle = IF Rounds' = 0 THEN <<>> ELSE RoundTable(q, Rounds)'
  <2>1. RoundTable(q, Rounds)' = RoundTable(q, Rounds)
    BY <1>2 DEF RoundTable
  <2> QED
    BY <1>1, <1>2, <2>1
<1>8. pc' \notin {"fold", "query"}
  OBVIOUS
<1> QED
  BY <1>1, <1>2, <1>3, <1>4, <1>5, <1>6, <1>7, <1>8 DEF Follows, ReplayedSame

(* An undamaged message arrives as it was sent.                            *)
LEMMA DeliverFollows ==
  ASSUME RingLaws, FriInv, Validated, Deliver("none"),
         NEW q, NEW heard, NEW asked, Follows(q, heard, asked)
  PROVE  Follows(q, heard, asked)'
<1>1. /\ pc = "deliver" /\ pc' = "verify" /\ UNCHANGED <<setup, polynomial, memo>>
      /\ commitment' = Received("none").commitment /\ statement' = Received("none").statement
      /\ opening' = Received("none").opening
  BY DEF Deliver
<1>2. Received("none") = [commitment |-> commitment, statement |-> statement, opening |-> opening]
  BY DEF Received
<1>3. UNCHANGED <<commitment, statement, opening>>
  BY <1>1, <1>2
<1>4. verdict # "refused"
  BY <1>1 DEF FriInv
<1>5. Rounds \in Nat
  BY <1>1, <1>4, InstanceFacts DEF Instance
<1>6. AtTranscript(heard, asked)' /\ ReplayedSame(heard)' /\ Remembers
  BY <1>1 DEF AtTranscript, ReplayedSame, Remembers
<1> QED
  BY <1>1, <1>3, <1>5, <1>6, ReadOnly

(* The verifier hears what the prover heard and draws what it drew.        *)
LEMMA VerifyStartFollows ==
  ASSUME RingLaws, FriInv, Validated, VerifyStart,
         NEW q, NEW heard, NEW asked, Follows(q, heard, asked)
  PROVE  Follows(q, heard, asked)'
<1>1. /\ pc = "verify" /\ pc' = "replay" /\ round' = 0 /\ transcript' = ClaimTranscript(statement)
      /\ Rounds > 0 /\ UNCHANGED <<setup, polynomial, commitment, statement, opening, memo, betas>>
  BY DEF VerifyStart, messages
<1>2. verdict # "refused" /\ betas = <<>>
  BY <1>1 DEF FriInv, Replayed
<1>3. Rounds \in Nat /\ Rounds' = Rounds
  BY <1>1, <1>2, InstanceFacts DEF Instance, Rounds, ReducedBound
<1>4. heard[0] = ClaimTranscript(statement)
  BY DEF Follows
<1>5. AtTranscript(heard, asked)'
  BY <1>1, <1>3, <1>4 DEF AtTranscript
<1>6. ReplayedSame(heard)' /\ Remembers
  BY <1>1, <1>2 DEF ReplayedSame, Remembers
<1> QED
  BY <1>1, <1>3, <1>5, <1>6, ReadOnly

(* Replaying a round on intact messages follows the prover.                *)
LEMMA ReplayFollows ==
  ASSUME RingLaws, FriInv, Validated, Drawn, NEW beta \in FoldingChallenges, ReplayRound(beta),
         NEW q, NEW heard, NEW asked, Follows(q, heard, asked)
  PROVE  Follows(q, heard, asked)'
<1>1. /\ pc = "replay" /\ Squeezes(transcript, <<"fold", round>>, FoldingChallenges, beta)
      /\ transcript' = transcript \o <<FoldMark(round), <<"root", opening.oracle_roots[round + 1]>>>>
      /\ betas' = Append(betas, beta)
      /\ round' = IF round + 1 = Rounds THEN 0 ELSE round + 1
      /\ pc' = IF round + 1 = Rounds THEN "final" ELSE "replay"
      /\ UNCHANGED <<setup, polynomial, commitment, statement, opening>>
  BY DEF ReplayRound, FoldMark, messages
<1>2. verdict # "refused" /\ Len(betas) = round /\ betas \in Seq(FoldingChallenges) /\ round \in Nat
  BY <1>1 DEF FriInv, Replayed, Setting
<1>3. Rounds \in Nat /\ Rounds' = Rounds
  BY <1>1, <1>2, InstanceFacts DEF Instance, Rounds, ReducedBound
<1>4. /\ transcript = heard[round] /\ round < Rounds /\ Made = Rounds
      /\ \A r \in 0 .. Made - 1 : IsFolded(q, heard, r)
      /\ \A r \in 0 .. Len(betas) - 1 : betas[r + 1] = memo[FoldAsked(heard, r)]
  BY <1>1 DEF Follows, AtTranscript
<1>5. IsFolded(q, heard, round)
  BY <1>2, <1>3, <1>4
<1>6. transcript' = heard[round + 1] /\ FoldAsked(heard, round) \in DOMAIN memo
  BY <1>1, <1>4, <1>5 DEF IsFolded
<1>7. Remembers /\ beta = memo[FoldAsked(heard, round)]
  <2>1. FoldAsked(heard, round) = Append(transcript, <<"squeeze", <<"fold", round>>>>)
    BY <1>4 DEF FoldAsked, FoldMark
  <2> QED
    BY <1>1, <1>6, <2>1, SqueezesRemember
<1>8. AtTranscript(heard, asked)'
  <2>1. pc' = "replay" => round' = round + 1 /\ round' < Rounds'
    BY <1>1, <1>2, <1>3, <1>4
  <2>2. pc' = "final" => round + 1 = Rounds'
    BY <1>1, <1>3
  <2> QED
    BY <1>1, <1>6, <2>1, <2>2 DEF AtTranscript
<1>9. ASSUME NEW r \in 0 .. Len(betas') - 1 PROVE betas'[r + 1] = memo'[FoldAsked(heard, r)]
  <2>1. Len(betas') = round + 1
    BY <1>1, <1>2
  <2>2. CASE r = round
    <3>1. betas'[r + 1] = beta /\ FoldAsked(heard, r) = FoldAsked(heard, round)
      BY <1>1, <1>2, <2>2
    <3>2. memo'[FoldAsked(heard, round)] = memo[FoldAsked(heard, round)]
      BY <1>6, <1>7 DEF Remembers
    <3> QED
      BY <1>7, <3>1, <3>2
  <2>3. CASE r # round
    <3>1. r \in 0 .. Len(betas) - 1 /\ r + 1 \in 1 .. Len(betas) /\ r \in 0 .. Made - 1
      BY <1>2, <1>4, <2>1, <2>3, <1>3
    <3>2. betas'[r + 1] = betas[r + 1]
      BY <1>1, <1>2, <3>1
    <3>3. FoldAsked(heard, r) \in DOMAIN memo
      BY <1>4, <3>1 DEF IsFolded
    <3> QED
      BY <1>4, <1>7, <3>1, <3>2, <3>3 DEF Remembers
  <2> QED
    BY <2>2, <2>3
<1>10. ReplayedSame(heard)'
  BY <1>9 DEF ReplayedSame
<1>11. pc' \in {"replay", "final"}
  BY <1>1
<1> QED
  BY <1>1, <1>3, <1>7, <1>8, <1>10, <1>11, ReadOnly

(* So does the check of the final oracle.                                  *)
LEMMA FinalFollows ==
  ASSUME RingLaws, FriInv, Validated, CheckFinalOracle, pc' = "check",
         NEW q, NEW heard, NEW asked, Follows(q, heard, asked)
  PROVE  Follows(q, heard, asked)'
<1>1. /\ pc = "final"
      /\ UNCHANGED <<setup, polynomial, commitment, statement, opening, transcript, memo, round, betas>>
  BY DEF CheckFinalOracle, Rejects, Decide, messages
<1>2. verdict # "refused" /\ round = 0 /\ Rounds # 0
  BY <1>1 DEF FriInv, Replayed
<1>3. Rounds \in Nat /\ Rounds' = Rounds
  BY <1>1, <1>2, InstanceFacts DEF Instance, Rounds, ReducedBound
<1>4. asked[0] = heard[Rounds] /\ transcript = heard[Rounds]
      /\ \A r \in 0 .. Len(betas) - 1 : betas[r + 1] = memo[FoldAsked(heard, r)]
  BY <1>1 DEF Follows, AtTranscript
<1>5. AtTranscript(heard, asked)'
  BY <1>1, <1>2, <1>3, <1>4 DEF AtTranscript
<1>6. ReplayedSame(heard)' /\ Remembers
  BY <1>1, <1>4 DEF ReplayedSame, Remembers
<1> QED
  BY <1>1, <1>3, <1>5, <1>6, ReadOnly

(* When nothing changes the run is the same.                               *)
LEMMA StutterFollows ==
  ASSUME NEW q, NEW heard, NEW asked, Follows(q, heard, asked),
         UNCHANGED <<pc, setup, polynomial, commitment, statement, opening, tables, damage,
                     transcript, memo, round, betas, verdict>>
  PROVE  Follows(q, heard, asked)'
<1>1. /\ Rounds' = Rounds /\ ReducedBound' = ReducedBound /\ HonestTable' = HonestTable
      /\ Made' = Made /\ K' = K /\ \A r : DomainAt(r)' = DomainAt(r)
  BY DEF Rounds, ReducedBound, HonestTable, Made, K, DomainAt
<1>2. \A r : RoundTable(q, r)' = RoundTable(q, r) /\ ParentTable(q, r)' = ParentTable(q, r)
  BY <1>1 DEF RoundTable, ParentTable
<1>3. ASSUME NEW r, IsFolded(q, heard, r) PROVE IsFolded(q, heard, r)'
  BY <1>1, <1>2, <1>3 DEF IsFolded, FoldAsked, FoldMark, FoldingChallenges
<1>4. ASSUME NEW r, IsOpened(q, asked, r) PROVE IsOpened(q, asked, r)'
  BY <1>1, <1>2, <1>4 DEF IsOpened, QueryMark, QueryPositions
<1>5. Truthful' /\ IsQuotient(q)' /\ AtTranscript(heard, asked)'
  <2>1. Truthful /\ IsQuotient(q) /\ AtTranscript(heard, asked)
    BY DEF Follows
  <2>2. Truthful'
    BY <1>1, <2>1 DEF Truthful
  <2>3. IsQuotient(q)'
    BY <1>1, <2>1 DEF IsQuotient
  <2>4. AtTranscript(heard, asked)'
    BY <1>1, <2>1 DEF AtTranscript
  <2> QED
    BY <2>2, <2>3, <2>4
<1>6. \A r \in 0 .. Made - 1 : IsFolded(q, heard, r)'
  BY <1>3 DEF Follows
<1>7. /\ Made' = (IF pc' = "fold" THEN round' ELSE Rounds')
      /\ \E S : opening'.rounds \in Seq(S)
      /\ Len(opening'.rounds) = (IF pc' = "fold" THEN 0 ELSE IF pc' = "query" THEN round' ELSE Rounds')
      /\ heard[0] = ClaimTranscript(statement)'
  BY <1>1 DEF Follows, ClaimTranscript
<1>8. ASSUME pc' # "fold"
      PROVE  /\ asked[0] = heard[Rounds']
             /\ \A r \in 0 .. Len(opening'.rounds) - 1 : IsOpened(q, asked, r)'
             /\ opening'.final_oracle = IF Rounds' = 0 THEN <<>> ELSE RoundTable(q, Rounds)'
  <2>1. /\ asked[0] = heard[Rounds]
        /\ \A r \in 0 .. Len(opening.rounds) - 1 : IsOpened(q, asked, r)
        /\ opening.final_oracle = IF Rounds = 0 THEN <<>> ELSE RoundTable(q, Rounds)
    BY <1>8 DEF Follows
  <2>2. RoundTable(q, Rounds)' = RoundTable(q, Rounds)
    BY <1>1 DEF RoundTable
  <2> QED
    BY <1>1, <1>4, <2>1, <2>2
<1>9. pc' \in {"fold", "query"} => tables'[2] = RoundTable(q, 0)'
  BY <1>2 DEF Follows
<1>10. pc' \in {"replay", "final", "check"} =>
         \A r \in 0 .. Len(betas') - 1 : betas'[r + 1] = memo'[FoldAsked(heard, r)]
  BY DEF Follows
<1> QED
  BY <1>1, <1>5, <1>6, <1>7, <1>8, <1>9, <1>10 DEF Follows, FoldAsked, FoldMark

(* The queries it draws are those that were answered.                      *)
LEMMA SameQueries ==
  ASSUME RingLaws, FriInv, Validated, NEW queries, VerifyRound(queries),
         NEW q, NEW heard, NEW asked, Follows(q, heard, asked)
  PROVE  /\ Rounds \in Nat /\ round \in 0 .. Rounds - 1 /\ IsOpened(q, asked, round)
         /\ queries = memo[asked[round + 1]] /\ Remembers
         /\ transcript' = asked[round + 1]
<1>1. /\ pc = "check" /\ Squeezes(transcript, <<"query", round>>, QueryPositions(round), queries)
      /\ transcript' = Append(transcript, QueryMark(round))
  BY DEF VerifyRound, QueryMark
<1>2. verdict # "refused" /\ round \in Nat
  BY <1>1 DEF FriInv, Setting
<1>3. Rounds \in Nat
  BY <1>1, <1>2, InstanceFacts DEF Instance
<1>4. transcript = asked[round] /\ round < Rounds /\ Len(opening.rounds) = Rounds
      /\ \A r \in 0 .. Len(opening.rounds) - 1 : IsOpened(q, asked, r)
  BY <1>1 DEF Follows, AtTranscript
<1>5. round \in 0 .. Rounds - 1 /\ IsOpened(q, asked, round)
  BY <1>2, <1>3, <1>4
<1>6. asked[round + 1] = Append(transcript, QueryMark(round)) /\ asked[round + 1] \in DOMAIN memo
  BY <1>4, <1>5 DEF IsOpened
<1>7. queries = memo[asked[round + 1]] /\ Remembers
  <2>1. asked[round + 1] = Append(transcript, <<"squeeze", <<"query", round>>>>)
    BY <1>6 DEF QueryMark
  <2> QED
    BY <1>1, <1>6, <2>1, SqueezesRemember
<1> QED
  BY <1>1, <1>3, <1>5, <1>6, <1>7

(* So does the check of a round of queries.                                *)
LEMMA CheckFollows ==
  ASSUME RingLaws, FriInv, Validated, NEW queries, VerifyRound(queries), pc' = "check",
         NEW q, NEW heard, NEW asked, Follows(q, heard, asked)
  PROVE  Follows(q, heard, asked)'
<1>1. /\ pc = "check" /\ round' = round + 1 /\ round + 1 < Rounds
      /\ UNCHANGED <<setup, polynomial, commitment, statement, opening, betas>>
  BY DEF VerifyRound, Decide, messages
<1>2. /\ Rounds \in Nat /\ round \in 0 .. Rounds - 1 /\ Remembers /\ transcript' = asked[round + 1]
  BY SameQueries
<1>3. Rounds' = Rounds
  BY <1>1 DEF Rounds, ReducedBound
<1>4. AtTranscript(heard, asked)'
  BY <1>1, <1>2, <1>3 DEF AtTranscript
<1>5. ReplayedSame(heard)'
  <2>1. /\ \A r \in 0 .. Made - 1 : IsFolded(q, heard, r)
        /\ \A r \in 0 .. Len(betas) - 1 : betas[r + 1] = memo[FoldAsked(heard, r)]
        /\ Made = Rounds
    BY <1>1 DEF Follows
  <2>2. Len(betas) = Rounds
    BY <1>1 DEF FriInv, Replayed
  <2>3. ASSUME NEW r \in 0 .. Len(betas) - 1
        PROVE  betas'[r + 1] = memo'[FoldAsked(heard, r)]
    <3>1. FoldAsked(heard, r) \in DOMAIN memo
      BY <2>1, <2>2, <2>3 DEF IsFolded
    <3> QED
      BY <1>1, <1>2, <2>1, <3>1 DEF Remembers
  <2> QED
    BY <1>1, <2>3 DEF ReplayedSame
<1> QED
  BY <1>1, <1>2, <1>4, <1>5, ReadOnly

-----------------------------------------------------------------------------
(* Nothing is wrong with it *)

(* What holds of the rounds while the message is read.                     *)
LEMMA ReadFacts ==
  ASSUME RingLaws, FriInv, Validated, pc \in {"verify", "replay", "final", "check"},
         NEW q, NEW heard, NEW asked, Follows(q, heard, asked)
  PROVE  /\ Instance
         /\ \A r \in 0 .. Rounds : RoundFits(r)
         /\ \A r \in 0 .. Rounds - 1 : FoldFits(r)
         /\ Truthful /\ IsQuotient(q) /\ Made = Rounds /\ Len(opening.rounds) = Rounds
         /\ \A r \in 0 .. Rounds - 1 : IsFolded(q, heard, r) /\ IsOpened(q, asked, r)
         /\ opening.final_oracle = IF Rounds = 0 THEN <<>> ELSE RoundTable(q, Rounds)
         /\ IsPolynomial(polynomial)
<1>1. verdict # "refused" /\ pc # "commit"
  BY DEF FriInv
<1>2. Made = Rounds /\ Len(opening.rounds) = Rounds
  BY DEF Follows
<1>3. \A r \in 0 .. Rounds - 1 : IsFolded(q, heard, r) /\ IsOpened(q, asked, r)
  BY <1>2 DEF Follows
<1>4. IsPolynomial(polynomial)
  BY InputFacts DEF Validated
<1> QED
  BY <1>1, <1>2, <1>3, <1>4, InstanceFacts DEF Follows

(* An empty table has no entries.                                          *)
LEMMA EmptyTable == TableSize(<<>>) = 0
<1>1. DOMAIN <<>> = 0 .. 0 - 1
  OBVIOUS
<1> QED
  BY <1>1, TableSizeOf

(* The parts are there.                                                    *)
LEMMA HonestShape ==
  ASSUME RingLaws, FriInv, Validated, pc = "verify",
         NEW q, NEW heard, NEW asked, Follows(q, heard, asked)
  PROVE  EntryHolds /\ ShapeHolds
<1>1. /\ Instance
      /\ \A r \in 0 .. Rounds : RoundFits(r)
      /\ Truthful /\ Made = Rounds /\ Len(opening.rounds) = Rounds
      /\ \A r \in 0 .. Rounds - 1 : IsFolded(q, heard, r)
      /\ opening.final_oracle = IF Rounds = 0 THEN <<>> ELSE RoundTable(q, Rounds)
  BY ReadFacts
<1>2. EntryHolds
  BY <1>1 DEF EntryHolds, ValidCommitment, ValidClaim, Instance, Truthful
<1>3. TableSize(opening.revealed) = IF Rounds = 0 THEN commitment.domain.size ELSE 0
  <2>1. CASE Rounds = 0
    <3>1. opening.revealed = HonestTable /\ DOMAIN HonestTable = 0 .. commitment.domain.size - 1
      BY <1>1, <2>1 DEF Truthful, HonestTable, Encode
    <3>2. commitment.domain.size \in Nat
      BY <1>1 DEF Instance, IsDomain
    <3> QED
      BY <2>1, <3>1, <3>2, TableSizeOf
  <2>2. CASE Rounds # 0
    BY <1>1, <2>2, EmptyTable DEF Truthful
  <2> QED
    BY <2>1, <2>2
<1>4. (TableSize(opening.final_oracle) = 0) <=> (Rounds = 0)
  <2>1. CASE Rounds = 0
    BY <1>1, <2>1, EmptyTable
  <2>2. CASE Rounds # 0
    <3> DEFINE t == RoundTable(q, Rounds)
               n == DomainAt(Rounds).size
    <3>1. Rounds \in Nat \ {0} /\ Rounds - 1 \in 0 .. Rounds - 1 /\ Rounds - 1 + 1 = Rounds
          /\ Rounds \in 0 .. Rounds
      BY <1>1, <2>2 DEF Instance
    <3>2. t \in Tables(n)
      <4>1. RoundTable(q, Rounds - 1 + 1) \in Tables(DomainAt(Rounds - 1 + 1).size)
        BY <1>1, <3>1 DEF IsFolded
      <4> QED
        BY <3>1, <4>1
    <3>3. n \in Nat \ {0}
      BY <1>1, <3>1 DEF RoundFits, IsDomain
    <3> HIDE DEF t, n
    <3>4. TableSize(t) = n
      BY <3>2, <3>3, TableSizeOf DEF Tables
    <3>5. opening.final_oracle = t
      BY <1>1, <2>2 DEF t
    <3> QED
      BY <2>2, <3>3, <3>4, <3>5
  <2> QED
    BY <2>1, <2>2
<1> QED
  BY <1>1, <1>2, <1>3, <1>4 DEF ShapeHolds, Made

(* The values of the committed polynomial, and of the quotient.            *)
LEMMA QuotientValues ==
  ASSUME RingLaws, Instance, IsPolynomial(polynomial), Truthful,
         NEW q, IsQuotient(q)
  PROVE  \A i \in 0 .. commitment.domain.size - 1 :
           /\ HonestTable[i] = Plus(Times(Minus(commitment.domain.points[i], statement.alpha),
                                          Evaluate(q, commitment.domain.points[i])), statement.value)
           /\ RoundTable(q, 0)[i] = Evaluate(q, commitment.domain.points[i])
           /\ HonestTable[i] \in Ring /\ RoundTable(q, 0)[i] \in Ring
<1> DEFINE d == commitment.domain
           n == d.size
           x == d.points
<1> SUFFICES ASSUME NEW i \in 0 .. n - 1
             PROVE  /\ HonestTable[i] = Plus(Times(Minus(x[i], statement.alpha), Evaluate(q, x[i])),
                                             statement.value)
                    /\ RoundTable(q, 0)[i] = Evaluate(q, x[i])
                    /\ HonestTable[i] \in Ring /\ RoundTable(q, 0)[i] \in Ring
  OBVIOUS
<1>1. IsDomain(d) /\ IsPolynomial(q)
  BY DEF Instance, IsQuotient
<1>2. x[i] \in Ring
  BY <1>1, PointsOfDomain
<1>3. HonestTable[i] = Evaluate(polynomial, x[i]) /\ RoundTable(q, 0)[i] = Evaluate(q, x[i])
  BY DEF HonestTable, RoundTable, Encode
<1>4. Evaluate(polynomial, x[i])
        = Plus(Times(Minus(x[i], statement.alpha), Evaluate(q, x[i])), statement.value)
  BY <1>2 DEF IsQuotient
<1>5. Evaluate(polynomial, x[i]) \in Ring /\ Evaluate(q, x[i]) \in Ring
  BY <1>1, <1>2, EvaluateIsValue
<1> QED
  BY <1>3, <1>4, <1>5

(* The claim's coordinates are in the ring.                                *)
LEMMA TruthfulClaim ==
  ASSUME RingLaws, Truthful, IsPolynomial(polynomial)
  PROVE  ClaimInRing(statement) /\ IsTeichmuller(statement.alpha)
<1>1. statement.alpha \in Ring /\ statement.value = Evaluate(polynomial, statement.alpha)
  BY DEF Truthful
<1>2. statement.value \in Ring
  BY <1>1, EvaluateIsValue
<1> QED
  BY <1>1, <1>2 DEF ClaimInRing, Truthful

(* A revealed table passes.                                                *)
LEMMA HonestRevealed ==
  ASSUME RingLaws, FriInv, Validated, pc = "verify", Rounds = 0,
         NEW q, NEW heard, NEW asked, Follows(q, heard, asked)
  PROVE  RevealedHolds
<1> DEFINE d == commitment.domain
           bound == ReducedBound
           t == HonestTable
<1>1. Instance /\ RoundFits(0) /\ Truthful /\ IsQuotient(q) /\ IsPolynomial(polynomial)
  BY ReadFacts
<1>2. opening.revealed = t /\ Root(t) = commitment.oracle_root
  BY <1>1 DEF Truthful
<1>3. IsDomain(d) /\ IsTeichmullerSubset(d) /\ bound \in Nat /\ bound < d.size
  <2>1. AfterFoldings(setup, ReducedBound, 0) = ReducedBound
    BY FoldingsStep
  <2> QED
    BY <1>1, <2>1 DEF Instance, RoundFits
<1>4. ClaimInRing(statement) /\ IsTeichmuller(statement.alpha)
  BY <1>1, TruthfulClaim
<1>5. IsPolynomial(q) /\ q.size <= bound + 1 /\ q.size < d.size
  BY <1>1 DEF IsQuotient
<1>6. \A i \in 0 .. d.size - 1 : t[i]
        = Plus(Times(Minus(d.points[i], statement.alpha), Evaluate(q, d.points[i])), statement.value)
  BY <1>1, QuotientValues
<1> HIDE DEF bound, t, d
<1>7. VerifyZeroFold(d, t, statement, bound)
  BY <1>3, <1>4, <1>5, <1>6, ZeroFoldComplete
<1> QED
  BY <1>2, <1>7 DEF RevealedHolds, bound, d

(* Each round's table is that of a polynomial within the round's bound.    *)
IsCodeword(g, table, r) ==
  /\ IsPolynomial(g) /\ g.size <= AfterFoldings(setup, ReducedBound, r) + 1
  /\ table = Encode(DomainAt(r), g)

(* The honest prover's table of each round is the encoding of a polynomial *)
(* of that round's degree.                                                 *)
LEMMA RoundsAreCodewords ==
  ASSUME RingLaws, FriInv, Validated, pc \in {"verify", "replay", "final", "check"},
         NEW q, NEW heard, NEW asked, Follows(q, heard, asked)
  PROVE  \A r \in 0 .. Rounds : \E g : IsCodeword(g, RoundTable(q, r), r)
<1> DEFINE P == {r \in 0 .. Rounds : \E g : IsCodeword(g, RoundTable(q, r), r)}
           A(r) == AfterFoldings(setup, ReducedBound, r)
<1>1. /\ Instance /\ IsQuotient(q)
      /\ \A r \in 0 .. Rounds : RoundFits(r)
      /\ \A r \in 0 .. Rounds - 1 : FoldFits(r)
      /\ \A r \in 0 .. Rounds - 1 : IsFolded(q, heard, r)
  BY ReadFacts
<1>2. Rounds \in Nat /\ K \in {3, 9} /\ K = setup.fold_factor
  BY <1>1 DEF Instance
<1>3. 0 \in P
  <2>1. A(0) = ReducedBound
    BY FoldingsStep
  <2>2. IsCodeword(q, RoundTable(q, 0), 0)
    BY <1>1, <2>1 DEF IsCodeword, IsQuotient, RoundTable, Instance
  <2> QED
    BY <1>2, <2>2
<1>4. ASSUME NEW r \in P, r < Rounds PROVE r + 1 \in P
  <2> DEFINE d == DomainAt(r)
             beta == memo[FoldAsked(heard, r)]
             k == K
  <2>1. r \in 0 .. Rounds - 1 /\ r \in 0 .. Rounds /\ r \in Nat /\ r + 1 \in 0 .. Rounds
    BY <1>2, <1>4
  <2>2. PICK g : IsCodeword(g, RoundTable(q, r), r)
    OBVIOUS
  <2> HIDE DEF P
  <2>3. RoundFits(r) /\ FoldFits(r) /\ IsFolded(q, heard, r)
    BY <1>1, <2>1
  <2>4. /\ IsDomain(d) /\ IsTeichmullerSubset(d) /\ d.size % k = 0 /\ k \in Nat \ {0} /\ A(r) \in Nat
        /\ DomainAt(r + 1) = PowMap(d, k)
    BY <1>2, <2>3 DEF RoundFits, FoldFits
  <2>5. beta \in Ring /\ RoundTable(q, r + 1) = FoldTableK(d, RoundTable(q, r), k, beta)
    BY <2>3 DEF IsFolded, FoldingChallenges, TeichmullerSet
  <2>6. IsPolynomial(g) /\ g.size <= A(r) + 1 /\ RoundTable(q, r) = Encode(d, g)
    BY <2>2 DEF IsCodeword
  <2>7. A(r + 1) = A(r) \div k
    BY <1>2, <2>1, FoldingsStep
  <2> DEFINE h == PolyFold(g, k, beta)
  <2> HIDE DEF d, beta, k, A
  <2>8. RoundTable(q, r + 1) = Encode(PowMap(d, k), h)
    BY <2>4, <2>5, <2>6, FoldOfEncoding DEF IsTeichmullerSubset
  <2>9. IsPolynomial(h) /\ h.size \in Nat /\ h.size <= (g.size + k - 1) \div k
    <3>1. k \in Nat /\ k # 0
      BY <2>4
    <3>2. \E m \in Nat : \E c \in Coeffs : FoldsInto(g, k, beta, m, c)
      BY <2>5, <2>6, <3>1, PolyFoldIs
    <3> QED
      BY <3>2 DEF FoldsInto, IsPolynomial
  <2>10. h.size <= A(r + 1) + 1
    <3>1. g.size \in Nat
      BY <2>6 DEF IsPolynomial
    <3>2. k = 3 \/ k = 9
      BY <1>2 DEF k
    <3> HIDE DEF h
    <3> QED
      BY <2>4, <2>6, <2>7, <2>9, <3>1, <3>2
  <2> HIDE DEF h
  <2>11. IsCodeword(h, RoundTable(q, r + 1), r + 1)
    BY <2>4, <2>8, <2>9, <2>10 DEF IsCodeword, A
  <2> QED
    BY <2>1, <2>11 DEF P
<1>5. P \in SUBSET (0 .. Rounds)
  OBVIOUS
<1> DEFINE R == Rounds
<1> HIDE DEF P
<1>6. R \in Nat /\ P \in SUBSET (0 .. R) /\ \A r \in P : r < R => r + 1 \in P
  BY <1>2, <1>4, <1>5
<1> HIDE DEF R
<1>7. P = 0 .. R
  BY <1>3, <1>6, InductionUpTo
<1> QED
  BY <1>7 DEF P, R

(* So the final oracle has the degree that is asked for.                   *)
LEMMA HonestFinal ==
  ASSUME RingLaws, FriInv, Validated, pc = "final",
         NEW q, NEW heard, NEW asked, Follows(q, heard, asked)
  PROVE  FinalOracleHolds
<1> DEFINE d == DomainAt(Rounds)
           t == RoundTable(q, Rounds)
           A == AfterFoldings(setup, ReducedBound, Rounds)
<1>1. /\ Instance
      /\ \A r \in 0 .. Rounds : RoundFits(r)
      /\ \A r \in 0 .. Rounds - 1 : IsFolded(q, heard, r)
      /\ opening.final_oracle = IF Rounds = 0 THEN <<>> ELSE RoundTable(q, Rounds)
  BY ReadFacts
<1>2. Rounds # 0
  BY DEF FriInv, Replayed
<1>3. Rounds \in Nat /\ Rounds \in 0 .. Rounds /\ Rounds - 1 \in 0 .. Rounds - 1
      /\ Rounds - 1 + 1 = Rounds
  BY <1>1, <1>2 DEF Instance
<1>4. t \in Tables(d.size) /\ opening.oracle_roots[Rounds] = Root(t)
  <2>1. IsFolded(q, heard, Rounds - 1)
    BY <1>1, <1>3
  <2>2. /\ RoundTable(q, Rounds - 1 + 1) \in Tables(DomainAt(Rounds - 1 + 1).size)
        /\ opening.oracle_roots[Rounds - 1 + 1] = Root(RoundTable(q, Rounds - 1 + 1))
    BY <2>1 DEF IsFolded
  <2> QED
    BY <1>3, <2>2
<1>5. IsDomain(d) /\ IsTeichmullerSubset(d) /\ A \in Nat /\ A < d.size /\ d.size \in Nat
  BY <1>1, <1>3 DEF RoundFits, IsDomain
<1>6. PICK g : IsCodeword(g, t, Rounds)
  BY <1>3, RoundsAreCodewords
<1>7. IsPolynomial(g) /\ g.size <= A + 1 /\ t = Encode(d, g)
  BY <1>6 DEF IsCodeword
<1> HIDE DEF d, t, A
<1>8. g.size <= d.size /\ \A i \in 0 .. d.size - 1 : t[i] = Evaluate(g, d.points[i])
  BY <1>5, <1>7 DEF Encode, IsPolynomial
<1>9. Degree(Interpolate(d.points, t, d.size)) <= Degree(g)
  BY <1>5, <1>7, <1>8, InterpolantOfEncoding DEF IsTeichmullerSubset
<1>10. Degree(g) \in Nat /\ Degree(g) <= A
  BY <1>5, <1>7 DEF Degree, IsPolynomial
<1>11. Degree(Interpolate(d.points, t, d.size)) \in Nat
  <2>1. Apart(d.points, d.size) /\ d.size \in Nat
    BY <1>5, DomainApart
  <2>2. \A i \in 0 .. d.size - 1 : t[i] \in Ring
    BY <1>4 DEF Tables
  <2> DEFINE x == d.points
             n == d.size
             f == Interpolate(x, t, n)
  <2> HIDE DEF x, n
  <2>3. Apart(x, n) /\ n \in Nat /\ \A i \in 0 .. n - 1 : t[i] \in Ring
    BY <2>1, <2>2 DEF x, n
  <2>4. IsPolynomial(f)
    BY <2>3, InterpolateFacts
  <2> HIDE DEF f
  <2>5. Degree(f) \in Nat
    BY <2>4 DEF IsPolynomial, Degree
  <2> QED
    BY <2>5 DEF f, x, n
<1>12. TableSize(t) = d.size
  BY <1>4, <1>5, TableSizeOf DEF Tables
<1>13. Degree(Interpolate(d.points, t, d.size)) <= A
  BY <1>5, <1>9, <1>10, <1>11
<1> QED
  BY <1>1, <1>2, <1>4, <1>12, <1>13 DEF FinalOracleHolds, d, t, A

(* One fiber of the tables themselves.                                     *)
LEMMA HonestFiber ==
  ASSUME RingLaws, FriInv, Validated, pc = "check",
         NEW q, NEW heard, NEW asked, Follows(q, heard, asked),
         NEW r \in 0 .. Rounds - 1, NEW c \in 0 .. DomainAt(r + 1).size - 1,
         NEW points, points = FiberOf(DomainAt(r), c, DomainAt(r + 1).size, K),
         NEW values, values = ValuesOnFiber(ParentTable(q, r), c, DomainAt(r + 1).size, K)
  PROVE  IF r = 0 THEN VerifyVirtualFiber(points, values, K, statement, betas[1], RoundTable(q, r + 1)[c])
                  ELSE VerifyExplicitFiber(points, values, K, betas[r + 1], RoundTable(q, r + 1)[c])
<1> DEFINE d == DomainAt(r)
           m == DomainAt(r + 1).size
           k == K
           beta == betas[r + 1]
           slots == ValuesOnFiber(RoundTable(q, r), c, m, k)
           slot == RoundTable(q, r + 1)[c]
<1>1. /\ Instance /\ Truthful /\ IsQuotient(q) /\ IsPolynomial(polynomial)
      /\ RoundFits(r) /\ FoldFits(r) /\ IsFolded(q, heard, r) /\ Rounds \in Nat
  <2>1. /\ Instance /\ Truthful /\ IsQuotient(q) /\ IsPolynomial(polynomial)
        /\ \A s \in 0 .. Rounds : RoundFits(s)
        /\ \A s \in 0 .. Rounds - 1 : FoldFits(s)
        /\ \A s \in 0 .. Rounds - 1 : IsFolded(q, heard, s)
    BY ReadFacts
  <2>2. Rounds \in Nat
    BY <2>1 DEF Instance
  <2>3. r \in 0 .. Rounds
    BY <2>2
  <2> QED
    BY <2>1, <2>2, <2>3
<1>2. /\ IsDomain(d) /\ IsTeichmullerSubset(d) /\ d.size % k = 0 /\ m = d.size \div k
      /\ k \in Nat \ {0} /\ k \in Nat /\ k # 0
  BY <1>1 DEF RoundFits, FoldFits, Instance
<1>3. beta \in TeichmullerSet /\ beta \in Ring /\ beta = memo[FoldAsked(heard, r)]
  <2>1. Len(betas) = Rounds /\ \A s \in 0 .. Len(betas) - 1 : betas[s + 1] = memo[FoldAsked(heard, s)]
    BY DEF FriInv, Replayed, Follows
  <2>2. beta = memo[FoldAsked(heard, r)]
    BY <2>1
  <2>3. memo[FoldAsked(heard, r)] \in FoldingChallenges
    BY <1>1 DEF IsFolded
  <2> QED
    BY <2>2, <2>3 DEF FoldingChallenges, TeichmullerSet
<1>4. slot = FoldEvalK(points, slots, k, beta)
  <2>1. RoundTable(q, r + 1) = FoldTableK(d, RoundTable(q, r), k, beta)
    BY <1>1, <1>3 DEF IsFolded
  <2>2. FoldTableK(d, RoundTable(q, r), k, beta)
          = [s \in 0 .. m - 1 |-> FoldEvalK(FiberOf(d, s, m, k), ValuesOnFiber(RoundTable(q, r), s, m, k), k, beta)]
    BY <1>2 DEF FoldTableK, FiberPoints, FiberOf, ValuesOnFiber
  <2> QED
    BY <2>1, <2>2
<1>5. CASE r # 0
  <2>1. values = slots
    BY <1>5 DEF ParentTable
  <2> QED
    BY <1>4, <1>5, <2>1 DEF VerifyExplicitFiber
<1>6. CASE r = 0
  <2> DEFINE n == d.size
             x == d.points
             at(o) == c + o * m
             a == statement.alpha
             v == statement.value
             H == HonestTable
             Q == RoundTable(q, 0)
  <2>1. n \in Nat \ {0} /\ n % k = 0 /\ m = n \div k /\ d = commitment.domain /\ c \in 0 .. m - 1
    BY <1>1, <1>2, <1>6 DEF Instance, IsDomain
  <2>2. \A i \in 0 .. n - 1 :
          /\ H[i] = Plus(Times(Minus(x[i], a), Evaluate(q, x[i])), v)
          /\ Q[i] = Evaluate(q, x[i]) /\ Q[i] \in Ring
    BY <1>1, <2>1, QuotientValues
  <2>3. \A o \in 0 .. k - 1 : points[o] = x[at(o)] /\ values[o] = H[at(o)] /\ slots[o] = Q[at(o)]
    BY <1>6 DEF FiberOf, ValuesOnFiber, ParentTable
  <2>4. Apart(points, k) /\ \A o \in 0 .. k - 1 : points[o] \in TeichmullerSet
    <3> HIDE DEF d, m, k
    <3>1. Apart(FiberOf(d, c, m, k), k) /\ \A o \in 0 .. k - 1 : FiberOf(d, c, m, k)[o] \in TeichmullerSet
      BY <1>2, <2>1, FiberApart
    <3>2. points = FiberOf(d, c, m, k)
      BY DEF d, m, k
    <3> QED
      BY <3>1, <3>2
  <2> HIDE DEF n, x, H, Q, k, m, slots
  <2>5. \A o \in 0 .. k - 1 : at(o) \in 0 .. n - 1
    BY <1>2, <2>1, FiberIndices
  <2> HIDE DEF at
  <2>6. \A o \in 0 .. k - 1 : slots[o] \in Ring
    BY <2>2, <2>3, <2>5
  <2>7. \A o \in 0 .. k - 1 : values[o] = Plus(Times(Minus(points[o], a), slots[o]), v)
    BY <2>2, <2>3, <2>5
  <2> HIDE DEF slot
  <2>8. ClaimInRing(statement) /\ IsTeichmuller(statement.alpha)
    BY <1>1, TruthfulClaim
  <2> HIDE DEF beta
  <2>9. VerifyVirtualFiber(points, values, k, statement, beta, FoldEvalK(points, slots, k, beta))
    BY <1>2, <1>3, <2>4, <2>6, <2>7, <2>8, VirtualFiberComplete
  <2>10. r + 1 = 1
    BY <1>6
  <2> QED
    BY <1>4, <1>6, <2>9, <2>10 DEF slot, beta, k
<1> QED
  BY <1>5, <1>6

(* The openings of a round hold.                                           *)
LEMMA HonestOpenings ==
  ASSUME RingLaws, FriInv, Validated, pc = "check",
         NEW q, NEW heard, NEW asked, Follows(q, heard, asked),
         NEW r \in 0 .. Rounds - 1, NEW queries, queries = memo[asked[r + 1]]
  PROVE  /\ OpeningsHold(r, queries)
         /\ Positions(queries) \in SUBSET (0 .. DomainAt(r + 1).size - 1)
         /\ \A c \in Positions(queries) :
              /\ \A o \in 0 .. K - 1 :
                   Opened(opening.rounds[r + 1].parent, c + o * DomainAt(r + 1).size)
                     = ParentTable(q, r)[c + o * DomainAt(r + 1).size]
              /\ r + 1 # Rounds => Opened(opening.rounds[r + 1].child, c) = RoundTable(q, r + 1)[c]
<1> DEFINE n == DomainAt(r).size
           m == DomainAt(r + 1).size
           P == Positions(queries)
           E == ExpandFiberIndices(queries, m, K)
           p == opening.rounds[r + 1]
           t == ParentTable(q, r)
           u == RoundTable(q, r + 1)
<1>1. /\ Instance /\ Truthful /\ Rounds \in Nat
      /\ RoundFits(r) /\ RoundFits(r + 1) /\ FoldFits(r) /\ IsFolded(q, heard, r) /\ IsOpened(q, asked, r)
      /\ \A s \in 0 .. Rounds - 1 : IsFolded(q, heard, s)
      /\ IsPolynomial(polynomial)
  <2>1. /\ Instance /\ Truthful /\ IsPolynomial(polynomial)
        /\ \A s \in 0 .. Rounds : RoundFits(s)
        /\ \A s \in 0 .. Rounds - 1 : FoldFits(s)
        /\ \A s \in 0 .. Rounds - 1 : IsFolded(q, heard, s) /\ IsOpened(q, asked, s)
    BY ReadFacts
  <2>2. Rounds \in Nat
    BY <2>1 DEF Instance
  <2>3. r \in 0 .. Rounds /\ r + 1 \in 0 .. Rounds
    BY <2>2
  <2> QED
    BY <2>1, <2>2, <2>3
<1>2. n \in Nat \ {0} /\ m \in Nat \ {0} /\ n % K = 0 /\ m = n \div K /\ K \in Nat \ {0} /\ K \in Nat
  BY <1>1 DEF RoundFits, FoldFits, Instance, IsDomain
<1>3. queries \in Draws(m) /\ setup.repetition_count \in Nat
  BY <1>1 DEF IsOpened, QueryPositions, Draws, Instance
<1>4. /\ p.parent = OpenTree(t, E)
      /\ p.child = IF r + 1 = Rounds THEN NoProof ELSE OpenTree(u, P)
  BY <1>1 DEF IsOpened
<1>5. /\ P \in SUBSET (0 .. m - 1) /\ IsFiniteSet(P) /\ IsFiniteSet(E)
      /\ \A c \in P, o \in 0 .. K - 1 : c + o * m \in E
  BY <1>2, <1>3, FibersFinite
<1>6. E \in SUBSET (0 .. n - 1)
  <2> DEFINE k == K
  <2>1. k \in Nat \ {0} /\ n % k = 0 /\ m = n \div k
    BY <1>2
  <2>2. E = {c + o * m : c \in P, o \in 0 .. k - 1}
    BY DEF ExpandFiberIndices
  <2> HIDE DEF n, m, k, P, E
  <2>3. ASSUME NEW c \in P, NEW o \in 0 .. k - 1 PROVE c + o * m \in 0 .. n - 1
    <3>1. c \in 0 .. m - 1
      BY <1>5
    <3>2. n \in Nat \ {0}
      BY <1>2
    <3> QED
      BY <2>1, <3>1, <3>2, FiberIndices
  <2> QED
    BY <2>2, <2>3
<1>7. DOMAIN t = 0 .. n - 1 /\ ParentRoot(r) = Root(t)
  <2>1. CASE r = 0
    BY <1>1, <2>1 DEF ParentTable, ParentRoot, HonestTable, Encode, Truthful, Instance
  <2>2. CASE r # 0
    <3>1. r - 1 \in 0 .. Rounds - 1 /\ r - 1 + 1 = r
      BY <1>1, <2>2
    <3>2. IsFolded(q, heard, r - 1)
      BY <1>1, <3>1
    <3>3. RoundTable(q, r) \in Tables(n) /\ opening.oracle_roots[r] = Root(RoundTable(q, r))
      <4>1. /\ RoundTable(q, r - 1 + 1) \in Tables(DomainAt(r - 1 + 1).size)
            /\ opening.oracle_roots[r - 1 + 1] = Root(RoundTable(q, r - 1 + 1))
        BY <3>2 DEF IsFolded
      <4> QED
        BY <3>1, <4>1
    <3> QED
      BY <2>2, <3>3 DEF ParentTable, ParentRoot, Tables
  <2> QED
    BY <2>1, <2>2
<1>8. u \in Tables(m) /\ DOMAIN u = 0 .. m - 1 /\ opening.oracle_roots[r + 1] = Root(u)
  BY <1>1 DEF IsFolded, Tables
<1> HIDE DEF n, m, P, E, p, t, u
<1>9. /\ OpenTree(t, E).queried_indices = Ascending(E) /\ TreeAccepts(Root(t), n, OpenTree(t, E))
      /\ \A i \in E : Opened(OpenTree(t, E), i) = t[i]
  BY <1>2, <1>5, <1>6, <1>7, OwnOpening
<1>10. /\ OpenTree(u, P).queried_indices = Ascending(P) /\ TreeAccepts(Root(u), m, OpenTree(u, P))
       /\ \A i \in P : Opened(OpenTree(u, P), i) = u[i]
  BY <1>2, <1>5, <1>8, OwnOpening
<1>11. OpeningsHold(r, queries)
  BY <1>4, <1>7, <1>8, <1>9, <1>10 DEF OpeningsHold, n, m, P, E, p
<1>12. ASSUME NEW c \in P
       PROVE  /\ \A o \in 0 .. K - 1 : Opened(p.parent, c + o * m) = t[c + o * m]
              /\ r + 1 # Rounds => Opened(p.child, c) = u[c]
  <2>1. ASSUME NEW o \in 0 .. K - 1 PROVE Opened(p.parent, c + o * m) = t[c + o * m]
    <3>1. c + o * m \in E
      BY <1>5
    <3> QED
      BY <1>4, <1>9, <3>1
  <2>2. r + 1 # Rounds => Opened(p.child, c) = u[c]
    BY <1>4, <1>10
  <2> QED
    BY <2>1, <2>2
<1> QED
  BY <1>5, <1>11, <1>12 DEF m, P, p, t, u

(* And every query passes.                                                 *)
LEMMA HonestRound ==
  ASSUME RingLaws, FriInv, Validated, pc = "check",
         NEW q, NEW heard, NEW asked, Follows(q, heard, asked),
         NEW r \in 0 .. Rounds - 1, NEW queries, queries = memo[asked[r + 1]]
  PROVE  RoundHolds(r, queries)
<1> DEFINE m == DomainAt(r + 1).size
           p == opening.rounds[r + 1]
<1>1. /\ OpeningsHold(r, queries)
      /\ Positions(queries) \in SUBSET (0 .. m - 1)
      /\ \A c \in Positions(queries) :
           /\ \A o \in 0 .. K - 1 : Opened(p.parent, c + o * m) = ParentTable(q, r)[c + o * m]
           /\ r + 1 # Rounds => Opened(p.child, c) = RoundTable(q, r + 1)[c]
  BY HonestOpenings
<1>2. opening.final_oracle = (IF Rounds = 0 THEN <<>> ELSE RoundTable(q, Rounds)) /\ Rounds \in Nat
  BY ReadFacts DEF Instance
<1>3. ASSUME NEW c \in Positions(queries) PROVE FiberHolds(r, c)
  <2> DEFINE points == FiberPoints(DomainAt(r), c, m, K)
             values == [o \in 0 .. K - 1 |-> Opened(p.parent, c + o * m)]
             slot == IF r + 1 = Rounds THEN opening.final_oracle[c] ELSE Opened(p.child, c)
  <2>1. c \in 0 .. m - 1
    BY <1>1
  <2>2. points = FiberOf(DomainAt(r), c, m, K)
    BY DEF FiberPoints, FiberOf
  <2>3. values = ValuesOnFiber(ParentTable(q, r), c, m, K)
    BY <1>1 DEF ValuesOnFiber
  <2>4. slot = RoundTable(q, r + 1)[c]
    <3>1. CASE r + 1 = Rounds
      <4>1. opening.final_oracle = RoundTable(q, r + 1)
        BY <1>2, <3>1
      <4> QED
        BY <3>1, <4>1
    <3>2. CASE r + 1 # Rounds
      BY <1>1, <3>2
    <3> QED
      BY <3>1, <3>2
  <2>5. FiberHolds(r, c) <=>
          IF r = 0 THEN VerifyVirtualFiber(points, values, K, statement, betas[1], slot)
          ELSE VerifyExplicitFiber(points, values, K, betas[r + 1], slot)
    BY DEF FiberHolds
  <2> HIDE DEF points, values, slot, m
  <2>6. IF r = 0 THEN VerifyVirtualFiber(points, values, K, statement, betas[1], RoundTable(q, r + 1)[c])
        ELSE VerifyExplicitFiber(points, values, K, betas[r + 1], RoundTable(q, r + 1)[c])
    BY <2>1, <2>2, <2>3, HonestFiber DEF m
  <2> QED
    BY <2>4, <2>5, <2>6
<1> QED
  BY <1>1, <1>3 DEF RoundHolds

(* Every step of an undamaged run goes on with it, and none rejects.       *)
LEMMA UndamagedKeeps ==
  ASSUME RingLaws, FriInv, Committed, RingInv, Undamaged, [Next]_vars
  PROVE  Undamaged'
<1> SUFFICES ASSUME damage' = "none"
             PROVE  /\ verdict' # "reject"
                    /\ OnItsWay' => \E q, heard, asked : Follows(q, heard, asked)'
  BY DEF Undamaged, OnItsWay
<1>1. /\ Validated /\ RoundStarts /\ TablesMade /\ Drawn
      /\ pc # "done" => verdict = "none"
  BY DEF RingInv, FriInv
<1>2. ASSUME NEW stage, Refuse(stage) PROVE verdict' # "reject" /\ ~OnItsWay'
  BY <1>2 DEF Refuse, OnItsWay
<1>3. CASE Commit
  BY <1>1, <1>3 DEF Commit, OnItsWay
<1>4. ASSUME NEW f \in Polynomials, NEW alpha \in OpeningPoints, Open(f, alpha)
      PROVE  verdict' # "reject" /\ \E q, heard, asked : Follows(q, heard, asked)'
  <2>1. verdict' # "reject"
    BY <1>1, <1>4 DEF Open
  <2> QED
    BY <1>1, <1>4, <2>1, OpenFollows
<1>5. ASSUME damage = "none", OnItsWay PROVE \E q, heard, asked : Follows(q, heard, asked)
  BY <1>5 DEF Undamaged
<1>6. ASSUME NEW beta \in FoldingChallenges, NEW slip \in BOOLEAN, FoldRound(beta, slip)
      PROVE  verdict' # "reject" /\ \E q, heard, asked : Follows(q, heard, asked)'
  <2>1. /\ pc = "fold" /\ verdict' # "reject"
        /\ damage' = IF slip THEN "slot" ELSE damage
    BY <1>1, <1>6 DEF FoldRound
  <2>2. slip = FALSE /\ damage = "none"
    BY <2>1
  <2>3. PICK q, heard, asked : Follows(q, heard, asked)
    BY <1>5, <2>1, <2>2 DEF OnItsWay
  <2>4. FoldRound(beta, FALSE)
    BY <1>6, <2>2
  <2>5. \E heard2, asked2 : Follows(q, heard2, asked2)'
    BY <1>1, <2>3, <2>4, FoldFollows
  <2> QED
    BY <2>1, <2>5
<1>7. ASSUME NEW queries \in QueryPositions(round), QueryRound(queries)
      PROVE  verdict' # "reject" /\ \E q, heard, asked : Follows(q, heard, asked)'
  <2>1. pc = "query" /\ verdict' # "reject" /\ damage = "none"
    BY <1>1, <1>7 DEF QueryRound
  <2>2. PICK q, heard, asked : Follows(q, heard, asked)
    BY <1>5, <2>1 DEF OnItsWay
  <2>3. \E heard2, asked2 : Follows(q, heard2, asked2)'
    BY <1>1, <1>7, <2>2, QueryFollows
  <2> QED
    BY <2>1, <2>3
<1>8. ASSUME NEW kind, Deliver(kind)
      PROVE  verdict' # "reject" /\ \E q, heard, asked : Follows(q, heard, asked)'
  <2>1. /\ pc = "deliver" /\ verdict' # "reject"
        /\ damage' = IF kind = "none" THEN damage ELSE kind
    BY <1>1, <1>8 DEF Deliver
  <2>2. kind = "none" /\ damage = "none"
    BY <2>1
  <2>3. PICK q, heard, asked : Follows(q, heard, asked)
    BY <1>5, <2>1, <2>2 DEF OnItsWay
  <2>4. Deliver("none")
    BY <1>8, <2>2
  <2>5. Follows(q, heard, asked)'
    BY <1>1, <2>3, <2>4, DeliverFollows
  <2> QED
    BY <2>1, <2>5
<1>9. ASSUME VerifierStep PROVE damage = "none" /\ \E q, heard, asked : Follows(q, heard, asked)
  BY <1>5, <1>9 DEF VerifierStep, OnItsWay
<1>10. CASE VerifyRefuses
  <2>1. VerifierStep /\ pc = "verify" /\ ~(EntryHolds /\ ShapeHolds)
    BY <1>10, VerifierSteps DEF VerifyRefuses
  <2>2. PICK q, heard, asked : Follows(q, heard, asked)
    BY <1>9, <2>1
  <2> QED
    BY <1>1, <2>1, <2>2, HonestShape
<1>11. CASE VerifyZeroRounds
  <2>1. /\ VerifierStep /\ pc = "verify" /\ Rounds = 0 /\ pc' = "done"
        /\ verdict' = IF RevealedHolds THEN "accept" ELSE "reject"
    BY <1>11, VerifierSteps DEF VerifyZeroRounds, Decide
  <2>2. PICK q, heard, asked : Follows(q, heard, asked)
    BY <1>9, <2>1
  <2>3. RevealedHolds
    BY <1>1, <2>1, <2>2, HonestRevealed
  <2> QED
    BY <2>1, <2>3 DEF OnItsWay
<1>12. CASE VerifyStart
  <2>1. VerifierStep /\ verdict' # "reject"
    BY <1>1, <1>12, VerifierSteps DEF VerifyStart
  <2>2. PICK q, heard, asked : Follows(q, heard, asked)
    BY <1>9, <2>1
  <2>3. Follows(q, heard, asked)'
    BY <1>1, <1>12, <2>2, VerifyStartFollows
  <2> QED
    BY <2>1, <2>3
<1>13. ASSUME NEW beta \in FoldingChallenges, ReplayRound(beta)
       PROVE  verdict' # "reject" /\ \E q, heard, asked : Follows(q, heard, asked)'
  <2>1. VerifierStep /\ verdict' # "reject"
    BY <1>1, <1>13, VerifierSteps DEF ReplayRound
  <2>2. PICK q, heard, asked : Follows(q, heard, asked)
    BY <1>9, <2>1
  <2>3. Follows(q, heard, asked)'
    BY <1>1, <1>13, <2>2, ReplayFollows
  <2> QED
    BY <2>1, <2>3
<1>14. CASE CheckFinalOracle
  <2>1. VerifierStep /\ pc = "final"
    BY <1>14, VerifierSteps DEF CheckFinalOracle
  <2>2. PICK q, heard, asked : Follows(q, heard, asked)
    BY <1>9, <2>1
  <2>3. FinalOracleHolds
    BY <1>1, <2>1, <2>2, HonestFinal
  <2>4. pc' = "check" /\ verdict' # "reject"
    BY <1>1, <1>14, <2>3 DEF CheckFinalOracle
  <2>5. Follows(q, heard, asked)'
    BY <1>1, <1>14, <2>2, <2>4, FinalFollows
  <2> QED
    BY <2>4, <2>5
<1>15. ASSUME NEW queries, VerifyRound(queries)
       PROVE  /\ verdict' # "reject"
              /\ OnItsWay' => \E q, heard, asked : Follows(q, heard, asked)'
  <2>1. VerifierStep /\ pc = "check"
    BY <1>15, VerifierSteps DEF VerifyRound
  <2>2. PICK q, heard, asked : Follows(q, heard, asked)
    BY <1>9, <2>1
  <2>3. round \in 0 .. Rounds - 1 /\ queries = memo[asked[round + 1]]
    BY <1>1, <1>15, <2>2, SameQueries
  <2>4. RoundHolds(round, queries)
    BY <1>1, <2>1, <2>2, <2>3, HonestRound
  <2>5. verdict' # "reject" /\ pc' \in {"check", "done"}
    BY <1>1, <1>15, <2>1, <2>4 DEF VerifyRound, Decide
  <2>6. CASE pc' = "check"
    BY <1>1, <1>15, <2>2, <2>5, <2>6, CheckFollows
  <2>7. CASE pc' = "done"
    BY <2>5, <2>7 DEF OnItsWay
  <2> QED
    BY <2>5, <2>6, <2>7
<1>16. CASE UNCHANGED vars
  <2>1. UNCHANGED <<pc, setup, polynomial, commitment, statement, opening, tables, damage,
                    transcript, memo, round, betas, verdict>>
    BY <1>16 DEF vars, messages
  <2>2. damage = "none" /\ verdict' # "reject" /\ (OnItsWay' <=> OnItsWay)
    BY <2>1 DEF Undamaged, OnItsWay
  <2>3. ASSUME OnItsWay PROVE \E q, heard, asked : Follows(q, heard, asked)'
    <3>1. PICK q, heard, asked : Follows(q, heard, asked)
      BY <1>5, <2>2, <2>3
    <3>2. Follows(q, heard, asked)'
      BY <2>1, <3>1, StutterFollows
    <3> QED
      BY <3>2
  <2> QED
    BY <2>2, <2>3
<1>17. ASSUME NEW f, NEW value, Substitute(f, value) PROVE FALSE
  BY <1>17 DEF Substitute
<1> QED
  BY <1>2, <1>3, <1>4, <1>6, <1>7, <1>8, <1>10, <1>11, <1>12, <1>13, <1>14, <1>15, <1>16, <1>17
     DEF Next, CommitRefuses, OpenRefuses, Return

(* Completeness: a run in which nothing was damaged is never rejected, for *)
(* every setup, polynomial, opening point, challenge and query position.   *)
THEOREM IntactAccepted ==
  ASSUME RingLaws PROVE Spec => []IntactIsAccepted
<1>1. Init => Undamaged
  BY DEF Init, Undamaged, OnItsWay
<1>2. FriInv /\ Committed /\ RingInv /\ Undamaged /\ [Next]_vars => Undamaged'
  BY UndamagedKeeps
<1>3. Undamaged => IntactIsAccepted
  BY DEF Undamaged, IntactIsAccepted
<1> QED
  BY <1>1, <1>2, <1>3, Invariance, CommittedHolds, RingInvariance, PTL DEF Spec
=============================================================================
