---------------------------- MODULE CryptoProofs ----------------------------
(***************************************************************************)
(* Proofs about the parts every protocol's proofs rest on, the Merkle tree *)
(* and the transcript.                                                     *)
(*                                                                         *)
(* MerkleTree, for every payload set and every bound: the variables keep   *)
(* their types; an accepted proof shows the leaves the tree was built      *)
(* from; the verifier's walk follows the planner's schedule and accepts    *)
(* one vector of siblings only; and the tree implements the safety part of *)
(* VectorCommitment, step by step.                                         *)
(*                                                                         *)
(* Transcript, for any parties, messages and requests, any sizes of bytes, *)
(* blocks and indices and histories of any length: equal challenges mean   *)
(* equal histories, and sampling is even.                                  *)
(***************************************************************************)
EXTENDS MerkleTree, Transcript, SharedFacts, SequenceTheorems

IsPowerOfTwo(w) == \E k \in Nat : w = 2^k

(* What a turn of the padding loop does to the width.                      *)
LEMMA DoublePower ==
  ASSUME NEW w \in Nat, IsPowerOfTwo(w)
  PROVE  IsPowerOfTwo(2 * w)
<1>1. PICK k \in Nat : w = 2^k
  BY DEF IsPowerOfTwo
<1>2. 2^(k + 1) = 2 * w /\ k + 1 \in Nat
  BY <1>1, PowerOfNext
<1> QED
  BY <1>2 DEF IsPowerOfTwo

(* What one level up does to it.                                           *)
LEMMA HalvePower ==
  ASSUME NEW w \in Nat, w > 1, IsPowerOfTwo(w)
  PROVE  w % 2 = 0 /\ IsPowerOfTwo(w \div 2)
<1>1. PICK k \in Nat : w = 2^k
  BY DEF IsPowerOfTwo
<1>2. k # 0
  <2>1. k = 0 => 2^k = 2^0
    BY Zenon
  <2> QED
    BY <1>1, <2>1, PowerOfZero
<1>3. k - 1 \in Nat /\ (k - 1) + 1 = k
  BY <1>2
<1> DEFINE h == 2^(k - 1)
<1>4. h \in Nat /\ w = 2 * h
  BY <1>1, <1>3, PowerType, PowerOfNext
<1>5. IsPowerOfTwo(h)
  BY <1>3 DEF IsPowerOfTwo
<1> HIDE DEF h
<1>6. w % 2 = 0 /\ w \div 2 = h
  BY <1>4
<1> QED
  BY <1>5, <1>6

-----------------------------------------------------------------------------
(* The multiproof, level by level. *)

OfLevel(leafSet, l) == {<<l, Sibling(n)>> : n \in Lone(Ancestors(leafSet, l))}
Below(w, leafSet, l) == {s \in PlanSiblings(w, leafSet) : s[1] < l}

(* The siblings of a plan are finitely many, and level by level the ones   *)
(* of its lone nodes.                                                      *)
LEMMA PlanByLevel ==
  ASSUME NEW d \in Nat, NEW S \in SUBSET Nat, IsFiniteSet(S)
  PROVE  /\ PlanSiblings(2^d, S) \in SUBSET Pairs /\ IsFiniteSet(PlanSiblings(2^d, S))
         /\ \A s \in PlanSiblings(2^d, S) : s[1] \in 0 .. d - 1 /\ s \in OfLevel(S, s[1])
         /\ \A l \in 0 .. d - 1 : OfLevel(S, l) \subseteq PlanSiblings(2^d, S)
         /\ \A l \in Nat : /\ Ancestors(S, l) \in SUBSET Nat
                           /\ IsFiniteSet(Ancestors(S, l)) /\ IsFiniteSet(Lone(Ancestors(S, l)))
<1>1. PlanSiblings(2^d, S) = UNION {OfLevel(S, l) : l \in 0 .. d - 1}
  <2>1. InnerLevels(2^d) = 0 .. d - 1
    BY InnerLevelsOf
  <2> QED
    BY <2>1 DEF PlanSiblings, OfLevel
<1>2. ASSUME NEW l \in Nat
      PROVE  /\ Ancestors(S, l) \in SUBSET Nat
             /\ IsFiniteSet(Ancestors(S, l)) /\ IsFiniteSet(Lone(Ancestors(S, l)))
  <2>1. Ancestors(S, l) \in SUBSET Nat
    BY AncestorsStep
  <2>2. IsFiniteSet(Ancestors(S, l))
    <3> DEFINE up == [n \in S |-> n \div 2^l]
    <3>1. up \in Surjection(S, Ancestors(S, l))
      BY DEF Surjection, Ancestors
    <3> QED
      BY <3>1, FS_Surjection
  <2>3. Lone(Ancestors(S, l)) \subseteq Ancestors(S, l)
    BY DEF Lone
  <2> QED
    BY <2>1, <2>2, <2>3, FS_Subset
<1>3. ASSUME NEW l \in Nat
      PROVE  OfLevel(S, l) \in SUBSET Pairs /\ IsFiniteSet(OfLevel(S, l))
  <2>1. \A n \in Lone(Ancestors(S, l)) : n \in Nat
    BY <1>2 DEF Lone
  <2>2. OfLevel(S, l) \in SUBSET Pairs
    <3>1. \A n \in Lone(Ancestors(S, l)) : <<l, Sibling(n)>> \in Pairs
      BY <2>1, ParentFacts DEF Pairs
    <3> QED
      BY <3>1, Zenon DEF OfLevel
  <2> DEFINE of == [n \in Lone(Ancestors(S, l)) |-> <<l, Sibling(n)>>]
  <2>3. of \in Surjection(Lone(Ancestors(S, l)), OfLevel(S, l))
    BY DEF Surjection, OfLevel
  <2> QED
    BY <1>2, <2>2, <2>3, FS_Surjection
<1>4. \A l \in 0 .. d - 1 : l \in Nat
  OBVIOUS
<1>5. IsFiniteSet(PlanSiblings(2^d, S))
  <2> DEFINE F == {OfLevel(S, l) : l \in 0 .. d - 1}
  <2>1. IsFiniteSet(0 .. d - 1)
    BY FS_Interval
  <2>2. [l \in 0 .. d - 1 |-> OfLevel(S, l)] \in Surjection(0 .. d - 1, F)
    BY DEF Surjection
  <2>3. IsFiniteSet(F)
    <3> HIDE DEF F
    <3> QED
      BY <2>1, <2>2, FS_Surjection
  <2>4. \A T \in F : IsFiniteSet(T)
    BY <1>3, <1>4
  <2> HIDE DEF F
  <2>5. IsFiniteSet(UNION F)
    BY <2>3, <2>4, FS_UNION
  <2> QED
    BY <1>1, <2>5 DEF F
<1>6. PlanSiblings(2^d, S) \in SUBSET Pairs
  BY <1>1, <1>3, <1>4
<1>7. \A s \in PlanSiblings(2^d, S) : s[1] \in 0 .. d - 1 /\ s \in OfLevel(S, s[1])
  <2> SUFFICES ASSUME NEW l \in 0 .. d - 1, NEW s \in OfLevel(S, l)
               PROVE  s[1] \in 0 .. d - 1 /\ s \in OfLevel(S, s[1])
    BY <1>1
  <2>1. s[1] = l
    BY DEF OfLevel
  <2> QED
    BY <2>1
<1>8. \A l \in 0 .. d - 1 : OfLevel(S, l) \subseteq PlanSiblings(2^d, S)
  BY <1>1
<1> QED
  BY <1>2, <1>5, <1>6, <1>7, <1>8

(* The siblings of lone nodes stand in the order of the nodes.             *)
LEMMA LoneSiblingsInOrder ==
  ASSUME NEW S \in SUBSET Nat, NEW m \in Lone(S), NEW n \in Lone(S)
  PROVE  (Sibling(m) < Sibling(n) <=> m < n) /\ (Sibling(m) = Sibling(n) <=> m = n)
<1>1. m \in Nat /\ n \in Nat /\ Sibling(m) # n /\ Sibling(n) # m
  BY DEF Lone
<1> QED
  BY <1>1 DEF Sibling

(* Where the proof carries the sibling of a lone node: after the levels    *)
(* below and the lone nodes to its left; and how far a level takes it.     *)
LEMMA LevelPosition ==
  ASSUME NEW d \in Nat, NEW S \in SUBSET Nat, IsFiniteSet(S), NEW l \in 0 .. d - 1
  PROVE  LET lone  == Lone(Ancestors(S, l))
             under == Cardinality(Below(2^d, S, l))
         IN  /\ under \in Nat /\ Cardinality(lone) \in Nat
             /\ Cardinality(Below(2^d, S, l + 1)) = under + Cardinality(lone)
             /\ \A n \in lone :
                  /\ Rank(n, lone) \in 1 .. Cardinality(lone)
                  /\ Cardinality(Ahead(PlanSiblings(2^d, S), <<l, Sibling(n)>>)) + 1
                       = under + Rank(n, lone)
<1> DEFINE lone == Lone(Ancestors(S, l))
           PS == PlanSiblings(2^d, S)
           low == Below(2^d, S, l)
           of(n) == <<l, Sibling(n)>>
<1>1. /\ PS \in SUBSET Pairs /\ IsFiniteSet(PS)
      /\ \A s \in PS : s[1] \in 0 .. d - 1 /\ s \in OfLevel(S, s[1])
      /\ OfLevel(S, l) \subseteq PS /\ l \in Nat
      /\ Ancestors(S, l) \in SUBSET Nat /\ IsFiniteSet(lone)
  BY PlanByLevel
<1>2. low = {s \in PS : s[1] < l} /\ OfLevel(S, l) = {of(n) : n \in lone}
  BY DEF Below, OfLevel
<1>3. IsFiniteSet(low) /\ Cardinality(low) \in Nat /\ Cardinality(lone) \in Nat
  <2>1. low \in SUBSET PS
    BY <1>2
  <2> HIDE DEF low, PS, lone
  <2> QED
    BY <1>1, <2>1, FS_Subset, FS_CardinalityType
<1>4. \A m, n \in lone : /\ (Sibling(m) < Sibling(n) <=> m < n) /\ (Sibling(m) = Sibling(n) <=> m = n)
  BY <1>1, LoneSiblingsInOrder
<1>5. \A n \in lone : n \in Nat
  BY <1>1 DEF Lone
<1>6. Below(2^d, S, l + 1) = low \cup OfLevel(S, l)
  <2>1. Below(2^d, S, l + 1) = {s \in PS : s[1] < l + 1}
    BY DEF Below
  <2>2. \A s \in PS : s[1] < l + 1 <=> s[1] < l \/ s[1] = l
    BY <1>1
  <2>3. \A s \in PS : s[1] = l => s \in OfLevel(S, l)
    BY <1>1
  <2>4. \A s \in OfLevel(S, l) : s \in PS /\ s[1] = l
    BY <1>1, <1>2
  <2> HIDE DEF PS, low, lone
  <2> QED
    BY <1>2, <2>1, <2>2, <2>3, <2>4
<1> HIDE DEF lone, PS, low
(* Any part of the lone nodes, on top of the levels below.                 *)
<1>7. ASSUME NEW part \in SUBSET lone
      PROVE  /\ IsFiniteSet(part) /\ Cardinality(part) \in Nat
             /\ Cardinality(low \cup {of(n) : n \in part}) = Cardinality(low) + Cardinality(part)
  <2> DEFINE img == {of(n) : n \in part}
  <2>1. IsFiniteSet(part) /\ Cardinality(part) \in Nat
    BY <1>1, FS_Subset, FS_CardinalityType
  <2>2. [n \in part |-> of(n)] \in Bijection(part, img)
    BY <1>4 DEF Bijection, Injection, IsInjective, Surjection
  <2>3. \A s \in img : s[1] = l
    OBVIOUS
  <2>4. \A s \in low : ~(s[1] = l)
    <3>1. \A s \in low : s[1] \in Nat /\ s[1] < l
      BY <1>1, <1>2
    <3> QED
      BY <1>1, <3>1
  <2> HIDE DEF img
  <2>5. IsFiniteSet(img) /\ Cardinality(img) = Cardinality(part)
    BY <2>1, <2>2, FS_Bijection DEF ExistsBijection
  <2>6. low \cap img = {}
    BY <2>3, <2>4
  <2>7. Cardinality(low \cup img) = Cardinality(low) + Cardinality(img) - Cardinality({})
    BY <1>3, <2>5, <2>6, FS_Union
  <2>8. Cardinality({}) = 0
    BY FS_EmptySet
  <2> DEFINE a == Cardinality(low \cup img)
             b == Cardinality(low)
             c == Cardinality(img)
  <2>9. a = b + c - 0 /\ b \in Nat /\ c \in Nat
    BY <1>3, <2>1, <2>5, <2>7, <2>8
  <2> HIDE DEF a, b, c
  <2>10. a = b + c
    BY <2>9
  <2> QED
    BY <2>1, <2>5, <2>10 DEF a, b, c, img
<1>8. Cardinality(Below(2^d, S, l + 1)) = Cardinality(low) + Cardinality(lone)
  BY <1>2, <1>6, <1>7
<1>9. ASSUME NEW n \in lone
      PROVE  /\ Rank(n, lone) \in 1 .. Cardinality(lone)
             /\ Cardinality(Ahead(PS, of(n))) + 1 = Cardinality(low) + Rank(n, lone)
  <2> DEFINE part == {m \in lone : m < n}
             upto == {m \in lone : m <= n}
  <2>1. upto = part \cup {n} /\ n \notin part
    BY <1>5
  <2>2. IsFiniteSet(part) /\ Cardinality(part) \in Nat /\ IsFiniteSet(upto) /\ Cardinality(upto) \in Nat
    BY <1>7
  <2>3. Ahead(PS, of(n)) = low \cup {of(m) : m \in part}
    <3>1. ASSUME NEW s \in Ahead(PS, of(n))
          PROVE  s \in low \cup {of(m) : m \in part}
      <4>1. s \in PS /\ (s[1] < l \/ (s[1] = l /\ s[2] < Sibling(n)))
        BY DEF Ahead, Precedes
      <4>2. CASE s[1] < l
        BY <1>2, <4>1, <4>2
      <4>3. CASE s[1] = l /\ s[2] < Sibling(n)
        <5>1. PICK m \in lone : s = of(m)
          BY <1>1, <1>2, <4>1, <4>3
        <5>2. m < n
          BY <1>4, <4>3, <5>1
        <5> QED
          BY <5>1, <5>2
      <4> QED
        BY <4>1, <4>2, <4>3
    <3>2. ASSUME NEW s \in low
          PROVE  s \in Ahead(PS, of(n))
      BY <1>2 DEF Ahead, Precedes
    <3>3. ASSUME NEW m \in part
          PROVE  of(m) \in Ahead(PS, of(n))
      <4>1. of(m) \in PS
        BY <1>1, <1>2
      <4>2. Sibling(m) < Sibling(n)
        BY <1>4
      <4> QED
        BY <4>1, <4>2 DEF Ahead, Precedes
    <3> HIDE DEF part, of
    <3> QED
      BY <3>1, <3>2, <3>3
  <2>4. Cardinality(Ahead(PS, of(n))) = Cardinality(low) + Cardinality(part)
    BY <1>7, <2>3
  <2>5. Rank(n, lone) = Cardinality(upto)
    BY DEF Rank
  <2>6. Cardinality(upto) <= Cardinality(lone)
    <3>1. upto \in SUBSET lone
      OBVIOUS
    <3> HIDE DEF upto
    <3> QED
      BY <1>1, <3>1, FS_Subset
  <2> HIDE DEF part, upto, of
  <2>7. Cardinality(upto) = Cardinality(part) + 1
    BY <2>1, <2>2, FS_AddElement
  <2> DEFINE a == Cardinality(Ahead(PS, of(n)))
             b == Cardinality(low)
             c == Cardinality(part)
             r == Rank(n, lone)
             N == Cardinality(lone)
  <2>8. a = b + c /\ r = c + 1 /\ r <= N /\ b \in Nat /\ c \in Nat /\ N \in Nat
    BY <1>3, <2>2, <2>4, <2>5, <2>6, <2>7
  <2> HIDE DEF a, b, c, r, N
  <2>9. r \in 1 .. N /\ a + 1 = b + r
    BY <2>8
  <2> QED
    BY <2>9 DEF a, b, r, N
<1> QED
  BY <1>3, <1>8, <1>9 DEF lone, PS, low

-----------------------------------------------------------------------------
(* The inductive invariant. *)

(* While it is padded and built, the tree has the widths and the hashes    *)
(* the code intends; afterwards its top is one node, the root.             *)
TreeTypes ==
  /\ pc \in Phases
  /\ leaves \in Seq(Payload)
  /\ LeafCount <= MaxLeaves
  /\ padded \in Nat \ {0}
  /\ IsPowerOfTwo(padded)
  /\ pc = "pad" \/ LeafCount = 0 => levels = <<>>
  /\ pc = "build" => LeafCount > 0

HasLevels == pc # "pad" /\ LeafCount > 0

LeavesHashed ==
  HasLevels =>
    /\ Len(levels) \in Nat \ {0}
    /\ DOMAIN levels = 1 .. Len(levels)
    /\ levels[1].size >= LeafCount
    /\ levels[1].size = padded
    /\ \A s \in 0 .. LeafCount - 1 : levels[1].at[s] = HashLeaf(leaves[s + 1])

LevelsHalve ==
  HasLevels =>
    \A l \in 1 .. Len(levels) :
      /\ levels[l].size \in Nat \ {0}
      /\ IsPowerOfTwo(levels[l].size)
      /\ DOMAIN levels[l].at = 0 .. levels[l].size - 1

ParentsHash ==
  HasLevels =>
    \A l \in 1 .. Len(levels) - 1 :
      /\ levels[l].size = 2 * levels[l + 1].size
      /\ \A p \in 0 .. levels[l + 1].size - 1 :
           levels[l + 1].at[p] = HashParent(levels[l].at[2 * p], levels[l].at[2 * p + 1])

RootOnTop ==
  HasLevels /\ pc # "build" => Top.size = 1 /\ root = Top.at[0]

TreeInv == TreeTypes /\ LeavesHashed /\ LevelsHalve /\ ParentsHash /\ RootOnTop

(* A row of the received proof that lies about its leaf. *)
Lies(k) == received.leaf_payloads[k] # leaves[received.queried_indices[k] + 1]

RowsNameLeaves ==
  /\ DOMAIN received.leaf_payloads = DOMAIN received.queried_indices
  /\ \A k \in DOMAIN received.queried_indices :
       received.queried_indices[k] \in 0 .. LeafCount - 1
  /\ \A j, k \in DOMAIN received.queried_indices :
       received.queried_indices[j] = received.queried_indices[k] => j = k

(* While verify climbs, one lie in the proof leaves at least one known     *)
(* node with a hash the tree does not have there.  This is what makes      *)
(* Binding inductive: the lie is still visible at the root.                *)
ClimbInv ==
  pc = "climb" =>
    /\ LeafCount > 0
    /\ RowsNameLeaves
    /\ vlevel \in 1 .. Len(levels)
    /\ vwidth = levels[vlevel].size
    /\ Known \subseteq 0 .. vwidth - 1
    /\ (\E k \in DOMAIN received.queried_indices : Lies(k)) =>
         \E n \in Known : current[n] # levels[vlevel].at[n]

CounterTypes == vlevel \in Nat /\ vwidth \in Nat /\ cursor \in Nat

Inv == TreeInv /\ ClimbInv /\ CounterTypes /\ Binding

-----------------------------------------------------------------------------

(* Before the constructor runs there are no levels and nothing is known.   *)
LEMMA InitEstablishesInv == Init => Inv
<1> SUFFICES ASSUME Init PROVE Inv
  OBVIOUS
<1>1. leaves \in Seq(Payload) /\ LeafCount <= MaxLeaves
  <2>1. PICK n \in 0 .. MaxLeaves : leaves \in [1 .. n -> Payload]
    BY DEF Init
  <2>2. n \in Nat /\ n <= MaxLeaves
    BY <2>1, BoundsAssumption
  <2>3. leaves \in Seq(Payload)
    BY <2>1, <2>2, SeqDef
  <2>4. Len(leaves) = n
    BY <2>1, <2>2, <2>3, LenProperties
  <2> QED
    BY <2>2, <2>3, <2>4 DEF LeafCount
<1>2. IsPowerOfTwo(1)
  BY PowerOfZero DEF IsPowerOfTwo
<1>3. TreeInv
  BY <1>1, <1>2
  DEF Init, Phases, TreeInv, TreeTypes, LeavesHashed, LevelsHalve, ParentsHash,
      RootOnTop, HasLevels
<1>4. ClimbInv /\ CounterTypes /\ Binding
  BY DEF Init, ClimbInv, CounterTypes, Binding
<1> QED
  BY <1>3, <1>4 DEF Inv

(* After construction nothing touches the tree. *)
LEMMA TreeIsConst ==
  ASSUME TreeInv, pc \notin {"pad", "build"}, pc' \in Phases \ {"pad", "build"},
         UNCHANGED treevars
  PROVE  TreeInv'
  BY DEF TreeInv, TreeTypes, LeavesHashed, LevelsHalve, ParentsHash, RootOnTop,
         HasLevels, Top, LeafCount, treevars

(* The constructor builds the tree. *)
LEMMA ConstructKeepsTree == TreeInv /\ Construct => TreeInv'
<1> SUFFICES ASSUME TreeInv, Construct PROVE TreeInv'
  OBVIOUS
<1> USE DEF TreeInv
<1>1. CASE ConstructEmpty
  BY <1>1
  DEF ConstructEmpty, treevars, TreeTypes, LeavesHashed, LevelsHalve, ParentsHash,
      RootOnTop, HasLevels, LeafCount, Phases
<1>2. CASE DoublePadding
  <2>1. padded' \in Nat \ {0} /\ IsPowerOfTwo(padded')
    BY <1>2, DoublePower DEF DoublePadding, TreeTypes
  <2> QED
    BY <1>2, <2>1
    DEF DoublePadding, TreeTypes, LeavesHashed, LevelsHalve, ParentsHash,
        RootOnTop, HasLevels, LeafCount
<1>3. CASE HashLeaves
  <2> DEFINE bottom == [size |-> padded, at |-> [s \in 0 .. padded - 1 |-> LeafSlot(s)]]
  <2>1. levels' = <<bottom>> /\ UNCHANGED <<leaves, padded>> /\ pc' = "build"
    BY <1>3 DEF HashLeaves
  <2>2. Len(levels') = 1 /\ DOMAIN levels' = 1 .. 1 /\ levels'[1] = bottom
    BY <2>1
  <2>3. LeafCount \in Nat
    BY DEF TreeTypes, LeafCount
  <2>4. padded \in Nat /\ padded >= LeafCount /\ LeafCount > 0
    BY <1>3 DEF HashLeaves, TreeTypes
  <2>5. \A s \in 0 .. LeafCount - 1 : bottom.at[s] = HashLeaf(leaves[s + 1])
    BY <2>3, <2>4 DEF LeafSlot
  <2>6. TreeTypes'
    BY <2>1, <2>4 DEF TreeTypes, LeafCount, Phases
  <2>7. LeavesHashed'
    <3>1. LeafCount' = LeafCount /\ leaves' = leaves /\ padded' = padded
      BY <2>1 DEF LeafCount
    <3>2. bottom.size = padded
      OBVIOUS
    <3> HIDE DEF bottom
    <3> QED
      BY <2>2, <2>4, <2>5, <3>1, <3>2 DEF LeavesHashed
  <2>8. LevelsHalve'
    BY <2>1, <2>2, <2>4 DEF LevelsHalve, TreeTypes
  <2>9. ParentsHash' /\ RootOnTop'
    BY <2>1, <2>2 DEF ParentsHash, RootOnTop
  <2> QED
    BY <2>6, <2>7, <2>8, <2>9
<1>4. CASE BuildLevel
  <2> DEFINE half == Top.size \div 2
             next == [size |-> half,
                      at   |-> [p \in 0 .. half - 1 |->
                                  HashParent(Top.at[2 * p], Top.at[2 * p + 1])]]
             top  == Len(levels)
  <2>1. levels' = Append(levels, next) /\ UNCHANGED <<leaves, padded, pc>> /\ pc = "build"
        /\ Top.size > 1
    BY <1>4 DEF BuildLevel
  <2>2. HasLevels /\ LeafCount' = LeafCount /\ HasLevels'
    BY <2>1 DEF HasLevels, TreeTypes, LeafCount
  <2>3. top \in Nat \ {0} /\ DOMAIN levels = 1 .. top
    BY <2>2 DEF LeavesHashed
  <2>4. Len(levels') = top + 1 /\ DOMAIN levels' = 1 .. top + 1
    BY <2>1, <2>3
  <2>5. levels'[top + 1] = next /\ \A l \in 1 .. top : levels'[l] = levels[l]
    BY <2>1, <2>3
  <2>6. Top.size \in Nat /\ Top.size % 2 = 0 /\ IsPowerOfTwo(half)
    BY <2>1, <2>2, <2>3, HalvePower DEF Top, LevelsHalve
  <2>7. half \in Nat \ {0} /\ Top.size = 2 * half
    BY <2>1, <2>6
  <2> HIDE DEF half
  <2>8. TreeTypes'
    BY <2>1, <2>2 DEF TreeTypes, LeafCount
  <2>9. LeavesHashed'
    <3>1. Len(levels') \in Nat \ {0} /\ DOMAIN levels' = 1 .. Len(levels')
      BY <2>3, <2>4
    <3>2. levels'[1] = levels[1]
      BY <2>3, <2>5
    <3> QED
      BY <2>1, <2>2, <3>1, <3>2 DEF LeavesHashed
  <2>10. LevelsHalve'
    <3>1. next.size = half /\ DOMAIN next.at = 0 .. half - 1
      OBVIOUS
    <3>2. ASSUME NEW l \in 1 .. top + 1
          PROVE  /\ levels'[l].size \in Nat \ {0}
                 /\ IsPowerOfTwo(levels'[l].size)
                 /\ DOMAIN levels'[l].at = 0 .. levels'[l].size - 1
      <4>1. CASE l = top + 1
        BY <4>1, <2>5, <2>6, <2>7, <3>1
      <4>2. CASE l # top + 1
        <5>1. l \in 1 .. top
          BY <4>2, <2>3
        <5> QED
          BY <5>1, <2>2, <2>3, <2>5 DEF LevelsHalve
      <4> QED
        BY <4>1, <4>2
    <3> QED
      BY <2>4, <3>2 DEF LevelsHalve
  <2>11. ParentsHash'
    <3>1. ASSUME NEW l \in 1 .. top
          PROVE  /\ levels'[l].size = 2 * levels'[l + 1].size
                 /\ \A p \in 0 .. levels'[l + 1].size - 1 :
                      levels'[l + 1].at[p] =
                        HashParent(levels'[l].at[2 * p], levels'[l].at[2 * p + 1])
      <4>1. CASE l = top
        <5>1. levels'[l] = Top /\ levels'[l + 1] = next
          BY <4>1, <2>3, <2>5 DEF Top
        <5>2. next.size = half /\ \A p \in 0 .. half - 1 :
                next.at[p] = HashParent(Top.at[2 * p], Top.at[2 * p + 1])
          OBVIOUS
        <5> QED
          BY <5>1, <5>2, <2>7
      <4>2. CASE l # top
        <5>1. l \in 1 .. top - 1 /\ l \in 1 .. top /\ l + 1 \in 1 .. top
          <6> HIDE DEF top
          <6> QED
            BY <4>2, <2>3
        <5>2. levels'[l] = levels[l] /\ levels'[l + 1] = levels[l + 1]
          BY <5>1, <2>5
        <5> QED
          BY <5>1, <5>2, <2>2 DEF ParentsHash
      <4> QED
        BY <4>1, <4>2
    <3>2. Len(levels') - 1 = top
      BY <2>3, <2>4
    <3> QED
      BY <3>1, <3>2 DEF ParentsHash
  <2>12. RootOnTop'
    BY <2>1 DEF RootOnTop
  <2> QED
    BY <2>8, <2>9, <2>10, <2>11, <2>12
<1>5. CASE TakeRoot
  <2>1. HasLevels /\ pc' = "ready" /\ root' = Top.at[0] /\ Top.size <= 1
        /\ UNCHANGED <<leaves, padded, levels>>
    BY <1>5 DEF TakeRoot, HasLevels, TreeTypes
  <2>2. Top.size = 1
    BY <2>1 DEF LevelsHalve, LeavesHashed, Top
  <2> QED
    BY <2>1, <2>2
    DEF TreeTypes, LeavesHashed, LevelsHalve, ParentsHash, RootOnTop, HasLevels,
        Top, LeafCount, Phases
<1> QED
  BY <1>1, <1>2, <1>3, <1>4, <1>5 DEF Construct

(* The constructor leaves verify alone. *)
LEMMA ConstructKeepsRest ==
  ASSUME Inv, Construct
  PROVE  ClimbInv' /\ CounterTypes' /\ Binding'
<1>1. UNCHANGED verifyvars /\ pc' \in {"pad", "build", "ready"}
  BY DEF Construct, ConstructEmpty, DoublePadding, HashLeaves, BuildLevel, TakeRoot
<1> QED
  BY <1>1 DEF Inv, ClimbInv, CounterTypes, Binding, verifyvars

(* So do open, the delivery and the return of a call. *)
LEMMA CallsKeepInv ==
  ASSUME Inv,
         (\E request \in Requests : Open(request) \/ OpenThrows(request)) \/ Deliver \/ Return
  PROVE  Inv'
<1>1. /\ UNCHANGED <<treevars, verifyvars>>
      /\ pc \notin {"pad", "build"}
      /\ pc' \in {"opened", "throw", "received", "ready"}
  BY DEF Open, OpenThrows, Deliver, Return
<1>2. TreeInv'
  BY <1>1, TreeIsConst DEF Inv, Phases
<1> QED
  BY <1>1, <1>2 DEF Inv, ClimbInv, CounterTypes, Binding, verifyvars

-----------------------------------------------------------------------------
(* verify *)

(* Distinct terms stay distinct one level up. *)
LEMMA HashParentInjective ==
  ASSUME NEW a, NEW b, NEW c, NEW d, HashParent(a, b) = HashParent(c, d)
  PROVE  a = c /\ b = d
  BY DEF HashParent

(* A leaf's hash tells its payload: HashLeaf is one-to-one.                *)
LEMMA HashLeafInjective ==
  ASSUME NEW p, NEW q, HashLeaf(p) = HashLeaf(q)
  PROVE  p = q
  BY DEF HashLeaf

(* At the start every row stands at its own leaf slot, so a lie shows. *)
LEMMA VerifyStartClimbs ==
  ASSUME Inv, VerifyStart
  PROVE  ClimbInv'
<1>1. /\ LeafCount > 0 /\ WellShaped
      /\ current' = LeafHashes /\ vlevel' = 1 /\ vwidth' = padded
      /\ UNCHANGED <<leaves, padded, levels, received>>
      /\ pc = "received"
  BY DEF VerifyStart, treevars
<1>2. HasLevels
  BY <1>1 DEF HasLevels
<1>3. RowsNameLeaves
  BY <1>1 DEF WellShaped, RowsNameLeaves, Asked
<1>4. /\ Len(levels) \in Nat \ {0} /\ levels[1].size = padded /\ padded >= LeafCount
      /\ \A s \in 0 .. LeafCount - 1 : levels[1].at[s] = HashLeaf(leaves[s + 1])
  BY <1>2 DEF Inv, TreeInv, LeavesHashed
<1>5. LeafCount \in Nat /\ padded \in Nat
  BY DEF Inv, TreeInv, TreeTypes, LeafCount
<1>6. DOMAIN LeafHashes = Asked /\ Asked \subseteq 0 .. padded - 1
  BY <1>1, <1>4, <1>5 DEF LeafHashes, WellShaped
<1>7. ASSUME NEW k \in DOMAIN received.queried_indices, Lies(k)
      PROVE  \E n \in Asked : LeafHashes[n] # levels[1].at[n]
  <2> DEFINE n == received.queried_indices[k]
  <2>1. n \in Asked /\ n \in 0 .. LeafCount - 1
    BY <1>3 DEF Asked, RowsNameLeaves
  <2>2. (CHOOSE j \in DOMAIN received.queried_indices : received.queried_indices[j] = n) = k
    BY <1>3 DEF RowsNameLeaves
  <2>3. LeafHashes[n] = HashLeaf(received.leaf_payloads[k])
    BY <2>1, <2>2 DEF LeafHashes
  <2>4. levels[1].at[n] = HashLeaf(leaves[n + 1])
    BY <1>4, <2>1
  <2>5. HashLeaf(received.leaf_payloads[k]) # HashLeaf(leaves[n + 1])
    BY <1>7, HashLeafInjective DEF Lies
  <2> QED
    BY <2>1, <2>3, <2>4, <2>5
<1>8. LeafCount' = LeafCount /\ RowsNameLeaves' /\ Known' = Asked
      /\ \A k : Lies(k)' <=> Lies(k)
  BY <1>1, <1>3, <1>6 DEF LeafCount, RowsNameLeaves, Known, Lies
<1> QED
  BY <1>1, <1>4, <1>6, <1>7, <1>8 DEF ClimbInv

(* One level up: the parent of a wrong node is wrong. *)
LEMMA VerifyLevelClimbs ==
  ASSUME Inv, VerifyLevel
  PROVE  ClimbInv'
<1> DEFINE here == levels[vlevel]  above == levels[vlevel + 1]
<1>1. /\ pc = "climb" /\ vwidth > 1
      /\ current' = [p \in {Parent(n) : n \in Known} |-> ParentHash(p)]
      /\ vlevel' = vlevel + 1 /\ vwidth' = vwidth \div 2
      /\ UNCHANGED <<leaves, levels, received>>
  BY DEF VerifyLevel, treevars
<1>2. /\ LeafCount > 0 /\ RowsNameLeaves
      /\ vlevel \in 1 .. Len(levels) /\ vwidth = here.size
      /\ Known \subseteq 0 .. vwidth - 1
      /\ (\E k \in DOMAIN received.queried_indices : Lies(k)) =>
           \E n \in Known : current[n] # here.at[n]
  BY <1>1 DEF Inv, ClimbInv
<1>3. HasLevels /\ Len(levels) \in Nat
  BY <1>1, <1>2 DEF HasLevels, Inv, TreeInv, LeavesHashed
<1>4. Top.size = 1
  BY <1>1, <1>3 DEF Inv, TreeInv, RootOnTop
<1>5. vlevel \in 1 .. Len(levels) - 1 /\ vlevel + 1 \in 1 .. Len(levels)
  <2>1. vlevel # Len(levels)
    BY <1>1, <1>2, <1>4 DEF Top
  <2> QED
    BY <1>2, <1>3, <2>1
<1>6. /\ above.size \in Nat \ {0} /\ here.size = 2 * above.size
      /\ \A p \in 0 .. above.size - 1 :
           above.at[p] = HashParent(here.at[2 * p], here.at[2 * p + 1])
  BY <1>3, <1>5 DEF Inv, TreeInv, LevelsHalve, ParentsHash
<1> HIDE DEF here, above
<1>7. vwidth' = above.size
  BY <1>1, <1>2, <1>6
<1>8. Known' = {Parent(n) : n \in Known} /\ Known' \subseteq 0 .. above.size - 1
  BY <1>1, <1>2, <1>6 DEF Known, Parent
<1>9. ASSUME NEW n \in Known, current[n] # here.at[n]
      PROVE  \E p \in Known' : current'[p] # above.at[p]
  <2> DEFINE p == Parent(n)
  <2>1. p \in Known' /\ p \in 0 .. above.size - 1 /\ n \in Nat
    BY <1>2, <1>8
  <2>2. n = 2 * p \/ n = 2 * p + 1
    BY <2>1 DEF Parent
  <2>3. current'[p] = HashParent(NodeHash(2 * p), NodeHash(2 * p + 1))
    BY <1>1, <1>8, <2>1 DEF ParentHash
  <2>4. NodeHash(n) # here.at[n]
    BY <1>9 DEF NodeHash
  <2>5. above.at[p] = HashParent(here.at[2 * p], here.at[2 * p + 1])
    BY <1>6, <2>1
  <2> HIDE DEF p
  <2>6. current'[p] # above.at[p]
    BY <2>2, <2>3, <2>4, <2>5, HashParentInjective
  <2> QED
    BY <2>1, <2>6
<1>10. LeafCount' = LeafCount /\ RowsNameLeaves' /\ \A k : Lies(k)' <=> Lies(k)
  BY <1>1, <1>2 DEF LeafCount, RowsNameLeaves, Lies
<1>11. levels'[vlevel'] = above /\ vlevel' \in 1 .. Len(levels')
  BY <1>1, <1>5 DEF above
<1> QED
  BY <1>1, <1>2, <1>7, <1>8, <1>9, <1>10, <1>11 DEF ClimbInv

(* At the root a lie would still be visible, so acceptance rules it out. *)
LEMMA VerifyFinishBinds ==
  ASSUME Inv, VerifyFinish
  PROVE  Binding'
<1>1. /\ pc = "climb" /\ vwidth <= 1
      /\ pc' = "accept" => RootReached
      /\ UNCHANGED <<leaves, received>>
  BY DEF VerifyFinish, treevars
<1>2. /\ LeafCount > 0 /\ RowsNameLeaves
      /\ vlevel \in 1 .. Len(levels) /\ vwidth = levels[vlevel].size
      /\ Known \subseteq 0 .. vwidth - 1
      /\ (\E k \in DOMAIN received.queried_indices : Lies(k)) =>
           \E n \in Known : current[n] # levels[vlevel].at[n]
  BY <1>1 DEF Inv, ClimbInv
<1>3. HasLevels /\ Len(levels) \in Nat
  BY <1>1, <1>2 DEF HasLevels, Inv, TreeInv, LeavesHashed
<1>4. root = Top.at[0]
  BY <1>1, <1>3 DEF Inv, TreeInv, RootOnTop
<1>5. vwidth = 1
  BY <1>1, <1>2, <1>3 DEF Inv, TreeInv, LevelsHalve
<1>6. vlevel = Len(levels)
  <2>1. ASSUME vlevel # Len(levels) PROVE FALSE
    <3>1. vlevel \in 1 .. Len(levels) - 1 /\ vlevel + 1 \in 1 .. Len(levels)
      BY <1>2, <1>3, <2>1
    <3>2. levels[vlevel].size = 2 * levels[vlevel + 1].size
          /\ levels[vlevel + 1].size \in Nat \ {0}
      BY <1>3, <3>1 DEF Inv, TreeInv, ParentsHash, LevelsHalve
    <3>3. \A x \in Nat \ {0} : 2 * x # 1
      OBVIOUS
    <3> QED
      BY <1>2, <1>5, <3>2, <3>3
  <2> QED
    BY <2>1
<1>7. ASSUME RootReached PROVE \A k \in DOMAIN received.queried_indices : ~Lies(k)
  <2>1. \A n \in Known : n = 0
    BY <1>2, <1>5
  <2>2. \A n \in Known : current[n] = levels[vlevel].at[n]
    BY <1>4, <1>6, <1>7, <2>1 DEF RootReached, Top
  <2> QED
    BY <1>2, <2>2
<1>8. LeafCount \in Nat /\ LeafCount' = LeafCount
  BY <1>1 DEF LeafCount, Inv, TreeInv, TreeTypes
<1> QED
  BY <1>1, <1>2, <1>7, <1>8 DEF Binding, RowsNameLeaves, Lies

(* Every step of MerkleTree::verify keeps the invariant.                   *)
LEMMA VerifyKeepsInv == Inv /\ Verify => Inv'
<1> SUFFICES ASSUME Inv, Verify PROVE Inv'
  OBVIOUS
<1>1. CASE VerifyTrivially
  <2>1. received = NoProof /\ UNCHANGED <<treevars, received, verifyvars>>
        /\ pc = "received" /\ pc' = "accept"
    BY <1>1 DEF VerifyTrivially, EmptyTreeAnswer, EmptyQueryAnswer
  <2>2. TreeInv'
    BY <2>1, TreeIsConst DEF Inv, Phases
  <2>3. Binding'
    BY <2>1 DEF Binding, NoProof
  <2> QED
    BY <2>1, <2>2, <2>3 DEF Inv, ClimbInv, CounterTypes, verifyvars
<1>2. CASE VerifyRefuses
  <2>1. UNCHANGED <<treevars, received, verifyvars>> /\ pc = "received" /\ pc' = "reject"
    BY <1>2 DEF VerifyRefuses
  <2>2. TreeInv'
    BY <2>1, TreeIsConst DEF Inv, Phases
  <2> QED
    BY <2>1, <2>2 DEF Inv, ClimbInv, CounterTypes, Binding, verifyvars
<1>3. CASE VerifyStart
  <2>1. UNCHANGED treevars /\ pc = "received" /\ pc' = "climb"
        /\ vlevel' = 1 /\ vwidth' = padded /\ cursor' = 0
    BY <1>3 DEF VerifyStart
  <2>2. TreeInv'
    BY <2>1, TreeIsConst DEF Inv, Phases
  <2>3. CounterTypes'
    BY <2>1 DEF CounterTypes, Inv, TreeInv, TreeTypes
  <2> QED
    BY <1>3, <2>1, <2>2, <2>3, VerifyStartClimbs DEF Inv, Binding
<1>4. CASE VerifyLevel
  <2>1. UNCHANGED treevars /\ pc = "climb" /\ pc' = pc
        /\ vlevel' = vlevel + 1 /\ vwidth' = vwidth \div 2
        /\ cursor' = cursor + Cardinality(Lone(Known))
    BY <1>4 DEF VerifyLevel
  <2>2. TreeInv'
    BY <2>1, TreeIsConst DEF Inv, Phases
  <2>3. Cardinality(Lone(Known)) \in Nat
    <3>1. Lone(Known) \subseteq 0 .. vwidth - 1 /\ vwidth \in Nat
      BY <2>1 DEF Lone, Inv, ClimbInv, CounterTypes
    <3>2. IsFiniteSet(0 .. vwidth - 1)
      BY <3>1, FS_Interval
    <3> QED
      BY <3>1, <3>2, FS_Subset, FS_CardinalityType
  <2>4. CounterTypes'
    BY <2>1, <2>3 DEF CounterTypes, Inv
  <2> QED
    BY <1>4, <2>1, <2>2, <2>4, VerifyLevelClimbs DEF Inv, Binding
<1>5. CASE VerifyFinish
  <2>1. UNCHANGED treevars /\ pc = "climb" /\ pc' \in {"accept", "reject"}
        /\ vlevel' = 1 /\ vwidth' = 0 /\ cursor' = 0
    BY <1>5 DEF VerifyFinish
  <2>2. TreeInv'
    BY <2>1, TreeIsConst DEF Inv, Phases
  <2> QED
    BY <1>5, <2>1, <2>2, VerifyFinishBinds DEF Inv, ClimbInv, CounterTypes
<1> QED
  BY <1>1, <1>2, <1>3, <1>4, <1>5 DEF Verify

-----------------------------------------------------------------------------

(* Steps of somebody else keep it too.                                     *)
LEMMA StutterKeepsInv == Inv /\ UNCHANGED vars => Inv'
  BY DEF Inv, TreeInv, TreeTypes, LeavesHashed, LevelsHalve, ParentsHash, RootOnTop,
         HasLevels, Top, LeafCount, ClimbInv, RowsNameLeaves, Lies, Known,
         CounterTypes, Binding, vars, treevars, verifyvars

(* Inv is an invariant of the tree and of verify. *)
THEOREM Invariance == Spec => []Inv
<1>1. Inv /\ [Next]_vars => Inv'
  <2> SUFFICES ASSUME Inv, [Next]_vars PROVE Inv'
    OBVIOUS
  <2>1. CASE Construct
    BY <2>1, ConstructKeepsTree, ConstructKeepsRest DEF Inv
  <2>2. CASE (\E request \in Requests : Open(request) \/ OpenThrows(request))
             \/ Deliver \/ Return
    BY <2>2, CallsKeepInv
  <2>3. CASE Verify
    BY <2>3, VerifyKeepsInv
  <2>4. CASE UNCHANGED vars
    BY <2>4, StutterKeepsInv
  <2> QED
    BY <2>1, <2>2, <2>3, <2>4 DEF Next
<1> QED
  BY <1>1, InitEstablishesInv, PTL DEF Spec

(* TypeOK holds for every payload set and bound. *)
THEOREM TypeCorrect == Spec => []TypeOK
<1>1. Inv => TypeOK
  <2> SUFFICES ASSUME Inv PROVE TypeOK
    OBVIOUS
  <2>1. \A l \in DOMAIN levels :
          levels[l].size \in Nat \ {0} /\ DOMAIN levels[l].at = 0 .. levels[l].size - 1
    <3>1. CASE HasLevels
      BY <3>1 DEF Inv, TreeInv, LeavesHashed, LevelsHalve
    <3>2. CASE ~HasLevels
      <4>1. levels = <<>>
        BY <3>2 DEF Inv, TreeInv, TreeTypes, HasLevels, LeafCount
      <4> QED
        BY <4>1
    <3> QED
      BY <3>1, <3>2
  <2> QED
    BY <2>1 DEF Inv, TreeInv, TreeTypes, CounterTypes, TypeOK
<1> QED
  BY <1>1, Invariance, PTL

(* An accepted multiproof shows, for every index it names, the committed   *)
(* leaf, whatever was done to it on the way.                               *)
THEOREM AcceptedProofsBind == Spec => []Binding
<1>1. Inv => Binding
  BY DEF Inv
<1> QED
  BY <1>1, Invariance, PTL

-----------------------------------------------------------------------------
(* Messages *)

(* A MerkleProof record, honest or damaged.                                *)
IsMerkleProof(p) ==
  /\ p = [queried_indices |-> p.queried_indices, leaf_payloads |-> p.leaf_payloads,
          sibling_hashes |-> p.sibling_hashes]
  /\ p.queried_indices \in Seq(0 .. MaxLeaves)
  /\ p.leaf_payloads \in Seq(Payload)
  /\ \E H : p.sibling_hashes \in Seq(H)

(* What open may return for the queried leaves S.                          *)
Askable(S) == S \in SUBSET (0 .. LeafCount - 1) /\ S # {}

(* The place of a sibling in the proof for S.                              *)
Position(S, s) == Cardinality(Ahead(PlanSiblings(padded, S), s)) + 1

(* What is known of the proof open returns.                                *)
HonestFacts(S) ==
  LET p  == HonestProof(S)
      PS == PlanSiblings(padded, S)
  IN  /\ IsMerkleProof(p) /\ p # NoProof /\ p.queried_indices # <<>>
      /\ DOMAIN p.leaf_payloads = DOMAIN p.queried_indices
      /\ {p.queried_indices[k] : k \in DOMAIN p.queried_indices} = S
      /\ \A j, k \in DOMAIN p.queried_indices :
           p.queried_indices[j] = p.queried_indices[k] => j = k
      /\ \A k \in DOMAIN p.queried_indices :
           p.leaf_payloads[k] = leaves[p.queried_indices[k] + 1]
      /\ Len(p.sibling_hashes) = Cardinality(PS) /\ Cardinality(PS) \in Nat
      /\ DOMAIN p.sibling_hashes = 1 .. Cardinality(PS)
      /\ \A s \in PS : p.sibling_hashes[Position(S, s)] = levels[s[1] + 1].at[s[2]]

(* A set of leaves is a finite set of naturals.                            *)
LEMMA AskableFinite ==
  ASSUME Inv, NEW S, S \in SUBSET (0 .. LeafCount - 1)
  PROVE  IsFiniteSet(S) /\ S \in SUBSET Nat /\ LeafCount \in Nat /\ S \in SUBSET (0 .. MaxLeaves)
<1>1. LeafCount \in Nat /\ LeafCount <= MaxLeaves
  BY LenProperties DEF Inv, TreeInv, TreeTypes, LeafCount
<1>2. IsFiniteSet(0 .. LeafCount - 1)
  BY <1>1, FS_Interval
<1>3. MaxLeaves \in Nat
  BY BoundsAssumption
<1>4. IsFiniteSet(S)
  BY <1>2, FS_Subset
<1>5. \A n \in S : n \in Nat /\ n \in 0 .. MaxLeaves
  BY <1>1, <1>3
<1> QED
  BY <1>1, <1>4, <1>5

(* The siblings of the plan for S are finitely many pairs.                 *)
LEMMA PlanFinite ==
  ASSUME Inv, NEW S, S \in SUBSET (0 .. LeafCount - 1)
  PROVE  /\ PlanSiblings(padded, S) \in SUBSET Pairs /\ IsFiniteSet(PlanSiblings(padded, S))
         /\ Cardinality(PlanSiblings(padded, S)) \in Nat
<1>1. PICK d \in Nat : padded = 2^d
  BY DEF Inv, TreeInv, TreeTypes, IsPowerOfTwo
<1>2. S \in SUBSET Nat /\ IsFiniteSet(S)
  BY AskableFinite
<1> QED
  BY <1>1, <1>2, PlanByLevel, FS_CardinalityType

(* The proof open returns names the leaves once each, in order, shows      *)
(* their payloads, and has every sibling of the plan at its place.         *)
LEMMA HonestProofShape ==
  ASSUME Inv, NEW S, Askable(S)
  PROVE  HonestFacts(S)
<1> DEFINE p == HonestProof(S)
           PS == PlanSiblings(padded, S)
           indices == Ascending(S)
           order == PlanOrder(padded, S)
           payloads == [k \in DOMAIN indices |-> leaves[indices[k] + 1]]
           hashes == [k \in DOMAIN order |-> levels[order[k][1] + 1].at[order[k][2]]]
<1>1. /\ IsFiniteSet(S) /\ S \in SUBSET Nat /\ LeafCount \in Nat /\ S \in SUBSET (0 .. MaxLeaves)
      /\ S \in SUBSET (0 .. LeafCount - 1) /\ S # {}
  BY AskableFinite DEF Askable
<1>2. /\ p = [queried_indices |-> indices, leaf_payloads |-> payloads, sibling_hashes |-> hashes]
      /\ order = Listed(PS)
  BY DEF HonestProof, PlanOrder, Listed, Ahead, Precedes
<1>3. indices \in Seq(Nat) /\ Increasing(indices) /\ Range(indices) = S
  BY <1>1, AscendingSorts
<1>4. PS \in SUBSET Pairs /\ IsFiniteSet(PS) /\ Cardinality(PS) \in Nat
  BY <1>1, PlanFinite
<1> DEFINE N == Cardinality(PS)
           n == Len(indices)
<1>5. DOMAIN order = 1 .. N
  BY <1>2 DEF Listed
<1>6. \A s \in PS : Position(S, s) \in 1 .. N /\ order[Position(S, s)] = s
  BY <1>2, <1>4, ListedPosition DEF Position
<1>7. n \in Nat /\ DOMAIN indices = 1 .. n /\ \A k \in 1 .. n : indices[k] \in Nat
  BY <1>3, LenProperties
<1>8. leaves \in Seq(Payload) /\ DOMAIN leaves = 1 .. LeafCount
  BY LenProperties DEF Inv, TreeInv, TreeTypes, LeafCount
<1> HIDE DEF PS, indices, order, n, N
<1>9. S = {indices[k] : k \in 1 .. n}
  BY <1>3, <1>7 DEF Range
<1>10. \A k \in 1 .. n : indices[k] \in 0 .. LeafCount - 1 /\ indices[k] \in 0 .. MaxLeaves
  BY <1>1, <1>9
<1>11. payloads = [k \in 1 .. n |-> leaves[indices[k] + 1]] /\ payloads \in Seq(Payload)
  <2>1. \A k \in 1 .. n : indices[k] + 1 \in 1 .. LeafCount
    BY <1>1, <1>10
  <2>2. \A k \in 1 .. LeafCount : leaves[k] \in Payload
    BY <1>8, LenProperties DEF LeafCount
  <2>3. payloads \in [1 .. n -> Payload]
    BY <1>7, <2>1, <2>2, SMTT(30)
  <2> QED
    BY <1>7, <2>3, SeqDef
<1>12. hashes = [k \in 1 .. N |-> levels[order[k][1] + 1].at[order[k][2]]]
  BY <1>5
<1>13. hashes \in Seq(Range(hashes)) /\ Len(hashes) = N /\ DOMAIN hashes = 1 .. N
  <2>1. hashes \in [1 .. N -> Range(hashes)] /\ DOMAIN hashes = 1 .. N
    BY <1>12 DEF Range
  <2>2. N \in Nat
    BY <1>4 DEF N
  <2> HIDE DEF hashes
  <2>3. hashes \in Seq(Range(hashes))
    BY <2>1, <2>2, SeqDef
  <2> QED
    BY <2>1, <2>2, <2>3
<1>14. indices \in Seq(0 .. MaxLeaves)
  <2>1. indices \in [1 .. n -> 0 .. MaxLeaves]
    BY <1>3, <1>7, <1>10, LenProperties
  <2> QED
    BY <1>7, <2>1, SeqDef
<1>15. \A j, k \in 1 .. n : indices[j] = indices[k] => j = k
  <2> SUFFICES ASSUME NEW j \in 1 .. n, NEW k \in 1 .. n, indices[j] = indices[k]
               PROVE  j = k
    OBVIOUS
  <2>1. ~(j < k) /\ ~(k < j)
    BY <1>3, <1>7 DEF Increasing
  <2> QED
    BY <1>7, <2>1
<1>16. \A s \in PS : hashes[Position(S, s)] = levels[s[1] + 1].at[s[2]]
  BY <1>6, <1>12
<1>17. indices # <<>> /\ DOMAIN payloads = DOMAIN indices
  <2>1. indices = <<>> => S = {}
    BY <1>3 DEF Range
  <2> QED
    BY <1>1, <2>1
<1>18. {indices[k] : k \in DOMAIN indices} = S
  BY <1>7, <1>9
<1>19. \A k \in DOMAIN indices : payloads[k] = leaves[indices[k] + 1]
  OBVIOUS
<1> HIDE DEF payloads, hashes, p
<1>20. p.queried_indices = indices /\ p.leaf_payloads = payloads /\ p.sibling_hashes = hashes
  BY <1>2
<1>21. p # NoProof
  BY <1>17, <1>20 DEF NoProof
<1>22. IsMerkleProof(p)
  <2>1. \E H : hashes \in Seq(H)
    BY <1>13
  <2> QED
    BY <1>2, <1>11, <1>14, <1>20, <2>1 DEF IsMerkleProof
<1>23. N \in Nat
  BY <1>4 DEF N
<1> QED
  BY <1>7, <1>13, <1>15, <1>16, <1>17, <1>18, <1>19, <1>20, <1>21, <1>22, <1>23
  DEF HonestFacts, p, PS, N

(* The ways a column of a message may be damaged keep it a sequence.       *)
LEMMA DamageKeepsColumns ==
  ASSUME NEW T, NEW s \in Seq(T)
  PROVE  /\ Reverse(s) \in Seq(T) /\ Drop(s) \in Seq(T) /\ s \o s \in Seq(T)
         /\ \A v \in T : Append(s, v) \in Seq(T)
         /\ \A V \in SUBSET T : \A r \in ChangedAt(s, V) : r \in Seq(T)
<1> DEFINE n == Len(s)
<1>1. n \in Nat /\ DOMAIN s = 1 .. n /\ s \in [1 .. n -> T]
  BY LenProperties
<1>2. Reverse(s) \in Seq(T)
  <2>1. Reverse(s) = [k \in 1 .. n |-> s[(n - k) + 1]]
    BY DEF Reverse
  <2> HIDE DEF n
  <2>2. \A k \in 1 .. n : (n - k) + 1 \in 1 .. n
    BY <1>1
  <2>3. Reverse(s) \in [1 .. n -> T]
    BY <1>1, <2>1, <2>2
  <2> QED
    BY <1>1, <2>3, SeqDef
<1>3. Drop(s) \in Seq(T)
  BY HeadTailProperties DEF Drop
<1>4. s \o s \in Seq(T) /\ \A v \in T : Append(s, v) \in Seq(T)
  BY ConcatProperties, AppendProperties
<1>5. ASSUME NEW V \in SUBSET T, NEW r \in ChangedAt(s, V)
      PROVE  r \in Seq(T)
  <2>1. PICK k \in DOMAIN s, v \in V : r = [s EXCEPT ![k] = v]
    BY DEF ChangedAt
  <2> HIDE DEF n
  <2>2. r \in [1 .. n -> T]
    BY <1>1, <2>1
  <2> QED
    BY <1>1, <2>2, SeqDef
<1> QED
  BY <1>2, <1>3, <1>4, <1>5

(* What is delivered is a MerkleProof again.                               *)
LEMMA DeliveredIsProof ==
  ASSUME NEW p, IsMerkleProof(p), NEW r \in Delivered(p)
  PROVE  IsMerkleProof(r)
<1> DEFINE q == p.queried_indices
           l == p.leaf_payloads
           h == p.sibling_hashes
           Rec(a, b, c) == [queried_indices |-> a, leaf_payloads |-> b, sibling_hashes |-> c]
<1>1. PICK H0 : h \in Seq(H0)
  BY DEF IsMerkleProof
<1> DEFINE H == H0 \cup StrayHashes
<1>2. q \in Seq(0 .. MaxLeaves) /\ l \in Seq(Payload) /\ h \in Seq(H)
  BY <1>1, SeqMonotonic DEF IsMerkleProof
<1>3. p = Rec(q, l, h)
  BY DEF IsMerkleProof
<1>4. ASSUME NEW a \in Seq(0 .. MaxLeaves), NEW b \in Seq(Payload), NEW c \in Seq(H)
      PROVE  IsMerkleProof(Rec(a, b, c))
  BY <1>4 DEF IsMerkleProof
<1>5. StrayHashes \subseteq H
  OBVIOUS
<1> HIDE DEF q, l, h, H
<1>6. \/ r = p
      \/ \E s \in ChangedAt(q, 0 .. MaxLeaves) \cup {Reverse(q), Drop(q)} : r = Rec(s, l, h)
      \/ \E s \in ChangedAt(l, Payload) \cup {Reverse(l), Drop(l)} : r = Rec(q, s, h)
      \/ \E s \in ChangedAt(h, StrayHashes) \cup {Reverse(h), Drop(h)}
                \cup {Append(h, x) : x \in StrayHashes} : r = Rec(q, l, s)
      \/ r = Rec(Reverse(q), Reverse(l), h) \/ r = Rec(Drop(q), Drop(l), h)
      \/ r = Rec(q \o q, l \o l, h)
  <2>1. /\ \A s : [p EXCEPT !.queried_indices = s] = Rec(s, l, h)
        /\ \A s : [p EXCEPT !.leaf_payloads = s] = Rec(q, s, h)
        /\ \A s : [p EXCEPT !.sibling_hashes = s] = Rec(q, l, s)
        /\ [p EXCEPT !.queried_indices = Reverse(@), !.leaf_payloads = Reverse(@)]
              = Rec(Reverse(q), Reverse(l), h)
        /\ [p EXCEPT !.queried_indices = Drop(@), !.leaf_payloads = Drop(@)] = Rec(Drop(q), Drop(l), h)
        /\ [p EXCEPT !.queried_indices = @ \o @, !.leaf_payloads = @ \o @] = Rec(q \o q, l \o l, h)
    <3>1. p.queried_indices = q /\ p.leaf_payloads = l /\ p.sibling_hashes = h
      BY DEF q, l, h
    <3>3. \A s : [p EXCEPT !.queried_indices = s] = Rec(s, l, h)
      BY <1>3
    <3>4. \A s : [p EXCEPT !.leaf_payloads = s] = Rec(q, s, h)
      BY <1>3
    <3>5. ASSUME NEW s
          PROVE  [p EXCEPT !.sibling_hashes = s] = Rec(q, l, s)
      BY <1>3
    <3> DEFINE Sent(s, u) == [p EXCEPT !.queried_indices = s, !.leaf_payloads = u]
    <3>6. \A s, u : Sent(s, u) = Rec(s, u, h)
      <4> SUFFICES ASSUME NEW s, NEW u PROVE Sent(s, u) = Rec(s, u, h)
        OBVIOUS
      <4> DEFINE m == [p EXCEPT !.queried_indices = s]
      <4>1. m = Rec(s, l, h)
        BY <3>3
      <4>2. Sent(s, u) = [m EXCEPT !.leaf_payloads = u]
        OBVIOUS
      <4> HIDE DEF m, Sent
      <4>3. [m EXCEPT !.leaf_payloads = u] = Rec(s, u, h)
        BY <4>1
      <4> QED
        BY <4>2, <4>3
    <3> HIDE DEF Sent, Rec
    <3>7. /\ Sent(Reverse(p.queried_indices), Reverse(p.leaf_payloads)) = Rec(Reverse(q), Reverse(l), h)
          /\ Sent(Drop(p.queried_indices), Drop(p.leaf_payloads)) = Rec(Drop(q), Drop(l), h)
          /\ Sent(p.queried_indices \o p.queried_indices, p.leaf_payloads \o p.leaf_payloads)
               = Rec(q \o q, l \o l, h)
      BY <3>1, <3>6
    <3> QED
      BY <3>3, <3>4, <3>5, <3>7, Zenon DEF Sent
  <2> HIDE DEF Rec
  <2> QED
    BY <2>1, SMTT(30) DEF Delivered, q, l, h
<1>7. CASE r = p
  BY <1>7
<1>8. CASE \E s \in ChangedAt(q, 0 .. MaxLeaves) \cup {Reverse(q), Drop(q)} : r = Rec(s, l, h)
  BY <1>2, <1>4, <1>8, DamageKeepsColumns
<1>9. CASE \E s \in ChangedAt(l, Payload) \cup {Reverse(l), Drop(l)} : r = Rec(q, s, h)
  BY <1>2, <1>4, <1>9, DamageKeepsColumns
<1>10. CASE \E s \in ChangedAt(h, StrayHashes) \cup {Reverse(h), Drop(h)}
                \cup {Append(h, x) : x \in StrayHashes} : r = Rec(q, l, s)
  BY <1>2, <1>4, <1>5, <1>10, DamageKeepsColumns
<1>11. CASE r = Rec(Reverse(q), Reverse(l), h) \/ r = Rec(Drop(q), Drop(l), h)
            \/ r = Rec(q \o q, l \o l, h)
  BY <1>2, <1>4, <1>11, DamageKeepsColumns
<1> QED
  BY <1>6, <1>7, <1>8, <1>9, <1>10, <1>11

-----------------------------------------------------------------------------
(* The walk *)

PlanSet == PlanSiblings(padded, Asked)

(* A sibling of the received proof that is not the tree's.                 *)
SiblingLies(s) == received.sibling_hashes[Position(Asked, s)] # levels[s[1] + 1].at[s[2]]

AllTrue ==
  /\ \A k \in DOMAIN received.queried_indices : ~Lies(k)
  /\ \A s \in PlanSet : ~SiblingLies(s)

KnownRight(l) == \A n \in Known : current[n] = levels[l].at[n]

(* While verify climbs it stands on the plan of the queried indices: at    *)
(* their ancestors, with the siblings of the levels below consumed.  A     *)
(* consumed sibling that is not the tree's leaves a wrong hash among the   *)
(* known ones, and a proof without a lie leaves none.                      *)
WalkInv ==
  pc = "climb" =>
    /\ Asked # {}
    /\ Known = Ancestors(Asked, vlevel - 1)
    /\ vwidth * 2^(vlevel - 1) = padded
    /\ cursor = Cardinality(Below(padded, Asked, vlevel - 1))
    /\ Len(received.sibling_hashes) = Cardinality(PlanSet)
    /\ (\E s \in Below(padded, Asked, vlevel - 1) : SiblingLies(s)) => ~KnownRight(vlevel)
    /\ AllTrue => KnownRight(vlevel)

(* Between open and the end of verify the proof is what open made.         *)
OpenedHonestly ==
  pc \in {"opened", "received", "climb", "accept", "reject"} =>
    proof = NoProof \/ (LeafCount > 0 /\ \E S : Askable(S) /\ proof = HonestProof(S))

MessagesTyped == IsMerkleProof(proof) /\ IsMerkleProof(received) /\ OpenedHonestly

(* The parent of two nodes is right if and only if both are.               *)
LEMMA ParentRight ==
  ASSUME Inv, VerifyLevel
  PROVE  /\ Known' = {Parent(n) : n \in Known} /\ Known \in SUBSET Nat
         /\ \A p \in Known' :
              current'[p] = levels[vlevel + 1].at[p] <=>
                NodeHash(2 * p) = levels[vlevel].at[2 * p]
                /\ NodeHash(2 * p + 1) = levels[vlevel].at[2 * p + 1]
<1> DEFINE here == levels[vlevel]  above == levels[vlevel + 1]
<1>1. /\ pc = "climb" /\ vwidth > 1
      /\ current' = [p \in {Parent(n) : n \in Known} |-> ParentHash(p)]
  BY DEF VerifyLevel, treevars
<1>2. /\ LeafCount > 0
      /\ vlevel \in 1 .. Len(levels) /\ vwidth = here.size
      /\ Known \subseteq 0 .. vwidth - 1
  BY <1>1 DEF Inv, ClimbInv
<1>3. HasLevels /\ Len(levels) \in Nat
  BY <1>1, <1>2 DEF HasLevels, Inv, TreeInv, LeavesHashed
<1>4. Top.size = 1
  BY <1>1, <1>3 DEF Inv, TreeInv, RootOnTop
<1>5. vlevel \in 1 .. Len(levels) - 1 /\ vlevel + 1 \in 1 .. Len(levels)
  <2>1. vlevel # Len(levels)
    BY <1>1, <1>2, <1>4 DEF Top
  <2> QED
    BY <1>2, <1>3, <2>1
<1>6. /\ above.size \in Nat \ {0} /\ here.size = 2 * above.size
      /\ \A p \in 0 .. above.size - 1 :
           above.at[p] = HashParent(here.at[2 * p], here.at[2 * p + 1])
  BY <1>3, <1>5 DEF Inv, TreeInv, LevelsHalve, ParentsHash
<1> HIDE DEF here, above
<1>7. Known' = {Parent(n) : n \in Known} /\ Known' \subseteq 0 .. above.size - 1
  BY <1>1, <1>2, <1>6 DEF Known, Parent
<1>8. ASSUME NEW p \in Known'
      PROVE  current'[p] = above.at[p] <=>
               NodeHash(2 * p) = here.at[2 * p] /\ NodeHash(2 * p + 1) = here.at[2 * p + 1]
  <2>1. current'[p] = HashParent(NodeHash(2 * p), NodeHash(2 * p + 1))
    BY <1>1, <1>7 DEF ParentHash
  <2>2. above.at[p] = HashParent(here.at[2 * p], here.at[2 * p + 1])
    BY <1>6, <1>7
  <2> QED
    BY <2>1, <2>2, HashParentInjective
<1>9. Known \in SUBSET Nat
  <2>1. vwidth \in Nat
    BY DEF Inv, CounterTypes
  <2> QED
    BY <1>2, <2>1
<1> QED
  BY <1>7, <1>8, <1>9 DEF here, above

(* The tree and the message stay, so does what is said of them.            *)
LEMMA MessageKept ==
  ASSUME UNCHANGED <<leaves, padded, levels, received>>
  PROVE  /\ Asked' = Asked /\ PlanSet' = PlanSet /\ (AllTrue' <=> AllTrue) /\ LeafCount' = LeafCount
         /\ \A l : Below(padded, Asked, l)' = Below(padded, Asked, l)
         /\ \A s : SiblingLies(s)' <=> SiblingLies(s)
<1>1. Asked' = Asked /\ PlanSet' = PlanSet /\ LeafCount' = LeafCount
  BY DEF Asked, PlanSet, LeafCount
<1>2. \A l : Below(padded, Asked, l)' = Below(padded, Asked, l)
  BY <1>1
<1>3. \A s : SiblingLies(s)' <=> SiblingLies(s)
  BY <1>1 DEF SiblingLies, Position
<1>4. \A k : Lies(k)' <=> Lies(k)
  BY DEF Lies
<1> QED
  BY <1>1, <1>2, <1>3, <1>4 DEF AllTrue

(* At the leaves: nothing is consumed, and a payload is right with its hash. *)
LEMMA WalkStarts ==
  ASSUME Inv, MessagesTyped, VerifyStart
  PROVE  WalkInv'
<1>1. /\ LeafCount > 0 /\ WellShaped /\ received.queried_indices # <<>>
      /\ current' = LeafHashes /\ vlevel' = 1 /\ vwidth' = padded /\ cursor' = 0
      /\ UNCHANGED <<leaves, padded, levels, received>>
      /\ pc = "received"
  BY DEF VerifyStart, treevars
<1>2. HasLevels
  BY <1>1 DEF HasLevels
<1>3. \A s \in 0 .. LeafCount - 1 : levels[1].at[s] = HashLeaf(leaves[s + 1])
  BY <1>2 DEF Inv, TreeInv, LeavesHashed
<1>4. Asked \in SUBSET (0 .. LeafCount - 1)
  BY <1>1 DEF WellShaped
<1>5. PICK d \in Nat : padded = 2^d
  BY DEF Inv, TreeInv, TreeTypes, IsPowerOfTwo
<1>6. Asked \in SUBSET Nat /\ IsFiniteSet(Asked)
  BY <1>4, AskableFinite
<1>7. Asked # {}
  <2>1. received.queried_indices \in Seq(0 .. MaxLeaves)
    BY DEF MessagesTyped, IsMerkleProof
  <2> DEFINE q == received.queried_indices
  <2> HIDE DEF q
  <2>2. q \in Seq(0 .. MaxLeaves) /\ q # <<>>
    BY <1>1, <2>1 DEF q
  <2>3. Len(q) \in Nat /\ DOMAIN q = 1 .. Len(q) /\ Len(q) # 0
    BY <2>2, LenProperties, EmptySeq
  <2>4. 1 \in DOMAIN q
    BY <2>3
  <2> QED
    BY <2>4 DEF Asked, q
<1>8. Known' = Asked /\ vlevel' - 1 = 0
  BY <1>1 DEF Known, LeafHashes
<1>9. Asked = Ancestors(Asked, 0)
  BY <1>6, AncestorsStep
<1>10. padded * 2^0 = padded
  BY <1>5, PowerOfZero, PowerType
<1>11. Below(padded, Asked, 0) = {} /\ Cardinality(Below(padded, Asked, 0)) = 0
  <2>1. \A s \in PlanSiblings(padded, Asked) : s[1] \in 0 .. d - 1
    BY <1>5, <1>6, PlanByLevel
  <2>2. Below(padded, Asked, 0) = {}
    BY <2>1 DEF Below
  <2> QED
    BY <2>2, FS_EmptySet
<1>12. Len(received.sibling_hashes) = Cardinality(PlanSet)
  BY <1>1 DEF WellShaped, PlanSet
<1>13. ASSUME AllTrue
       PROVE  \A n \in Asked : LeafHashes[n] = levels[1].at[n]
  <2> SUFFICES ASSUME NEW n \in Asked PROVE LeafHashes[n] = levels[1].at[n]
    OBVIOUS
  <2> DEFINE Names(k) == received.queried_indices[k] = n
             k0 == CHOOSE k \in DOMAIN received.queried_indices : Names(k)
  <2>1. k0 \in DOMAIN received.queried_indices /\ received.queried_indices[k0] = n
    BY DEF Asked
  <2>2. LeafHashes[n] = HashLeaf(received.leaf_payloads[k0])
    BY DEF LeafHashes
  <2> HIDE DEF k0
  <2>3. received.leaf_payloads[k0] = leaves[n + 1]
    BY <1>13, <2>1 DEF AllTrue, Lies
  <2>4. levels[1].at[n] = HashLeaf(leaves[n + 1])
    BY <1>3, <1>4
  <2> QED
    BY <2>2, <2>3, <2>4
<1>14. /\ Asked' = Asked /\ PlanSet' = PlanSet /\ (AllTrue' <=> AllTrue)
       /\ \A l : Below(padded, Asked, l)' = Below(padded, Asked, l)
       /\ levels' = levels /\ padded' = padded /\ received' = received
  BY <1>1, MessageKept
<1>15. AllTrue' => KnownRight(vlevel)'
  BY <1>1, <1>8, <1>13, <1>14 DEF KnownRight
<1>16. Below(padded, Asked, vlevel - 1)' = {} /\ Cardinality(Below(padded, Asked, vlevel - 1)') = 0
  BY <1>8, <1>11, <1>14
<1>17. Known' = Ancestors(Asked, vlevel - 1)' /\ (vwidth * 2^(vlevel - 1))' = padded'
  BY <1>1, <1>8, <1>9, <1>10, <1>14
<1> QED
  BY <1>1, <1>7, <1>12, <1>14, <1>15, <1>16, <1>17 DEF WalkInv

(* A level up: the siblings of the level are consumed where the plan has   *)
(* them, a wrong hash stays wrong, and right ones make their parents right.*)
LEMMA WalkLevel ==
  ASSUME Inv, WalkInv, VerifyLevel
  PROVE  WalkInv'
<1> DEFINE l == vlevel - 1
           lone == Lone(Known)
           h == vwidth \div 2
           at(m) == levels[vlevel].at[m]
<1>1. /\ pc = "climb" /\ vwidth > 1 /\ vlevel' = vlevel + 1 /\ vwidth' = h
      /\ cursor' = cursor + Cardinality(lone)
      /\ UNCHANGED <<pc, leaves, padded, levels, received>>
  BY DEF VerifyLevel, treevars
<1>2. /\ Asked # {} /\ Known = Ancestors(Asked, l) /\ vwidth * 2^l = padded
      /\ cursor = Cardinality(Below(padded, Asked, l))
      /\ Len(received.sibling_hashes) = Cardinality(PlanSet)
      /\ (\E s \in Below(padded, Asked, l) : SiblingLies(s)) => ~KnownRight(vlevel)
      /\ AllTrue => KnownRight(vlevel)
  BY <1>1 DEF WalkInv
<1>3. PICK d \in Nat : padded = 2^d
  BY DEF Inv, TreeInv, TreeTypes, IsPowerOfTwo
<1>4. /\ vlevel \in 1 .. Len(levels) /\ vwidth = levels[vlevel].size /\ RowsNameLeaves
      /\ HasLevels /\ LeafCount > 0
  BY <1>1 DEF Inv, ClimbInv, HasLevels
<1>5. Asked \in SUBSET (0 .. LeafCount - 1) /\ l \in Nat /\ vlevel = l + 1
  BY <1>4 DEF RowsNameLeaves, Asked
<1>6. Asked \in SUBSET Nat /\ IsFiniteSet(Asked)
  BY <1>5, AskableFinite
<1>7. vwidth \in Nat /\ h \in Nat /\ vwidth = 2 * h
  <2>1. vwidth \in Nat /\ IsPowerOfTwo(vwidth)
    BY <1>4 DEF Inv, CounterTypes, TreeInv, LevelsHalve
  <2>2. vwidth % 2 = 0
    BY <1>1, <2>1, HalvePower
  <2> QED
    BY <2>1, <2>2
<1>8. 2^l \in Nat /\ 2^(l + 1) = 2 * 2^l /\ l < 2^l /\ padded \in Nat
  BY <1>3, <1>5, PowerType, PowerOfNext, PowerExceeds
<1>9. h * 2^(l + 1) = padded
  <2> DEFINE x == 2^l
  <2>1. vwidth * x = padded /\ 2^(l + 1) = 2 * x /\ x \in Nat
    BY <1>2, <1>8
  <2> HIDE DEF x, h
  <2> QED
    BY <1>7, <2>1
<1>10. l \in 0 .. d - 1
  <2> DEFINE x == 2^l
  <2>1. vwidth * x = padded /\ x \in Nat /\ x > 0
    BY <1>2, <1>5, <1>8
  <2> HIDE DEF x, h
  <2>2. x < vwidth * x
    BY <1>1, <1>7, <2>1
  <2>3. 2^l < 2^d
    BY <1>3, <2>1, <2>2 DEF x
  <2>4. l < d
    BY <1>3, <1>5, <2>3, PowerGrows
  <2> QED
    BY <1>3, <1>5, <2>4
<1>11. /\ Cardinality(Below(padded, Asked, l + 1)) = cursor + Cardinality(lone)
       /\ \A n \in lone : Position(Asked, <<l, Sibling(n)>>) = cursor + Rank(n, lone)
  BY <1>2, <1>3, <1>6, <1>10, LevelPosition DEF Position
<1>12. /\ \A s \in PlanSet : s[1] \in 0 .. d - 1 /\ s \in OfLevel(Asked, s[1])
       /\ OfLevel(Asked, l) \subseteq PlanSet
  BY <1>3, <1>6, <1>10, PlanByLevel DEF PlanSet
<1>13. /\ Known' = {Parent(n) : n \in Known} /\ Known \in SUBSET Nat
       /\ \A p \in Known' :
            current'[p] = levels[vlevel + 1].at[p] <=>
              NodeHash(2 * p) = at(2 * p) /\ NodeHash(2 * p + 1) = at(2 * p + 1)
  BY ParentRight
<1>14. Known' = Ancestors(Asked, l + 1)
  BY <1>2, <1>5, <1>6, <1>13, AncestorsStep
<1>15. \A n \in Known : NodeHash(n) = current[n]
  BY DEF NodeHash
<1>16. ASSUME NEW n \in lone
       PROVE  /\ NodeHash(Sibling(n)) # at(Sibling(n)) <=> SiblingLies(<<l, Sibling(n)>>)
              /\ <<l, Sibling(n)>> \in PlanSet
  <2>1. n \in Nat /\ n \in Known /\ Sibling(n) \notin Known /\ Sibling(Sibling(n)) = n
    BY <1>13, <1>16 DEF Lone, Sibling
  <2>2. NodeHash(Sibling(n)) = SiblingFor(n)
    BY <2>1 DEF NodeHash
  <2>3. SiblingFor(n) = received.sibling_hashes[Position(Asked, <<l, Sibling(n)>>)]
    BY <1>11, <1>16 DEF SiblingFor
  <2>4. <<l, Sibling(n)>> \in PlanSet
    BY <1>2, <1>12, <1>16 DEF OfLevel
  <2> DEFINE s == <<l, Sibling(n)>>
  <2>5. s[1] + 1 = vlevel /\ s[2] = Sibling(n)
    BY <1>5
  <2> QED
    BY <2>2, <2>3, <2>4, <2>5 DEF SiblingLies
<1>17. ASSUME NEW m \in Nat, Parent(m) \in Known', NodeHash(m) # at(m)
       PROVE  ~KnownRight(vlevel)'
  <2> DEFINE p == Parent(m)
  <2>1. m = 2 * p \/ m = 2 * p + 1
    BY DEF Parent
  <2> HIDE DEF p
  <2>2. current'[p] # levels[vlevel + 1].at[p]
    BY <1>13, <1>17, <2>1 DEF p
  <2> QED
    BY <1>1, <1>17, <2>2 DEF KnownRight, p
<1>18. ASSUME NEW s \in Below(padded, Asked, l + 1), SiblingLies(s)
       PROVE  ~KnownRight(vlevel)'
  <2>1. s \in PlanSet /\ s[1] < l + 1
    BY <1>18 DEF Below, PlanSet
  <2>2. s[1] \in Nat
    BY <1>12, <2>1
  <2>3. CASE s[1] < l
    <3>1. s \in Below(padded, Asked, l)
      BY <2>1, <2>3 DEF Below, PlanSet
    <3>2. PICK n \in Known : current[n] # at(n)
      BY <1>2, <1>18, <3>1 DEF KnownRight
    <3>3. n \in Nat /\ Parent(n) \in Known'
      BY <1>13
    <3> QED
      BY <1>15, <1>17, <3>2, <3>3
  <2>4. CASE s[1] = l
    <3>1. PICK n \in lone : s = <<l, Sibling(n)>>
      BY <1>2, <1>12, <2>1, <2>4 DEF OfLevel
    <3>2. n \in Nat /\ n \in Known
      BY <1>13 DEF Lone
    <3>3. Sibling(n) \in Nat /\ Parent(Sibling(n)) \in Known'
      BY <1>13, <3>2, ParentFacts
    <3>4. NodeHash(Sibling(n)) # at(Sibling(n))
      BY <1>16, <1>18, <3>1
    <3> QED
      BY <1>17, <3>3, <3>4
  <2> QED
    BY <1>5, <2>1, <2>2, <2>3, <2>4
<1>19. ASSUME AllTrue
       PROVE  KnownRight(vlevel)'
  <2> SUFFICES ASSUME NEW p \in Known' PROVE current'[p] = levels[vlevel + 1].at[p]
    BY <1>1 DEF KnownRight
  <2>1. PICK n \in Known : p = Parent(n)
    BY <1>13
  <2>2. n \in Nat
    BY <1>13
  <2>3. NodeHash(n) = at(n)
    BY <1>2, <1>15, <1>19 DEF KnownRight
  <2>4. NodeHash(Sibling(n)) = at(Sibling(n))
    <3>1. CASE Sibling(n) \in Known
      BY <1>2, <1>15, <1>19, <3>1 DEF KnownRight
    <3>2. CASE Sibling(n) \notin Known
      <4>1. n \in lone
        BY <3>2 DEF Lone
      <4> QED
        BY <1>16, <1>19, <4>1 DEF AllTrue
    <3> QED
      BY <3>1, <3>2
  <2>5. {n, Sibling(n)} = {2 * p, 2 * p + 1}
    BY <2>1, <2>2 DEF Parent, Sibling
  <2>6. 2 * p \in {n, Sibling(n)} /\ 2 * p + 1 \in {n, Sibling(n)}
    BY <2>5
  <2>7. NodeHash(2 * p) = at(2 * p) /\ NodeHash(2 * p + 1) = at(2 * p + 1)
    BY <2>3, <2>4, <2>6
  <2> QED
    BY <1>13, <2>7
<1>20. /\ Asked' = Asked /\ PlanSet' = PlanSet /\ (AllTrue' <=> AllTrue)
       /\ \A k : Below(padded, Asked, k)' = Below(padded, Asked, k)
       /\ \A s : SiblingLies(s)' <=> SiblingLies(s)
  BY <1>1, MessageKept
<1>21. vlevel' - 1 = l + 1
  BY <1>1, <1>5
<1>22. Below(padded, Asked, vlevel - 1)' = Below(padded, Asked, l + 1)
  BY <1>1, <1>20, <1>21 DEF Below
<1>23. (\E s \in Below(padded, Asked, vlevel - 1)' : SiblingLies(s)') => ~KnownRight(vlevel)'
  BY <1>18, <1>20, <1>22
<1> HIDE DEF l, lone, h
<1>24. Known' = Ancestors(Asked, vlevel - 1)' /\ (vwidth * 2^(vlevel - 1))' = padded'
  BY <1>1, <1>9, <1>14, <1>20, <1>21 DEF Ancestors
<1>25. cursor' = Cardinality(Below(padded, Asked, vlevel - 1)')
  BY <1>1, <1>11, <1>22
<1> QED
  BY <1>1, <1>2, <1>19, <1>20, <1>23, <1>24, <1>25 DEF WalkInv

(* Where the walk ends: at the root, all siblings consumed, and the root   *)
(* is reached if and only if it is right.                                  *)
LEMMA WalkEnds ==
  ASSUME Inv, WalkInv, pc = "climb", vwidth <= 1
  PROVE  /\ Askable(Asked) /\ Cardinality(Known) = 1
         /\ Below(padded, Asked, vlevel - 1) = PlanSet
         /\ RootReached <=> KnownRight(vlevel)
<1> DEFINE l == vlevel - 1
<1>1. /\ Asked # {} /\ Known = Ancestors(Asked, l) /\ vwidth * 2^l = padded
      /\ cursor = Cardinality(Below(padded, Asked, l))
      /\ Len(received.sibling_hashes) = Cardinality(PlanSet)
  BY DEF WalkInv
<1>2. /\ vlevel \in 1 .. Len(levels) /\ vwidth = levels[vlevel].size /\ RowsNameLeaves
      /\ HasLevels /\ LeafCount > 0 /\ Known \subseteq 0 .. vwidth - 1
  BY DEF Inv, ClimbInv, HasLevels
<1>3. /\ Len(levels) \in Nat /\ vwidth \in Nat \ {0}
      /\ Top.size = 1 /\ root = Top.at[0]
  BY <1>2 DEF Inv, TreeInv, LeavesHashed, LevelsHalve, RootOnTop
<1>4. vwidth = 1 /\ l \in Nat /\ vlevel = l + 1
  BY <1>2, <1>3
<1>5. vlevel = Len(levels)
  <2> SUFFICES ASSUME vlevel # Len(levels) PROVE FALSE
    OBVIOUS
  <2>1. vlevel \in 1 .. Len(levels) - 1 /\ vlevel + 1 \in 1 .. Len(levels)
    BY <1>2, <1>3
  <2>2. levels[vlevel].size = 2 * levels[vlevel + 1].size /\ levels[vlevel + 1].size \in Nat \ {0}
    BY <1>2, <2>1 DEF Inv, TreeInv, ParentsHash, LevelsHalve
  <2>3. \A x \in Nat \ {0} : 2 * x # 1
    OBVIOUS
  <2> QED
    BY <1>2, <1>4, <2>2, <2>3
<1>6. Asked \in SUBSET (0 .. LeafCount - 1)
  BY <1>2 DEF RowsNameLeaves, Asked
<1>7. Asked \in SUBSET Nat /\ IsFiniteSet(Asked)
  BY <1>6, AskableFinite
<1>8. PICK d \in Nat : padded = 2^d
  BY DEF Inv, TreeInv, TreeTypes, IsPowerOfTwo
<1>9. l = d
  <2>1. 2^l \in Nat /\ 2^d \in Nat
    BY <1>4, <1>8, PowerType
  <2>2. 2^l = 2^d
    <3> DEFINE x == 2^l
    <3>1. vwidth * x = padded /\ x \in Nat
      BY <1>1, <2>1
    <3> HIDE DEF x
    <3>2. x = padded
      BY <1>4, <3>1
    <3> QED
      BY <1>8, <3>2 DEF x
  <2>3. ~(2^l < 2^d) /\ ~(2^d < 2^l)
    BY <2>1, <2>2
  <2>4. ~(l < d) /\ ~(d < l)
    BY <1>4, <1>8, <2>3, PowerGrows
  <2> QED
    BY <1>4, <1>8, <2>4
<1>10. Below(padded, Asked, l) = PlanSet
  <2>1. \A s \in PlanSet : s[1] \in 0 .. d - 1
    BY <1>7, <1>8, PlanByLevel DEF PlanSet
  <2>2. \A s \in PlanSet : s[1] < l
    BY <1>4, <1>9, <2>1
  <2> QED
    BY <2>2 DEF Below, PlanSet
<1>11. Known = {0} /\ Cardinality(Known) = 1
  <2>1. \A n \in Known : n = 0
    BY <1>2, <1>4
  <2>2. Known # {}
    BY <1>1 DEF Ancestors
  <2>3. Known = {0}
    BY <2>1, <2>2
  <2> QED
    BY <2>3, FS_Singleton
<1>12. RootReached <=> KnownRight(vlevel)
  BY <1>1, <1>3, <1>5, <1>10, <1>11 DEF RootReached, KnownRight, Top
<1> QED
  BY <1>1, <1>6, <1>10, <1>11, <1>12 DEF Askable

(* A walk that reached the root had the siblings open would send.          *)
LEMMA AcceptedSiblings ==
  ASSUME Inv, MessagesTyped, WalkInv, pc = "climb", vwidth <= 1, RootReached
  PROVE  received.sibling_hashes = HonestProof(Asked).sibling_hashes
<1> DEFINE N == Cardinality(PlanSet)
           r == received.sibling_hashes
           h == HonestProof(Asked).sibling_hashes
<1>1. Askable(Asked) /\ Below(padded, Asked, vlevel - 1) = PlanSet /\ KnownRight(vlevel)
  BY WalkEnds
<1>2. Len(r) = N /\ \A s \in PlanSet : ~SiblingLies(s)
  BY <1>1 DEF WalkInv
<1>3. /\ N \in Nat /\ DOMAIN h = 1 .. N /\ Len(h) = N /\ IsMerkleProof(HonestProof(Asked))
      /\ \A s \in PlanSet : h[Position(Asked, s)] = levels[s[1] + 1].at[s[2]]
  BY <1>1, HonestProofShape DEF HonestFacts, PlanSet
<1>4. (\E H : r \in Seq(H)) /\ (\E H : h \in Seq(H))
  BY <1>3 DEF MessagesTyped, IsMerkleProof
<1>5. \A k \in 1 .. N : \E s \in PlanSet : k = Position(Asked, s)
  <2>1. PlanSet \in SUBSET Pairs /\ IsFiniteSet(PlanSet)
    BY <1>1, PlanFinite DEF PlanSet, Askable
  <2>2. \A k \in 1 .. N : \E s \in PlanSet : k = Cardinality(Ahead(PlanSet, s)) + 1
    BY <2>1, ListedPosition
  <2> QED
    BY <2>2 DEF Position, PlanSet
<1>6. \A s \in PlanSet : r[Position(Asked, s)] = h[Position(Asked, s)]
  BY <1>2, <1>3 DEF SiblingLies
<1> HIDE DEF r, h, N
<1>7. \A k \in 1 .. N : r[k] = h[k]
  BY <1>5, <1>6
<1>8. r = h
  <2>1. PICK H0 : r \in Seq(H0)
    BY <1>4
  <2>2. PICK H1 : h \in Seq(H1)
    BY <1>4
  <2>3. r \in Seq(H0 \cup H1) /\ h \in Seq(H0 \cup H1)
    BY <2>1, <2>2, SeqMonotonic
  <2> QED
    BY <1>2, <1>3, <1>7, <2>3, SeqEqual
<1> QED
  BY <1>8 DEF r, h

(* The end of the walk decides, and shows which siblings it has read.      *)
LEMMA WalkFinishes ==
  ASSUME Inv, MessagesTyped, WalkInv, VerifyFinish
  PROVE  WalkInv' /\ SiblingsAreUnique'
<1>1. /\ pc = "climb" /\ vwidth <= 1 /\ pc' = IF RootReached THEN "accept" ELSE "reject"
      /\ UNCHANGED <<leaves, padded, levels, received>>
  BY DEF VerifyFinish, treevars
<1>2. RootReached => received.sibling_hashes = HonestProof(Asked).sibling_hashes
  BY <1>1, AcceptedSiblings
<1>3. HonestProof(Asked)' = HonestProof(Asked)
  BY <1>1, MessageKept DEF HonestProof
<1> QED
  BY <1>1, <1>2, <1>3 DEF WalkInv, SiblingsAreUnique

(* No proof at all is a proof.                                             *)
LEMMA NoProofIsProof == IsMerkleProof(NoProof)
<1>1. <<>> \in Seq(0 .. MaxLeaves) /\ <<>> \in Seq(Payload) /\ <<>> \in Seq({})
  BY EmptySeq
<1> QED
  BY <1>1 DEF IsMerkleProof, NoProof

(* What can be asked for and what is answered depends on the tree alone.   *)
LEMMA AnswersKept ==
  ASSUME UNCHANGED treevars
  PROVE  /\ LeafCount' = LeafCount
         /\ \A S : (Askable(S)' <=> Askable(S)) /\ HonestProof(S)' = HonestProof(S)
  BY DEF treevars, LeafCount, Askable, HonestProof

(* Open answers a request with nothing or with an honest proof.            *)
LEMMA OpenAnswers ==
  ASSUME Inv, NEW request \in Requests, Open(request)
  PROVE  MessagesTyped'
<1>1. /\ LeafCount = 0 \/ \A q \in Range(request) : q < LeafCount
      /\ proof' = IF LeafCount = 0 \/ request = <<>>
                  THEN NoProof ELSE HonestProof(Range(request))
      /\ received' = NoProof /\ UNCHANGED treevars
  BY DEF Open
<1>2. CASE LeafCount = 0 \/ request = <<>>
  BY <1>1, <1>2, NoProofIsProof DEF MessagesTyped, OpenedHonestly
<1>3. CASE LeafCount # 0 /\ request # <<>>
  <2> DEFINE S == Range(request)
  <2>1. LeafCount \in Nat /\ MaxLeaves \in Nat /\ MaxQueries \in Nat
    BY BoundsAssumption, LenProperties DEF Inv, TreeInv, TreeTypes, LeafCount
  <2>2. request \in Seq(0 .. MaxLeaves)
    <3>1. PICK m \in 0 .. MaxQueries : request \in [1 .. m -> 0 .. MaxLeaves]
      BY DEF Requests, BoundedSeq, SeqOf
    <3>2. m \in Nat
      BY <2>1
    <3> QED
      BY <3>1, <3>2, SeqDef
  <2>3. S # {} /\ S \in SUBSET (0 .. MaxLeaves)
    <3>1. /\ Len(request) \in Nat /\ DOMAIN request = 1 .. Len(request) /\ Len(request) # 0
          /\ \A k \in 1 .. Len(request) : request[k] \in 0 .. MaxLeaves
      BY <1>3, <2>2, LenProperties, EmptySeq, ElementOfSeq
    <3>2. 1 \in DOMAIN request
      BY <3>1
    <3> QED
      BY <3>1, <3>2 DEF Range
  <2>4. S \in SUBSET (0 .. LeafCount - 1)
    BY <1>1, <1>3, <2>1, <2>3
  <2>5. Askable(S) /\ LeafCount > 0
    BY <1>3, <2>1, <2>3, <2>4 DEF Askable
  <2>6. IsMerkleProof(HonestProof(S))
    BY <2>5, HonestProofShape DEF HonestFacts
  <2>7. proof' = HonestProof(S)
    BY <1>1, <1>3
  <2> HIDE DEF S
  <2> QED
    BY <1>1, <2>5, <2>6, <2>7, NoProofIsProof, AnswersKept DEF MessagesTyped, OpenedHonestly
<1> QED
  BY <1>2, <1>3

(* Every message is a proof, and the one open made is honest.              *)
LEMMA MessagesKept == Inv /\ MessagesTyped /\ [Next]_vars => MessagesTyped'
<1> SUFFICES ASSUME Inv, MessagesTyped, [Next]_vars PROVE MessagesTyped'
  OBVIOUS
<1>1. CASE Construct
  <2>1. UNCHANGED <<proof, received>> /\ pc' \in {"pad", "build", "ready"}
    BY <1>1 DEF Construct, ConstructEmpty, DoublePadding, HashLeaves, BuildLevel, TakeRoot
  <2> QED
    BY <2>1 DEF MessagesTyped, OpenedHonestly, IsMerkleProof
<1>2. CASE \E request \in Requests : Open(request)
  BY <1>2, OpenAnswers
<1>3. CASE \E request \in Requests : OpenThrows(request)
  <2>1. pc' = "throw" /\ proof' = NoProof /\ received' = NoProof
    BY <1>3 DEF OpenThrows
  <2> QED
    BY <2>1, NoProofIsProof DEF MessagesTyped, OpenedHonestly
<1>4. CASE Deliver
  <2>1. /\ pc = "opened" /\ received' \in Delivered(proof) /\ UNCHANGED <<proof, treevars>>
    BY <1>4 DEF Deliver
  <2>2. IsMerkleProof(received')
    BY <2>1, DeliveredIsProof DEF MessagesTyped
  <2> QED
    BY <2>1, <2>2, AnswersKept DEF MessagesTyped, OpenedHonestly
<1>5. CASE Verify
  <2>1. pc \in {"received", "climb"} /\ UNCHANGED <<proof, received, treevars>>
    BY <1>5 DEF Verify, VerifyTrivially, VerifyRefuses, VerifyStart, VerifyLevel, VerifyFinish
  <2> QED
    BY <2>1, AnswersKept DEF MessagesTyped, OpenedHonestly
<1>6. CASE Return
  <2>1. pc' = "ready" /\ proof' = NoProof /\ received' = NoProof
    BY <1>6 DEF Return
  <2> QED
    BY <2>1, NoProofIsProof DEF MessagesTyped, OpenedHonestly
<1>7. CASE UNCHANGED vars
  <2>1. UNCHANGED <<pc, proof, received, treevars>>
    BY <1>7 DEF vars
  <2> QED
    BY <2>1, AnswersKept DEF MessagesTyped, OpenedHonestly
<1> QED
  BY <1>1, <1>2, <1>3, <1>4, <1>5, <1>6, <1>7 DEF Next

(* Only verify walks, and only its end accepts a proof with siblings.      *)
LEMMA WalkKept ==
  Inv /\ MessagesTyped /\ WalkInv /\ SiblingsAreUnique /\ [Next]_vars => WalkInv' /\ SiblingsAreUnique'
<1> SUFFICES ASSUME Inv, MessagesTyped, WalkInv, SiblingsAreUnique, [Next]_vars
             PROVE  WalkInv' /\ SiblingsAreUnique'
  OBVIOUS
<1>1. CASE pc' \notin {"climb", "accept"}
  BY <1>1 DEF WalkInv, SiblingsAreUnique
<1>2. CASE VerifyTrivially
  <2>1. pc' = "accept" /\ received' = NoProof
    BY <1>2 DEF VerifyTrivially, EmptyTreeAnswer, EmptyQueryAnswer
  <2> QED
    BY <2>1 DEF WalkInv, SiblingsAreUnique, NoProof
<1>3. CASE VerifyStart
  <2>1. pc' = "climb"
    BY <1>3 DEF VerifyStart
  <2> QED
    BY <1>3, <2>1, WalkStarts DEF SiblingsAreUnique
<1>4. CASE VerifyLevel
  <2>1. pc' = "climb"
    BY <1>4 DEF VerifyLevel
  <2> QED
    BY <1>4, <2>1, WalkLevel DEF SiblingsAreUnique
<1>5. CASE VerifyFinish
  BY <1>5, WalkFinishes
<1>6. CASE UNCHANGED vars
  <2>1. /\ UNCHANGED <<pc, current, vlevel, vwidth, cursor, received, treevars>>
        /\ UNCHANGED <<leaves, padded, levels>>
    BY <1>6 DEF vars, treevars, verifyvars
  <2>2. Known' = Known /\ \A l : KnownRight(l)' <=> KnownRight(l)
    BY <2>1 DEF Known, KnownRight
  <2> QED
    BY <2>1, <2>2, MessageKept, AnswersKept DEF WalkInv, SiblingsAreUnique
<1>7. CASE Construct \/ (\E request \in Requests : Open(request) \/ OpenThrows(request))
           \/ Deliver \/ VerifyRefuses \/ Return
  <2>1. pc' \notin {"climb", "accept"}
    BY <1>7 DEF Construct, ConstructEmpty, DoublePadding, HashLeaves, BuildLevel, TakeRoot,
                Open, OpenThrows, Deliver, VerifyRefuses, Return
  <2> QED
    BY <1>1, <2>1
<1> QED
  BY <1>2, <1>3, <1>4, <1>5, <1>6, <1>7 DEF Next, Verify

(* The walk's invariant holds, and with it what an acceptance shows.       *)
THEOREM WalkInvariance == Spec => [](Inv /\ MessagesTyped /\ WalkInv /\ SiblingsAreUnique)
<1>1. Init => MessagesTyped /\ WalkInv /\ SiblingsAreUnique
  <2> SUFFICES ASSUME Init PROVE MessagesTyped /\ WalkInv /\ SiblingsAreUnique
    OBVIOUS
  <2>1. pc = "pad" /\ proof = NoProof /\ received = NoProof
    BY DEF Init
  <2> QED
    BY <2>1, NoProofIsProof DEF MessagesTyped, OpenedHonestly, WalkInv, SiblingsAreUnique
<1> QED
  BY <1>1, Invariance, MessagesKept, WalkKept, PTL DEF Spec

(* For the queried leaves there is one acceptable list of siblings, the    *)
(* one open returns.                                                       *)
THEOREM AcceptedSiblingsAreUnique == Spec => []SiblingsAreUnique
BY WalkInvariance, PTL

(* Verify never leaves the plan: none of the rejections inside its loop    *)
(* happens, and no sibling is read past the end.                           *)
THEOREM WalkOnPlan == Spec => []WalkStaysOnPlan
<1>1. Inv /\ WalkInv => WalkStaysOnPlan
  <2> SUFFICES ASSUME Inv, WalkInv, pc = "climb"
               PROVE  /\ Known = Ancestors(Asked, vlevel - 1)
                      /\ Known \subseteq 0 .. vwidth - 1
                      /\ cursor + Cardinality({s \in PlanSiblings(padded, Asked) : s[1] >= vlevel - 1})
                           = Len(received.sibling_hashes)
                      /\ vwidth = 1 => Cardinality(Known) = 1
    BY DEF WalkStaysOnPlan
  <2> DEFINE l == vlevel - 1
             low == Below(padded, Asked, l)
             high == {s \in PlanSet : s[1] >= l}
  <2>1. /\ Known = Ancestors(Asked, l) /\ cursor = Cardinality(low)
        /\ Len(received.sibling_hashes) = Cardinality(PlanSet)
    BY DEF WalkInv
  <2>2. Known \subseteq 0 .. vwidth - 1 /\ RowsNameLeaves /\ vlevel \in Nat
    BY DEF Inv, ClimbInv, CounterTypes
  <2>3. PlanSet \in SUBSET Pairs /\ IsFiniteSet(PlanSet) /\ Cardinality(PlanSet) \in Nat
    <3>1. Asked \in SUBSET (0 .. LeafCount - 1)
      BY <2>2 DEF RowsNameLeaves, Asked
    <3> QED
      BY <3>1, PlanFinite DEF PlanSet
  <2>4. high = PlanSet \ low /\ PlanSet \cap low = low
    <3>1. \A s \in PlanSet : s[1] \in Nat
      BY <2>3 DEF Pairs
    <3>2. \A s \in PlanSet : s[1] >= l <=> ~(s[1] < l)
      BY <2>2, <3>1
    <3> QED
      BY <3>2 DEF Below, PlanSet
  <2>5. IsFiniteSet(low) /\ Cardinality(low) \in Nat
    <3>1. low \in SUBSET PlanSet
      BY <2>4
    <3> QED
      BY <2>3, <3>1, FS_Subset, FS_CardinalityType
  <2>6. Cardinality(high) = Cardinality(PlanSet) - Cardinality(low)
    BY <2>3, <2>4, FS_Difference
  <2> HIDE DEF low
  <2>7. cursor + Cardinality(high) = Len(received.sibling_hashes)
    BY <2>1, <2>3, <2>5, <2>6
  <2>8. vwidth = 1 => Cardinality(Known) = 1
    BY WalkEnds
  <2> QED
    BY <2>1, <2>2, <2>7, <2>8 DEF PlanSet
<1> QED
  BY <1>1, WalkInvariance, PTL


-----------------------------------------------------------------------------
(* The vector commitment                                                   *)

(* The claim a proof before the verifier makes.                            *)
ClaimOf(r, p) == [rows |-> ShowsRows(r), intact |-> r = p]
Claiming == pc \in {"received", "climb", "accept", "reject"}

(* A claim is not the absence of one.                                      *)
LEMMA ClaimsClaim == \A r, p : ClaimOf(r, p) # VC!NoClaim
<1>1. "none" \in DOMAIN VC!NoClaim
  BY DEF VC!NoClaim
<1>2. \A r, p : "none" \notin DOMAIN ClaimOf(r, p)
  BY DEF ClaimOf
<1> QED
  BY <1>1, <1>2

(* The rows a proof shows are index/payload pairs.                         *)
LEMMA RowsAreRows ==
  ASSUME NEW r, IsMerkleProof(r), NEW p
  PROVE  ClaimOf(r, p) \in VC!Claims
<1> DEFINE q == r.queried_indices
           l == r.leaf_payloads
<1>1. q \in Seq(0 .. MaxLeaves) /\ l \in Seq(Payload)
  BY DEF IsMerkleProof
<1> HIDE DEF q, l
<1>2. /\ \A k \in DOMAIN q : q[k] \in 0 .. MaxLeaves
      /\ \A k \in DOMAIN l : l[k] \in Payload
  BY <1>1, LenProperties, ElementOfSeq
<1>3. ShowsRows(r) = {<<q[k], l[k]>> : k \in DOMAIN q \cap DOMAIN l}
  BY DEF ShowsRows, q, l
<1>4. ShowsRows(r) \in SUBSET ((0 .. MaxLeaves) \X Payload)
  BY <1>2, <1>3
<1>5. (r = p) \in BOOLEAN
  OBVIOUS
<1> QED
  BY <1>4, <1>5 DEF ClaimOf, VC!Claims

(* What open made says the truth about the tree.                           *)
LEMMA HonestIsTruthful ==
  ASSUME Inv, NEW S, Askable(S)
  PROVE  \A row \in ShowsRows(HonestProof(S)) :
           row[1] < LeafCount /\ leaves[row[1] + 1] = row[2]
<1> DEFINE q == HonestProof(S).queried_indices
           l == HonestProof(S).leaf_payloads
<1>1. /\ {q[k] : k \in DOMAIN q} = S /\ \A k \in DOMAIN q : l[k] = leaves[q[k] + 1]
  BY HonestProofShape DEF HonestFacts
<1>2. LeafCount \in Nat /\ S \in SUBSET (0 .. LeafCount - 1)
  BY AskableFinite DEF Askable
<1> HIDE DEF q, l
<1>3. \A k \in DOMAIN q : q[k] < LeafCount
  <2>1. \A n \in S : n < LeafCount
    BY <1>2
  <2>2. \A k \in DOMAIN q : q[k] \in S
    BY <1>1
  <2> QED
    BY <2>1, <2>2
<1>4. ShowsRows(HonestProof(S)) = {<<q[k], l[k]>> : k \in DOMAIN q \cap DOMAIN l}
  BY DEF ShowsRows, q, l
<1> QED
  BY <1>1, <1>3, <1>4

(* A proof that arrives intact has the shape verify asks for ...           *)
LEMMA IntactIsWellShaped ==
  ASSUME Inv, NEW S, Askable(S), received = HonestProof(S)
  PROVE  WellShaped /\ received # NoProof /\ received.queried_indices # <<>> /\ Asked = S
<1>1. HonestFacts(S)
  BY HonestProofShape
<1>2. S \in SUBSET (0 .. LeafCount - 1)
  BY DEF Askable
<1>3. Asked = S
  BY <1>1 DEF HonestFacts, Asked
<1>4. Len(received.sibling_hashes) = Cardinality(PlanSiblings(padded, Asked))
  BY <1>1, <1>3 DEF HonestFacts
<1> QED
  BY <1>1, <1>2, <1>3, <1>4 DEF WellShaped, HonestFacts

(* ... and its walk reaches the root.                                      *)
LEMMA IntactReachesRoot ==
  ASSUME Inv, WalkInv, pc = "climb", vwidth <= 1,
         NEW S, Askable(S), received = HonestProof(S)
  PROVE  RootReached
<1>1. HonestFacts(S) /\ Asked = S
  BY HonestProofShape, IntactIsWellShaped
<1>2. \A k \in DOMAIN received.queried_indices : ~Lies(k)
  BY <1>1 DEF HonestFacts, Lies
<1>3. \A s \in PlanSet : ~SiblingLies(s)
  BY <1>1 DEF HonestFacts, SiblingLies, PlanSet
<1>4. KnownRight(vlevel)
  BY <1>2, <1>3 DEF AllTrue, WalkInv
<1> QED
  BY <1>4, WalkEnds

(* Initially nothing is claimed.                                           *)
LEMMA InitRefines == Init => VC!Init
  BY DEF Init, VC!Init, VC!NoClaim

(* The constructor and open are invisible; each leaves the table.          *)
LEMMA SilentSteps ==
  ASSUME UNCHANGED leaves, ~Claiming, ~Claiming'
  PROVE  UNCHANGED VC!vcvars
  BY DEF Claiming, VC!vcvars

(* A delivery presents a claim, truthful when nothing was damaged.         *)
LEMMA DeliverPresents ==
  ASSUME Inv, MessagesTyped, MessagesTyped', Deliver
  PROVE  VC!Present
<1>1. /\ pc = "opened" /\ pc' = "received" /\ UNCHANGED <<leaves, proof>>
      /\ UNCHANGED treevars
  BY DEF Deliver, treevars
<1>2. ClaimOf(received', proof') \in VC!Claims
  BY RowsAreRows DEF MessagesTyped
<1>3. ASSUME received' = proof, NEW row \in ShowsRows(received')
      PROVE  row[1] < Len(leaves) /\ leaves[row[1] + 1] = row[2]
  <2>1. CASE proof = NoProof
    BY <1>3, <2>1 DEF ShowsRows, NoProof
  <2>2. CASE proof # NoProof
    <3>1. PICK S : Askable(S) /\ proof = HonestProof(S)
      BY <1>1, <2>2 DEF MessagesTyped, OpenedHonestly
    <3> QED
      BY <1>3, <3>1, HonestIsTruthful DEF LeafCount
  <2> QED
    BY <2>1, <2>2
<1> QED
  BY <1>1, <1>2, <1>3 DEF VC!Present, VC!NoClaim, VC!Truthful, VC!InTable, ClaimOf

(* Verify's verdicts: what it accepts is truthful, by Binding ...          *)
LEMMA AcceptRefines ==
  ASSUME Binding', pc \in {"received", "climb"}, pc' = "accept",
         UNCHANGED <<leaves, proof, received>>
  PROVE  VC!Accept
<1>1. ClaimOf(received, proof) # VC!NoClaim
  BY ClaimsClaim
<1>2. \A row \in ShowsRows(received) : row[1] < Len(leaves) /\ leaves[row[1] + 1] = row[2]
  BY DEF Binding, ShowsRows, LeafCount
<1> QED
  BY <1>1, <1>2 DEF VC!Accept, VC!Truthful, VC!InTable, ClaimOf

(* ... and what it rejects was damaged.                                    *)
LEMMA RejectRefines ==
  ASSUME received # proof, pc \in {"received", "climb"}, pc' = "reject",
         UNCHANGED <<leaves, proof, received>>
  PROVE  VC!Reject
<1>1. ClaimOf(received, proof) # VC!NoClaim
  BY ClaimsClaim
<1> QED
  BY <1>1 DEF VC!Reject, ClaimOf

(* Each step of verify is a verdict or invisible.                          *)
LEMMA VerifyRefines ==
  ASSUME Inv, MessagesTyped, WalkInv, Binding', Verify
  PROVE  VC!Accept \/ VC!Reject \/ UNCHANGED VC!vcvars
<1>1. UNCHANGED <<leaves, proof, received>>
  BY DEF Verify, VerifyTrivially, VerifyRefuses, VerifyStart, VerifyLevel, VerifyFinish, treevars
<1>2. pc \in {"received", "climb"} => proof = NoProof
        \/ (LeafCount > 0 /\ \E S : Askable(S) /\ proof = HonestProof(S))
  BY DEF MessagesTyped, OpenedHonestly
<1>3. CASE VerifyTrivially
  <2>1. pc = "received" /\ pc' = "accept"
    BY <1>3 DEF VerifyTrivially
  <2> QED
    BY <1>1, <2>1, AcceptRefines
<1>4. CASE VerifyRefuses
  <2>1. pc = "received" /\ pc' = "reject" /\ received # NoProof
        /\ (LeafCount = 0 \/ received.queried_indices = <<>> \/ ~WellShaped)
    BY <1>4 DEF VerifyRefuses
  <2>2. received # proof
    <3> SUFFICES ASSUME received = proof PROVE FALSE
      OBVIOUS
    <3>1. PICK S : LeafCount > 0 /\ Askable(S) /\ received = HonestProof(S)
      BY <1>2, <2>1
    <3> QED
      BY <2>1, <3>1, IntactIsWellShaped
  <2> QED
    BY <1>1, <2>1, <2>2, RejectRefines
<1>5. CASE VerifyStart \/ VerifyLevel
  <2>1. pc \in {"received", "climb"} /\ pc' = "climb"
    BY <1>5 DEF VerifyStart, VerifyLevel
  <2> QED
    BY <1>1, <2>1 DEF VC!vcvars
<1>6. CASE VerifyFinish
  <2>1. pc = "climb" /\ vwidth <= 1 /\ pc' = IF RootReached THEN "accept" ELSE "reject"
    BY <1>6 DEF VerifyFinish
  <2>2. CASE RootReached
    BY <1>1, <2>1, <2>2, AcceptRefines
  <2>3. CASE ~RootReached
    <3>1. received # proof
      <4> SUFFICES ASSUME received = proof PROVE FALSE
        OBVIOUS
      <4>1. received # NoProof
        BY <2>1 DEF WalkInv, Asked, NoProof
      <4>2. PICK S : Askable(S) /\ received = HonestProof(S)
        BY <1>2, <2>1, <4>1
      <4> QED
        BY <2>1, <2>3, <4>2, IntactReachesRoot
    <3> QED
      BY <1>1, <2>1, <2>3, <3>1, RejectRefines
  <2> QED
    BY <2>2, <2>3
<1> QED
  BY <1>3, <1>4, <1>5, <1>6 DEF Verify

(* Every step of the tree is a step of the vector commitment or a stutter. *)
LEMMA StepsRefine ==
  ASSUME Inv, MessagesTyped, WalkInv, Inv', MessagesTyped', [Next]_vars
  PROVE  [VC!Next]_(VC!vcvars)
<1>1. CASE Construct
  <2>1. UNCHANGED leaves /\ ~Claiming /\ ~Claiming'
    BY <1>1 DEF Construct, ConstructEmpty, DoublePadding, HashLeaves, BuildLevel, TakeRoot,
                treevars, Claiming
  <2> QED
    BY <2>1, SilentSteps
<1>2. CASE \E request \in Requests : Open(request) \/ OpenThrows(request)
  <2>1. UNCHANGED leaves /\ ~Claiming /\ ~Claiming'
    BY <1>2 DEF Open, OpenThrows, treevars, Claiming
  <2> QED
    BY <2>1, SilentSteps
<1>3. CASE Deliver
  BY <1>3, DeliverPresents DEF VC!Next
<1>4. CASE Verify
  BY <1>4, VerifyRefines DEF VC!Next, Inv
<1>5. CASE Return
  <2>1. pc \in {"accept", "reject", "throw"} /\ pc' = "ready" /\ UNCHANGED leaves
    BY <1>5 DEF Return, treevars
  <2>2. CASE pc = "throw"
    BY <2>1, <2>2, SilentSteps DEF Claiming
  <2>3. CASE pc # "throw"
    BY <2>1, <2>3 DEF VC!Clear, VC!NoClaim, VC!Next
  <2> QED
    BY <2>2, <2>3
<1>6. CASE UNCHANGED vars
  <2>1. UNCHANGED <<pc, leaves, proof, received>>
    BY <1>6 DEF vars, treevars
  <2> QED
    BY <2>1 DEF VC!vcvars, ShowsRows
<1> QED
  BY <1>1, <1>2, <1>3, <1>4, <1>5, <1>6 DEF Next

(* The tree implements the vector commitment: what verify accepts is in    *)
(* the table, and what arrives intact it never rejects.  (That verify      *)
(* answers at all is the liveness part of ImplementsVectorCommitment.)     *)
THEOREM TreeIsVectorCommitment == Spec => VC!Init /\ [][VC!Next]_(VC!vcvars)
<1>1. Inv /\ MessagesTyped /\ WalkInv /\ Inv' /\ MessagesTyped' /\ [Next]_vars => [VC!Next]_(VC!vcvars)
  BY StepsRefine
<1> QED
  BY <1>1, InitRefines, WalkInvariance, PTL DEF Spec

-----------------------------------------------------------------------------
(* Challenges bind history.  A state is the term of all that was hashed,   *)
(* one operation at a time, and histories grow by the same operations: of  *)
(* the states that ever were, each stands for one history.                 *)

Start == <<<<"init">>, <<>>>>
Absorbed(moment, message) ==
  <<<<"absorb", moment[1], message>>, Append(moment[2], <<"absorb", message>>)>>
Ratcheted(moment, label, n, out) ==
  <<<<"ratchet", moment[1], label, n, out>>, Append(moment[2], <<"squeeze", label, out>>)>>

Follows(next, moment) ==
  \/ \E message : next = Absorbed(moment, message)
  \/ \E label, n, out : next = Ratcheted(moment, label, n, out)

(* The moments, of any party, that a state and a history went through.     *)
Chained(seen) ==
  /\ \A x \in seen : x = <<x[1], x[2]>> /\ (x = Start \/ \E y \in seen : Follows(x, y))
  /\ \A x, y \in seen : x[1] = y[1] => x = y

Moment(p) == <<state[p], history[p]>>
Bound ==
  /\ state = [p \in Parties |-> state[p]] /\ history = [p \in Parties |-> history[p]]
  /\ \E seen : Chained(seen) /\ \A p \in Parties : Moment(p) \in seen

(* One more moment: if its state was seen, it followed the same moment by  *)
(* the same operation.                                                     *)
LEMMA ChainGrows ==
  ASSUME NEW seen, Chained(seen), NEW x \in seen, NEW z, Follows(z, x)
  PROVE  Chained(seen \cup {z})
<1> USE DEF Absorbed, Ratcheted
<1>1. z = <<z[1], z[2]>>
  BY DEF Follows
<1>2. ASSUME NEW y \in seen, y[1] = z[1]
      PROVE  y = z
  <2>1. y # Start
    BY <1>2 DEF Follows, Start
  <2>2. PICK w \in seen : Follows(y, w)
    BY <2>1 DEF Chained
  <2>3. CASE \E message : z = Absorbed(x, message)
    <3>1. PICK a : z = Absorbed(x, a)
      BY <2>3
    <3>2. PICK b : y = Absorbed(w, b)
      BY <1>2, <2>2, <3>1 DEF Follows
    <3>3. <<"absorb", x[1], a>> = <<"absorb", w[1], b>>
      BY <1>2, <3>1, <3>2
    <3>4. x = w /\ a = b
      BY <3>3 DEF Chained
    <3> QED
      BY <3>1, <3>2, <3>4
  <2>4. CASE \E label, n, out : z = Ratcheted(x, label, n, out)
    <3>1. PICK l, n, o : z = Ratcheted(x, l, n, o)
      BY <2>4
    <3>2. PICK k, m, r : y = Ratcheted(w, k, m, r)
      BY <1>2, <2>2, <3>1 DEF Follows
    <3>3. <<"ratchet", x[1], l, n, o>> = <<"ratchet", w[1], k, m, r>>
      BY <1>2, <3>1, <3>2
    <3>4. x = w /\ l = k /\ n = m /\ o = r
      BY <3>3 DEF Chained
    <3> QED
      BY <3>1, <3>2, <3>4
  <2> QED
    BY <2>3, <2>4 DEF Follows
<1> QED
  BY <1>1, <1>2 DEF Chained

(* A party's moment moves on.                                              *)
LEMMA BoundGrows ==
  ASSUME Bound, NEW p \in Parties, NEW s, NEW h,
         Follows(<<s, h>>, Moment(p)),
         state' = [state EXCEPT ![p] = s], history' = [history EXCEPT ![p] = h]
  PROVE  Bound'
<1>1. PICK seen : Chained(seen) /\ \A q \in Parties : Moment(q) \in seen
  BY DEF Bound
<1> DEFINE more == seen \cup {<<s, h>>}
<1>2. Chained(more)
  BY <1>1, ChainGrows
<1>3. \A q \in Parties : Moment(q)' \in more
  BY <1>1 DEF Moment, Bound
<1> HIDE DEF more
<1> QED
  BY <1>2, <1>3 DEF Bound

-----------------------------------------------------------------------------
(* The request being answered. *)

IsSequence(s) == \E T : s \in Seq(T)
Pending(d) ==
  /\ d = [request |-> d.request, attempt |-> d.attempt, got |-> d.got]
  /\ d.request \in ChallengeRequests
  /\ IsSequence(d.got)
  /\ \A i, j \in DOMAIN d.got : d.got[i] = d.got[j] => i = j

(* Positions found so far are different.                                   *)
AnswersDiffer ==
  /\ pending = [p \in Parties |-> pending[p]]
  /\ \A p \in Parties : pending[p] # None => Pending(pending[p])

(* A candidate that is taken differs from those before.                    *)
LEMMA WithKeepsDifferent ==
  ASSUME NEW d, Pending(d), NEW candidate, NEW n,
         NEW e, e = [d EXCEPT !.got = With(d, candidate), !.attempt = n]
  PROVE  Pending(e)
<1> DEFINE with == With(d, candidate)
<1>3. /\ e.request = d.request /\ e.got = with
      /\ e = [request |-> e.request, attempt |-> e.attempt, got |-> e.got]
  <2> HIDE DEF with
  <2>1. e = [d EXCEPT !.got = with, !.attempt = n]
    BY DEF with
  <2> QED
    BY <2>1 DEF Pending
<1> DEFINE v == ValueOf(d.request, candidate)
<1>1. CASE With(d, candidate) = d.got
  BY <1>1, <1>3 DEF Pending
<1>2. CASE With(d, candidate) = Append(d.got, v) /\ \A i \in DOMAIN d.got : d.got[i] # v
  <2>1. PICK T : d.got \in Seq(T)
    BY DEF Pending, IsSequence
  <2> DEFINE old == d.got
             U == T \cup {v}
  <2>2. old \in Seq(U) /\ v \in U
    <3>1. T \subseteq U
      OBVIOUS
    <3>2. Len(old) \in Nat /\ old \in [1 .. Len(old) -> T]
      BY <2>1, LenProperties
    <3> HIDE DEF old, U
    <3>3. old \in [1 .. Len(old) -> U]
      BY <3>1, <3>2
    <3>4. old \in Seq(U)
      BY <3>2, <3>3, SeqDef
    <3> QED
      BY <3>4 DEF U
  <2>3. e.got = Append(old, v) /\ (\A i \in DOMAIN old : old[i] # v)
        /\ \A i, j \in DOMAIN old : old[i] = old[j] => i = j
    BY <1>2, <1>3 DEF Pending
  <2> HIDE DEF old, U, v
  <2>4. /\ Append(old, v) \in Seq(U) /\ Len(Append(old, v)) = Len(old) + 1
        /\ \A i \in 1 .. Len(old) : Append(old, v)[i] = old[i]
        /\ Append(old, v)[Len(old) + 1] = v
    BY <2>2, AppendProperties
  <2>5. /\ Len(old) \in Nat /\ DOMAIN old = 1 .. Len(old)
        /\ DOMAIN Append(old, v) = 1 .. Len(old) + 1
    BY <2>2, <2>4, LenProperties
  <2> DEFINE new == Append(old, v)
  <2>6. \A i, j \in DOMAIN new : new[i] = new[j] => i = j
    <3> HIDE DEF new
    <3>1. DOMAIN new = 1 .. Len(old) + 1 /\ new[Len(old) + 1] = v
          /\ \A i \in 1 .. Len(old) : new[i] = old[i]
      BY <2>4, <2>5 DEF new
    <3> QED
      BY <2>3, <2>5, <3>1
  <2> QED
    BY <1>3, <2>3, <2>4, <2>6 DEF Pending, IsSequence
<1> QED
  BY <1>1, <1>2 DEF With

-----------------------------------------------------------------------------
TranscriptInv == Bound /\ AnswersDiffer

(* At first all transcripts are at the same moment.                        *)
LEMMA TranscriptInitEstablishesInv == TranscriptInit => TranscriptInv
<1> SUFFICES ASSUME TranscriptInit PROVE TranscriptInv
  OBVIOUS
<1>1. Chained({Start})
  BY DEF Chained, Start
<1>2. \A p \in Parties : Moment(p) \in {Start}
  BY DEF TranscriptInit, Moment, Start
<1> QED
  BY <1>1, <1>2 DEF TranscriptInit, TranscriptInv, Bound, AnswersDiffer

(* An absorb is one more moment.                                           *)
LEMMA AbsorbKeepsInv ==
  ASSUME TranscriptInv, NEW p \in Parties, NEW message \in Messages, Absorb(p, message)
  PROVE  TranscriptInv'
<1>1. /\ state' = [state EXCEPT ![p] = <<"absorb", state[p], message>>]
      /\ history' = [history EXCEPT ![p] = Append(history[p], <<"absorb", message>>)]
      /\ pending' = pending
  BY DEF Absorb, TranscriptInv, Bound
<1>2. Follows(<<<<"absorb", state[p], message>>, Append(history[p], <<"absorb", message>>)>>, Moment(p))
  BY DEF Follows, Absorbed, Moment
<1>3. Bound'
  BY <1>1, <1>2, BoundGrows DEF TranscriptInv
<1> QED
  BY <1>1, <1>3 DEF TranscriptInv, AnswersDiffer

(* A request is answered at once or starts with no values.                 *)
LEMMA AskKeepsInv ==
  ASSUME TranscriptInv, NEW p \in Parties, NEW q \in ChallengeRequests, AnswerAtOnce(p, q) \/ Ask(p, q)
  PROVE  TranscriptInv'
<1>1. state' = state /\ history' = history
  BY DEF AnswerAtOnce, Ask
<1>2. Bound'
  BY <1>1 DEF TranscriptInv, Bound, Moment
<1> DEFINE d == [request |-> q, attempt |-> 0, got |-> <<>>]
<1>3. Pending(d)
  <2>1. <<>> \in Seq({})
    BY EmptySeq
  <2> QED
    BY <2>1 DEF Pending, IsSequence
<1> HIDE DEF d
<1>4. pending' = pending \/ pending' = [pending EXCEPT ![p] = d]
  BY DEF AnswerAtOnce, Ask, d
<1> QED
  BY <1>2, <1>3, <1>4 DEF TranscriptInv, AnswersDiffer

(* A draw is one more moment, with one candidate more.                     *)
LEMMA DrawKeepsInv ==
  ASSUME TranscriptInv, NEW p \in Parties, Draw(p)
  PROVE  TranscriptInv'
<1> DEFINE d == pending[p]
           label == DrawLabel(d)
           goes(out) == [d EXCEPT !.got = With(d, out),
                                  !.attempt = IF Accepted(d.request, out) THEN @ + 1 ELSE @]
<1>1. PICK out :
        /\ state' = [state EXCEPT ![p] = Ratchet(p, label, out)]
        /\ history' = [history EXCEPT ![p] = Append(@, <<"squeeze", label, out>>)]
        /\ \/ pending' = [pending EXCEPT ![p] = None]
           \/ pending' = [pending EXCEPT ![p] = goes(out)]
  BY DEF Draw
<1> HIDE DEF label
<1>2. Pending(d)
  BY DEF TranscriptInv, AnswersDiffer, Draw
<1>3. Follows(<<Ratchet(p, label, out), Append(history[p], <<"squeeze", label, out>>)>>, Moment(p))
  BY DEF Follows, Ratcheted, Moment, Ratchet
<1>4. Bound'
  BY <1>1, <1>3, BoundGrows DEF TranscriptInv, Bound
<1>5. AnswersDiffer'
  <2> DEFINE n == IF Accepted(d.request, out) THEN d.attempt + 1 ELSE d.attempt
  <2>1. goes(out) = [d EXCEPT !.got = With(d, out), !.attempt = n]
    BY <1>2 DEF Pending
  <2>2. Pending(goes(out))
    BY <1>2, <2>1, WithKeepsDifferent
  <2> HIDE DEF goes, d
  <2> QED
    BY <1>1, <2>2 DEF AnswersDiffer, TranscriptInv
<1> QED
  BY <1>4, <1>5, SMTT(30) DEF TranscriptInv

-----------------------------------------------------------------------------
(* Sampling is even. *)

(* There is a number of n bytes.                                           *)
LEMMA NumbersType ==
  ASSUME NEW n \in Nat
  PROVE  Numbers(n) \in Nat /\ n < Numbers(n)
<1>1. ByteBits * n \in Nat /\ n <= ByteBits * n
  BY TranscriptAssumption
<1> DEFINE m == ByteBits * n
<1>2. 2^m \in Nat /\ m < 2^m
  BY <1>1, PowerType, PowerExceeds
<1> QED
  BY <1>1, <1>2 DEF Numbers

(* The samples of a request are enough for each of its values.             *)
LEMMA SpaceIsEnough ==
  ASSUME NEW q \in ChallengeRequests
  PROVE  /\ q.size \in Nat \ {0} /\ Space(q) \in Nat
         /\ q.kind = "teichmuller" => q.size <= Space(q)
         /\ q.kind # "teichmuller" => q.size < Space(q)
<1>1. q.size \in Nat \ {0} /\ IndexBytes \in Nat
  BY TranscriptAssumption
<1>2. CASE q.kind # "teichmuller"
  <2>1. Space(q) = Numbers(IndexBytes)
    BY <1>2 DEF Space, SampleBytes
  <2>2. q.size < Numbers(IndexBytes)
    BY <1>2, TranscriptAssumption DEF Numbers
  <2> QED
    BY <1>1, <1>2, <2>1, <2>2, NumbersType
<1>3. CASE q.kind = "teichmuller"
  <2> DEFINE enough == {n \in Nat : Numbers(n) >= q.size}
             Least(n) == n \in 0 .. q.size /\ Numbers(n) >= q.size
                         /\ \A k \in 0 .. n - 1 : Numbers(k) < q.size
  <2>1. q.size \in enough
    BY <1>1, NumbersType
  <2>2. PICK n \in enough : \A k \in enough : n <= k
    <3>1. enough \in SUBSET Nat /\ enough # {}
      BY <2>1
    <3> HIDE DEF enough
    <3> QED
      BY <3>1, LeastElement
  <2>3. Least(n)
    <3>1. n \in 0 .. q.size
      BY <1>1, <2>1, <2>2
    <3>2. \A k \in 0 .. n - 1 : Numbers(k) < q.size
      BY <1>1, <2>2, <3>1, NumbersType
    <3> QED
      BY <3>1, <3>2
  <2> DEFINE least == CHOOSE k \in 0 .. q.size :
                        Numbers(k) >= q.size /\ \A j \in 0 .. k - 1 : Numbers(j) < q.size
  <2>4. least \in 0 .. q.size /\ Numbers(least) >= q.size
    BY <2>3
  <2>5. Space(q) = Numbers(least)
    BY <1>3 DEF Space, SampleBytes
  <2> HIDE DEF least
  <2>6. Numbers(least) \in Nat
    BY <1>1, <2>4, NumbersType
  <2> QED
    BY <1>1, <1>3, <2>4, <2>5, <2>6
<1> QED
  BY <1>2, <1>3

(* The limit is a multiple of the size, above half of the space.           *)
LEMMA LimitIsMultiple ==
  ASSUME NEW q \in ChallengeRequests
  PROVE  \E k \in Nat : Limit(q) = q.size * k /\ Limit(q) <= Space(q) /\ 2 * Limit(q) >= Space(q)
<1> DEFINE m == q.size
           S == Space(q)
<1>1. /\ m \in Nat \ {0} /\ S \in Nat /\ m <= S
      /\ q.kind # "teichmuller" => m < S
  BY SpaceIsEnough
<1>2. Limit(q) = IF q.kind = "teichmuller" THEN S - (S % m) ELSE (S - 1) - ((S - 1) % m)
  BY DEF Limit
<1> HIDE DEF m, S
<1>3. CASE q.kind = "teichmuller"
  <2> DEFINE k == S \div m
             r == S % m
  <2>1. k \in Nat /\ r \in 0 .. m - 1 /\ S = (m * k) + r /\ k >= 1
    BY <1>1
  <2>2. Limit(q) = S - r
    BY <1>2, <1>3
  <2> HIDE DEF k, r
  <2>3. m * k >= m /\ m * k \in Nat
    BY <1>1, <2>1
  <2> DEFINE x == m * k
  <2> HIDE DEF x
  <2>4. S = x + r /\ x \in Nat /\ x >= m
    BY <2>1, <2>3 DEF x
  <2>5. Limit(q) = x /\ x <= S /\ 2 * x >= S
    BY <1>1, <2>1, <2>2, <2>4
  <2> QED
    BY <2>1, <2>5 DEF x, m, S
<1>4. CASE q.kind # "teichmuller"
  <2> DEFINE k == (S - 1) \div m
             r == (S - 1) % m
  <2>1. k \in Nat /\ r \in 0 .. m - 1 /\ S - 1 = (m * k) + r /\ k >= 1
    BY <1>1, <1>4
  <2>2. Limit(q) = (S - 1) - r
    BY <1>2, <1>4
  <2> HIDE DEF k, r
  <2>3. m * k >= m /\ m * k \in Nat
    BY <1>1, <2>1
  <2> DEFINE x == m * k
  <2> HIDE DEF x
  <2>4. S - 1 = x + r /\ x \in Nat /\ x >= m
    BY <2>1, <2>3 DEF x
  <2>5. Limit(q) = x /\ x <= S /\ 2 * x >= S
    BY <1>1, <2>1, <2>2, <2>4
  <2> QED
    BY <2>1, <2>5 DEF x, m, S
<1> QED
  BY <1>3, <1>4

(* What SamplingIsEven says of a request.                                  *)
Candidates(q) == {c \in 0 .. Space(q) - 1 : Accepted(q, c)}

(* The candidates below the limit are the same number for every value.     *)
LEMMA RequestIsEven ==
  ASSUME NEW q \in ChallengeRequests
  PROVE  /\ \A v \in 0 .. q.size - 1 :
              Cardinality({c \in Candidates(q) : ValueOf(q, c) = v}) = Cardinality(Candidates(q)) \div q.size
         /\ 2 * Cardinality(Candidates(q)) >= Space(q)
<1>1. q.size \in Nat \ {0} /\ Space(q) \in Nat
  BY SpaceIsEnough
<1>2. PICK k \in Nat : Limit(q) = q.size * k /\ Limit(q) <= Space(q) /\ 2 * Limit(q) >= Space(q)
  BY LimitIsMultiple
<1>3. Limit(q) \in Nat
  BY <1>1, <1>2
<1>4. Candidates(q) = 0 .. Limit(q) - 1
  BY <1>1, <1>2, <1>3 DEF Candidates, Accepted
<1>5. Cardinality(Candidates(q)) = Limit(q)
  BY <1>3, <1>4, FS_Interval
<1>6. Limit(q) \div q.size = k
  BY <1>1, <1>2
<1>7. ASSUME NEW v \in 0 .. q.size - 1
      PROVE  Cardinality({c \in Candidates(q) : ValueOf(q, c) = v}) = k
  <2>1. {c \in Candidates(q) : ValueOf(q, c) = v} = {c \in 0 .. q.size * k - 1 : c % q.size = v}
    BY <1>2, <1>4 DEF ValueOf
  <2>2. Cardinality({c \in 0 .. q.size * k - 1 : c % q.size = v}) = k
    BY <1>1, ResidueClass
  <2> QED
    BY <2>1, <2>2
<1> QED
  BY <1>2, <1>5, <1>6, <1>7

-----------------------------------------------------------------------------
(* Every operation keeps the invariant.                                    *)
LEMMA TranscriptNextKeepsInv == TranscriptInv /\ [TranscriptNext]_transcriptVars => TranscriptInv'
<1> SUFFICES ASSUME TranscriptInv, [TranscriptNext]_transcriptVars PROVE TranscriptInv'
  OBVIOUS
<1>1. CASE UNCHANGED transcriptVars
  BY <1>1 DEF transcriptVars, TranscriptInv, Bound, AnswersDiffer, Moment
<1>2. CASE TranscriptNext
  BY <1>2, AbsorbKeepsInv, AskKeepsInv, DrawKeepsInv DEF TranscriptNext
<1> QED
  BY <1>1, <1>2

(* So it holds in every reachable state.                                   *)
LEMMA TranscriptInvariance == TranscriptSpec => []TranscriptInv
<1> QED
  BY TranscriptInitEstablishesInv, TranscriptNextKeepsInv, PTL DEF TranscriptSpec

(* Two transcripts that hash the same for a challenge have absorbed and    *)
(* squeezed the same, in the same order, whatever was absorbed.            *)
THEOREM ChallengesAreBinding == TranscriptSpec => []ChallengesBindHistory
<1>1. ASSUME TranscriptInv PROVE ChallengesBindHistory
  <2> SUFFICES ASSUME NEW p \in Parties, NEW r \in Parties, NextFrame(p) = NextFrame(r)
               PROVE  history[p] = history[r]
    BY DEF ChallengesBindHistory
  <2>1. state[p] = state[r]
    BY DEF NextFrame, Frame
  <2>2. PICK seen : Chained(seen) /\ \A o \in Parties : Moment(o) \in seen
    BY <1>1 DEF TranscriptInv, Bound
  <2> QED
    BY <2>1, <2>2 DEF Chained, Moment
<1> QED
  BY <1>1, TranscriptInvariance, PTL

(* Whatever is asked, each value has equally many accepted candidates, at  *)
(* most half of all candidates are rejected, and positions differ.         *)
THEOREM SamplingStaysEven == TranscriptSpec => []SamplingIsEven
<1>1. ASSUME TranscriptInv PROVE SamplingIsEven
  BY <1>1, RequestIsEven DEF TranscriptInv, AnswersDiffer, Pending, SamplingIsEven, Candidates
<1> QED
  BY <1>1, TranscriptInvariance, PTL
=============================================================================
