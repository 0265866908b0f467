------------------------- MODULE ProofPlannerProofs -------------------------
(***************************************************************************)
(* Proofs about ProofPlanner, for trees and query vectors of any size: the *)
(* siblings collected at a level are exactly the frontier of what is known *)
(* there, and the finished plan has the nodes and the siblings of          *)
(* MultiproofPlan, which MerkleTree takes from there.                      *)
(***************************************************************************)
EXTENDS ProofPlanner, SharedFacts

-----------------------------------------------------------------------------
(* One level, scanned up to the entry before `next': the parents reached,  *)
(* the siblings missing, and the gap to what is still to be scanned.       *)
Scanned(nodes, next) == {nodes[k] : k \in 1 .. next - 1}

Halfway(nodes, next, siblings, parents) ==
  /\ Increasing(parents) /\ Increasing(siblings)
  /\ Range(parents) = {Parent(n) : n \in Scanned(nodes, next)}
  /\ \A k \in next .. Len(nodes) : \A n \in Scanned(nodes, next) : Parent(n) < Parent(nodes[k])
  /\ Scanned(nodes, next) \cup Range(siblings) = {n \in Nat : Parent(n) \in Range(parents)}
  /\ Range(siblings) \cap Range(nodes) = {}

(* What both steps of the scan know of the entry they look at.             *)
AtEntry(nodes, next, parents) ==
  LET a  == nodes[next]
      up == Append(parents, Parent(a))
  IN  /\ a \in Nat /\ a \in Range(nodes) /\ Parent(a) \in Nat /\ Sibling(a) \in Nat
      /\ Scanned(nodes, next) \in SUBSET Nat
      /\ up \in Seq(Nat) /\ Increasing(up) /\ Range(up) = Range(parents) \cup {Parent(a)}
      /\ {n \in Nat : Parent(n) \in Range(up)}
           = {n \in Nat : Parent(n) \in Range(parents)} \cup {a, Sibling(a)}
      /\ \A n \in Scanned(nodes, next) : Parent(n) < Parent(a)
      /\ \A k \in next + 1 .. Len(nodes) : nodes[k] \in Nat /\ a < nodes[k]

(* The entry's parent is new and greater than every parent reached before. *)
LEMMA ScanFacts ==
  ASSUME NEW nodes \in Seq(Nat), Increasing(nodes), NEW next \in 1 .. Len(nodes),
         NEW siblings \in Seq(Nat), NEW parents \in Seq(Nat),
         Halfway(nodes, next, siblings, parents)
  PROVE  AtEntry(nodes, next, parents)
<1> DEFINE a == nodes[next]
           len == Len(nodes)
           seen == Scanned(nodes, next)
<1>1. len \in Nat /\ DOMAIN nodes = 1 .. len /\ \A k \in 1 .. len : nodes[k] \in Nat
  BY LenProperties
<1>2. a \in Nat /\ a \in Range(nodes)
  BY <1>1 DEF Range
<1>3. Parent(a) \in Nat /\ Sibling(a) \in Nat
  BY <1>2, ParentFacts
<1>4. seen \in SUBSET Nat
  BY <1>1 DEF Scanned
<1>5. \A n \in seen : Parent(n) < Parent(a)
  <2>1. next \in next .. len
    BY <1>1
  <2> QED
    BY <2>1 DEF Halfway
<1>6. \A k \in next + 1 .. len : nodes[k] \in Nat /\ a < nodes[k]
  <2>1. \A k \in next + 1 .. len : k \in 1 .. len /\ next \in 1 .. len /\ next < k
    BY <1>1
  <2> QED
    BY <1>1, <2>1 DEF Increasing
<1>7. Range(parents) = {Parent(n) : n \in seen} /\ Increasing(parents)
  BY DEF Halfway
<1> HIDE DEF a, len, seen
<1>8. \A p \in Range(parents) : p < Parent(a)
  BY <1>5, <1>7
<1>9. /\ Append(parents, Parent(a)) \in Seq(Nat) /\ Increasing(Append(parents, Parent(a)))
      /\ Range(Append(parents, Parent(a))) = Range(parents) \cup {Parent(a)}
  BY <1>3, <1>7, <1>8, AppendIncreases
<1>10. \A n \in Nat : Parent(n) = Parent(a) <=> n \in {a, Sibling(a)}
  BY <1>2, ParentFacts
<1>11. {n \in Nat : Parent(n) \in Range(Append(parents, Parent(a)))}
         = {n \in Nat : Parent(n) \in Range(parents)} \cup {a, Sibling(a)}
  BY <1>2, <1>3, <1>9, <1>10
<1> QED
  BY <1>2, <1>3, <1>4, <1>5, <1>6, <1>9, <1>11 DEF AtEntry, a, len, seen

(* The places of a scan that goes two steps on.                            *)
LEMMA TwoMorePlaces ==
  ASSUME NEW n \in Nat
  PROVE  1 .. n + 2 = (1 .. n) \cup {n + 1, n + 2}
<1>1. ASSUME NEW x \in 1 .. n + 2 PROVE x \in (1 .. n) \cup {n + 1, n + 2}
  OBVIOUS
<1>2. ASSUME NEW x \in (1 .. n) \cup {n + 1, n + 2} PROVE x \in 1 .. n + 2
  OBVIOUS
<1> QED
  BY <1>1, <1>2

(* PairedNode: the sibling is the next entry, nothing has to be added.     *)
LEMMA ScanPair ==
  ASSUME NEW nodes \in Seq(Nat), Increasing(nodes), NEW next \in 1 .. Len(nodes),
         NEW siblings \in Seq(Nat), NEW parents \in Seq(Nat),
         Halfway(nodes, next, siblings, parents),
         next + 1 <= Len(nodes), nodes[next] % 2 = 0, nodes[next + 1] = nodes[next] + 1
  PROVE  Halfway(nodes, next + 2, siblings, Append(parents, Parent(nodes[next])))
<1> DEFINE a == nodes[next]
           len == Len(nodes)
           up == Append(parents, Parent(a))
<1>1. /\ a \in Nat /\ Scanned(nodes, next) \in SUBSET Nat
      /\ Increasing(up) /\ Range(up) = Range(parents) \cup {Parent(a)}
      /\ {n \in Nat : Parent(n) \in Range(up)}
           = {n \in Nat : Parent(n) \in Range(parents)} \cup {a, Sibling(a)}
      /\ \A n \in Scanned(nodes, next) : Parent(n) < Parent(a)
      /\ \A k \in next + 1 .. len : nodes[k] \in Nat /\ a < nodes[k]
      /\ Parent(a) \in Nat
  <2>1. AtEntry(nodes, next, parents)
    BY ScanFacts
  <2> QED
    BY <2>1 DEF AtEntry
<1>2. len \in Nat /\ next \in 1 .. len /\ next + 1 <= len /\ a % 2 = 0 /\ nodes[next + 1] = a + 1
  BY LenProperties
<1>3. Sibling(a) = a + 1 /\ Parent(a + 1) = Parent(a)
  BY <1>1, <1>2, ParentFacts
<1>4. Scanned(nodes, next + 2) = Scanned(nodes, next) \cup {a, a + 1}
  <2>0. next \in Nat \ {0}
    BY LenProperties
  <2>1. 1 .. (next + 2) - 1 = (1 .. next - 1) \cup {next, next + 1}
    <3> DEFINE low == next - 1
    <3>1. low \in Nat /\ next = low + 1 /\ (next + 2) - 1 = low + 2 /\ next + 1 = low + 2
      BY <2>0
    <3> HIDE DEF low
    <3>2. 1 .. low + 2 = (1 .. low) \cup {low + 1, low + 2}
      BY <3>1, TwoMorePlaces
    <3> QED
      BY <3>1, <3>2 DEF low
  <2> QED
    BY <1>2, <2>1 DEF Scanned
<1>5. \A k \in next + 2 .. len : nodes[k] \in Nat /\ Parent(a) < Parent(nodes[k])
  <2> SUFFICES ASSUME NEW k \in next + 2 .. len
               PROVE  nodes[k] \in Nat /\ Parent(a) < Parent(nodes[k])
    OBVIOUS
  <2>1. k \in 1 .. len /\ next + 1 \in 1 .. len /\ next + 1 < k /\ k \in next + 1 .. len
    BY <1>2
  <2>2. nodes[next + 1] < nodes[k]
    <3>1. DOMAIN nodes = 1 .. len
      BY LenProperties
    <3> QED
      BY <2>1, <3>1 DEF Increasing
  <2> DEFINE b == nodes[k]
  <2>3. b \in Nat /\ a + 1 < b
    BY <1>1, <1>2, <2>1, <2>2
  <2> HIDE DEF a, b
  <2>4. Parent(a) < Parent(b)
    BY <1>1, <1>2, <2>3 DEF Parent
  <2> QED
    BY <2>3, <2>4 DEF b
<1>6. \A n \in Scanned(nodes, next) : Parent(n) \in Nat
  BY <1>1, ParentFacts
<1>7. \A k \in next + 2 .. len : \A n \in Scanned(nodes, next + 2) : Parent(n) < Parent(nodes[k])
  <2> SUFFICES ASSUME NEW k \in next + 2 .. len, NEW n \in Scanned(nodes, next + 2)
               PROVE  Parent(n) < Parent(nodes[k])
    OBVIOUS
  <2>1. n \in Scanned(nodes, next) \/ Parent(n) = Parent(a)
    BY <1>3, <1>4
  <2>2. Parent(a) < Parent(nodes[k]) /\ Parent(nodes[k]) \in Nat
    BY <1>5, ParentFacts
  <2>3. Parent(n) \in Nat /\ Parent(a) \in Nat
    BY <1>1, <1>3, <1>6, <2>1
  <2>4. n \in Scanned(nodes, next) => Parent(n) < Parent(a)
    BY <1>1
  <2> DEFINE x == Parent(n)
             y == Parent(a)
             z == Parent(nodes[k])
  <2>5. x \in Nat /\ y \in Nat /\ z \in Nat /\ y < z /\ (x < y \/ x = y)
    BY <2>1, <2>2, <2>3, <2>4
  <2> HIDE DEF x, y, z
  <2>6. x < z
    BY <2>5
  <2> QED
    BY <2>6 DEF x, z
<1>8. Range(up) = {Parent(n) : n \in Scanned(nodes, next + 2)}
  BY <1>1, <1>3, <1>4 DEF Halfway
<1>9. Scanned(nodes, next + 2) \cup Range(siblings) = {n \in Nat : Parent(n) \in Range(up)}
  BY <1>1, <1>3, <1>4 DEF Halfway
<1> HIDE DEF up, len
<1> QED
  BY <1>1, <1>7, <1>8, <1>9 DEF Halfway, up, len

(* LoneNode: the next entry is no sibling, so the sibling is nowhere among *)
(* the nodes and joins the ones the proof must carry.                      *)
LEMMA ScanLone ==
  ASSUME NEW nodes \in Seq(Nat), Increasing(nodes), NEW next \in 1 .. Len(nodes),
         NEW siblings \in Seq(Nat), NEW parents \in Seq(Nat),
         Halfway(nodes, next, siblings, parents),
         ~(next + 1 <= Len(nodes) /\ nodes[next] % 2 = 0 /\ nodes[next + 1] = nodes[next] + 1)
  PROVE  Halfway(nodes, next + 1, Append(siblings, Sibling(nodes[next])),
                 Append(parents, Parent(nodes[next])))
<1> DEFINE a == nodes[next]
           b == Sibling(a)
           len == Len(nodes)
           up == Append(parents, Parent(a))
           more == Append(siblings, b)
           seen == Scanned(nodes, next)
<1>1. /\ a \in Nat /\ a \in Range(nodes) /\ seen \in SUBSET Nat
      /\ Increasing(up) /\ Range(up) = Range(parents) \cup {Parent(a)}
      /\ {n \in Nat : Parent(n) \in Range(up)}
           = {n \in Nat : Parent(n) \in Range(parents)} \cup {a, b}
      /\ \A n \in seen : Parent(n) < Parent(a)
      /\ \A k \in next + 1 .. len : nodes[k] \in Nat /\ a < nodes[k]
      /\ Parent(a) \in Nat /\ b \in Nat
  <2>1. AtEntry(nodes, next, parents)
    BY ScanFacts
  <2> QED
    BY <2>1 DEF AtEntry
<1>2. len \in Nat /\ next \in 1 .. len /\ DOMAIN nodes = 1 .. len
  BY LenProperties
<1>3. /\ b # a /\ Parent(b) = Parent(a)
      /\ \A m \in Nat : Parent(m) = Parent(a) => m = a \/ m = b
      /\ a % 2 = 0 => b = a + 1
      /\ a % 2 # 0 => a = b + 1
      /\ \A m \in Nat : a < m => Parent(a) <= Parent(m)
  <2> HIDE DEF a
  <2>1. /\ b # a /\ Parent(b) = Parent(a)
        /\ a % 2 = 0 => b = a + 1
        /\ a % 2 # 0 => a = b + 1
    BY <1>1 DEF Parent, Sibling, b
  <2>2. \A m \in Nat : Parent(m) = Parent(a) => m = a \/ m = b
    BY <1>1 DEF Parent, Sibling, b
  <2>3. \A m \in Nat : a < m => Parent(a) <= Parent(m)
    BY <1>1 DEF Parent
  <2> QED
    BY <2>1, <2>2, <2>3
<1>4. seen = {nodes[k] : k \in 1 .. next - 1}
  BY DEF Scanned
<1>5. Scanned(nodes, next + 1) = seen \cup {a}
  <2>0. next \in Nat \ {0}
    BY LenProperties
  <2>1. 1 .. (next + 1) - 1 = (1 .. next - 1) \cup {next}
    BY <2>0
  <2> QED
    BY <1>2, <2>1 DEF Scanned
<1>6. \A k \in next + 1 .. len : nodes[k] # b
  <2> SUFFICES ASSUME NEW k \in next + 1 .. len, nodes[k] = b
               PROVE  FALSE
    OBVIOUS
  <2>1. a < b
    BY <1>1
  <2>2. a % 2 = 0 /\ b = a + 1
    <3> HIDE DEF a, b
    <3> QED
      BY <1>1, <1>3, <2>1
  <2>3. next + 1 <= len /\ next + 1 \in next + 1 .. len
    BY <1>2
  <2>4. nodes[next + 1] # a + 1
    BY <2>2, <2>3
  <2>5. nodes[next + 1] \in Nat /\ a < nodes[next + 1]
    BY <1>1, <2>3
  <2>6. next + 1 = k \/ nodes[next + 1] < nodes[k]
    <3>1. next + 1 \in 1 .. len /\ k \in 1 .. len /\ (next + 1 = k \/ next + 1 < k)
      BY <1>2
    <3> QED
      BY <1>2, <3>1 DEF Increasing
  <2> DEFINE c == nodes[next + 1]
  <2>7. c \in Nat /\ a < c /\ c # a + 1 /\ (c = b \/ c < b)
    BY <2>4, <2>5, <2>6
  <2> HIDE DEF a, b, c
  <2> QED
    BY <1>1, <2>2, <2>7
<1>7. b \notin Range(nodes)
  <2> SUFFICES ASSUME NEW k \in 1 .. len, nodes[k] = b
               PROVE  FALSE
    BY <1>2 DEF Range
  <2>1. k \in 1 .. next - 1 \/ k = next \/ k \in next + 1 .. len
    BY <1>2
  <2>2. CASE k \in 1 .. next - 1
    <3>1. b \in seen
      BY <1>4, <2>2
    <3> HIDE DEF a, b, seen
    <3> QED
      BY <1>1, <1>3, <3>1
  <2>3. CASE k = next
    BY <1>3, <2>3
  <2>4. CASE k \in next + 1 .. len
    BY <1>6, <2>4
  <2> QED
    BY <2>1, <2>2, <2>3, <2>4
<1>8. \A k \in next + 1 .. len : Parent(nodes[k]) \in Nat /\ Parent(a) < Parent(nodes[k])
  <2> SUFFICES ASSUME NEW k \in next + 1 .. len
               PROVE  Parent(nodes[k]) \in Nat /\ Parent(a) < Parent(nodes[k])
    OBVIOUS
  <2> DEFINE c == nodes[k]
  <2>1. c \in Nat /\ a < c /\ c # b
    BY <1>1, <1>6
  <2> HIDE DEF a, b, c
  <2>2. Parent(c) \in Nat /\ Parent(a) <= Parent(c) /\ Parent(c) # Parent(a)
    <3>1. c # a
      BY <1>1, <2>1
    <3>2. Parent(c) # Parent(a)
      BY <1>3, <2>1, <3>1
    <3>3. Parent(a) <= Parent(c)
      BY <1>3, <2>1
    <3> QED
      BY <2>1, <3>2, <3>3, ParentFacts
  <2>3. Parent(a) < Parent(c)
    BY <1>1, <2>2
  <2> QED
    BY <2>2, <2>3 DEF c
<1>9. \A n \in seen : Parent(n) \in Nat
  BY <1>1, ParentFacts
<1>10. \A k \in next + 1 .. len : \A n \in seen \cup {a} : Parent(n) < Parent(nodes[k])
  <2> SUFFICES ASSUME NEW k \in next + 1 .. len, NEW n \in seen \cup {a}
               PROVE  Parent(n) < Parent(nodes[k])
    OBVIOUS
  <2> DEFINE pk == Parent(nodes[k])
  <2>1. pk \in Nat /\ Parent(a) < pk
    BY <1>8
  <2> HIDE DEF a, seen, pk
  <2>2. n = a \/ (Parent(n) \in Nat /\ Parent(n) < Parent(a))
    BY <1>1, <1>9
  <2>3. Parent(n) < pk
    BY <1>1, <2>1, <2>2
  <2> QED
    BY <2>3 DEF pk
<1>11. /\ Increasing(siblings) /\ Range(parents) = {Parent(n) : n \in seen}
       /\ seen \cup Range(siblings) = {n \in Nat : Parent(n) \in Range(parents)}
       /\ Range(siblings) \cap Range(nodes) = {}
  BY DEF Halfway
<1>12. \A s \in Range(siblings) : s < b
  <2> SUFFICES ASSUME NEW s \in Range(siblings) PROVE s < b
    OBVIOUS
  <2>1. s \in Nat /\ Parent(s) \in Range(parents)
    BY <1>11
  <2>2. Parent(s) < Parent(a)
    BY <1>1, <1>11, <2>1
  <2> HIDE DEF a, b
  <2>3. Parent(s) < Parent(b)
    BY <1>3, <2>2
  <2> QED
    BY <1>1, <2>1, <2>3 DEF Parent
<1>13. Increasing(more) /\ Range(more) = Range(siblings) \cup {b}
  <2> HIDE DEF b
  <2> QED
    BY <1>1, <1>11, <1>12, AppendIncreases
<1> HIDE DEF a, b, up, more, seen, len
<1>14. Range(up) = {Parent(n) : n \in seen \cup {a}}
  BY <1>1, <1>11
<1>15. (seen \cup {a}) \cup Range(more) = {n \in Nat : Parent(n) \in Range(up)}
  BY <1>1, <1>11, <1>13
<1>16. Range(more) \cap Range(nodes) = {}
  BY <1>7, <1>11, <1>13
<1>17. Halfway(nodes, next + 1, more, up)
  BY <1>1, <1>5, <1>10, <1>13, <1>14, <1>15, <1>16 DEF Halfway, len
<1> QED
  BY <1>17 DEF more, up, a, b

(* A new level: nothing is scanned yet.                                    *)
LEMMA ScanBegins ==
  ASSUME NEW nodes \in Seq(Nat)
  PROVE  Halfway(nodes, 1, <<>>, <<>>)
<1>1. Range(<<>>) = {} /\ Scanned(nodes, 1) = {} /\ Increasing(<<>>)
  BY DEF Range, Scanned, Increasing
<1>2. Len(<<>>) = 0
  OBVIOUS
<1> QED
  BY <1>1 DEF Halfway

(* A finished level: the parents are those of all nodes, the siblings are  *)
(* those of the lone ones.                                                 *)
LEMMA ScanEnds ==
  ASSUME NEW nodes \in Seq(Nat), NEW next, next = Len(nodes) + 1,
         NEW siblings \in Seq(Nat), NEW parents \in Seq(Nat),
         Halfway(nodes, next, siblings, parents)
  PROVE  /\ Increasing(parents) /\ Increasing(siblings)
         /\ Range(parents) = {Parent(n) : n \in Range(nodes)}
         /\ Range(nodes) \cup Range(siblings) = {n \in Nat : Parent(n) \in Range(parents)}
         /\ Range(nodes) \cap Range(siblings) = {}
         /\ Range(siblings) = {Sibling(n) : n \in Lone(Range(nodes))}
<1> DEFINE N == Range(nodes)
           S == Range(siblings)
           P == Range(parents)
<1>1. Scanned(nodes, next) = N
  <2>1. Len(nodes) \in Nat /\ DOMAIN nodes = 1 .. Len(nodes) /\ next - 1 = Len(nodes)
    BY LenProperties
  <2> QED
    BY <2>1 DEF Scanned, Range
<1>2. /\ Increasing(parents) /\ Increasing(siblings)
      /\ P = {Parent(n) : n \in N}
      /\ N \cup S = {n \in Nat : Parent(n) \in P}
      /\ N \cap S = {}
  BY <1>1 DEF Halfway
<1>3. N \in SUBSET Nat
  BY RangeFinite
<1> HIDE DEF N, S, P
<1>4. ASSUME NEW s \in S
      PROVE  s \in {Sibling(n) : n \in Lone(N)}
  <2>1. s \in Nat /\ s \notin N
    BY <1>2
  <2>2. PICK n \in N : Parent(s) = Parent(n)
    BY <1>2
  <2>3. s = Sibling(n)
    BY <1>3, <2>1, <2>2, ParentFacts
  <2> QED
    BY <2>1, <2>3 DEF Lone
<1>5. ASSUME NEW n \in Lone(N)
      PROVE  Sibling(n) \in S
  <2>1. n \in N /\ Sibling(n) \notin N /\ n \in Nat
    BY <1>3 DEF Lone
  <2>2. Sibling(n) \in Nat /\ Parent(Sibling(n)) = Parent(n)
    BY <2>1, ParentFacts
  <2> QED
    BY <1>2, <2>1, <2>2
<1>6. S = {Sibling(n) : n \in Lone(N)}
  BY <1>4, <1>5
<1> QED
  BY <1>2, <1>6 DEF N, S, P

-----------------------------------------------------------------------------
(* The inductive invariant *)

ProofPlanLevels == [node_indices : Seq(Nat), sibling_indices : Seq(Nat), parent_indices : Seq(Nat)]

Types ==
  /\ pc \in {"start", "scan", "done", "throw"}
  /\ leafCount \in Nat /\ width \in Nat
  /\ request \in Seq(Nat) /\ current \in Seq(Nat)
  /\ i \in Nat \ {0} /\ i <= Len(current) + 1
  /\ level \in [sibling_indices : Seq(Nat), parent_indices : Seq(Nat)]
  /\ plan \in [queried : Seq(Nat), levels : Seq(ProofPlanLevels), unique_sibling_count : Nat]
  /\ pc \in {"start", "throw"} => i = 1 /\ level = EmptyLevel /\ plan.levels = <<>>
                                 /\ plan.unique_sibling_count = 0

asked == Range(request)
padded == NextPowerOfTwo(leafCount)
depth == Len(plan.levels)

(* The level being scanned: its nodes are the ancestors of the request, in *)
(* order and within the level, and it is halfway.                          *)
ScanIsHalfway ==
  pc \in {"scan", "done"} /\ request # <<>> =>
    /\ \E k \in Nat : width = 2^k
    /\ width * 2^depth = padded
    /\ Increasing(current) /\ Range(current) = Ancestors(asked, depth)
    /\ \A n \in Range(current) : n < width
    /\ Halfway(current, i, level.sibling_indices, level.parent_indices)

(* A finished level: ascending ancestors, and the siblings they lack.      *)
LevelIsClosed(l) ==
  LET nodes    == plan.levels[l].node_indices
      siblings == plan.levels[l].sibling_indices
      parents  == plan.levels[l].parent_indices
  IN  /\ Increasing(nodes) /\ Range(nodes) = Ancestors(asked, l - 1)
      /\ Increasing(siblings) /\ Range(siblings) = {Sibling(n) : n \in Lone(Range(nodes))}
      /\ Increasing(parents) /\ Range(parents) = {Parent(n) : n \in Range(nodes)}
      /\ Range(nodes) \cup Range(siblings) = {n \in Nat : Parent(n) \in Range(parents)}
      /\ Range(nodes) \cap Range(siblings) = {}
      /\ \A s \in Range(siblings) : s * 2^(l - 1) < padded

LevelsAreClosed == \A l \in DOMAIN plan.levels : LevelIsClosed(l)

(* The siblings carried so far, one entry of the proof each.               *)
OfLevel(l) == {<<l - 1, s>> : s \in Range(plan.levels[l].sibling_indices)}
Carried == UNION {OfLevel(l) : l \in DOMAIN plan.levels}

SiblingsAreCounted ==
  IsFiniteSet(Carried) /\ Cardinality(Carried) = plan.unique_sibling_count

(* An empty request is never scanned; any other one down to the root.      *)
Finished ==
  /\ pc = "scan" => request # <<>>
  /\ pc = "done" => IF request = <<>> THEN depth = 0 ELSE width <= 1

Inv == Types /\ ScanIsHalfway /\ LevelsAreClosed /\ SiblingsAreCounted /\ Finished

(* Before build_pruned_multiproof_plan starts there is no level.           *)
LEMMA Initially == Init => Inv
<1> SUFFICES ASSUME Init PROVE Inv
  OBVIOUS
<1>1. request \in Seq(Nat) /\ leafCount \in Nat
  <2>1. PICK m \in 0 .. MaxQueries : request \in [1 .. m -> 0 .. MaxLeaves]
    BY DEF Init, BoundedSeq, SeqOf
  <2>2. m \in Nat /\ request \in [1 .. m -> Nat]
    BY <2>1, PlannerBounds
  <2> QED
    BY <2>2, PlannerBounds, SeqDef DEF Init
<1>2. Types
  BY <1>1 DEF Types, Init, EmptyLevel
<1>3. LevelsAreClosed /\ Carried = {}
  BY DEF Init, LevelsAreClosed, Carried
<1>4. SiblingsAreCounted
  BY <1>3, FS_EmptySet DEF SiblingsAreCounted, Init
<1>5. ScanIsHalfway /\ Finished
  BY DEF ScanIsHalfway, Finished, Init
<1> QED
  BY <1>2, <1>3, <1>4, <1>5 DEF Inv

(* A step that leaves the plan's levels and the request alone keeps what   *)
(* is said of finished levels.                                             *)
LEMMA PlanUntouched ==
  ASSUME LevelsAreClosed, SiblingsAreCounted,
         plan'.levels = plan.levels, plan'.unique_sibling_count = plan.unique_sibling_count,
         request' = request, leafCount' = leafCount
  PROVE  LevelsAreClosed' /\ SiblingsAreCounted' /\ depth' = depth /\ asked' = asked
         /\ padded' = padded
<1>1. asked' = asked /\ padded' = padded /\ depth' = depth
  BY DEF asked, padded, depth
<1>2. LevelsAreClosed'
  BY <1>1 DEF LevelsAreClosed, LevelIsClosed
<1>3. Carried' = Carried
  BY DEF Carried, OfLevel
<1> QED
  BY <1>1, <1>2, <1>3 DEF SiblingsAreCounted

(* Begin: the first level is the sorted, de-duplicated request.            *)
LEMMA BeginStep ==
  ASSUME Inv, Begin
  PROVE  Inv'
<1> DEFINE nodes == Ascending(asked)
<1>1. Types /\ LevelsAreClosed /\ SiblingsAreCounted
  BY DEF Inv
<1>2. /\ pc = "start" /\ leafCount > 0 /\ leafCount \in Nat
      /\ \A n \in asked : ~(n >= leafCount)
      /\ i = 1 /\ level = EmptyLevel /\ plan.levels = <<>> /\ plan.unique_sibling_count = 0
  BY <1>1 DEF Begin, OutOfRange, Types, asked
<1>3. /\ current' = nodes /\ width' = padded
      /\ pc' = IF request = <<>> THEN "done" ELSE "scan"
      /\ i' = 1 /\ level' = EmptyLevel /\ leafCount' = leafCount /\ request' = request
      /\ plan' = [plan EXCEPT !.queried = nodes]
  BY <1>2 DEF Begin, UniqueSorted, asked, padded
<1>4. asked \in SUBSET Nat /\ IsFiniteSet(asked)
  BY <1>1, RangeFinite DEF Types, asked
<1>5. nodes \in Seq(Nat) /\ Increasing(nodes) /\ Range(nodes) = asked
  BY <1>4, AscendingSorts
<1> HIDE DEF nodes
<1>6. /\ plan' \in [queried : Seq(Nat), levels : Seq(ProofPlanLevels), unique_sibling_count : Nat]
      /\ plan'.levels = <<>> /\ plan'.unique_sibling_count = 0
  BY <1>1, <1>2, <1>3, <1>5 DEF Types
<1>7. LevelsAreClosed' /\ SiblingsAreCounted' /\ depth' = depth /\ asked' = asked /\ padded' = padded
  BY <1>1, <1>2, <1>3, <1>6, PlanUntouched
<1>8. PICK k \in Nat : padded = 2^k /\ leafCount <= 2^k /\ padded \in Nat
  BY <1>2, PaddedWidth, PowerType DEF padded
<1>9. depth = 0 /\ depth' = 0
  BY <1>2, <1>7 DEF depth
<1>10. width' * 2^depth' = padded
  BY <1>3, <1>8, <1>9, PowerOfZero
<1>11. \A n \in asked : n < padded
  BY <1>2, <1>4, <1>8
<1>12. Range(nodes) = Ancestors(asked, 0)
  BY <1>4, <1>5, AncestorsStep
<1>13. Halfway(nodes, 1, <<>>, <<>>)
  BY <1>5, ScanBegins
<1>14. ScanIsHalfway'
  BY <1>3, <1>5, <1>7, <1>8, <1>9, <1>10, <1>11, <1>12, <1>13 DEF ScanIsHalfway, EmptyLevel
<1>15. Types'
  <2>1. 1 <= Len(nodes) + 1
    BY <1>5, LenProperties
  <2>2. /\ pc' \in {"start", "scan", "done", "throw"} /\ pc' \notin {"start", "throw"}
        /\ request' \in Seq(Nat) /\ level' \in [sibling_indices : Seq(Nat), parent_indices : Seq(Nat)]
    BY <1>1, <1>2, <1>3 DEF Types
  <2> QED
    BY <1>2, <1>3, <1>5, <1>6, <1>8, <2>1, <2>2 DEF Types
<1>16. Finished'
  BY <1>3, <1>9 DEF Finished
<1> QED
  BY <1>7, <1>14, <1>15, <1>16 DEF Inv

(* The scan: both steps leave the closed levels alone and add a parent.    *)
ScanTypes ==
  /\ pc = "scan" /\ request # <<>> /\ width > 1 /\ i \in 1 .. Len(current) + 1
  /\ current \in Seq(Nat) /\ Increasing(current)
  /\ level.sibling_indices \in Seq(Nat) /\ level.parent_indices \in Seq(Nat)
  /\ Halfway(current, i, level.sibling_indices, level.parent_indices)

(* The invariant, for a step of the scan.                                  *)
LEMMA ScanStarts ==
  ASSUME Inv, pc = "scan", width > 1, request # <<>>
  PROVE  ScanTypes
<1>1. Types /\ ScanIsHalfway
  BY DEF Inv
<1>2. Increasing(current) /\ Halfway(current, i, level.sibling_indices, level.parent_indices)
  BY <1>1 DEF ScanIsHalfway
<1>3. /\ current \in Seq(Nat) /\ i \in Nat \ {0} /\ i <= Len(current) + 1
      /\ level.sibling_indices \in Seq(Nat) /\ level.parent_indices \in Seq(Nat)
  BY <1>1 DEF Types
<1>4. i \in 1 .. Len(current) + 1
  BY <1>3, LenProperties
<1> QED
  BY <1>2, <1>3, <1>4 DEF ScanTypes

(* PairedNode and LoneNode advance the scan of one level.                  *)
LEMMA ScanStep ==
  ASSUME Inv, PairedNode \/ LoneNode
  PROVE  Inv'
<1> DEFINE a == current[i]
           up == Append(level.parent_indices, Parent(a))
           more == Append(level.sibling_indices, Sibling(a))
<1>1. /\ Types /\ LevelsAreClosed /\ SiblingsAreCounted /\ ScanIsHalfway
      /\ pc = "scan" /\ width > 1 /\ i <= Len(current) /\ request # <<>>
      /\ UNCHANGED <<pc, leafCount, request, current, width, plan>>
  BY DEF Inv, Finished, PairedNode, LoneNode
<1>2. ScanTypes
  BY <1>1, ScanStarts
<1>3. /\ i \in 1 .. Len(current) /\ Len(current) \in Nat /\ i \in Nat
      /\ DOMAIN current = 1 .. Len(current)
      /\ current \in Seq(Nat) /\ Increasing(current)
      /\ level.sibling_indices \in Seq(Nat) /\ level.parent_indices \in Seq(Nat)
      /\ Halfway(current, i, level.sibling_indices, level.parent_indices)
  BY <1>1, <1>2, LenProperties DEF ScanTypes
<1>4. a \in Nat /\ Parent(a) \in Nat /\ Sibling(a) \in Nat
  <2>1. a \in Nat
    BY <1>3
  <2> QED
    BY <2>1, ParentFacts
<1>5. up \in Seq(Nat) /\ more \in Seq(Nat)
  BY <1>3, <1>4, AppendProperties
<1>6. level \in [sibling_indices : Seq(Nat), parent_indices : Seq(Nat)]
  BY <1>1 DEF Types
<1>7. ASSUME PairedNode
      PROVE  /\ level' \in [sibling_indices : Seq(Nat), parent_indices : Seq(Nat)]
             /\ i' \in Nat \ {0} /\ i' <= Len(current) + 1
             /\ Halfway(current, i', level'.sibling_indices, level'.parent_indices)
  <2> HIDE DEF a, up, more
  <2>1. level' = [level EXCEPT !.parent_indices = up] /\ i' = i + 2 /\ HasPairedSibling
    BY <1>7 DEF PairedNode, up, a
  <2>2. i + 1 <= Len(current) /\ current[i] % 2 = 0 /\ current[i + 1] = current[i] + 1
    BY <2>1 DEF HasPairedSibling
  <2>3. level'.sibling_indices = level.sibling_indices /\ level'.parent_indices = up
    BY <1>6, <2>1
  <2>4. Halfway(current, i + 2, level.sibling_indices, up)
    BY <1>3, <2>2, ScanPair DEF up, a
  <2>5. level' \in [sibling_indices : Seq(Nat), parent_indices : Seq(Nat)]
    BY <1>5, <1>6, <2>1
  <2>6. i' \in Nat \ {0} /\ i' <= Len(current) + 1
    BY <1>3, <2>1, <2>2, SMTT(30)
  <2> QED
    BY <2>1, <2>3, <2>4, <2>5, <2>6
<1>8. ASSUME LoneNode
      PROVE  /\ level' \in [sibling_indices : Seq(Nat), parent_indices : Seq(Nat)]
             /\ i' \in Nat \ {0} /\ i' <= Len(current) + 1
             /\ Halfway(current, i', level'.sibling_indices, level'.parent_indices)
  <2> HIDE DEF a, up, more
  <2>1. /\ level' = [sibling_indices |-> more, parent_indices |-> up]
        /\ i' = i + 1 /\ ~HasPairedSibling
    BY <1>8 DEF LoneNode, up, more, a
  <2>2. ~(i + 1 <= Len(current) /\ current[i] % 2 = 0 /\ current[i + 1] = current[i] + 1)
    BY <2>1 DEF HasPairedSibling
  <2>3. Halfway(current, i + 1, more, up)
    BY <1>3, <2>2, ScanLone DEF up, more, a
  <2>4. i' \in Nat \ {0} /\ i' <= Len(current) + 1
    BY <1>3, <2>1
  <2> QED
    BY <1>5, <2>1, <2>3, <2>4
<1>9. /\ level' \in [sibling_indices : Seq(Nat), parent_indices : Seq(Nat)]
      /\ i' \in Nat \ {0} /\ i' <= Len(current) + 1
      /\ Halfway(current, i', level'.sibling_indices, level'.parent_indices)
  BY <1>7, <1>8
<1>10. LevelsAreClosed' /\ SiblingsAreCounted' /\ depth' = depth /\ asked' = asked /\ padded' = padded
  BY <1>1, PlanUntouched
<1>11. Types'
  <2> USE DEF Types
  <2>1. current' = current /\ plan' = plan /\ pc' = "scan"
    BY <1>1
  <2>2. pc' \in {"start", "scan", "done", "throw"} /\ leafCount' \in Nat /\ width' \in Nat /\ request' \in Seq(Nat) /\ current' \in Seq(Nat)
    BY <1>1
  <2>3. plan' \in [queried : Seq(Nat), levels : Seq(ProofPlanLevels), unique_sibling_count : Nat]
    BY <1>1
  <2> QED
    BY <1>9, <2>1, <2>2, <2>3
<1>12. ScanIsHalfway'
  BY <1>1, <1>9, <1>10 DEF ScanIsHalfway
<1>13. Finished'
  BY <1>1 DEF Finished
<1> QED
  BY <1>10, <1>11, <1>12, <1>13 DEF Inv

(* CloseLevel: the scanned level joins the plan, its parents are the next. *)
LEMMA CloseStep ==
  ASSUME Inv, CloseLevel
  PROVE  Inv'
<1> DEFINE sibs == level.sibling_indices
           ups == level.parent_indices
           d == Len(plan.levels)
           closed == [node_indices |-> current, sibling_indices |-> sibs, parent_indices |-> ups]
           N == Range(current)
           S == Range(sibs)
<1>1. /\ Types /\ LevelsAreClosed /\ SiblingsAreCounted /\ ScanIsHalfway
      /\ pc = "scan" /\ width > 1 /\ i > Len(current) /\ request # <<>>
      /\ UNCHANGED <<pc, leafCount, request>>
      /\ current' = ups /\ level' = EmptyLevel /\ i' = 1 /\ width' = width \div 2
      /\ plan' = [plan EXCEPT !.levels = Append(@, closed),
                              !.unique_sibling_count = @ + Len(sibs)]
  BY DEF Inv, Finished, CloseLevel
<1>2. ScanTypes
  BY <1>1, ScanStarts
<1>3. /\ Len(current) \in Nat /\ i = Len(current) + 1
      /\ current \in Seq(Nat) /\ Increasing(current) /\ sibs \in Seq(Nat) /\ ups \in Seq(Nat)
      /\ Halfway(current, i, sibs, ups)
  <2>1. current \in Seq(Nat) /\ i \in 1 .. Len(current) + 1
    BY <1>2 DEF ScanTypes
  <2>2. Len(current) \in Nat
    BY <2>1, LenProperties
  <2>3. i = Len(current) + 1
    BY <1>1, <2>1, <2>2
  <2> QED
    BY <1>2, <2>1, <2>2, <2>3 DEF ScanTypes
<1>4. /\ Increasing(ups) /\ Increasing(sibs) /\ Range(ups) = {Parent(n) : n \in N}
      /\ N \cup S = {n \in Nat : Parent(n) \in Range(ups)}
      /\ N \cap S = {} /\ S = {Sibling(n) : n \in Lone(N)}
  BY <1>3, ScanEnds
<1>5. /\ plan.levels \in Seq(ProofPlanLevels) /\ plan.unique_sibling_count \in Nat
      /\ plan \in [queried : Seq(Nat), levels : Seq(ProofPlanLevels), unique_sibling_count : Nat]
      /\ width \in Nat /\ d \in Nat /\ request \in Seq(Nat) /\ leafCount \in Nat
  <2>1. /\ plan \in [queried : Seq(Nat), levels : Seq(ProofPlanLevels), unique_sibling_count : Nat]
        /\ width \in Nat /\ request \in Seq(Nat) /\ leafCount \in Nat
    BY <1>1 DEF Types
  <2> QED
    BY <2>1, LenProperties
<1>6. /\ depth = d /\ asked \in SUBSET Nat
      /\ N = Ancestors(asked, d) /\ width * 2^d = padded /\ \A n \in N : n < width
  <2>1. depth = d /\ asked \in SUBSET Nat
    BY <1>5, RangeFinite DEF depth, asked
  <2> QED
    BY <1>1, <2>1 DEF ScanIsHalfway
<1>7. closed \in ProofPlanLevels
  BY <1>3 DEF ProofPlanLevels
<1>8. PICK h \in Nat : width = 2 * h /\ \E e \in Nat : h = 2^e
  <2>1. PICK k \in Nat : width = 2^k
    BY <1>1 DEF ScanIsHalfway
  <2>2. k # 0
    <3>1. k = 0 => 2^k = 2^0
      BY Zenon
    <3> QED
      BY <1>1, <2>1, <3>1, PowerOfZero
  <2>3. k - 1 \in Nat /\ (k - 1) + 1 = k
    BY <2>2
  <2>4. 2^(k - 1) \in Nat /\ width = 2 * 2^(k - 1)
    BY <2>1, <2>3, PowerType, PowerOfNext
  <2> QED
    BY <2>3, <2>4
<1>9. width' = h /\ 2^d \in Nat \ {0} /\ 2^(d + 1) = 2 * 2^d /\ 2^(d + 1) \in Nat
  <2>1. (2 * h) \div 2 = h
    OBVIOUS
  <2>2. d \in Nat /\ d + 1 \in Nat
    BY <1>5
  <2> HIDE DEF d
  <2>3. 2^d \in Nat /\ d < 2^d /\ 2^(d + 1) \in Nat
    BY <2>2, PowerType, PowerExceeds
  <2>4. 2^(d + 1) = 2 * 2^d
    BY <2>2, PowerOfNext
  <2>5. 2^d # 0
    BY <2>2, <2>3
  <2>6. width' = h
    BY <1>1, <1>8, <2>1
  <2> QED
    BY <2>3, <2>4, <2>5, <2>6
<1> DEFINE m == 2^d
<1>10. \A s \in S : s \in Nat /\ s < width /\ s * m < padded
  <2> SUFFICES ASSUME NEW s \in S PROVE s \in Nat /\ s < width /\ s * m < padded
    OBVIOUS
  <2>1. s \in Nat /\ Parent(s) \in Range(ups)
    BY <1>4
  <2>2. PICK n \in N : Parent(s) = Parent(n)
    BY <1>4, <2>1
  <2>3. n \in Nat /\ n < 2 * h
    BY <1>3, <1>6, <1>8, <2>2, RangeFinite
  <2>4. s < 2 * h
    BY <2>1, <2>2, <2>3 DEF Parent
  <2>5. m \in Nat \ {0} /\ s \in Nat /\ width \in Nat /\ s < width
    BY <1>5, <1>8, <1>9, <2>1, <2>4
  <2>6. s * m < width * m
    <3> HIDE DEF m
    <3> QED
      BY <2>5
  <2> QED
    BY <1>6, <2>1, <2>5, <2>6
<1> HIDE DEF sibs, ups, closed, N, S, d
<1>11. /\ plan' \in [queried : Seq(Nat), levels : Seq(ProofPlanLevels), unique_sibling_count : Nat]
       /\ plan'.levels = Append(plan.levels, closed)
       /\ plan'.unique_sibling_count = plan.unique_sibling_count + Len(sibs)
  <2>1. Append(plan.levels, closed) \in Seq(ProofPlanLevels)
    BY <1>5, <1>7, AppendProperties
  <2>2. plan.unique_sibling_count + Len(sibs) \in Nat
    BY <1>3, <1>5, LenProperties
  <2> QED
    BY <1>1, <1>5, <2>1, <2>2
<1>12. /\ Len(plan'.levels) = d + 1 /\ DOMAIN plan.levels = 1 .. d /\ DOMAIN plan'.levels = 1 .. d + 1
       /\ plan'.levels[d + 1] = closed /\ \A l \in 1 .. d : plan'.levels[l] = plan.levels[l]
  BY <1>5, <1>7, <1>11, AppendProperties, LenProperties DEF d
<1>13. asked' = asked /\ padded' = padded /\ depth' = d + 1
  BY <1>1, <1>12 DEF asked, padded, depth
<1>14. LevelsAreClosed'
  <2> SUFFICES ASSUME NEW l \in 1 .. d + 1 PROVE LevelIsClosed(l)'
    BY <1>12 DEF LevelsAreClosed
  <2>1. CASE l \in 1 .. d
    <3>1. LevelIsClosed(l)
      BY <1>1, <1>12, <2>1 DEF LevelsAreClosed
    <3> QED
      BY <1>12, <1>13, <2>1, <3>1 DEF LevelIsClosed
  <2>2. CASE l = d + 1
    <3>1. /\ closed.node_indices = current /\ closed.sibling_indices = sibs
          /\ closed.parent_indices = ups /\ (d + 1) - 1 = d
      BY <1>5 DEF closed
    <3>2. plan'.levels[l] = closed /\ l - 1 = d
      BY <1>12, <2>2, <3>1
    <3> QED
      BY <1>3, <1>4, <1>6, <1>10, <1>13, <3>1, <3>2 DEF LevelIsClosed, N, S, m
  <2> QED
    BY <1>5, <2>1, <2>2
<1>15. SiblingsAreCounted'
  <2> DEFINE new == {<<d, s>> : s \in S}
  <2>1. Carried' = Carried \cup new
    <3>1. \A l \in 1 .. d : OfLevel(l)' = OfLevel(l)
      BY <1>12 DEF OfLevel
    <3>2. ASSUME NEW l \in 1 .. d + 1, l = d + 1
          PROVE  OfLevel(l)' = new
      <4>1. closed.sibling_indices = sibs /\ l - 1 = d
        BY <1>5, <3>2 DEF closed
      <4>2. plan'.levels[l].sibling_indices = sibs
        BY <1>12, <3>2, <4>1
      <4> QED
        BY <4>1, <4>2, Zenon DEF OfLevel, S
    <3>3. 1 .. d + 1 = (1 .. d) \cup {d + 1}
      BY <1>5
    <3> DEFINE at == [l \in 1 .. d + 1 |-> OfLevel(l)']
    <3>4. Carried' = UNION {at[l] : l \in 1 .. d + 1}
      BY <1>12 DEF Carried
    <3>5. Carried = UNION {at[l] : l \in 1 .. d}
      BY <1>12, <3>1, <3>3 DEF Carried
    <3>6. at[d + 1] = new
      BY <3>2, <3>3
    <3> HIDE DEF at, new
    <3> QED
      BY <3>3, <3>4, <3>5, <3>6
  <2>2. Carried \cap new = {}
    <3> SUFFICES ASSUME NEW l \in 1 .. d, NEW s, NEW t, <<l - 1, s>> = <<d, t>> PROVE FALSE
      BY <1>12 DEF Carried, OfLevel
    <3> QED
      BY <1>5
  <2>3. IsFiniteSet(S) /\ Cardinality(S) = Len(sibs)
    BY <1>3, <1>4, IncreasingSize DEF S
  <2>4. IsFiniteSet(new) /\ Cardinality(new) = Len(sibs)
    <3> DEFINE f == [s \in S |-> <<d, s>>]
    <3>1. f \in Bijection(S, new)
      BY DEF Bijection, Injection, IsInjective, Surjection
    <3> QED
      BY <2>3, <3>1, FS_Bijection DEF ExistsBijection
  <2> HIDE DEF new
  <2>5. IsFiniteSet(Carried) /\ Cardinality(Carried) = plan.unique_sibling_count
    BY <1>1 DEF SiblingsAreCounted
  <2>6. /\ IsFiniteSet(Carried \cup new)
        /\ Cardinality(Carried \cup new) = plan.unique_sibling_count + Len(sibs)
    <3>1. Cardinality({}) = 0
      BY FS_EmptySet
    <3>2. Len(sibs) \in Nat /\ plan.unique_sibling_count \in Nat
      BY <1>3, <1>5, LenProperties
    <3> DEFINE carried == Carried
               count == plan.unique_sibling_count
               size == Len(sibs)
    <3>3. /\ IsFiniteSet(carried) /\ Cardinality(carried) = count
          /\ IsFiniteSet(new) /\ Cardinality(new) = size
          /\ carried \cap new = {} /\ size \in Nat /\ count \in Nat
      BY <2>2, <2>4, <2>5, <3>2
    <3> HIDE DEF carried, count, size
    <3>4. /\ IsFiniteSet(carried \cup new)
          /\ Cardinality(carried \cup new) = count + size - Cardinality({})
      BY <3>3, FS_Union
    <3>5. Cardinality(carried \cup new) = count + size
      BY <3>1, <3>3, <3>4
    <3> QED
      BY <3>4, <3>5 DEF carried, count, size
  <2> QED
    BY <1>11, <2>1, <2>6 DEF SiblingsAreCounted
<1>16. ScanIsHalfway'
  <2>1. Range(ups) = Ancestors(asked, d + 1)
    BY <1>4, <1>5, <1>6, AncestorsStep
  <2>2. \A p \in Range(ups) : p < h
    <3>1. \A n \in N : n \in Nat /\ n < 2 * h
      BY <1>3, <1>6, <1>8, RangeFinite DEF N
    <3> QED
      BY <1>4, <3>1, ParentFacts
  <2>3. h * 2^(d + 1) = padded
    <3>1. m \in Nat /\ 2^(d + 1) = 2 * m /\ padded = (2 * h) * m
      BY <1>6, <1>8, <1>9
    <3> HIDE DEF m
    <3> QED
      BY <3>1
  <2>4. Halfway(ups, 1, <<>>, <<>>)
    BY <1>3, ScanBegins
  <2>5. /\ level'.sibling_indices = <<>> /\ level'.parent_indices = <<>>
    BY <1>1 DEF EmptyLevel
  <2> QED
    BY <1>1, <1>4, <1>8, <1>9, <1>13, <2>1, <2>2, <2>3, <2>4, <2>5 DEF ScanIsHalfway
<1>17. Types'
  <2>1. 1 <= Len(ups) + 1
    BY <1>3, LenProperties
  <2>2. level' \in [sibling_indices : Seq(Nat), parent_indices : Seq(Nat)]
    BY <1>1 DEF EmptyLevel
  <2>3. pc' = "scan" /\ leafCount' \in Nat /\ request' \in Seq(Nat) /\ width' \in Nat
    BY <1>1, <1>5, <1>8, <1>9
  <2> QED
    BY <1>1, <1>3, <1>11, <2>1, <2>2, <2>3 DEF Types
<1>18. Finished'
  BY <1>1 DEF Finished
<1> QED
  BY <1>14, <1>15, <1>16, <1>17, <1>18 DEF Inv

(* Every step of the planner keeps the invariant.                          *)
LEMMA InvStep == Inv /\ [Next]_vars => Inv'
<1> SUFFICES ASSUME Inv, [Next]_vars PROVE Inv'
  OBVIOUS
<1>1. CASE Begin
  BY <1>1, BeginStep
<1>2. CASE PairedNode \/ LoneNode
  BY <1>2, ScanStep
<1>3. CASE CloseLevel
  BY <1>3, CloseStep
<1>4. CASE Refuse
  <2>1. /\ pc = "start" /\ pc' = "throw"
        /\ UNCHANGED <<leafCount, request, current, i, level, width, plan>>
    BY <1>4 DEF Refuse
  <2>2. LevelsAreClosed' /\ SiblingsAreCounted'
    BY <2>1, PlanUntouched DEF Inv
  <2>3. Types'
    BY <2>1 DEF Inv, Types
  <2> QED
    BY <2>1, <2>2, <2>3 DEF Inv, ScanIsHalfway, Finished
<1>5. CASE Finish
  <2>1. /\ pc = "scan" /\ width <= 1 /\ pc' = "done" /\ request # <<>>
        /\ UNCHANGED <<leafCount, request, current, i, level, width, plan>>
    BY <1>5 DEF Finish, Inv, Finished
  <2>2. LevelsAreClosed' /\ SiblingsAreCounted' /\ depth' = depth /\ asked' = asked /\ padded' = padded
    BY <2>1, PlanUntouched DEF Inv
  <2>3. Types'
    BY <2>1 DEF Inv, Types
  <2>4. ScanIsHalfway'
    BY <2>1, <2>2 DEF Inv, ScanIsHalfway
  <2> QED
    BY <2>1, <2>2, <2>3, <2>4 DEF Inv, Finished
<1>6. CASE UNCHANGED vars
  <2>1. UNCHANGED <<pc, leafCount, request, current, i, level, width, plan>>
    BY <1>6 DEF vars
  <2>2. LevelsAreClosed' /\ SiblingsAreCounted' /\ depth' = depth /\ asked' = asked /\ padded' = padded
    BY <2>1, PlanUntouched DEF Inv
  <2>3. Types'
    BY <2>1 DEF Inv, Types
  <2>4. ScanIsHalfway'
    BY <2>1, <2>2 DEF Inv, ScanIsHalfway
  <2> QED
    BY <2>1, <2>2, <2>3, <2>4 DEF Inv, Finished
<1> QED
  BY <1>1, <1>2, <1>3, <1>4, <1>5, <1>6 DEF Next, Stopped

(* The plan, the scan and the counts are as the invariant says in every    *)
(* reachable state of build_pruned_multiproof_plan.                        *)
THEOREM Invariance == Spec => []Inv
<1> QED
  BY Initially, InvStep, PTL DEF Spec

-----------------------------------------------------------------------------
(* In every finished level the siblings are exactly those the verifier     *)
(* lacks, none twice, and slots of the level (PlanIsExactFrontier).        *)
THEOREM FrontierIsExact == Spec => []PlanIsExactFrontier
<1>1. Inv => PlanIsExactFrontier
  <2> SUFFICES ASSUME Inv, NEW l \in DOMAIN plan.levels
               PROVE  LET nodes    == Range(plan.levels[l].node_indices)
                          siblings == Range(plan.levels[l].sibling_indices)
                      IN  /\ nodes \cup siblings =
                               UNION {{2 * p, 2 * p + 1} : p \in Range(plan.levels[l].parent_indices)}
                          /\ nodes \cap siblings = {}
                          /\ \A s \in siblings : s * 2^(l - 1) < NextPowerOfTwo(leafCount)
    BY DEF PlanIsExactFrontier
  <2> DEFINE P == Range(plan.levels[l].parent_indices)
  <2>1. LevelIsClosed(l)
    BY DEF Inv, LevelsAreClosed
  <2>2. P \in SUBSET Nat
    <3>1. plan.levels \in Seq(ProofPlanLevels)
      BY DEF Inv, Types
    <3>2. plan.levels[l] \in ProofPlanLevels
      <4>1. plan.levels \in [1 .. Len(plan.levels) -> ProofPlanLevels]
        BY <3>1, LenProperties
      <4> QED
        BY <4>1
    <3>3. plan.levels[l].parent_indices \in Seq(Nat)
      BY <3>2 DEF ProofPlanLevels
    <3> QED
      BY <3>3, RangeFinite
  <2> HIDE DEF P
  <2>3. UNION {{2 * p, 2 * p + 1} : p \in P} = {n \in Nat : Parent(n) \in P}
    BY <2>2, ChildrenOf
  <2> QED
    BY <2>1, <2>3 DEF LevelIsClosed, P, padded
<1> QED
  BY <1>1, Invariance, PTL

-----------------------------------------------------------------------------
(* Proof order: the level lists of the plan, laid end to end.              *)

(* Two lists in proof order, the first before the second, make one.        *)
LEMMA ConcatInOrder ==
  ASSUME NEW s \in Seq(Pairs), InOrder(s), NEW r \in Seq(Pairs), InOrder(r),
         \A x \in Range(s), y \in Range(r) : Precedes(x, y)
  PROVE  /\ s \o r \in Seq(Pairs) /\ InOrder(s \o r)
         /\ Range(s \o r) = Range(s) \cup Range(r)
<1> DEFINE t == s \o r
           m == Len(s)
           n == Len(r)
<1>1. /\ m \in Nat /\ n \in Nat /\ DOMAIN s = 1 .. m /\ DOMAIN r = 1 .. n
      /\ t \in Seq(Pairs) /\ DOMAIN t = 1 .. m + n
      /\ \A k \in 1 .. m + n : t[k] = IF k <= m THEN s[k] ELSE r[k - m]
  BY ConcatProperties, LenProperties
<1> HIDE DEF t, m, n
<1>0. (\A k \in 1 .. m : s[k] \in Range(s)) /\ (\A k \in 1 .. n : r[k] \in Range(r))
  BY <1>1, Zenon DEF Range
<1>2. \A k \in 1 .. m : k \in 1 .. m + n /\ t[k] = s[k] /\ s[k] \in Range(s)
  <2>1. \A k \in 1 .. m : k \in 1 .. m + n /\ k <= m
    BY <1>1
  <2> QED
    BY <1>0, <1>1, <2>1
<1>3. \A k \in m + 1 .. m + n : k - m \in 1 .. n /\ t[k] = r[k - m] /\ r[k - m] \in Range(r)
  <2>1. \A k \in m + 1 .. m + n : k - m \in 1 .. n /\ k \in 1 .. m + n /\ ~(k <= m)
    BY <1>1
  <2> QED
    BY <1>0, <1>1, <2>1
<1>4. \A k \in 1 .. n : k + m \in m + 1 .. m + n /\ t[k + m] = r[k]
  <2> SUFFICES ASSUME NEW k \in 1 .. n PROVE k + m \in m + 1 .. m + n /\ t[k + m] = r[k]
    OBVIOUS
  <2>1. k + m \in m + 1 .. m + n /\ (k + m) - m = k
    BY <1>1
  <2> QED
    BY <1>3, <2>1
<1>5. \A k \in 1 .. m + n : k \in 1 .. m \/ k \in m + 1 .. m + n
  BY <1>1
<1>6. InOrder(t)
  <2> SUFFICES ASSUME NEW j \in 1 .. m + n, NEW k \in 1 .. m + n, j < k
               PROVE  Precedes(t[j], t[k])
    BY <1>1 DEF InOrder
  <2>1. CASE k \in 1 .. m
    <3>1. j \in 1 .. m
      BY <1>1, <2>1
    <3> QED
      BY <1>1, <1>2, <2>1, <3>1 DEF InOrder
  <2>2. CASE j \in 1 .. m /\ k \in m + 1 .. m + n
    BY <1>2, <1>3, <2>2
  <2>3. CASE j \in m + 1 .. m + n
    <3>1. k \in m + 1 .. m + n /\ j - m < k - m
      BY <1>1, <2>3
    <3> QED
      BY <1>1, <1>3, <2>3, <3>1 DEF InOrder
  <2> QED
    BY <1>5, <2>1, <2>2, <2>3
<1>7. Range(t) = Range(s) \cup Range(r)
  <2>1. \A k \in 1 .. m + n : t[k] \in Range(s) \cup Range(r)
    BY <1>2, <1>3, <1>5
  <2>2. \A k \in 1 .. m : s[k] \in Range(t)
    BY <1>1, <1>2 DEF Range
  <2>3. \A k \in 1 .. n : r[k] \in Range(t)
    <3>1. \A k \in m + 1 .. m + n : k \in 1 .. m + n
      BY <1>1
    <3>2. \A k \in 1 .. n : k + m \in 1 .. m + n /\ t[k + m] = r[k]
      BY <1>4, <3>1
    <3> QED
      BY <1>1, <3>2 DEF Range
  <2>4. Range(t) \subseteq Range(s) \cup Range(r)
    BY <1>1, <2>1 DEF Range
  <2>5. Range(s) \subseteq Range(t)
    BY <1>1, <2>2 DEF Range
  <2>6. Range(r) \subseteq Range(t)
    BY <1>1, <2>3 DEF Range
  <2> QED
    BY <2>4, <2>5, <2>6
<1> QED
  BY <1>1, <1>6, <1>7 DEF t

(* Level lists laid end to end are the list of all their pairs.            *)
LevelLists(seqs, n) ==
  /\ seqs \in Seq(Seq(Pairs)) /\ Len(seqs) = n
  /\ \A l \in 1 .. n : InOrder(seqs[l]) /\ \A x \in Range(seqs[l]) : x[1] = l - 1

Upto(seqs, l) == UNION {Range(seqs[k]) : k \in 1 .. l}

(* The lists of the first levels with the next one appended.               *)
LEMMA PrefixStep ==
  ASSUME NEW n \in Nat, NEW seqs, LevelLists(seqs, n), NEW l \in 1 .. n, l + 1 <= n,
         NEW t \in Seq(Pairs), InOrder(t), Range(t) = Upto(seqs, l)
  PROVE  /\ t \o seqs[l + 1] \in Seq(Pairs) /\ InOrder(t \o seqs[l + 1])
         /\ Range(t \o seqs[l + 1]) = Upto(seqs, l + 1)
<1> DEFINE r == seqs[l + 1]
<1>1. l + 1 \in 1 .. n /\ \A k \in 1 .. l : k \in 1 .. n /\ k - 1 < (l + 1) - 1 /\ k \in Nat
  OBVIOUS
<1>2. r \in Seq(Pairs) /\ InOrder(r) /\ \A x \in Range(r) : x[1] = (l + 1) - 1
  <2>1. seqs \in [1 .. n -> Seq(Pairs)]
    BY LenProperties DEF LevelLists
  <2> QED
    BY <1>1, <2>1 DEF LevelLists
<1>3. \A x \in Range(t), y \in Range(r) : Precedes(x, y)
  <2> SUFFICES ASSUME NEW x \in Range(t), NEW y \in Range(r) PROVE Precedes(x, y)
    OBVIOUS
  <2>1. PICK k \in 1 .. l : x \in Range(seqs[k])
    BY DEF Upto
  <2>2. x[1] = k - 1 /\ y[1] = (l + 1) - 1
    BY <1>1, <1>2, <2>1 DEF LevelLists
  <2> QED
    BY <1>1, <2>2 DEF Precedes
<1>4. Upto(seqs, l + 1) = Upto(seqs, l) \cup Range(r)
  <2>1. 1 .. l + 1 = (1 .. l) \cup {l + 1}
    OBVIOUS
  <2> DEFINE R == [k \in 1 .. l + 1 |-> Range(seqs[k])]
  <2>2. /\ Upto(seqs, l + 1) = UNION {R[k] : k \in 1 .. l + 1} /\ R[l + 1] = Range(r)
        /\ Upto(seqs, l) = UNION {R[k] : k \in 1 .. l}
    BY <2>1 DEF Upto
  <2> HIDE DEF R, r
  <2> QED
    BY <2>1, <2>2
<1> HIDE DEF r
<1>5. t \o r \in Seq(Pairs) /\ InOrder(t \o r) /\ Range(t \o r) = Range(t) \cup Range(r)
  BY <1>2, <1>3, ConcatInOrder
<1> QED
  BY <1>4, <1>5 DEF r

(* So for every number of levels.                                          *)
LEMMA PrefixesAreListed ==
  ASSUME NEW n \in Nat, NEW seqs, LevelLists(seqs, n), NEW l \in 1 .. n
  PROVE  LET t == Listed(Upto(seqs, l)) IN
         /\ t \in Seq(Pairs) /\ InOrder(t) /\ Range(t) = Upto(seqs, l)
         /\ t = IF l = 1 THEN seqs[l] ELSE Listed(Upto(seqs, l - 1)) \o seqs[l]
<1> DEFINE list(k) == Listed(Upto(seqs, k))
           Good(k) == list(k) \in Seq(Pairs) /\ InOrder(list(k)) /\ Range(list(k)) = Upto(seqs, k)
           bad == {k \in 1 .. n : ~Good(k)}
<1>1. \A k \in 1 .. n : seqs[k] \in Seq(Pairs) /\ InOrder(seqs[k])
  <2>1. seqs \in [1 .. n -> Seq(Pairs)]
    BY LenProperties DEF LevelLists
  <2> QED
    BY <2>1 DEF LevelLists
<1>2. 1 \in 1 .. n => list(1) = seqs[1] /\ Good(1)
  <2> SUFFICES ASSUME 1 \in 1 .. n PROVE list(1) = seqs[1] /\ Good(1)
    OBVIOUS
  <2>1. Upto(seqs, 1) = Range(seqs[1])
    BY DEF Upto
  <2>2. list(1) = seqs[1]
    BY <1>1, <2>1, ListedUnique
  <2> QED
    BY <1>1, <2>1, <2>2
<1>3. ASSUME NEW k \in 1 .. n, k + 1 <= n, Good(k)
      PROVE  list(k + 1) = list(k) \o seqs[k + 1] /\ Good(k + 1)
  <2> DEFINE t == list(k)
             u == t \o seqs[k + 1]
  <2>1. t \in Seq(Pairs) /\ InOrder(t) /\ Range(t) = Upto(seqs, k)
    BY <1>3
  <2> HIDE DEF t
  <2>2. u \in Seq(Pairs) /\ InOrder(u) /\ Range(u) = Upto(seqs, k + 1)
    BY <1>3, <2>1, PrefixStep
  <2> HIDE DEF u
  <2>3. list(k + 1) = u
    BY <2>2, ListedUnique
  <2>4. Good(k + 1)
    BY <2>2, <2>3
  <2> QED
    BY <2>3, <2>4 DEF u, t
<1> HIDE DEF list, Good
<1>4. ASSUME bad # {}
      PROVE  FALSE
  <2>1. PICK k \in bad : \A j \in bad : k <= j
    <3>1. bad \in SUBSET Nat
      OBVIOUS
    <3> HIDE DEF bad
    <3> QED
      BY <1>4, <3>1, LeastElement
  <2>2. k \in 1 .. n /\ ~Good(k)
    OBVIOUS
  <2>3. k # 1
    BY <1>2, <2>2
  <2>4. k - 1 \in 1 .. n /\ (k - 1) + 1 = k /\ k - 1 < k
    BY <2>2, <2>3
  <2>5. Good(k - 1)
    <3>1. k - 1 \notin bad
      BY <2>1, <2>4
    <3> QED
      BY <2>4, <3>1
  <2>6. Good((k - 1) + 1)
    BY <1>3, <2>2, <2>4, <2>5
  <2> QED
    BY <2>2, <2>4, <2>6
<1>5. \A k \in 1 .. n : Good(k)
  BY <1>4
<1>6. list(l) = IF l = 1 THEN seqs[l] ELSE list(l - 1) \o seqs[l]
  <2>1. CASE l = 1
    BY <1>2, <2>1
  <2>2. CASE l # 1
    <3>1. l - 1 \in 1 .. n /\ (l - 1) + 1 = l /\ l <= n
      BY <2>2
    <3>2. list((l - 1) + 1) = list(l - 1) \o seqs[(l - 1) + 1]
      BY <1>3, <1>5, <3>1
    <3> QED
      BY <2>2, <3>1, <3>2
  <2> QED
    BY <2>1, <2>2
<1> QED
  BY <1>5, <1>6 DEF list, Good

(* FlattenSeq of the level lists is the list of all pairs: the recursion   *)
(* it unfolds to has one solution.                                         *)
LEMMA FlattenLists ==
  ASSUME NEW n \in Nat \ {0}, NEW seqs, LevelLists(seqs, n)
  PROVE  FlattenSeq(seqs) = Listed(Upto(seqs, n))
<1> DEFINE list == [l \in 1 .. n |-> Listed(Upto(seqs, l))]
           Unfolds(f) == f = [l \in 1 .. n |-> IF l = 1 THEN seqs[l] ELSE f[l - 1] \o seqs[l]]
           flatten == CHOOSE f : Unfolds(f)
<1>1. Len(seqs) = n /\ n # 0
  BY DEF LevelLists
<1>2. FlattenSeq(seqs) = flatten[n]
  BY <1>1 DEF FlattenSeq
<1>3. Unfolds(list)
  <2>1. ASSUME NEW l \in 1 .. n
        PROVE  list[l] = IF l = 1 THEN seqs[l] ELSE list[l - 1] \o seqs[l]
    <3>1. list[l] = IF l = 1 THEN seqs[l] ELSE Listed(Upto(seqs, l - 1)) \o seqs[l]
      BY PrefixesAreListed, ZenonT(60)
    <3>2. l # 1 => l - 1 \in 1 .. n
      OBVIOUS
    <3> QED
      BY <3>1, <3>2
  <2> QED
    BY <2>1
<1>4. Unfolds(flatten)
  BY <1>3
<1>5. flatten = [l \in 1 .. n |-> IF l = 1 THEN seqs[l] ELSE flatten[l - 1] \o seqs[l]]
  BY <1>4
<1> HIDE DEF flatten, list
<1> DEFINE bad == {l \in 1 .. n : flatten[l] # list[l]}
<1>6. ASSUME bad # {}
      PROVE  FALSE
  <2>1. PICK k \in bad : \A j \in bad : k <= j
    <3>1. bad \in SUBSET Nat
      OBVIOUS
    <3> HIDE DEF bad
    <3> QED
      BY <1>6, <3>1, LeastElement
  <2>2. k \in 1 .. n /\ flatten[k] # list[k]
    OBVIOUS
  <2>3. flatten[k] = IF k = 1 THEN seqs[k] ELSE flatten[k - 1] \o seqs[k]
    BY <1>5, <2>2
  <2>4. list[k] = IF k = 1 THEN seqs[k] ELSE list[k - 1] \o seqs[k]
    BY <1>3, <2>2
  <2>5. k # 1 => k - 1 \in 1 .. n /\ k - 1 < k
    BY <2>2
  <2>6. k # 1 => flatten[k - 1] = list[k - 1]
    BY <2>1, <2>2, <2>5
  <2> QED
    BY <2>2, <2>3, <2>4, <2>6
<1>7. flatten[n] = list[n]
  BY <1>1, <1>6
<1>8. list[n] = Listed(Upto(seqs, n))
  BY <1>1 DEF list
<1> QED
  BY <1>2, <1>7, <1>8

-----------------------------------------------------------------------------
(* The finished plan is MultiproofPlan's closed form, for every tree and   *)
(* every request: ascending ancestors per level, the siblings in proof     *)
(* order, each once, down to the root alone (PlanMatchesClosedForm).       *)
THEOREM PlanIsClosedForm == Spec => []PlanMatchesClosedForm
<1>1. Inv => PlanMatchesClosedForm
  <2> SUFFICES ASSUME Inv, pc = "done" PROVE PlanMatchesClosedForm
    BY DEF PlanMatchesClosedForm
  <2> DEFINE d == Len(plan.levels)
             seqs == [l \in DOMAIN plan.levels |->
                        [k \in DOMAIN plan.levels[l].sibling_indices |->
                           <<l - 1, plan.levels[l].sibling_indices[k]>>]]
  <2>1. /\ plan.levels \in Seq(ProofPlanLevels) /\ d \in Nat /\ DOMAIN plan.levels = 1 .. d
        /\ request \in Seq(Nat) /\ current \in Seq(Nat) /\ asked \in SUBSET Nat /\ width \in Nat
    <3>1. /\ plan.levels \in Seq(ProofPlanLevels) /\ request \in Seq(Nat)
          /\ current \in Seq(Nat) /\ width \in Nat
      BY DEF Inv, Types
    <3> QED
      BY <3>1, LenProperties, RangeFinite DEF asked
  <2>2. \A l \in 1 .. d : /\ plan.levels[l].node_indices \in Seq(Nat)
                          /\ plan.levels[l].sibling_indices \in Seq(Nat)
                          /\ LevelIsClosed(l)
    <3> SUFFICES ASSUME NEW l \in 1 .. d
                 PROVE  /\ plan.levels[l].node_indices \in Seq(Nat)
                        /\ plan.levels[l].sibling_indices \in Seq(Nat)
                        /\ LevelIsClosed(l)
      OBVIOUS
    <3>1. plan.levels[l] \in ProofPlanLevels
      <4>1. plan.levels \in [1 .. d -> ProofPlanLevels]
        BY <2>1, LenProperties
      <4> HIDE DEF d
      <4> QED
        BY <4>1
    <3>2. LevelIsClosed(l)
      BY <2>1 DEF Inv, LevelsAreClosed
    <3> QED
      BY <3>1, <3>2 DEF ProofPlanLevels
  <2>3. asked = {} <=> request = <<>>
    <3>1. DOMAIN request = 1 .. Len(request) /\ Len(request) \in Nat
      BY <2>1, LenProperties
    <3>2. request = <<>> => asked = {}
      BY DEF asked, Range
    <3>3. request # <<>> => asked # {}
      <4>1. request # <<>> => Len(request) # 0
        BY <2>1, EmptySeq
      <4>2. request # <<>> => 1 \in DOMAIN request
        BY <3>1, <4>1
      <4> QED
        BY <4>2 DEF asked, Range
    <3> QED
      BY <3>2, <3>3
  <2>4. CASE request = <<>>
    <3>1. d = 0 /\ plan.levels = <<>>
      <4>1. d = 0
        BY <2>4 DEF Inv, Finished, depth
      <4> QED
        BY <2>1, <4>1, EmptySeq
    <3>2. Carried = {}
      BY <2>1, <3>1 DEF Carried
    <3>3. plan.unique_sibling_count = 0
      BY <3>2, FS_EmptySet DEF Inv, SiblingsAreCounted
    <3> QED
      BY <2>3, <2>4, <3>1, <3>3 DEF PlanMatchesClosedForm, asked
  <2>5. CASE request # <<>>
    <3>1. /\ width <= 1 /\ width * 2^d = padded
          /\ Increasing(current) /\ Range(current) = Ancestors(asked, d)
          /\ \A n \in Range(current) : n < width
      BY <2>5 DEF Inv, ScanIsHalfway, Finished, depth
    <3>2. width = 1
      <4>1. PICK k \in Nat : width = 2^k
        BY <2>5 DEF Inv, ScanIsHalfway
      <4>2. width # 0
        BY <4>1, PowerType, PowerExceeds
      <4> QED
        BY <2>1, <3>1, <4>2
    <3>3. padded = 2^d
      <4>1. 2^d \in Nat
        BY <2>1, PowerType
      <4> QED
        BY <3>1, <3>2, <4>1
    <3>4. InnerLevels(padded) = 0 .. d - 1 /\ Cardinality(InnerLevels(padded)) = d
      BY <2>1, <3>3, InnerLevelsOf
    <3>5. \A l \in 1 .. d : plan.levels[l].node_indices = Ascending(Ancestors(asked, l - 1))
      <4> SUFFICES ASSUME NEW l \in 1 .. d
                   PROVE  plan.levels[l].node_indices = Ascending(Ancestors(asked, l - 1))
        OBVIOUS
      <4> DEFINE nodes == plan.levels[l].node_indices
      <4>1. nodes \in Seq(Nat) /\ Increasing(nodes) /\ Range(nodes) = Ancestors(asked, l - 1)
        BY <2>2 DEF LevelIsClosed
      <4> HIDE DEF nodes
      <4>2. IsFiniteSet(Range(nodes)) /\ Range(nodes) \in SUBSET Nat
        BY <4>1, RangeFinite
      <4>3. nodes = Ascending(Range(nodes))
        BY <4>1, <4>2, AscendingSorts, IncreasingUnique
      <4> QED
        BY <4>1, <4>3 DEF nodes
    <3>6. ASSUME NEW l \in 1 .. d
          PROVE  /\ seqs[l] \in Seq(Pairs) /\ InOrder(seqs[l]) /\ Range(seqs[l]) = OfLevel(l)
                 /\ \A x \in Range(seqs[l]) : x[1] = l - 1
                 /\ OfLevel(l) = {<<l - 1, Sibling(n)>> : n \in Lone(Ancestors(asked, l - 1))}
      <4> DEFINE sibs == plan.levels[l].sibling_indices
                 r == [k \in DOMAIN sibs |-> <<l - 1, sibs[k]>>]
      <4>1. /\ sibs \in Seq(Nat) /\ Increasing(sibs) /\ l - 1 \in Nat
            /\ Range(sibs) = {Sibling(n) : n \in Lone(Ancestors(asked, l - 1))}
        <5>1. LevelIsClosed(l) /\ sibs \in Seq(Nat) /\ l - 1 \in Nat
          BY <2>1, <2>2
        <5>2. /\ Increasing(sibs) /\ Range(plan.levels[l].node_indices) = Ancestors(asked, l - 1)
              /\ Range(sibs) = {Sibling(n) : n \in Lone(Range(plan.levels[l].node_indices))}
          BY <5>1, Zenon DEF LevelIsClosed
        <5> QED
          BY <5>1, <5>2, Zenon
      <4>2. seqs[l] = r /\ OfLevel(l) = {<<l - 1, s>> : s \in Range(sibs)}
        BY <2>1 DEF OfLevel
      <4> HIDE DEF sibs
      <4>3. DOMAIN sibs = 1 .. Len(sibs) /\ Len(sibs) \in Nat /\ \A k \in 1 .. Len(sibs) : sibs[k] \in Nat
        BY <4>1, LenProperties
      <4>4. r \in Seq(Pairs)
        <5>1. r \in [1 .. Len(sibs) -> Pairs]
          BY <4>1, <4>3 DEF Pairs
        <5> QED
          BY <4>3, <5>1, SeqDef
      <4>5. InOrder(r)
        BY <4>1, <4>3 DEF InOrder, Precedes, Increasing
      <4>6. Range(r) = {<<l - 1, s>> : s \in Range(sibs)}
        BY DEF Range
      <4>7. {<<l - 1, s>> : s \in Range(sibs)}
              = {<<l - 1, Sibling(n)>> : n \in Lone(Ancestors(asked, l - 1))}
        BY <4>1
      <4>8. \A x \in Range(r) : x[1] = l - 1
        BY <4>6
      <4> HIDE DEF r
      <4> QED
        BY <4>2, <4>4, <4>5, <4>6, <4>7, <4>8
    <3>7. DOMAIN seqs = 1 .. d
      BY <2>1
    <3>8. seqs \in Seq(Seq(Pairs)) /\ Len(seqs) = d
      <4>1. seqs \in [1 .. d -> Seq(Pairs)]
        <5>1. seqs = [l \in 1 .. d |-> seqs[l]]
          BY <2>1
        <5> HIDE DEF seqs
        <5> QED
          BY <3>6, <5>1
      <4> HIDE DEF seqs, d
      <4>2. seqs \in Seq(Seq(Pairs))
        BY <2>1, <4>1, SeqDef
      <4>3. DOMAIN seqs = 1 .. Len(seqs) /\ DOMAIN seqs = 1 .. d /\ Len(seqs) \in Nat
        BY <4>1, <4>2, LenProperties
      <4>4. Len(seqs) = d
        <5> DEFINE n == Len(seqs)
        <5>1. n \in Nat /\ d \in Nat /\ 1 .. n = 1 .. d
          BY <2>1, <4>3
        <5> HIDE DEF n
        <5>2. \A k \in Nat : k \in 1 .. n <=> k \in 1 .. d
          BY <5>1
        <5>3. n = d
          BY <5>1, <5>2
        <5> QED
          BY <5>3 DEF n
      <4> QED
        BY <4>2, <4>4
    <3> HIDE DEF d, seqs
    <3>9. LevelLists(seqs, d)
      BY <3>6, <3>8 DEF LevelLists
    <3>10. PlanSiblings(padded, asked) = Carried
      <4> DEFINE at(l) == {<<l, Sibling(n)>> : n \in Lone(Ancestors(asked, l))}
      <4>1. PlanSiblings(padded, asked) = UNION {at(l) : l \in 0 .. d - 1}
        BY <3>4 DEF PlanSiblings
      <4>2. \A l \in 1 .. d : OfLevel(l) = at(l - 1) /\ l - 1 \in 0 .. d - 1
        <5>1. \A l \in 1 .. d : l - 1 \in 0 .. d - 1
          BY <2>1
        <5>2. \A l \in 1 .. d : OfLevel(l) = at(l - 1)
          BY <3>6
        <5> QED
          BY <5>1, <5>2
      <4>3. \A l \in 0 .. d - 1 : l + 1 \in 1 .. d /\ (l + 1) - 1 = l
        BY <2>1
      <4>4. Carried = UNION {OfLevel(l) : l \in 1 .. d}
        BY <2>1 DEF Carried, d
      <4> HIDE DEF at
      <4>5. \A l \in 0 .. d - 1 : at(l) = OfLevel(l + 1)
        BY <4>2, <4>3
      <4>6. UNION {at(l) : l \in 0 .. d - 1} \subseteq UNION {OfLevel(l) : l \in 1 .. d}
        BY <4>3, <4>5
      <4>7. UNION {OfLevel(l) : l \in 1 .. d} \subseteq UNION {at(l) : l \in 0 .. d - 1}
        BY <4>2
      <4> QED
        BY <4>1, <4>4, <4>6, <4>7
    <3>11. Upto(seqs, d) = Carried
      <4>1. Carried = UNION {OfLevel(l) : l \in 1 .. d}
        BY <2>1 DEF Carried, d
      <4>2. \A l \in 1 .. d : Range(seqs[l]) = OfLevel(l)
        BY <3>6
      <4>3. UNION {Range(seqs[l]) : l \in 1 .. d} = UNION {OfLevel(l) : l \in 1 .. d}
        BY <4>2
      <4> QED
        BY <4>1, <4>3 DEF Upto
    <3>12. FlattenSeq(seqs) = Listed(Carried)
      <4>1. CASE d = 0
        <5>1. FlattenSeq(seqs) = <<>>
          BY <3>8, <4>1, EmptySeq DEF FlattenSeq
        <5>2. Carried = {}
          BY <2>1, <3>11, <4>1 DEF Upto
        <5>3. Listed({}) = <<>>
          BY FS_EmptySet DEF Listed
        <5> QED
          BY <5>1, <5>2, <5>3
      <4>2. CASE d # 0
        BY <2>1, <3>9, <3>11, <4>2, FlattenLists
      <4> QED
        BY <4>1, <4>2
    <3>13. PlanOrder(padded, asked) = Listed(PlanSiblings(padded, asked))
      BY DEF PlanOrder, Listed, Ahead, Precedes
    <3>14. plan.unique_sibling_count = Cardinality(PlanSiblings(padded, asked))
      BY <3>10 DEF Inv, SiblingsAreCounted
    <3>15. current = <<0>>
      <4>1. asked # {}
        BY <2>3, <2>5
      <4>2. Range(current) # {}
        BY <3>1, <4>1 DEF Ancestors
      <4>3. Range(current) \in SUBSET Nat /\ \A n \in Range(current) : n < 1
        BY <2>1, <3>1, <3>2, RangeFinite
      <4>4. Range(current) = {0}
        <5>1. \A n \in Range(current) : n = 0
          BY <4>3
        <5> QED
          BY <4>2, <5>1
      <4>5. Range(<<0>>) = {0} /\ <<0>> \in Seq(Nat) /\ Increasing(<<0>>)
        BY DEF Range, Increasing
      <4> QED
        BY <2>1, <3>1, <4>4, <4>5, IncreasingUnique
    <3>16. asked # {}
      BY <2>3, <2>5
    <3> QED
      BY <2>1, <3>4, <3>5, <3>10, <3>12, <3>13, <3>14, <3>15, <3>16
      DEF PlanMatchesClosedForm, asked, padded, d, seqs
  <2> QED
    BY <2>4, <2>5
<1> QED
  BY <1>1, Invariance, PTL
=============================================================================
