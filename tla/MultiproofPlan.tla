--------------------------- MODULE MultiproofPlan ---------------------------
(***************************************************************************)
(* The shape of a pruned Merkle multiproof, in closed form: which nodes of *)
(* each level are on the path of a queried leaf, which siblings the proof  *)
(* must carry, and in which order.  Nodes of a level are numbered from 0,  *)
(* as in the code, and level 0 holds the leaves.                           *)
(***************************************************************************)
EXTENDS Naturals, FiniteSets, Sequences

Parent(n) == n \div 2

(* The code writes n ^ 1 for the other child of n's parent. *)
Sibling(n) == IF n % 2 = 0 THEN n + 1 ELSE n - 1

(* The nodes of a level whose sibling is not known to the verifier. *)
Lone(nodes) == {n \in nodes : Sibling(n) \notin nodes}

Ancestors(leafSet, level) == {n \div 2^level : n \in leafSet}

(* The least power of two that is at least x; 1 for x = 0. *)
NextPowerOfTwo(x) ==
  2^(CHOOSE k \in 0 .. x : 2^k >= x /\ \A j \in 0 .. k - 1 : 2^j < x)

(* Levels below the root of a tree with `padded' leaf slots. *)
InnerLevels(padded) == {k \in 0 .. padded : 2^k < padded}

(* Every sibling of the proof, as <<level, node>>. *)
PlanSiblings(padded, leafSet) ==
  UNION {{<<l, Sibling(n)>> : n \in Lone(Ancestors(leafSet, l))} :
           l \in InnerLevels(padded)}

(* A set of numbers as an increasing sequence. *)
Ascending(S) ==
  [i \in 1 .. Cardinality(S) |-> CHOOSE x \in S : Cardinality({y \in S : y < x}) = i - 1]

(* The order of the proof: level by level, then left to right. *)
PlanOrder(padded, leafSet) ==
  LET siblings  == PlanSiblings(padded, leafSet)
      Before(s) == {r \in siblings : r[1] < s[1] \/ (r[1] = s[1] /\ r[2] < s[2])}
  IN  [i \in 1 .. Cardinality(siblings) |->
         CHOOSE s \in siblings : Cardinality(Before(s)) = i - 1]
=============================================================================
