---------------------------- MODULE ProofPlanner ----------------------------
(***************************************************************************)
(* build_pruned_multiproof_plan: the loop that walks the levels of a       *)
(* Merkle tree from the queried leaves to the root and collects, per       *)
(* level, the nodes it knows, the siblings a proof must add and the        *)
(* parents it reaches.  Prover (MerkleTree::open) and verifier             *)
(* (MerkleTree::verify) each run it on their own query vector, which may   *)
(* be unsorted and may repeat an index.                                    *)
(*                                                                         *)
(* One action per iteration of the inner loop (PairedNode, LoneNode) and   *)
(* of the outer loop (CloseLevel).                                         *)
(***************************************************************************)
EXTENDS MultiproofPlan, SequencesExt

CONSTANTS
  MaxLeaves,   (* Bound on tree_leaf_count.                    *)
  MaxQueries   (* Bound on the length of the query vector.     *)

ASSUME PlannerBounds == MaxLeaves \in Nat \ {0} /\ MaxQueries \in Nat

VARIABLES
  pc,         (* "start", "scan", "done" or "throw".                    *)
  leafCount,  (* tree_leaf_count                                        *)
  request,    (* queried_indices as passed in.                          *)
  current,    (* Nodes of the level being scanned, ascending.           *)
  i,          (* Inner loop cursor, 1-based.                            *)
  level,      (* The ProofPlanLevel being filled.                       *)
  width,      (* level_width                                            *)
  plan        (* PrunedMultiproofPlan: queried indices, levels, stats.  *)

vars == <<pc, leafCount, request, current, i, level, width, plan>>

EmptyLevel == [sibling_indices |-> <<>>, parent_indices |-> <<>>]

Init ==
  /\ pc = "start"
  /\ leafCount \in 0 .. MaxLeaves
  /\ request \in BoundedSeq(0 .. MaxLeaves, MaxQueries)
  /\ current = <<>>
  /\ i = 1
  /\ level = EmptyLevel
  /\ width = 0
  /\ plan = [queried |-> <<>>, levels |-> <<>>, unique_sibling_count |-> 0]

(* Mutant: Begin forgets to remove duplicates. *)
MutKeepDuplicates(q) == SortSeq(q, <)

(* SortAndValidateUnique. *)
UniqueSorted(q) == Ascending(Range(q))
OutOfRange(q) == \E n \in Range(q) : n >= leafCount

Refuse ==
  /\ pc = "start"
  /\ leafCount = 0 \/ OutOfRange(request)
  /\ pc' = "throw"
  /\ UNCHANGED <<leafCount, request, current, i, level, width, plan>>

Begin ==
  /\ pc = "start"
  /\ leafCount > 0
  /\ ~OutOfRange(request)
  /\ plan' = [plan EXCEPT !.queried = UniqueSorted(request)]
  /\ current' = plan'.queried
  /\ width' = NextPowerOfTwo(leafCount)
  /\ pc' = IF request = <<>> THEN "done" ELSE "scan"
  /\ UNCHANGED <<leafCount, request, i, level>>

(* Mutant: The paired test forgets that only an even node has its sibling next. *)
MutPairAnyNeighbour ==
  /\ i + 1 <= Len(current)
  /\ current[i + 1] = current[i] + 1

HasPairedSibling ==
  /\ i + 1 <= Len(current)
  /\ current[i] % 2 = 0
  /\ current[i + 1] = current[i] + 1

PairedNode ==
  /\ pc = "scan" /\ width > 1 /\ i <= Len(current)
  /\ HasPairedSibling
  /\ level' = [level EXCEPT !.parent_indices = Append(@, Parent(current[i]))]
  /\ i' = i + 2
  /\ UNCHANGED <<pc, leafCount, request, current, width, plan>>

LoneNode ==
  /\ pc = "scan" /\ width > 1 /\ i <= Len(current)
  /\ ~HasPairedSibling
  /\ level' = [sibling_indices |-> Append(level.sibling_indices, Sibling(current[i])),
               parent_indices  |-> Append(level.parent_indices, Parent(current[i]))]
  /\ i' = i + 1
  /\ UNCHANGED <<pc, leafCount, request, current, width, plan>>

CloseLevel ==
  /\ pc = "scan" /\ width > 1 /\ i > Len(current)
  /\ plan' = [plan EXCEPT
                !.levels = Append(@, [node_indices    |-> current,
                                      sibling_indices |-> level.sibling_indices,
                                      parent_indices  |-> level.parent_indices]),
                !.unique_sibling_count = @ + Len(level.sibling_indices)]
  /\ current' = level.parent_indices
  /\ level' = EmptyLevel
  /\ i' = 1
  /\ width' = width \div 2
  /\ UNCHANGED <<pc, leafCount, request>>

Finish ==
  /\ pc = "scan" /\ width <= 1
  /\ pc' = "done"
  /\ UNCHANGED <<leafCount, request, current, i, level, width, plan>>

Stopped == pc \in {"done", "throw"} /\ UNCHANGED vars

Next == Refuse \/ Begin \/ PairedNode \/ LoneNode \/ CloseLevel \/ Finish \/ Stopped

Spec == Init /\ [][Next]_vars

-----------------------------------------------------------------------------

(* In every finished level the siblings the proof carries are exactly the  *)
(* ones the verifier lacks: together with the known nodes they give both   *)
(* children of every parent, none of them is already known, and all are    *)
(* slots of that level (the prover indexes levels_[l] with them unchecked).*)
PlanIsExactFrontier ==
  \A l \in DOMAIN plan.levels :
    LET nodes    == Range(plan.levels[l].node_indices)
        siblings == Range(plan.levels[l].sibling_indices)
    IN  /\ nodes \cup siblings =
             UNION {{2 * p, 2 * p + 1} : p \in Range(plan.levels[l].parent_indices)}
        /\ nodes \cap siblings = {}
        /\ \A s \in siblings : s * 2^(l - 1) < NextPowerOfTwo(leafCount)

(* The finished plan is the closed form of MultiproofPlan, whatever order  *)
(* or repetition the request had: levels are the ancestor sets in          *)
(* ascending order, siblings come in proof order and are counted once.     *)
PlanMatchesClosedForm ==
  LET asked  == Range(request)
      padded == NextPowerOfTwo(leafCount)
  IN  pc = "done" =>
        IF asked = {}
        THEN plan.levels = <<>> /\ plan.unique_sibling_count = 0
        ELSE /\ Len(plan.levels) = Cardinality(InnerLevels(padded))
             /\ \A l \in DOMAIN plan.levels :
                  plan.levels[l].node_indices = Ascending(Ancestors(asked, l - 1))
             /\ FlattenSeq([l \in DOMAIN plan.levels |->
                              [k \in DOMAIN plan.levels[l].sibling_indices |->
                                 <<l - 1, plan.levels[l].sibling_indices[k]>>]])
                  = PlanOrder(padded, asked)
             /\ plan.unique_sibling_count = Cardinality(PlanSiblings(padded, asked))
             /\ current = <<0>>
=============================================================================
