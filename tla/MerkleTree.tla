----------------------------- MODULE MerkleTree -----------------------------
(***************************************************************************)
(* MerkleTree: the constructor that pads and hashes the leaves level by    *)
(* level, open, which answers an index vector with a pruned multiproof,    *)
(* and verify, which walks a received multiproof back to the root.         *)
(*                                                                         *)
(* Hashes are terms: HashLeaf and HashParent are one-to-one and never      *)
(* collide, the idealisation under which the protocols use them (the       *)
(* frames of the code carry a domain tag and the lengths).  Between open   *)
(* and verify the proof may be damaged in the ways of Delivered.           *)
(* The node and sibling sets verify takes from the multiproof plan are     *)
(* those of MultiproofPlan, which ProofPlanner shows the planner computes. *)
(***************************************************************************)
EXTENDS MultiproofPlan, SequencesExt

CONSTANTS
  Payload,     (* Contents of a leaf.                          *)
  MaxLeaves,   (* Bound on the number of leaves.               *)
  MaxQueries   (* Bound on the length of a query vector.       *)

ASSUME BoundsAssumption == MaxLeaves \in Nat /\ MaxQueries \in Nat

VARIABLES
  pc,        (* Where the caller is: see Phases.                          *)
  leaves,    (* leaves_; leaf i is leaves[i + 1].                         *)
  padded,    (* padded_leaf_count.                                        *)
  levels,    (* levels_; each [size, at], at mapping node number to hash. *)
  root,      (* root_; EmptyRoot until it is assigned.                    *)
  proof,     (* The MerkleProof open returned.                            *)
  received,  (* The MerkleProof verify is given.                          *)
  current,   (* verify: known nodes of level vlevel, with their hashes.   *)
  vlevel,    (* verify: 1-based number of the level reached.              *)
  vwidth,    (* verify: level_width of the plan at that level.            *)
  cursor     (* verify: sibling_cursor.                                   *)

treevars == <<leaves, padded, levels, root>>
verifyvars == <<current, vlevel, vwidth, cursor>>
vars == <<pc, treevars, proof, received, verifyvars>>

Phases == {"pad", "build", "ready", "opened", "received", "climb",
           "accept", "reject", "throw"}

HashLeaf(payload) == <<"leaf", payload>>
HashParent(left, right) == <<"node", left, right>>
EmptyRoot == <<>>

LeafCount == Len(leaves)
NoProof == [queried_indices |-> <<>>, leaf_payloads |-> <<>>, sibling_hashes |-> <<>>]

Init ==
  /\ pc = "pad"
  /\ leaves \in UNION {[1 .. n -> Payload] : n \in 0 .. MaxLeaves}
  /\ padded = 1
  /\ levels = <<>>
  /\ root = EmptyRoot
  /\ proof = NoProof
  /\ received = NoProof
  /\ current = <<>> /\ vlevel = 1 /\ vwidth = 0 /\ cursor = 0

-----------------------------------------------------------------------------
(* The constructor. *)

ConstructEmpty ==
  /\ pc = "pad"
  /\ LeafCount = 0
  /\ pc' = "ready"
  /\ UNCHANGED <<treevars, proof, received, verifyvars>>

(* One turn of NextPowerOfTwo's loop. *)
DoublePadding ==
  /\ pc = "pad"
  /\ LeafCount > 0
  /\ padded < LeafCount
  /\ padded' = 2 * padded
  /\ UNCHANGED <<pc, leaves, levels, root, proof, received, verifyvars>>

(* Slots past the last leaf repeat its hash. *)
LeafSlot(slot) ==
  HashLeaf(leaves[IF slot < LeafCount THEN slot + 1 ELSE LeafCount])

(* Mutant: only the real leaves get a slot. *)
MutPaddingSlotsMissing ==
  /\ pc = "pad"
  /\ LeafCount > 0
  /\ padded >= LeafCount
  /\ levels' = <<[size |-> padded, at |-> [s \in 0 .. LeafCount - 1 |-> LeafSlot(s)]]>>
  /\ pc' = "build"
  /\ UNCHANGED <<leaves, padded, root, proof, received, verifyvars>>

HashLeaves ==
  /\ pc = "pad"
  /\ LeafCount > 0
  /\ padded >= LeafCount
  /\ levels' = <<[size |-> padded, at |-> [s \in 0 .. padded - 1 |-> LeafSlot(s)]]>>
  /\ pc' = "build"
  /\ UNCHANGED <<leaves, padded, root, proof, received, verifyvars>>

Top == levels[Len(levels)]

BuildLevel ==
  /\ pc = "build"
  /\ Top.size > 1
  /\ levels' = Append(levels,
       [size |-> Top.size \div 2,
        at   |-> [p \in 0 .. (Top.size \div 2) - 1 |->
                    HashParent(Top.at[2 * p], Top.at[2 * p + 1])]])
  /\ UNCHANGED <<pc, leaves, padded, root, proof, received, verifyvars>>

TakeRoot ==
  /\ pc = "build"
  /\ Top.size <= 1
  /\ root' = Top.at[0]
  /\ pc' = "ready"
  /\ UNCHANGED <<leaves, padded, levels, proof, received, verifyvars>>

-----------------------------------------------------------------------------
(* open *)

HonestProof(asked) ==
  LET indices == Ascending(asked)
      order   == PlanOrder(padded, asked)
  IN  [queried_indices |-> indices,
       leaf_payloads   |-> [k \in DOMAIN indices |-> leaves[indices[k] + 1]],
       sibling_hashes  |-> [k \in DOMAIN order |->
                              levels[order[k][1] + 1].at[order[k][2]]]]

Open(request) ==
  /\ pc = "ready"
  /\ LeafCount = 0 \/ \A q \in Range(request) : q < LeafCount
  /\ proof' = IF LeafCount = 0 \/ request = <<>>
              THEN NoProof ELSE HonestProof(Range(request))
  /\ received' = NoProof
  /\ pc' = "opened"
  /\ UNCHANGED <<treevars, verifyvars>>

(* build_pruned_multiproof_plan throws through open. *)
OpenThrows(request) ==
  /\ pc = "ready"
  /\ LeafCount > 0 /\ \E q \in Range(request) : q >= LeafCount
  /\ pc' = "throw"
  /\ proof' = NoProof
  /\ received' = NoProof
  /\ UNCHANGED <<treevars, verifyvars>>

-----------------------------------------------------------------------------
(* On the way to the verifier the proof may be damaged: one entry changed, *)
(* lost, added or doubled, or a column or the whole put in another order.  *)

Drop(s) == IF s = <<>> THEN s ELSE Tail(s)
StrayHashes == {HashLeaf(p) : p \in Payload}
ChangedAt(s, values) == {[s EXCEPT ![k] = v] : k \in DOMAIN s, v \in values}

Delivered(p) ==
  LET indices == p.queried_indices  payloads == p.leaf_payloads
      siblings == p.sibling_hashes
  IN  {p}
      \cup {[p EXCEPT !.queried_indices = s] :
              s \in ChangedAt(indices, 0 .. MaxLeaves)
                    \cup {Reverse(indices), Drop(indices)}}
      \cup {[p EXCEPT !.leaf_payloads = s] :
              s \in ChangedAt(payloads, Payload)
                    \cup {Reverse(payloads), Drop(payloads)}}
      \cup {[p EXCEPT !.sibling_hashes = s] :
              s \in ChangedAt(siblings, StrayHashes)
                    \cup {Reverse(siblings), Drop(siblings)}
                    \cup {Append(siblings, h) : h \in StrayHashes}}
      \cup {[p EXCEPT !.queried_indices = Reverse(@), !.leaf_payloads = Reverse(@)],
            [p EXCEPT !.queried_indices = Drop(@), !.leaf_payloads = Drop(@)],
            [p EXCEPT !.queried_indices = @ \o @, !.leaf_payloads = @ \o @]}

Deliver ==
  /\ pc = "opened"
  /\ received' \in Delivered(proof)
  /\ pc' = "received"
  /\ UNCHANGED <<treevars, proof, verifyvars>>

-----------------------------------------------------------------------------
(* verify *)

Asked == {received.queried_indices[k] : k \in DOMAIN received.queried_indices}

(* The checks before the walk, for at least one query: equally many        *)
(* payloads and indices, a plan exists, it merged no duplicates, and it    *)
(* needs exactly the siblings received.                                    *)
WellShaped ==
  /\ DOMAIN received.queried_indices = DOMAIN received.leaf_payloads
  /\ Asked \subseteq 0 .. LeafCount - 1
  /\ \A j, k \in DOMAIN received.queried_indices :
       received.queried_indices[j] = received.queried_indices[k] => j = k
  /\ Len(received.sibling_hashes) = Cardinality(PlanSiblings(padded, Asked))

(* The answers given before any hash is computed. *)
EmptyTreeAnswer == LeafCount = 0 /\ root = EmptyRoot /\ received = NoProof
EmptyQueryAnswer == LeafCount > 0 /\ received = NoProof

VerifyTrivially ==
  /\ pc = "received"
  /\ EmptyTreeAnswer \/ EmptyQueryAnswer
  /\ pc' = "accept"
  /\ UNCHANGED <<treevars, proof, received, verifyvars>>

VerifyRefuses ==
  /\ pc = "received"
  /\ received # NoProof
  /\ \/ LeafCount = 0
     \/ received.queried_indices = <<>>
     \/ ~WellShaped
  /\ pc' = "reject"
  /\ UNCHANGED <<treevars, proof, received, verifyvars>>

(* The leaf hashes, each at its index. *)
LeafHashes ==
  [q \in Asked |->
     LET k == CHOOSE k \in DOMAIN received.queried_indices :
                received.queried_indices[k] = q
     IN  HashLeaf(received.leaf_payloads[k])]

VerifyStart ==
  /\ pc = "received"
  /\ LeafCount > 0
  /\ received.queried_indices # <<>>
  /\ WellShaped
  /\ current' = LeafHashes
  /\ vlevel' = 1
  /\ vwidth' = padded        (* NextPowerOfTwo of the same leaf count. *)
  /\ cursor' = 0
  /\ pc' = "climb"
  /\ UNCHANGED <<treevars, proof, received>>

Known == DOMAIN current
Rank(n, S) == Cardinality({m \in S : m <= n})

(* The sibling read for lone node n: they are consumed left to right. *)
SiblingFor(n) == received.sibling_hashes[cursor + Rank(n, Lone(Known))]

NodeHash(n) == IF n \in Known THEN current[n] ELSE SiblingFor(Sibling(n))

(* Mutant: a lone right child is hashed as if it were the left one. *)
MutSidesIgnored(p) ==
  IF {2 * p, 2 * p + 1} \subseteq Known
  THEN HashParent(current[2 * p], current[2 * p + 1])
  ELSE LET n == CHOOSE n \in Known : Parent(n) = p
       IN  HashParent(current[n], SiblingFor(n))

ParentHash(p) == HashParent(NodeHash(2 * p), NodeHash(2 * p + 1))

(* Mutant: the walk reads every level's siblings from the start. *)
MutCursorRestarts ==
  /\ pc = "climb"
  /\ vwidth > 1
  /\ current' = [p \in {Parent(n) : n \in Known} |-> ParentHash(p)]
  /\ cursor' = 0
  /\ vlevel' = vlevel + 1
  /\ vwidth' = vwidth \div 2
  /\ UNCHANGED <<pc, treevars, proof, received>>

(* One iteration of the loop over plan.levels.  Its internal rejections    *)
(* (a node list that differs from the plan's, no sibling left) cannot      *)
(* happen: WalkStaysOnPlan.                                                *)
VerifyLevel ==
  /\ pc = "climb"
  /\ vwidth > 1
  /\ current' = [p \in {Parent(n) : n \in Known} |-> ParentHash(p)]
  /\ cursor' = cursor + Cardinality(Lone(Known))
  /\ vlevel' = vlevel + 1
  /\ vwidth' = vwidth \div 2
  /\ UNCHANGED <<pc, treevars, proof, received>>

(* Mutant: the final comparison with the root is lost. *)
MutRootUnchecked ==
  /\ cursor = Len(received.sibling_hashes)
  /\ Cardinality(Known) = 1

RootReached ==
  /\ cursor = Len(received.sibling_hashes)
  /\ Cardinality(Known) = 1
  /\ \A n \in Known : current[n] = root

VerifyFinish ==
  /\ pc = "climb"
  /\ vwidth <= 1
  /\ pc' = IF RootReached THEN "accept" ELSE "reject"
  (* Its locals go with the call. *)
  /\ current' = <<>> /\ vlevel' = 1 /\ vwidth' = 0 /\ cursor' = 0
  /\ UNCHANGED <<treevars, proof, received>>

(* The call is over; the tree can be opened again, open and verify being   *)
(* const.                                                                  *)
Return ==
  /\ pc \in {"accept", "reject", "throw"}
  /\ pc' = "ready"
  /\ proof' = NoProof
  /\ received' = NoProof
  /\ UNCHANGED <<treevars, verifyvars>>

-----------------------------------------------------------------------------

Construct == ConstructEmpty \/ DoublePadding \/ HashLeaves \/ BuildLevel \/ TakeRoot
Verify == VerifyTrivially \/ VerifyRefuses \/ VerifyStart \/ VerifyLevel \/ VerifyFinish

Requests == BoundedSeq(0 .. MaxLeaves, MaxQueries)

Next ==
  \/ Construct
  \/ \E request \in Requests : Open(request) \/ OpenThrows(request)
  \/ Deliver
  \/ Verify
  \/ Return

(* The constructor and verify run to their end once called; nobody is      *)
(* obliged to call open or to deliver its answer.                          *)
Spec == Init /\ [][Next]_vars /\ WF_vars(Construct) /\ WF_vars(Verify)

-----------------------------------------------------------------------------

(* The tree's variables hold what their comments say. *)
TypeOK ==
  /\ pc \in Phases
  /\ leaves \in Seq(Payload) /\ LeafCount <= MaxLeaves
  /\ padded \in Nat \ {0}
  /\ \A l \in DOMAIN levels :
       /\ levels[l].size \in Nat \ {0}
       /\ DOMAIN levels[l].at = 0 .. levels[l].size - 1
  /\ vlevel \in Nat /\ vwidth \in Nat /\ cursor \in Nat

(* While verify walks, the nodes it knows are the plan's for that level    *)
(* and the siblings it still has are the plan's for the levels above: none *)
(* of the rejections inside the loop can happen, no sibling is read past   *)
(* the end, and the final sibling count and node count are always right.   *)
WalkStaysOnPlan ==
  pc = "climb" =>
    /\ Known = Ancestors(Asked, vlevel - 1)
    /\ Known \subseteq 0 .. vwidth - 1
    /\ cursor + Cardinality({s \in PlanSiblings(padded, Asked) : s[1] >= vlevel - 1})
         = Len(received.sibling_hashes)
    /\ vwidth = 1 => Cardinality(Known) = 1

(* An accepted proof shows, for every index it names, the payload the tree *)
(* was built from, and names each leaf once: a verifier that looks up a    *)
(* query by its index cannot be told two things about one leaf.            *)
Binding ==
  pc = "accept" =>
    /\ DOMAIN received.leaf_payloads = DOMAIN received.queried_indices
    /\ \A k \in DOMAIN received.queried_indices :
         /\ received.queried_indices[k] < LeafCount
         /\ received.leaf_payloads[k] = leaves[received.queried_indices[k] + 1]
    /\ \A j, k \in DOMAIN received.queried_indices :
         received.queried_indices[j] = received.queried_indices[k] => j = k

(* For a set of indices there is one acceptable list of siblings, the one  *)
(* open returns: a sibling changed, lost, added or moved is noticed even   *)
(* when all payloads are right.                                            *)
SiblingsAreUnique ==
  pc = "accept" /\ LeafCount > 0 /\ received.queried_indices # <<>> =>
    received.sibling_hashes = HonestProof(Asked).sibling_hashes

(* The index/payload pairs a proof shows. *)
ShowsRows(r) ==
  {<<r.queried_indices[k], r.leaf_payloads[k]>> :
     k \in DOMAIN r.queried_indices \cap DOMAIN r.leaf_payloads}

(* MerkleTree implements VectorCommitment: what is accepted is in the      *)
(* table, what arrives intact is not rejected, and verify answers.         *)
VC == INSTANCE VectorCommitment WITH
        Index   <- 0 .. MaxLeaves,
        table   <- leaves,
        claim   <- IF pc \in {"received", "climb", "accept", "reject"}
                   THEN [rows |-> ShowsRows(received), intact |-> received = proof]
                   ELSE [rows |-> {}, intact |-> FALSE, none |-> TRUE],
        verdict <- IF pc \in {"accept", "reject"} THEN pc ELSE "none"

ImplementsVectorCommitment == VC!Spec
=============================================================================
