-------------------------- MODULE VectorCommitment --------------------------
(***************************************************************************)
(* What the oracle commitments of FRI, STIR and WHIR rely on: a committed  *)
(* table can be opened at chosen places, an opening that says something    *)
(* else about the table is never accepted, and an opening that reached the *)
(* verifier intact is never rejected.  MerkleTree implements it.           *)
(***************************************************************************)
EXTENDS Naturals, Sequences

CONSTANTS
  Payload,      (* Contents of a leaf.                              *)
  Index,        (* Everything an opening may name as a leaf index.  *)
  MaxLeaves     (* Bound on the number of leaves.                   *)

VARIABLES
  table,        (* The committed leaves, leaf i at position i + 1.  *)
  claim,        (* The opening before the verifier, or NoClaim.     *)
  verdict       (* "none", "accept" or "reject".                    *)

vcvars == <<table, claim, verdict>>

(* rows are the index/payload pairs an opening shows; intact says that it  *)
(* is the one the prover made.                                             *)
Claims == [rows : SUBSET (Index \X Payload), intact : BOOLEAN]
NoClaim == [rows |-> {}, intact |-> FALSE, none |-> TRUE]

InTable(row) == row[1] < Len(table) /\ table[row[1] + 1] = row[2]
Truthful(c) == \A row \in c.rows : InTable(row)

Init ==
  /\ table \in UNION {[1 .. n -> Payload] : n \in 0 .. MaxLeaves}
  /\ claim = NoClaim
  /\ verdict = "none"

(* An opening arrives; what the prover makes speaks the truth. *)
Present ==
  /\ claim = NoClaim
  /\ claim' \in Claims
  /\ claim'.intact => Truthful(claim')
  /\ UNCHANGED <<table, verdict>>

Accept ==
  /\ claim # NoClaim /\ verdict = "none"
  /\ Truthful(claim)
  /\ verdict' = "accept"
  /\ UNCHANGED <<table, claim>>

Reject ==
  /\ claim # NoClaim /\ verdict = "none"
  /\ ~claim.intact
  /\ verdict' = "reject"
  /\ UNCHANGED <<table, claim>>

(* The next opening is requested. *)
Clear ==
  /\ verdict # "none"
  /\ claim' = NoClaim
  /\ verdict' = "none"
  /\ UNCHANGED table

Next == Present \/ Accept \/ Reject \/ Clear

(* The verifier answers every opening. *)
Spec == Init /\ [][Next]_vcvars /\ WF_vcvars(Accept \/ Reject)
=============================================================================
