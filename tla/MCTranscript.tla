---------------------------- MODULE MCTranscript ----------------------------
(***************************************************************************)
(* Transcript with bytes of one bit, indices of two bytes and blocks of *)
(* two: an index can be 0 to 3, and the Teichmueller set of five elements  *)
(* needs three bytes, the first block and half of the second.              *)
(***************************************************************************)
EXTENDS Transcript

Request(kind, label, size, count) == [kind |-> kind, label |-> label, size |-> size, count |-> count]

MCMessages == {[label |-> None, data |-> "x"], [label |-> "a", data |-> "x"], [label |-> "a", data |-> "y"]}

MCRequests ==
  { Request("index", "q", 2, 1), Request("teichmuller", "t", 1, 1),
    Request("teichmuller", "t", 5, 1), Request("unique", "u", 3, 0), Request("unique", "u", 3, 2) }

Symmetry == Permutations(Parties)
=============================================================================
