----------------------------- MODULE Transcript -----------------------------
(***************************************************************************)
(* The Fiat-Shamir transcript: a hash chained through every absorb and     *)
(* every squeeze, and the challenges sampled from what is squeezed, each   *)
(* candidate past the limit being rejected and the next one squeezed.      *)
(* A hash is the term of what is hashed; the bytes a block of it gives are *)
(* any, the same whenever the same is hashed.  The protocols' models ask   *)
(* by the whole history of a transcript; here it is only the state that is *)
(* kept, as in the code.                                                   *)
(***************************************************************************)
EXTENDS Integers, FiniteSets, SequencesExt

CONSTANTS
  Parties,     (* Transcripts: the prover's, the verifier's.               *)
  Messages,    (* [label, data]; absorb_bytes has no label, None.          *)
  ChallengeRequests,
               (* [kind, label, size, count]: kind "index", "teichmuller"  *)
               (* or "unique"; size the modulus or the Teichmueller set's; *)
               (* count the positions wanted.                              *)
  ByteBits,    (* 8 in the code *)
  IndexBytes,  (* 8: sizeof(uint64_t) *)
  BlockBytes,  (* The bytes of one hash.                                   *)
  MaxHistory,  (* How many absorbs and squeezes are looked at.             *)
  None

ASSUME TranscriptAssumption ==
  /\ {ByteBits, IndexBytes, BlockBytes, MaxHistory} \subseteq Nat \ {0}
  /\ \A q \in ChallengeRequests : q.size \in Nat \ {0} /\ q.count \in Nat
  /\ \A q \in ChallengeRequests : q.kind # "teichmuller" => q.size < 2^(ByteBits * IndexBytes)

VARIABLES
  state,    (* state_           *)
  counter,  (* squeeze_counter_ *)
  pending,  (* The request being answered: [request, attempt, got].        *)
  answer,   (* The values asked for, until the next operation.             *)
  history,  (* Everything absorbed and squeezed so far, in order.          *)
  oracle    (* The blocks the hash has given, by what was hashed.          *)

transcriptVars == <<state, counter, pending, answer, history, oracle>>

TranscriptInit ==
  /\ state = [p \in Parties |-> <<"init">>]
  /\ counter = [p \in Parties |-> 0]
  /\ pending = [p \in Parties |-> None]
  /\ answer = [p \in Parties |-> None]
  /\ history = [p \in Parties |-> <<>>]
  /\ oracle = <<>>

-----------------------------------------------------------------------------
(* Sampling *)

(* How many numbers there are of n bytes.                                  *)
Numbers(n) == 2^(ByteBits * n)

(* An index takes eight bytes, a Teichmueller element as many as the set   *)
(* needs: none when it has one element.                                    *)
SampleBytes(q) ==
  IF q.kind = "teichmuller"
  THEN CHOOSE n \in 0 .. q.size : /\ Numbers(n) >= q.size
                                  /\ \A k \in 0 .. n - 1 : Numbers(k) < q.size
  ELSE IndexBytes

Space(q) == Numbers(SampleBytes(q))

(* Mutant: nothing is rejected. *)
MutNoLimit(q) == Space(q)

(* The greatest index itself is never a candidate below the limit.         *)
Limit(q) ==
  IF q.kind = "teichmuller" THEN Space(q) - (Space(q) % q.size)
  ELSE (Space(q) - 1) - ((Space(q) - 1) % q.size)

Accepted(q, candidate) == candidate < Limit(q)
ValueOf(q, candidate)  == candidate % q.size

(* derive_unique_positions labels each attempt.                            *)
DrawLabel(d) == IF d.request.kind = "unique" THEN <<d.request.label, d.attempt>> ELSE <<d.request.label>>

Wanted(q) == Min({q.count, q.size})

-----------------------------------------------------------------------------
(* The transcript *)

Absorb(p, message) ==
  /\ pending[p] = None /\ Len(history[p]) < MaxHistory
  /\ state' = [state EXCEPT ![p] = <<"absorb", @, message>>]
  /\ history' = [history EXCEPT ![p] = Append(@, <<"absorb", message>>)]
  /\ answer' = [answer EXCEPT ![p] = None]
  /\ UNCHANGED <<counter, pending, oracle>>

(* Nothing has to be squeezed for this answer. *)
IsImmediate(q) ==
  \/ q.kind = "teichmuller" /\ SampleBytes(q) = 0
  \/ q.kind = "unique" /\ q.count = 0

AnswerAtOnce(p, q) ==
  /\ pending[p] = None /\ IsImmediate(q)
  /\ answer' = [answer EXCEPT ![p] = IF q.kind = "unique" THEN <<>> ELSE <<0>>]
  /\ UNCHANGED <<state, counter, pending, history, oracle>>

Ask(p, q) ==
  /\ pending[p] = None /\ ~IsImmediate(q) /\ Len(history[p]) < MaxHistory
  /\ pending' = [pending EXCEPT ![p] = [request |-> q, attempt |-> 0, got |-> <<>>]]
  /\ answer' = [answer EXCEPT ![p] = None]
  /\ UNCHANGED <<state, counter, history, oracle>>

(* What squeeze_bytes hashes for a block. *)
Frame(p, label, block) == <<"squeeze", state[p], label, counter[p], block>>

(* Mutant: the state stays as it was, only the counter moves on. *)
MutNoRatchet(p, label, out) == state[p]

Ratchet(p, label, out) == <<"ratchet", state[p], label, counter[p], out>>

(* The bytes of the blocks, one block after the other, as a number.        *)
Squeezed(p, label, blocks, count) ==
  MapThenSumSet(LAMBDA k : blocks[Frame(p, label, k)] * Numbers(BlockBytes * k), 0 .. count - 1)

(* The answer as far as it goes with this candidate. *)
With(d, candidate) ==
  LET q == d.request
      v == ValueOf(q, candidate)
  IN  IF ~Accepted(q, candidate) \/ \E i \in DOMAIN d.got : d.got[i] = v THEN d.got
      ELSE Append(d.got, v)

(* One squeeze and what becomes of its candidate; an index drawn for       *)
(* unique positions and rejected is drawn again under the same label.      *)
Draw(p) ==
  /\ pending[p] # None /\ Len(history[p]) < MaxHistory
  /\ LET d     == pending[p]
         q     == d.request
         label == DrawLabel(d)
         count == (SampleBytes(q) + BlockBytes - 1) \div BlockBytes
         frames == {Frame(p, label, k) : k \in 0 .. count - 1}
     IN  \E blocks \in [frames -> 0 .. Numbers(BlockBytes) - 1] :
           LET out    == Squeezed(p, label, blocks, count) % Space(q)
               got    == With(d, out)
               done   == IF q.kind = "unique" THEN Len(got) = Wanted(q) ELSE got # <<>>
           IN  /\ \A f \in frames \cap DOMAIN oracle : blocks[f] = oracle[f]
               /\ oracle' = oracle @@ blocks
               /\ state' = [state EXCEPT ![p] = Ratchet(p, label, out)]
               /\ history' = [history EXCEPT ![p] = Append(@, <<"squeeze", label, out>>)]
               /\ pending' = [pending EXCEPT ![p] =
                                IF done THEN None
                                ELSE [d EXCEPT !.got = got,
                                               !.attempt = IF Accepted(q, out) THEN @ + 1 ELSE @]]
               /\ answer' = [answer EXCEPT ![p] =
                               IF done THEN got ELSE @]
  /\ counter' = [counter EXCEPT ![p] = @ + 1]

TranscriptNext ==
  \E p \in Parties :
    \/ \E message \in Messages : Absorb(p, message)
    \/ \E q \in ChallengeRequests : AnswerAtOnce(p, q) \/ Ask(p, q)
    \/ Draw(p)

TranscriptSpec == TranscriptInit /\ [][TranscriptNext]_transcriptVars

-----------------------------------------------------------------------------

(* What would be hashed for the next challenge, under one label.           *)
NextFrame(p) == Frame(p, None, 0)

(* The state and the counter bind everything before them: two transcripts  *)
(* that hash the same for a challenge have absorbed and squeezed the same, *)
(* in the same order, so no earlier message can be exchanged for another   *)
(* and leave the challenge as it was.                                      *)
ChallengesBindHistory ==
  \A p, r \in Parties : NextFrame(p) = NextFrame(r) => history[p] = history[r]

(* While a challenge is sampled every value has equally many accepted      *)
(* candidates, at most half of the candidates are rejected, and positions  *)
(* found so far are different.                                             *)
SamplingIsEven ==
  \A p \in Parties :
    pending[p] # None =>
      LET q == pending[p].request
          candidates == {c \in 0 .. Space(q) - 1 : Accepted(q, c)}
      IN  /\ \A v \in 0 .. q.size - 1 :
               Cardinality({c \in candidates : ValueOf(q, c) = v}) = Cardinality(candidates) \div q.size
          /\ 2 * Cardinality(candidates) >= Space(q)
          /\ \A i, j \in DOMAIN pending[p].got : pending[p].got[i] = pending[p].got[j] => i = j
=============================================================================
