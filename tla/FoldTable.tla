----------------------------- MODULE FoldTable ------------------------------
(***************************************************************************)
(* fold_table_k: the prover folds a whole evaluation table.  The slots are *)
(* cut into chunks that threads work through in any interleaving, each     *)
(* carrying its own running inverse of the fiber's base point.  The code   *)
(* starts threads from 27 slots on; here any table is folded by several.   *)
(***************************************************************************)
EXTENDS Folding

CONSTANTS
  Polynomials,   (* Polynomials whose tables are folded.                   *)
  Offsets,       (* Offsets of their domains.                              *)
  DomainSize,    (* domain.size()                                          *)
  FoldFactor,    (* k_fold                                                 *)
  Alphas,        (* Folding challenges.                                    *)
  ThreadCounts   (* omp_get_max_threads()                                  *)

ASSUME FoldTableAssumption ==
  /\ FoldFactor \in Nat \ {0} /\ DomainSize \in Nat \ {0}
  /\ DomainSize % FoldFactor = 0
  /\ ThreadCounts \subseteq Nat \ {0}

(* What is folded are encodings over cosets of a group of Teichmueller     *)
(* units.                                                                  *)
ASSUME InputsAssumption ==
  /\ Alphas \subseteq Ring
  /\ \A f \in Polynomials :
       f.size \in 0 .. DomainSize /\ \A i \in 0 .. f.size - 1 : f.at[i] \in Ring
  /\ \A offset \in Offsets :
       /\ IsDomain(TeichmullerCoset(offset, DomainSize))
       /\ IsTeichmuller(TeichmullerCoset(offset, DomainSize).root)

FoldedSize == DomainSize \div FoldFactor

VARIABLES
  input,    (* [f, domain, alpha, chunk]: the call's arguments.            *)
  evals,    (* The table to fold.                                          *)
  out,      (* The folded table; Unset where nothing was written.          *)
  at,       (* Per chunk, by its first slot: the slot it is at.            *)
  inverse   (* Per chunk: base_inverse; 0 before the chunk starts.         *)

vars == <<input, evals, out, at, inverse>>

Unset == Modulus^ExtensionDegree

(* At least k slots to a chunk, and about four chunks to a thread.         *)
ChooseFoldChunkSize(threads) ==
  LET dynamic == (FoldedSize + 4 * threads - 1) \div (4 * threads)
  IN  IF dynamic > FoldFactor THEN dynamic ELSE FoldFactor

ChunkStarts == {b \in 0 .. FoldedSize - 1 : b % input.chunk = 0}
ChunkEnd(b) == IF b + input.chunk < FoldedSize THEN b + input.chunk ELSE FoldedSize

Init ==
  \E f \in Polynomials, offset \in Offsets, alpha \in Alphas, threads \in ThreadCounts :
    /\ input = [f |-> f, domain |-> TeichmullerCoset(offset, DomainSize),
                alpha |-> alpha, chunk |-> ChooseFoldChunkSize(threads)]
    /\ evals = Encode(input.domain, f)
    /\ out = [s \in 0 .. FoldedSize - 1 |-> Unset]
    /\ at = [b \in ChunkStarts |-> b]
    /\ inverse = [b \in ChunkStarts |-> 0]

RootInverse == Inv(input.domain.root)
OffsetInverse == Inv(input.domain.offset)

FiberRoots ==
  LET root == Power(input.domain.root, FoldedSize)
  IN  [i \in 0 .. FoldFactor - 1 |-> Power(root, i)]

(* A thread takes the chunk: the inverse of its first base point. *)
StartChunk(b) ==
  /\ inverse[b] = 0
  /\ inverse' = [inverse EXCEPT ![b] = Times(OffsetInverse, Power(RootInverse, b))]
  /\ UNCHANGED <<input, evals, out, at>>

(* Mutant: the fiber is read as consecutive entries of the table. *)
MutFiberConsecutive(slot) ==
  [o \in 0 .. FoldFactor - 1 |-> evals[slot * FoldFactor + o]]

FiberValues(slot) == [o \in 0 .. FoldFactor - 1 |-> evals[slot + o * FoldedSize]]

(* Mutant: the last slot of a chunk is also folded by the next iteration.  *)
MutOneSlotTooFar(b) ==
  /\ inverse[b] # 0
  /\ at[b] <= ChunkEnd(b) /\ at[b] < FoldedSize
  /\ out' = [out EXCEPT ![at[b]] =
               EvaluateStructuredFiber(FiberRoots, FiberValues(at[b]), FoldFactor,
                                       Times(input.alpha, inverse[b]))]
  /\ at' = [at EXCEPT ![b] = @ + 1]
  /\ inverse' = [inverse EXCEPT ![b] = Times(@, RootInverse)]
  /\ UNCHANGED <<input, evals>>

(* One slot of the chunk. *)
FoldSlot(b) ==
  /\ inverse[b] # 0
  /\ at[b] < ChunkEnd(b)
  /\ out' = [out EXCEPT ![at[b]] =
               EvaluateStructuredFiber(FiberRoots, FiberValues(at[b]), FoldFactor,
                                       Times(input.alpha, inverse[b]))]
  /\ at' = [at EXCEPT ![b] = @ + 1]
  /\ inverse' = [inverse EXCEPT ![b] = Times(@, RootInverse)]
  /\ UNCHANGED <<input, evals>>

Folded == \A b \in ChunkStarts : at[b] = ChunkEnd(b)

Return == Folded /\ UNCHANGED vars

Next == (\E b \in ChunkStarts : StartChunk(b) \/ FoldSlot(b)) \/ Return

Spec == Init /\ [][Next]_vars

-----------------------------------------------------------------------------

(* The folded table is the encoding, on the image domain, of the folded    *)
(* polynomial, whose degree is the old one divided by k; interpolating the *)
(* table gives that polynomial back.                                       *)
TableEncodesFold ==
  Folded =>
    LET image  == PowMap(input.domain, FoldFactor)
        folded == PolyFold(input.f, FoldFactor, input.alpha)
    IN  /\ image.size = FoldedSize
        /\ out = Encode(image, folded)
        /\ Degree(folded) <= Degree(input.f) \div FoldFactor
        /\ Interpolate(image.points, out, FoldedSize) = folded

(* No slot is written twice: chunks do not overlap, so the threads never   *)
(* write the same memory.                                                  *)
SlotsWrittenOnce ==
  [][\A b \in ChunkStarts : at'[b] # at[b] => out[at[b]] = Unset]_vars
=============================================================================
