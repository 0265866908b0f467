------------------------------ MODULE Encoding ------------------------------
(***************************************************************************)
(* The ways in which the code encodes a polynomial over a domain and comes *)
(* back: fft3 and inverse_fft3, which descend through the powers of three  *)
(* in one array by strides and share the butterflies of a large stage      *)
(* among threads; the pointwise evaluation of rs_encode and the            *)
(* interpolation of rs_interpolate on any other domain; and the chunked    *)
(* Horner evaluation of WHIR's prover.  GaloisRing's Encode is what all of *)
(* them are for.                                                           *)
(***************************************************************************)
EXTENDS GaloisRing, Sequences, FiniteSets

CONSTANTS
  Calls,   (* [op, f, offset, size, given, threads]: op is "encode",       *)
           (* "interpolate" or "oracle", f the polynomial encoded or to be *)
           (* found again from the first given values of its encoding,     *)
           (* threads omp_get_max_threads().                               *)
  kParallelRadix3Threshold,
  kParallelEncodeThreshold

ASSUME EncodingAssumption ==
  \A c \in Calls : c.size \in Nat \ {0} /\ c.given \in 0 .. c.size /\ c.threads \in Nat \ {0}

VARIABLES
  call,     (* The call, with its domain, plan and, to interpolate, table. *)
  pc,       (* "start", "frames", "loop", "done", "throws"                 *)
  stack,    (* The frames of the recursion: [view, base, called, looped].  *)
  buffers,  (* Each frame's child_evals or decoded_values.                 *)
  result,   (* What is returned.                                           *)
  at,       (* The loop that runs: per chunk, by its first slot, its slot. *)
  point     (* Per chunk: its running x or x_inv; Unset before it starts.  *)

vars == <<call, pc, stack, buffers, result, at, point>>

Unset == Modulus^ExtensionDegree
Fresh(n) == [i \in 0 .. n - 1 |-> Unset]

IsPowerOfThree(n) ==
  LET rest[v \in 1 .. n] == IF v % 3 = 0 THEN rest[v \div 3] ELSE v IN rest[n] = 1

-----------------------------------------------------------------------------
(* The plan *)

(* Stage l works on the domain raised to the power 3^(l - 1).              *)
BuildRadix3Plan(domain) ==
  LET levels == CHOOSE m \in 0 .. domain.size : 3^m = domain.size
      seed[l \in 0 .. levels] ==
        IF l = 0 THEN [size |-> domain.size, offset |-> domain.offset, root |-> domain.root]
        ELSE [size |-> seed[l - 1].size \div 3, offset |-> Power(seed[l - 1].offset, 3),
              root |-> Power(seed[l - 1].root, 3)]
  IN  [l \in 1 .. levels + 1 |->
         LET s == seed[l - 1]
         IN  [size |-> s.size, offset |-> s.offset, offset_inv |-> Inv(s.offset),
              root |-> s.root, root_inv |-> Inv(s.root),
              zeta |-> Power(s.root, s.size \div 3)]]

Init ==
  \E c \in Calls :
    LET domain == TeichmullerCoset(c.offset, c.size)
    IN  /\ call = [op |-> c.op, f |-> c.f, domain |-> domain, threads |-> c.threads,
                   plan  |-> IF IsPowerOfThree(c.size) THEN BuildRadix3Plan(domain) ELSE <<>>,
                   table |-> IF c.op = "interpolate"
                             THEN [i \in 0 .. c.given - 1 |-> Encode(domain, c.f)[i]] ELSE <<>>]
        /\ pc = "start"
        /\ stack = <<>> /\ buffers = <<>> /\ result = <<>> /\ at = <<>> /\ point = <<>>

Size == call.domain.size
Inverse == call.op = "interpolate"
Depth == Len(stack)
Top == stack[Depth]
Stage == call.plan[Depth]
Reduced == Stage.size \div 3

-----------------------------------------------------------------------------
(* Strided views of the coefficients: [start, size, stride]. *)

(* Mutant: the count is rounded down. *)
MutChildRoundedDown(size, residue) == size \div 3

ResidueChildSize(size, residue) == IF size <= residue THEN 0 ELSE 1 + (size - residue - 1) \div 3

Subview(view, residue) ==
  LET size == ResidueChildSize(view.size, residue)
  IN  [start  |-> IF size = 0 THEN view.start ELSE view.start + residue * view.stride,
       size   |-> size,
       stride |-> 3 * view.stride]

Viewed(view, coefficients) ==
  [size |-> view.size, at |-> [i \in 0 .. view.size - 1 |-> coefficients[view.start + i * view.stride]]]

(* A call on the stage below, for the part of the buffer starting at base. *)
Frame(view, base) == [view |-> view, base |-> base, called |-> 0, looped |-> FALSE]

(* What a frame's caller gave it to read or to write.                      *)
Given(d) == IF d > 1 THEN buffers[d - 1] ELSE IF Inverse THEN call.table ELSE result

-----------------------------------------------------------------------------
(* The call *)

Parallel == call.op = "oracle" /\ call.threads > 1

(* inverse_fft3 and interpolate_for_gr_wrapper want one value a point. *)
Refuse ==
  /\ pc = "start" /\ Inverse
  /\ Cardinality(DOMAIN call.table) # Size
  /\ pc' = "throws"
  /\ UNCHANGED <<call, stack, buffers, result, at, point>>

TableFits == Inverse => Cardinality(DOMAIN call.table) = Size

(* rs_encode and rs_interpolate on a domain of any other size.             *)
WithoutRadix3 ==
  /\ pc = "start" /\ ~Parallel /\ TableFits
  /\ ~IsPowerOfThree(Size)
  /\ result' = IF Inverse THEN Interpolate(call.domain.points, call.table, Size).at
               ELSE [i \in 0 .. Size - 1 |-> Evaluate(call.f, call.domain.points[i])]
  /\ pc' = "done"
  /\ UNCHANGED <<call, stack, buffers, at, point>>

(* fft3, inverse_fft3: the first frame. *)
Descend ==
  /\ pc = "start" /\ ~Parallel /\ TableFits
  /\ IsPowerOfThree(Size)
  /\ result' = Fresh(Size)
  /\ stack' = <<Frame([start |-> 0, size |-> IF Inverse THEN Size ELSE call.f.size, stride |-> 1], 0)>>
  /\ buffers' = <<Fresh(Size)>>
  /\ pc' = "frames"
  /\ UNCHANGED <<call, at, point>>

-----------------------------------------------------------------------------
(* Loops in chunks: of a stage, or over the domain for WHIR's oracle.      *)

Count == IF call.op = "oracle" /\ Parallel THEN Size ELSE Reduced

(* About four chunks to a thread; a stage's have at least eight slots.     *)
ChunkSize ==
  LET least   == IF Parallel THEN 1 ELSE 8
      large   == Count >= IF Parallel THEN kParallelEncodeThreshold ELSE kParallelRadix3Threshold
      dynamic == (Count + 4 * call.threads - 1) \div (4 * call.threads)
  IN  IF ~large \/ call.threads = 1 THEN Count ELSE IF dynamic > least THEN dynamic ELSE least

Starts == {b \in 0 .. Count - 1 : b % ChunkSize = 0}
ChunkEnd(b) == IF b + ChunkSize < Count THEN b + ChunkSize ELSE Count

BeginLoop ==
  /\ at' = [b \in Starts |-> b]
  /\ point' = [b \in Starts |-> Unset]
  /\ pc' = "loop"

(* EncodeOracleParallelHorner *)
BeginOracle ==
  /\ pc = "start" /\ Parallel
  /\ result' = Fresh(Size)
  /\ BeginLoop
  /\ UNCHANGED <<call, stack, buffers>>

(* ForwardCombineRadix3Stage after the children, InverseDecodeRadix3Stage  *)
(* before them.                                                            *)
BeginStage ==
  /\ pc = "frames"
  /\ Depth > 0 /\ Stage.size > 1 /\ ~Top.looped
  /\ Inverse \/ Top.called = 3
  /\ BeginLoop
  /\ UNCHANGED <<call, stack, buffers, result>>

Root(b) ==
  IF Parallel THEN call.domain.root ELSE IF Inverse THEN Stage.root_inv ELSE Stage.root

(* Mutant: every chunk starts at the offset. *)
MutChunkAtOffset(b) ==
  IF Parallel THEN call.domain.offset ELSE IF Inverse THEN Stage.offset_inv ELSE Stage.offset

(* StageStart: the offset times the root to the power of the first slot.   *)
StageStart(b) ==
  Times(IF Parallel THEN call.domain.offset ELSE IF Inverse THEN Stage.offset_inv ELSE Stage.offset,
        Power(Root(b), b))

Running == {b \in DOMAIN at : point[b] # Unset /\ at[b] < ChunkEnd(b)}

(* A thread that has no chunk takes one, in any order: schedule(static)'s  *)
(* is one of them.                                                         *)
StartChunk(b) ==
  /\ pc = "loop" /\ point[b] = Unset
  /\ Cardinality(Running) < call.threads
  /\ point' = [point EXCEPT ![b] = StageStart(b)]
  /\ UNCHANGED <<call, pc, stack, buffers, result, at>>

Advance(b) ==
  /\ at' = [at EXCEPT ![b] = @ + 1]
  /\ point' = [point EXCEPT ![b] = Times(@, Root(b))]

OracleSlot(b) ==
  /\ pc = "loop" /\ Parallel
  /\ b \in Running
  /\ result' = [result EXCEPT ![at[b]] = Evaluate(call.f, point[b])]
  /\ Advance(b)
  /\ UNCHANGED <<call, pc, stack, buffers>>

(* values with v[j] at slot i of its third j. *)
Thirds(values, base, i, v) ==
  [values EXCEPT ![base + i] = v[0], ![base + i + Reduced] = v[1], ![base + i + 2 * Reduced] = v[2]]

(* The values of three residue polynomials at x^3 make those at x, zeta x  *)
(* and zeta^2 x.                                                           *)
Combined(e, x) ==
  [j \in 0 .. 2 |->
     RingSum([r \in 0 .. 2 |->
                Times(Times(Power(x, r), Power(Stage.zeta, (r * j) % 3)), e[r])], 3)]

CombineSlot(b) ==
  LET i == at[b]
      v == Combined([r \in 0 .. 2 |-> buffers[Depth][i + r * Reduced]], point[b])
  IN
  /\ pc = "loop" /\ ~Parallel /\ ~Inverse
  /\ b \in Running
  /\ IF Depth = 1
     THEN result' = Thirds(result, 0, i, v) /\ UNCHANGED buffers
     ELSE buffers' = [buffers EXCEPT ![Depth - 1] = Thirds(@, Top.base, i, v)] /\ UNCHANGED result
  /\ Advance(b)
  /\ UNCHANGED <<call, pc, stack>>

Decoded(v, x_inv) ==
  [r \in 0 .. 2 |->
     Times(Times(RingSum([j \in 0 .. 2 |-> Times(Power(Stage.zeta, (2 * r * j) % 3), v[j])], 3),
                 Inv(OfInteger(3))),
           Power(x_inv, r))]

DecodeSlot(b) ==
  LET i == at[b]
      v == Decoded([j \in 0 .. 2 |-> Given(Depth)[Top.base + i + j * Reduced]], point[b])
  IN
  /\ pc = "loop" /\ ~Parallel /\ Inverse
  /\ b \in Running
  /\ buffers' = [buffers EXCEPT ![Depth] = Thirds(@, 0, i, v)]
  /\ Advance(b)
  /\ UNCHANGED <<call, pc, stack, result>>

(* The threads are joined. *)
EndLoop ==
  /\ pc = "loop"
  /\ \A b \in DOMAIN at : at[b] = ChunkEnd(b)
  /\ at' = <<>> /\ point' = <<>>
  /\ IF Parallel THEN pc' = "done" /\ UNCHANGED stack
     ELSE pc' = "frames" /\ stack' = [stack EXCEPT ![Depth].looped = TRUE]
  /\ UNCHANGED <<call, buffers, result>>

-----------------------------------------------------------------------------
(* The recursion *)

Pop ==
  /\ stack' = SubSeq(stack, 1, Depth - 1)
  /\ buffers' = SubSeq(buffers, 1, Depth - 1)
  /\ pc' = IF Depth = 1 THEN "done" ELSE "frames"

(* The next residue's child, with a buffer of its own. *)
CallChild ==
  /\ pc = "frames"
  /\ Depth > 0 /\ Stage.size > 1 /\ Top.called < 3
  /\ Inverse => Top.looped
  /\ stack' = Append([stack EXCEPT ![Depth].called = @ + 1],
                     Frame(Subview(Top.view, Top.called), Top.called * Reduced))
  /\ buffers' = Append(buffers, Fresh(Reduced))
  /\ UNCHANGED <<call, pc, result, at, point>>

(* A stage of one point: a polynomial, of more than one coefficient when   *)
(* the whole has more than the domain has points, is evaluated there.      *)
EvaluateLeaf ==
  /\ pc = "frames" /\ ~Inverse
  /\ Depth > 0 /\ Stage.size = 1
  /\ LET value == Evaluate(Viewed(Top.view, call.f.at), Stage.offset)
     IN  IF Depth = 1
         THEN result' = [result EXCEPT ![0] = value] /\ Pop
         ELSE /\ stack' = SubSeq(stack, 1, Depth - 1)
              /\ buffers' = [SubSeq(buffers, 1, Depth - 1) EXCEPT ![Depth - 1][Top.base] = value]
              /\ UNCHANGED <<pc, result>>
  /\ UNCHANGED <<call, at, point>>

WriteLeaf ==
  /\ pc = "frames" /\ Inverse
  /\ Depth > 0 /\ Stage.size = 1
  /\ result' = [result EXCEPT ![Top.view.start] = Given(Depth)[Top.base]]
  /\ Pop
  /\ UNCHANGED <<call, at, point>>

ReturnFrame ==
  /\ pc = "frames"
  /\ Depth > 0 /\ Stage.size > 1 /\ Top.looped /\ Top.called = 3
  /\ Pop
  /\ UNCHANGED <<call, result, at, point>>

Returned == pc \in {"done", "throws"} /\ UNCHANGED vars

Next ==
  \/ Refuse \/ WithoutRadix3 \/ Descend \/ BeginOracle \/ BeginStage
  \/ \E b \in DOMAIN at : StartChunk(b) \/ OracleSlot(b) \/ CombineSlot(b) \/ DecodeSlot(b)
  \/ EndLoop \/ CallChild \/ EvaluateLeaf \/ WriteLeaf \/ ReturnFrame
  \/ Returned

Spec == Init /\ [][Next]_vars

-----------------------------------------------------------------------------

(* However it is computed, by strides and butterflies, by chunks or point  *)
(* by point, an encoding is the table of the polynomial's values, also for *)
(* polynomials of more coefficients than the domain has points; and the    *)
(* interpolation of a full table gives the polynomial back.                *)
ResultIsReference ==
  pc = "done" =>
    IF Inverse THEN Trim(Cardinality(DOMAIN result), result) = Trim(call.f.size, call.f.at)
    ELSE result = Encode(call.domain, call.f)

BetweenStages ==
  /\ pc = "frames" /\ Depth > 0 /\ Stage.size > 1
  /\ IF Inverse THEN Top.looped /\ Top.called = 0 ELSE ~Top.looped /\ Top.called = 3

(* Between a stage and the three calls below it the buffer's thirds hold   *)
(* the encodings, over the domain of third powers, of the polynomials of   *)
(* every third coefficient, on the way down and on the way up.             *)
StagesHoldResidues ==
  BetweenStages =>
    \A r \in 0 .. 2 :
       LET part == [size |-> (call.f.size + 3^Depth - 1) \div 3^Depth,
                    at   |-> [i \in 0 .. call.f.size - 1 |->
                                LET j == Top.view.start + (r + 3 * i) * Top.view.stride
                                IN  IF Top.view.size > 0 /\ j < call.f.size
                                    THEN call.f.at[j] ELSE 0]]
       IN  [i \in 0 .. Reduced - 1 |-> buffers[Depth][r * Reduced + i]]
             = Encode(PowMap(call.domain, 3^Depth), part)
=============================================================================
