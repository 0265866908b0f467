----------------------------- MODULE NtlContext -----------------------------
(***************************************************************************)
(* NTL keeps the modulus, the extension polynomial and the random stream   *)
(* of ring arithmetic per thread.  A GRContext computes its polynomial and *)
(* its generator lazily, once for all threads, and every arithmetic        *)
(* operation runs inside with_ntl_context, which installs the context and  *)
(* restores the caller's on every way out.  Calls nest, across contexts.   *)
(***************************************************************************)
EXTENDS Naturals, Sequences, SequencesExt, Threading

CONSTANTS
  Contexts,
  VendorSearch,  (* Those whose p^r - 1 fits 32 bits: the generator is     *)
                 (* searched for by the vendored code.                     *)
  Unbuildable,   (* Those whose initialisation throws (degree too large).  *)
  MaxCalls       (* Bound: how deep with_ntl_context nests.                *)

ASSUME Kinds == VendorSearch \subseteq Contexts /\ Unbuildable \subseteq Contexts

VARIABLES
  ntl,         (* What NTL holds for each thread: [p, e, stream].          *)
  calls,       (* Each thread's stack of calls into a context.             *)
  throwing,    (* Is an exception on its way up the thread's stack?        *)
  once,        (* backend_once and teich_once: "none", "running", "ready". *)
  lazy         (* LazyState: [base, extension, generator].                 *)

vars == <<ntl, calls, throwing, once, lazy>>

Slots == {"p", "e", "stream"}
Flags == {"backend", "teich"}
Initialisers == Flags

Prime(c) == <<c, "p">>
Power(c) == <<c, "p^k">>
Seed(c, flag) == <<c, "seed", flag>>
Caller == [s \in Slots |-> None]

Init ==
  /\ ntl = [t \in Threads |-> Caller]
  /\ calls = [t \in Threads |-> <<>>]
  /\ throwing = [t \in Threads |-> FALSE]
  /\ once = [c \in Contexts |-> [f \in Flags |-> "none"]]
  /\ lazy = [c \in Contexts |-> [base |-> None, extension |-> None, generator |-> None]]

(* A call: what runs, for which context, where it is, and the guards       *)
(* (ZZ_pPush, ZZ_pEPush, RandomStreamPush) alive in its scope.             *)
Frame(fn, c) == [fn |-> fn, ctx |-> c, at |-> "ensure", guards |-> <<>>]
Top(t) == Last(calls[t])
WithTop(t, f) == [calls EXCEPT ![t] = Append(Front(@), f)]
Running(t, fn, at) == ~throwing[t] /\ calls[t] # <<>> /\ Top(t).fn = fn /\ Top(t).at = at

Guard(t, s) == [slot |-> s, old |-> ntl[t][s]]
(* Guards go last to first, so the first one of a slot decides.            *)
Restore(held, guards) ==
  [s \in Slots |->
     LET mine == {k \in DOMAIN guards : guards[k].slot = s}
     IN  IF mine = {} THEN held[s] ELSE guards[CHOOSE k \in mine : \A j \in mine : k <= j].old]

(* Slots get new values and a guard each; the call moves on. *)
Push(t, values, order, at) ==
  /\ ntl' = [ntl EXCEPT ![t] = [s \in Slots |-> IF s \in DOMAIN values THEN values[s] ELSE @[s]]]
  /\ calls' = WithTop(t, [Top(t) EXCEPT !.at = at,
                            !.guards = @ \o [k \in DOMAIN order |-> Guard(t, order[k])]])

-----------------------------------------------------------------------------
(* Calls *)

InBody(t) == Running(t, "with", "body")
MayCall(t) == ~throwing[t] /\ (calls[t] = <<>> \/ InBody(t)) /\ Len(calls[t]) < MaxCalls

(* with_ntl_context, or teich_generator: both start at a once flag. *)
Call(t, fn, c) ==
  /\ MayCall(t)
  /\ calls' = [calls EXCEPT ![t] = Append(@, Frame(fn, c))]
  /\ UNCHANGED <<ntl, throwing, once, lazy>>

(* Which flag a call waits for, and where it goes on. *)
Awaits(fn) == IF fn = "generator" THEN "teich" ELSE "backend"
AtOnce(t, fn) == fn # "backend" /\ Running(t, fn, "ensure")
FlagOf(t) == once[Top(t).ctx][Awaits(Top(t).fn)]

(* call_once: the first caller runs the initialiser; others wait for it. *)
EnterOnce(t) ==
  /\ \E fn \in {"with", "generator", "teich"} : AtOnce(t, fn)
  /\ FlagOf(t) = "none"
  /\ once' = [once EXCEPT ![Top(t).ctx][Awaits(Top(t).fn)] = "running"]
  /\ calls' = [calls EXCEPT ![t] = Append(@, Frame(Awaits(Top(t).fn), Top(t).ctx))]
  /\ UNCHANGED <<ntl, throwing, lazy>>

PassOnce(t) ==
  /\ \E fn \in {"with", "generator", "teich"} : AtOnce(t, fn)
  /\ FlagOf(t) = "ready"
  /\ calls' = WithTop(t, [Top(t) EXCEPT !.at = "go"])
  /\ UNCHANGED <<ntl, throwing, once, lazy>>

-----------------------------------------------------------------------------
(* Initialisers *)

(* Defect: the search draws from wherever the caller's stream is. *)
MutSeedNotSet(t) ==
  /\ Running(t, "backend", "ensure")
  /\ Top(t).ctx \notin Unbuildable
  /\ Push(t, [p |-> Prime(Top(t).ctx)], <<"p", "stream">>, "find")
  /\ UNCHANGED <<throwing, once, lazy>>

(* Defect: the initialiser enters the context it is to initialise. *)
MutInitialiserEntersContext(t) ==
  /\ Running(t, "backend", "ensure")
  /\ calls' = [calls EXCEPT ![t] = Append(@, Frame("with", Top(t).ctx))]
  /\ UNCHANGED <<ntl, throwing, once, lazy>>

(* ensure_backend_initialized: a polynomial modulo p, found from the seed, *)
(* and then its coefficients read again modulo p^k.                        *)
EnterPrime(t) ==
  /\ Running(t, "backend", "ensure")
  /\ Top(t).ctx \notin Unbuildable
  /\ LET c == Top(t).ctx
     IN Push(t, [p |-> Prime(c), stream |-> Seed(c, "backend")], <<"p", "stream">>, "find")
  /\ UNCHANGED <<throwing, once, lazy>>

(* Defect: the scope installs its modulus and does not push it. *)
MutScopeNotRestored(t, at) ==
  /\ calls' = WithTop(t, [Top(t) EXCEPT !.at = at, !.guards = <<>>])
  /\ UNCHANGED ntl

(* The guards of the scope go before the next one is entered. *)
LeaveScope(t, at) ==
  /\ ntl' = [ntl EXCEPT ![t] = Restore(@, Top(t).guards)]
  /\ calls' = WithTop(t, [Top(t) EXCEPT !.at = at, !.guards = <<>>])

FindPolynomial(t) ==
  /\ Running(t, "backend", "find")
  /\ lazy' = [lazy EXCEPT ![Top(t).ctx].base = [p |-> ntl[t].p, stream |-> ntl[t].stream]]
  /\ LeaveScope(t, "lift")
  /\ UNCHANGED <<throwing, once>>

EnterPower(t) ==
  /\ Running(t, "backend", "lift")
  /\ Push(t, [p |-> Power(Top(t).ctx)], <<"p">>, "convert")
  /\ UNCHANGED <<throwing, once, lazy>>

LiftPolynomial(t) ==
  /\ Running(t, "backend", "convert")
  /\ lazy' = [lazy EXCEPT ![Top(t).ctx].extension =
                            [of |-> lazy[Top(t).ctx].base, p |-> ntl[t].p]]
  /\ LeaveScope(t, "done")
  /\ UNCHANGED <<throwing, once>>

(* ensure_teich_generator_initialized: either path installs the ring; only *)
(* the vendored search draws from the stream, so only it sets the seed.    *)
Draws(c) == IF c \in VendorSearch THEN Seed(c, "teich") ELSE None
EnterRing(t) ==
  /\ Running(t, "teich", "go")
  /\ LET c == Top(t).ctx
         ring == [p |-> Power(c), e |-> lazy[c].extension]
     IN IF c \in VendorSearch
        THEN Push(t, [p |-> ring.p, e |-> ring.e, stream |-> Seed(c, "teich")],
                  <<"stream", "p", "e">>, "find")
        ELSE Push(t, ring, <<"p", "e">>, "find")
  /\ UNCHANGED <<throwing, once, lazy>>

FindGenerator(t) ==
  /\ Running(t, "teich", "find")
  /\ LET c == Top(t).ctx
     IN lazy' = [lazy EXCEPT ![c].generator =
                   [p |-> ntl[t].p, e |-> ntl[t].e,
                    stream |-> IF c \in VendorSearch THEN ntl[t].stream ELSE None]]
  /\ LeaveScope(t, "done")
  /\ UNCHANGED <<throwing, once>>

(* The initialiser returns: the flag flips and the waiting callers go on. *)
FinishOnce(t) ==
  /\ \E fn \in Initialisers : Running(t, fn, "done")
  /\ once' = [once EXCEPT ![Top(t).ctx][Top(t).fn] = "ready"]
  /\ calls' = [calls EXCEPT ![t] = Front(@)]
  /\ UNCHANGED <<ntl, throwing, lazy>>

-----------------------------------------------------------------------------
(* with_ntl_context and teich_generator, past their flag *)

PushModulus(t) ==
  /\ Running(t, "with", "go")
  /\ Push(t, [p |-> Power(Top(t).ctx)], <<"p">>, "push")
  /\ UNCHANGED <<throwing, once, lazy>>

PushExtension(t) ==
  /\ Running(t, "with", "push")
  /\ Push(t, [e |-> lazy[Top(t).ctx].extension], <<"e">>, "body")
  /\ UNCHANGED <<throwing, once, lazy>>

Leave(t) ==
  /\ ntl' = [ntl EXCEPT ![t] = Restore(@, Top(t).guards)]
  /\ calls' = [calls EXCEPT ![t] = Front(@)]

Return(t) ==
  /\ InBody(t) \/ Running(t, "generator", "go")
  /\ Leave(t)
  /\ UNCHANGED <<throwing, once, lazy>>

(* The body throws, or an initialiser does. *)
Throw(t) ==
  /\ \/ InBody(t)
     \/ Running(t, "backend", "ensure") /\ Top(t).ctx \in Unbuildable
  /\ throwing' = [throwing EXCEPT ![t] = TRUE]
  /\ UNCHANGED <<ntl, calls, once, lazy>>

(* Defect: the contexts are restored on the normal way out only. *)
MutUnwindKeepsContext(t) ==
  /\ throwing[t] /\ calls[t] # <<>>
  /\ calls' = [calls EXCEPT ![t] = Front(@)]
  /\ once' = IF Top(t).fn \in Initialisers
             THEN [once EXCEPT ![Top(t).ctx][Top(t).fn] = "none"] ELSE once
  /\ UNCHANGED <<ntl, throwing, lazy>>

(* Defect: the body runs inside call_once, so its exceptions reset the flag. *)
MutBodyInsideOnce(t) ==
  /\ throwing[t] /\ calls[t] # <<>>
  /\ Leave(t)
  /\ once' = [once EXCEPT ![Top(t).ctx]["backend"] = "none"]
  /\ UNCHANGED <<throwing, lazy>>

(* One call is left; an initialiser's flag can be tried again. *)
Unwind(t) ==
  /\ throwing[t] /\ calls[t] # <<>>
  /\ Leave(t)
  /\ once' = IF Top(t).fn \in Initialisers
             THEN [once EXCEPT ![Top(t).ctx][Top(t).fn] = "none"] ELSE once
  /\ UNCHANGED <<throwing, lazy>>

(* A caller catches it: the outermost, or a body the call was made from. *)
Catch(t) ==
  /\ throwing[t]
  /\ calls[t] # <<>> => Top(t).fn = "with" /\ Top(t).at = "body"
  /\ throwing' = [throwing EXCEPT ![t] = FALSE]
  /\ UNCHANGED <<ntl, calls, once, lazy>>

-----------------------------------------------------------------------------

Initialise(t) ==
  \/ EnterPrime(t) \/ FindPolynomial(t) \/ EnterPower(t) \/ LiftPolynomial(t)
  \/ EnterRing(t) \/ FindGenerator(t) \/ FinishOnce(t)

(* What a thread does by itself once it has called. *)
Proceed(t) ==
  \/ EnterOnce(t) \/ PassOnce(t) \/ Initialise(t)
  \/ PushModulus(t) \/ PushExtension(t)

Next ==
  \E t \in Threads :
    \/ \E fn \in {"with", "generator"}, c \in Contexts : Call(t, fn, c)
    \/ Proceed(t) \/ Return(t) \/ Throw(t) \/ Unwind(t) \/ Catch(t)

(* A running call is not suspended for ever; nothing says when a body ends. *)
Fairness == \A t \in Threads : WF_vars(Proceed(t)) /\ WF_vars(Unwind(t))

Spec == Init /\ [][Next]_vars /\ Fairness

-----------------------------------------------------------------------------
(* Properties *)

RightBase(c) == [p |-> Prime(c), stream |-> Seed(c, "backend")]
RightExtension(c) == [of |-> RightBase(c), p |-> Power(c)]
RightGenerator(c) == [p |-> Power(c), e |-> RightExtension(c), stream |-> Draws(c)]

(* Ring arithmetic runs in its own ring: inside the body given to          *)
(* with_ntl_context the thread's modulus and extension are the context's,  *)
(* after any nested call of another context and any exception caught.      *)
BodyInContext ==
  \A t \in Threads :
    InBody(t) =>
      /\ ntl[t].p = Power(Top(t).ctx)
      /\ ntl[t].e = RightExtension(Top(t).ctx)

(* The lazily computed polynomial and generator do not depend on the       *)
(* thread that computed them, on what it had installed, nor on the point   *)
(* of its random stream: one configuration always names the same ring.     *)
LazyStateDeterministic ==
  \A c \in Contexts :
    /\ once[c]["backend"] = "ready" => lazy[c].extension = RightExtension(c)
    /\ once[c]["teich"] = "ready" => lazy[c].generator = RightGenerator(c)

(* A thread that is out of every call has the modulus, extension and       *)
(* random stream it came with, exceptions and retries included.            *)
LeavesNoTrace == \A t \in Threads : calls[t] = <<>> => ntl[t] = Caller

(* What readers hold references into is not written again once published.  *)
PublishedOnce ==
  [][\A c \in Contexts :
       /\ once[c]["backend"] = "ready" =>
            once'[c]["backend"] = "ready" /\ lazy'[c].extension = lazy[c].extension
       /\ once[c]["teich"] = "ready" =>
            once'[c]["teich"] = "ready" /\ lazy'[c].generator = lazy[c].generator]_vars

(* Nobody waits for ever at a flag: the thread that runs the initialiser   *)
(* needs nothing another waiting thread holds.  Where initialisation       *)
(* throws, the waiters race for the next attempt and nothing is promised.  *)
Waiting(t) == \E fn \in {"with", "generator", "teich"} : AtOnce(t, fn)
WaitersProceed ==
  \A t \in Threads :
    (Waiting(t) /\ Top(t).ctx \notin Unbuildable) ~> ~Waiting(t)

=============================================================================
