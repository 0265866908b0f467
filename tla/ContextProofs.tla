---------------------------- MODULE ContextProofs ----------------------------
(***************************************************************************)
(* Proofs about what the threads of one process share of their ring        *)
(* contexts.                                                               *)
(*                                                                         *)
(* NtlContext, for any number of threads and contexts and any depth of     *)
(* nesting: ring arithmetic runs in its own ring, every way out of a call  *)
(* restores what the thread had, and what is computed lazily is the same   *)
(* whoever computes it and is never written again.                         *)
(*                                                                         *)
(* PlanCache, for any number of threads, addresses, rings and domains: a   *)
(* transform runs with a plan of its own ring and domain, and all          *)
(* transforms over one domain share one plan.                              *)
(***************************************************************************)
EXTENDS NtlContext, PlanCache, SharedFacts, SequenceTheorems

(* Everything NTL may hold for a thread. *)
Values ==
  {None} \cup {Prime(c) : c \in Contexts} \cup {Power(c) : c \in Contexts}
  \cup {Seed(c, f) : c \in Contexts, f \in Flags} \cup {RightExtension(c) : c \in Contexts}

Holdings == [Slots -> Values]
Fns == {"with", "generator", "backend", "teich"}
Places == {"ensure", "go", "push", "body", "find", "lift", "convert", "done"}
Guards == [slot : Slots, old : Values]
Bases == {None} \cup [p : Values, stream : Values]
Extensions == {None} \cup [of : Bases, p : Values]
Generators == {None} \cup [p : Values, e : Values, stream : Values]
Frames == [fn : Fns, ctx : Contexts, at : Places, guards : Seq(Guards)]

-----------------------------------------------------------------------------
(* The inductive invariant. *)

Types ==
  /\ ntl \in [Threads -> Holdings]
  /\ calls \in [Threads -> Seq(Frames)]
  /\ throwing \in [Threads -> BOOLEAN]
  /\ once \in [Contexts -> [Flags -> {"none", "running", "ready"}]]
  /\ lazy \in [Contexts -> [base : Bases, extension : Extensions, generator : Generators]]

(* Of a call that was entered with NTL holding `below' and now holds       *)
(* `above': its guards remember what `below' had in every slot it changed. *)
Undoes(f, below, above) ==
  /\ \A k \in DOMAIN f.guards : f.guards[k].old = below[f.guards[k].slot]
  /\ \A s \in Slots : (\A k \in DOMAIN f.guards : f.guards[k].slot # s) => above[s] = below[s]

(* Which slots a call has changed where it is, and to what.                *)
Installed(f, above) ==
  /\ f.at \in {"ensure", "go", "lift", "done"} => f.guards = <<>>
  /\ f.at = "push" => \A k \in DOMAIN f.guards : f.guards[k].slot = "p"
  /\ f.fn = "with" /\ f.at \in {"push", "body"} => above["p"] = Power(f.ctx)
  /\ f.fn = "with" /\ f.at = "body" => above["e"] = RightExtension(f.ctx)
  /\ f.fn = "backend" /\ f.at = "find" =>
       above["p"] = Prime(f.ctx) /\ above["stream"] = Seed(f.ctx, "backend")
  /\ f.fn = "backend" /\ f.at = "convert" => above["p"] = Power(f.ctx)
  /\ f.fn = "teich" /\ f.at = "find" =>
       /\ above["p"] = Power(f.ctx) /\ above["e"] = RightExtension(f.ctx)
       /\ f.ctx \in VendorSearch => above["stream"] = Seed(f.ctx, "teich")

Fits(f, below, above) == Undoes(f, below, above) /\ Installed(f, above)

(* What NTL held when each call of a stack was entered, from the caller's  *)
(* own to what it holds now: leaving the calls leads back to the caller's. *)
StackFits(cs, holding) ==
  \E env \in [1 .. Len(cs) + 1 -> Holdings] :
    /\ env[1] = Caller /\ env[Len(cs) + 1] = holding
    /\ \A d \in 1 .. Len(cs) : Fits(cs[d], env[d], env[d + 1])

Stacks == \A t \in Threads : StackFits(calls[t], ntl[t])

(* What a call relies on, having passed its flag, and what an initialiser  *)
(* has computed so far.                                                    *)
Founded(f, flags, state) ==
  /\ f.fn \in Initialisers => flags[f.ctx][f.fn] = "running"
  /\ f.fn \in {"with", "teich"} /\ f.at # "ensure" => flags[f.ctx]["backend"] = "ready"
  /\ f.fn = "backend" /\ f.at \in {"lift", "convert", "done"} => state[f.ctx].base = RightBase(f.ctx)
  /\ f.fn = "backend" /\ f.at = "done" => state[f.ctx].extension = RightExtension(f.ctx)
  /\ f.fn = "teich" /\ f.at = "done" => state[f.ctx].generator = RightGenerator(f.ctx)

CallsFounded ==
  \A t \in Threads : \A d \in 1 .. Len(calls[t]) : Founded(calls[t][d], once, lazy)

(* call_once: of a flag's initialiser one call is running at most.         *)
OneInitialiser ==
  \A t, u \in Threads : \A d \in 1 .. Len(calls[t]), e \in 1 .. Len(calls[u]) :
    (/\ calls[t][d].fn \in Initialisers /\ calls[t][d].fn = calls[u][e].fn
     /\ calls[t][d].ctx = calls[u][e].ctx) => t = u /\ d = e

Inv == Types /\ Stacks /\ CallsFounded /\ OneInitialiser /\ LazyStateDeterministic

-----------------------------------------------------------------------------
(* Stacks *)

(* Last and Front of a stack, and what WithTop makes of it.                *)
LEMMA TopFacts ==
  ASSUME NEW cs \in Seq(Frames), cs # <<>>
  PROVE  /\ Len(cs) \in Nat \ {0}
         /\ Last(cs) = cs[Len(cs)] /\ Last(cs) \in Frames
         /\ Front(cs) \in Seq(Frames) /\ Len(Front(cs)) = Len(cs) - 1
         /\ \A d \in 1 .. Len(cs) - 1 : Front(cs)[d] = cs[d]
<1>1. Len(cs) \in Nat \ {0}
  BY EmptySeq
<1>2. \A d \in 1 .. Len(cs) : cs[d] \in Frames
  BY ElementOfSeq
<1>3. /\ Front(cs) \in Seq(Frames) /\ Len(Front(cs)) = Len(cs) - 1
      /\ \A d \in 1 .. Len(cs) - 1 : Front(cs)[d] = cs[d]
  <2> DEFINE n == Len(cs) - 1
             r == SubSeq(cs, 1, n)
  <2>1. n \in Nat /\ \A d \in 1 .. n : cs[d] \in Frames
    BY <1>1, <1>2
  <2> HIDE DEF n, Frames
  <2>2. /\ r \in Seq(Frames)
        /\ Len(r) = IF 1 <= n THEN n - 1 + 1 ELSE 0
        /\ \A d \in 1 .. n - 1 + 1 : r[d] = cs[1 + d - 1]
    BY <2>1, SubSeqProperties
  <2>3. Front(cs) = r
    BY DEF Front, n
  <2> HIDE DEF r
  <2>4. Len(r) = n /\ \A d \in 1 .. n : r[d] = cs[d]
    BY <2>1, <2>2
  <2> QED
    BY <2>2, <2>3, <2>4 DEF n
<1> QED
  BY <1>1, <1>2, <1>3 DEF Last

(* What replacing the top of a stack leaves alone.                         *)
LEMMA WithTopFacts ==
  ASSUME NEW cs \in Seq(Frames), cs # <<>>, NEW f \in Frames,
         NEW ds, ds = Append(Front(cs), f)
  PROVE  /\ ds \in Seq(Frames) /\ Len(ds) = Len(cs)
         /\ \A d \in 1 .. Len(cs) : ds[d] = IF d = Len(cs) THEN f ELSE cs[d]
<1>1. /\ Len(cs) \in Nat \ {0} /\ Front(cs) \in Seq(Frames) /\ Len(Front(cs)) = Len(cs) - 1
      /\ \A d \in 1 .. Len(cs) - 1 : Front(cs)[d] = cs[d]
  BY TopFacts
<1> QED
  BY <1>1, AppendProperties

(* A call is made: what it was entered with is what NTL holds.             *)
LEMMA PushFits ==
  ASSUME NEW cs \in Seq(Frames), NEW holding \in Holdings, StackFits(cs, holding),
         NEW f \in Frames, Fits(f, holding, holding),
         NEW ds, ds = Append(cs, f)
  PROVE  StackFits(ds, holding)
<1>1. PICK env \in [1 .. Len(cs) + 1 -> Holdings] :
        /\ env[1] = Caller /\ env[Len(cs) + 1] = holding
        /\ \A d \in 1 .. Len(cs) : Fits(cs[d], env[d], env[d + 1])
  BY DEF StackFits
<1>2. /\ Len(cs) \in Nat /\ Len(ds) = Len(cs) + 1
      /\ \A d \in 1 .. Len(cs) : ds[d] = cs[d]
      /\ ds[Len(cs) + 1] = f
  BY AppendProperties, LenProperties
<1> DEFINE n == Len(cs)
           more == [d \in 1 .. n + 2 |-> IF d = n + 2 THEN holding ELSE env[d]]
<1>3. more \in [1 .. Len(ds) + 1 -> Holdings] /\ more[1] = Caller /\ more[Len(ds) + 1] = holding
  BY <1>1, <1>2
<1>4. ASSUME NEW d \in 1 .. Len(ds)
      PROVE  Fits(ds[d], more[d], more[d + 1])
  <2>1. CASE d = n + 1
    BY <1>1, <1>2, <2>1
  <2>2. CASE d \in 1 .. n
    <3>1. more[d] = env[d] /\ more[d + 1] = env[d + 1] /\ ds[d] = cs[d]
      BY <1>2, <2>2
    <3> QED
      BY <1>1, <2>2, <3>1
  <2> QED
    BY <1>2, <2>1, <2>2
<1> HIDE DEF more
<1> QED
  BY <1>3, <1>4 DEF StackFits

(* The top call goes on, and NTL may change: the call still fits between   *)
(* what it was entered with and what NTL holds.                            *)
LEMMA ReplaceFits ==
  ASSUME NEW cs \in Seq(Frames), cs # <<>>, NEW holding \in Holdings, StackFits(cs, holding),
         NEW f \in Frames, NEW next \in Holdings,
         \A below \in Holdings : Fits(Last(cs), below, holding) => Fits(f, below, next),
         NEW ds, ds = Append(Front(cs), f)
  PROVE  StackFits(ds, next)
<1>1. PICK env \in [1 .. Len(cs) + 1 -> Holdings] :
        /\ env[1] = Caller /\ env[Len(cs) + 1] = holding
        /\ \A d \in 1 .. Len(cs) : Fits(cs[d], env[d], env[d + 1])
  BY DEF StackFits
<1>2. /\ Len(cs) \in Nat \ {0} /\ Last(cs) = cs[Len(cs)] /\ Len(ds) = Len(cs)
      /\ \A d \in 1 .. Len(cs) : ds[d] = IF d = Len(cs) THEN f ELSE cs[d]
  BY TopFacts, WithTopFacts
<1> DEFINE n == Len(cs)
           moved == [d \in 1 .. n + 1 |-> IF d = n + 1 THEN next ELSE env[d]]
<1>3. moved \in [1 .. Len(ds) + 1 -> Holdings] /\ moved[1] = Caller /\ moved[Len(ds) + 1] = next
  BY <1>1, <1>2
<1>4. ASSUME NEW d \in 1 .. Len(ds)
      PROVE  Fits(ds[d], moved[d], moved[d + 1])
  <2>1. CASE d = n
    <3>1. moved[d] = env[n] /\ moved[d + 1] = next /\ ds[d] = f
      BY <1>2, <2>1
    <3>2. Fits(Last(cs), env[n], holding) /\ env[n] \in Holdings
      BY <1>1, <1>2
    <3> QED
      BY <3>1, <3>2
  <2>2. CASE d \in 1 .. n - 1
    <3>1. moved[d] = env[d] /\ moved[d + 1] = env[d + 1] /\ ds[d] = cs[d]
      BY <1>2, <2>2
    <3> QED
      BY <1>1, <1>2, <2>2, <3>1
  <2> QED
    BY <1>2, <2>1, <2>2
<1> HIDE DEF moved
<1> QED
  BY <1>3, <1>4 DEF StackFits

(* The top call is left for what it was entered with.                      *)
LEMMA PopFits ==
  ASSUME NEW cs \in Seq(Frames), cs # <<>>, NEW holding \in Holdings, StackFits(cs, holding),
         NEW next,
         \A below \in Holdings : Fits(Last(cs), below, holding) => next = below,
         NEW ds, ds = Front(cs)
  PROVE  next \in Holdings /\ StackFits(ds, next)
<1>1. PICK env \in [1 .. Len(cs) + 1 -> Holdings] :
        /\ env[1] = Caller /\ env[Len(cs) + 1] = holding
        /\ \A d \in 1 .. Len(cs) : Fits(cs[d], env[d], env[d + 1])
  BY DEF StackFits
<1>2. /\ Len(cs) \in Nat \ {0} /\ Last(cs) = cs[Len(cs)] /\ Len(ds) = Len(cs) - 1
      /\ \A d \in 1 .. Len(cs) - 1 : ds[d] = cs[d]
  BY TopFacts
<1> DEFINE n == Len(cs)
           fewer == [d \in 1 .. n |-> env[d]]
<1>3. env[n] \in Holdings /\ next = env[n]
  <2>1. Fits(Last(cs), env[n], holding) /\ env[n] \in Holdings
    BY <1>1, <1>2
  <2> QED
    BY <2>1
<1>4. /\ fewer \in [1 .. Len(ds) + 1 -> Holdings]
      /\ fewer[1] = Caller /\ fewer[Len(ds) + 1] = next
  BY <1>1, <1>2, <1>3
<1>5. \A d \in 1 .. Len(ds) : Fits(ds[d], fewer[d], fewer[d + 1])
  BY <1>1, <1>2
<1> HIDE DEF fewer
<1> QED
  BY <1>3, <1>4, <1>5 DEF StackFits

(* Some holding was there when the top call was entered.                   *)
LEMMA TopFits ==
  ASSUME NEW cs \in Seq(Frames), cs # <<>>, NEW holding, StackFits(cs, holding)
  PROVE  \E below \in Holdings : Fits(Last(cs), below, holding)
<1>1. PICK env \in [1 .. Len(cs) + 1 -> Holdings] :
        /\ env[Len(cs) + 1] = holding
        /\ \A d \in 1 .. Len(cs) : Fits(cs[d], env[d], env[d + 1])
  BY DEF StackFits
<1>2. Len(cs) \in Nat \ {0} /\ Last(cs) = cs[Len(cs)]
  BY TopFacts
<1> QED
  BY <1>1, <1>2

(* Outside of all calls a thread holds what it held before.                *)
LEMMA EmptyFits ==
  ASSUME NEW holding, StackFits(<<>>, holding)
  PROVE  holding = Caller
  BY DEF StackFits

(* Guards that remember what a call changed give it back.                  *)
LEMMA RestoreUndoes ==
  ASSUME NEW f \in Frames, NEW below \in Holdings, NEW holding \in Holdings,
         Undoes(f, below, holding)
  PROVE  Restore(holding, f.guards) = below
<1> DEFINE of(s) == {k \in DOMAIN f.guards : f.guards[k].slot = s}
<1>1. f.guards \in Seq(Guards) /\ DOMAIN f.guards \subseteq Nat
  BY LenProperties DEF Frames
<1>2. ASSUME NEW s \in Slots
      PROVE  Restore(holding, f.guards)[s] = below[s]
  <2>1. CASE of(s) = {}
    <3>1. Restore(holding, f.guards)[s] = holding[s]
      BY <2>1 DEF Restore
    <3> QED
      BY <2>1, <3>1 DEF Undoes
  <2>2. CASE of(s) # {}
    <3>1. \E k \in of(s) : \A j \in of(s) : k <= j
      <4>1. of(s) \in SUBSET Nat
        BY <1>1
      <4> HIDE DEF of
      <4> QED
        BY <2>2, <4>1, LeastElement
    <3> DEFINE first == CHOOSE k \in of(s) : \A j \in of(s) : k <= j
    <3>2. first \in of(s)
      BY <3>1
    <3>3. Restore(holding, f.guards)[s] = f.guards[first].old
      BY <2>2 DEF Restore
    <3>4. f.guards[first].old = below[s]
      BY <3>2 DEF Undoes
    <3> QED
      BY <3>3, <3>4
  <2> QED
    BY <2>1, <2>2
<1>3. Restore(holding, f.guards) = [s \in Slots |-> Restore(holding, f.guards)[s]]
  BY DEF Restore
<1> QED
  BY <1>2, <1>3 DEF Holdings

(* New guards remember what NTL holds in slots the call has not changed    *)
(* yet, before these slots change.                                         *)
GuardsAdded(f, g, order, added, holding, next) ==
  /\ f \in Frames /\ g \in Frames /\ order \in Seq(Slots)
  /\ holding \in Holdings /\ next \in Holdings
  /\ added \in Seq(Guards) /\ DOMAIN added = DOMAIN order
  /\ \A k \in DOMAIN order : added[k] = [slot |-> order[k], old |-> holding[order[k]]]
  /\ g.guards = f.guards \o added
  /\ \A s \in Slots : next[s] # holding[s] => \E k \in DOMAIN order : order[k] = s
  /\ \A k \in DOMAIN order, j \in DOMAIN f.guards : f.guards[j].slot # order[k]

(* Guards added for slots that change keep a call undoable.                *)
LEMMA PushUndoes ==
  ASSUME NEW f, NEW g, NEW order, NEW added, NEW below \in Holdings, NEW holding, NEW next,
         GuardsAdded(f, g, order, added, holding, next),
         Undoes(f, below, holding)
  PROVE  Undoes(g, below, next)
<1> USE DEF GuardsAdded
<1> DEFINE m == Len(f.guards)
           n == Len(order)
<1>1. f.guards \in Seq(Guards) /\ m \in Nat /\ DOMAIN f.guards = 1 .. m
  BY LenProperties DEF Frames
<1>2. n \in Nat /\ DOMAIN order = 1 .. n /\ Len(added) = n
  BY LenProperties
<1>3. /\ g.guards \in Seq(Guards) /\ Len(g.guards) = m + n
      /\ \A k \in 1 .. m + n : g.guards[k] = IF k <= m THEN f.guards[k] ELSE added[k - m]
  <2>1. /\ f.guards \o added \in Seq(Guards) /\ Len(f.guards \o added) = Len(f.guards) + Len(added)
        /\ \A k \in 1 .. Len(f.guards) + Len(added) :
             (f.guards \o added)[k] = IF k <= Len(f.guards) THEN f.guards[k] ELSE added[k - Len(f.guards)]
    BY <1>1, ConcatProperties
  <2> QED
    BY <1>2, <2>1
<1> HIDE DEF m, n
<1>4. DOMAIN g.guards = 1 .. m + n
  BY <1>3, LenProperties
<1>5. \A k \in 1 .. n : order[k] \in Slots
  BY <1>2, ElementOfSeq
<1>6. ASSUME NEW k \in 1 .. m + n
      PROVE  g.guards[k].old = below[g.guards[k].slot]
  <2>1. CASE k <= m
    <3>1. k \in DOMAIN f.guards /\ g.guards[k] = f.guards[k]
      BY <1>1, <1>2, <1>3, <2>1
    <3> QED
      BY <3>1 DEF Undoes
  <2>2. CASE ~(k <= m)
    <3> DEFINE j == k - m
    <3>1. j \in 1 .. n /\ g.guards[k] = added[j]
      BY <1>1, <1>2, <1>3, <2>2
    <3>2. added[j] = [slot |-> order[j], old |-> holding[order[j]]] /\ order[j] \in Slots
      BY <1>2, <1>5, <3>1
    <3>3. holding[order[j]] = below[order[j]]
      BY <1>2, <3>1, <3>2 DEF Undoes
    <3> QED
      BY <3>1, <3>2, <3>3
  <2> QED
    BY <2>1, <2>2
<1>7. ASSUME NEW s \in Slots, \A k \in 1 .. m + n : g.guards[k].slot # s
      PROVE  next[s] = below[s]
  <2>1. \A k \in 1 .. m : f.guards[k].slot # s
    BY <1>1, <1>2, <1>3, <1>7
  <2>2. \A k \in 1 .. n : order[k] # s
    <3> SUFFICES ASSUME NEW k \in 1 .. n PROVE order[k] # s
      OBVIOUS
    <3>1. PICK j \in 1 .. m + n : ~(j <= m) /\ j - m = k
      <4>1. k + m \in 1 .. m + n /\ ~(k + m <= m) /\ k + m - m = k
        BY <1>1, <1>2
      <4> QED
        BY <1>1, <1>2, <4>1
    <3>2. g.guards[j] = added[k]
      BY <1>1, <1>2, <1>3, <3>1
    <3>3. added[k].slot = order[k]
      <4>1. added[k] = [slot |-> order[k], old |-> holding[order[k]]]
        BY <1>2
      <4> QED
        BY <4>1
    <3> QED
      BY <1>7, <3>1, <3>2, <3>3
  <2>3. next[s] = holding[s]
    BY <1>2, <2>2
  <2> QED
    BY <1>1, <2>1, <2>3 DEF Undoes
<1> QED
  BY <1>4, <1>6, <1>7 DEF Undoes

-----------------------------------------------------------------------------
(* What the three ways to change a stack keep, whatever else happens.      *)

StatesTyped(theThrowing, theOnce, theLazy) ==
  /\ theThrowing \in [Threads -> BOOLEAN]
  /\ theOnce \in [Contexts -> [Flags -> {"none", "running", "ready"}]]
  /\ theLazy \in [Contexts -> [base : Bases, extension : Extensions, generator : Generators]]

Kept == Types /\ Stacks /\ CallsFounded /\ OneInitialiser

(* A new call is entered with what the thread holds now.                   *)
LEMMA PushKeeps ==
  ASSUME Inv, NEW t \in Threads, NEW f \in Frames, f.at = "ensure", f.guards = <<>>,
         calls' = [calls EXCEPT ![t] = Append(@, f)], ntl' = ntl,
         StatesTyped(throwing', once', lazy'),
         Founded(f, once', lazy'),
         \A u \in Threads : \A d \in 1 .. Len(calls[u]) : Founded(calls[u][d], once', lazy'),
         f.fn \in Initialisers =>
           \A u \in Threads : \A d \in 1 .. Len(calls[u]) :
             ~(calls[u][d].fn = f.fn /\ calls[u][d].ctx = f.ctx)
  PROVE  Kept'
<1> USE DEF Inv
<1>1. /\ calls[t] \in Seq(Frames) /\ Len(calls[t]) \in Nat
      /\ calls'[t] = Append(calls[t], f) /\ calls'[t] \in Seq(Frames)
      /\ Len(calls'[t]) = Len(calls[t]) + 1
      /\ \A d \in 1 .. Len(calls[t]) : calls'[t][d] = calls[t][d]
      /\ calls'[t][Len(calls[t]) + 1] = f
  BY AppendProperties, LenProperties DEF Types
<1>2. \A u \in Threads : u # t => calls'[u] = calls[u]
  BY DEF Types
<1>3. \A u \in Threads : \A d \in 1 .. Len(calls'[u]) :
        \/ d \in 1 .. Len(calls[u]) /\ calls'[u][d] = calls[u][d]
        \/ u = t /\ d = Len(calls[t]) + 1 /\ calls'[u][d] = f
  BY <1>1, <1>2
<1>4. Types'
  BY <1>1, <1>2 DEF Types, StatesTyped
<1>5. Stacks'
  <2>1. Fits(f, ntl[t], ntl[t])
    BY DEF Fits, Undoes, Installed
  <2>2. StackFits(calls'[t], ntl[t])
    <3>1. StackFits(calls[t], ntl[t]) /\ ntl[t] \in Holdings
      BY DEF Stacks, Types
    <3> QED
      BY <1>1, <2>1, <3>1, PushFits
  <2> QED
    BY <1>2, <2>2 DEF Stacks
<1>6. CallsFounded'
  BY <1>3 DEF CallsFounded
<1>7. OneInitialiser'
  <2> DEFINE n == Len(calls[t]) + 1
  <2>1. \A u \in Threads : \A d \in 1 .. Len(calls[u]) :
          f.fn \in Initialisers => ~(calls[u][d].fn = f.fn /\ calls[u][d].ctx = f.ctx)
    OBVIOUS
  <2> SUFFICES ASSUME NEW u \in Threads, NEW w \in Threads,
               NEW d \in 1 .. Len(calls'[u]), NEW e \in 1 .. Len(calls'[w]),
               calls'[u][d].fn \in Initialisers, calls'[u][d].fn = calls'[w][e].fn,
               calls'[u][d].ctx = calls'[w][e].ctx
        PROVE  u = w /\ d = e
    BY SMTT(30) DEF OneInitialiser
  <2>2. /\ calls'[u][d].fn \in Initialisers /\ calls'[u][d].fn = calls'[w][e].fn
        /\ calls'[u][d].ctx = calls'[w][e].ctx
    OBVIOUS
  <2>3. u = w /\ d = e
    <3> HIDE DEF n
    <3>1. CASE d \in 1 .. Len(calls[u]) /\ calls'[u][d] = calls[u][d]
      <4>1. CASE e \in 1 .. Len(calls[w]) /\ calls'[w][e] = calls[w][e]
        BY <2>2, <3>1, <4>1 DEF OneInitialiser
      <4>2. CASE calls'[w][e] = f
        BY <2>1, <2>2, <3>1, <4>2
      <4> QED
        BY <1>3, <4>1, <4>2
    <3>2. CASE u = t /\ d = n /\ calls'[u][d] = f
      <4>1. CASE e \in 1 .. Len(calls[w]) /\ calls'[w][e] = calls[w][e]
        BY <2>1, <2>2, <3>2, <4>1
      <4>2. CASE w = t /\ e = n
        BY <3>2, <4>2
      <4> QED
        BY <1>3, <4>1, <4>2 DEF n
    <3> QED
      BY <1>3, <3>1, <3>2 DEF n
  <2> QED
    BY <2>3
<1> QED
  BY <1>4, <1>5, <1>6, <1>7 DEF Kept

(* The top call goes on, and still fits what it was entered with.          *)
LEMMA ReplaceKeeps ==
  ASSUME Inv, NEW t \in Threads, calls[t] # <<>>, NEW f \in Frames,
         f.fn = Top(t).fn, f.ctx = Top(t).ctx,
         calls' = WithTop(t, f), NEW next \in Holdings, ntl' = [ntl EXCEPT ![t] = next],
         \A below \in Holdings : Fits(Top(t), below, ntl[t]) => Fits(f, below, next),
         StatesTyped(throwing', once', lazy'),
         Founded(f, once', lazy'),
         \A u \in Threads : \A d \in 1 .. Len(calls[u]) :
           (u = t /\ d = Len(calls[t])) \/ Founded(calls[u][d], once', lazy')
  PROVE  Kept'
<1> USE DEF Inv
<1>1. calls[t] \in Seq(Frames) /\ calls'[t] = Append(Front(calls[t]), f) /\ Top(t) = Last(calls[t])
  BY DEF Types, WithTop, Top
<1>2. /\ Len(calls[t]) \in Nat \ {0} /\ Top(t) = calls[t][Len(calls[t])]
      /\ calls'[t] \in Seq(Frames) /\ Len(calls'[t]) = Len(calls[t])
      /\ \A d \in 1 .. Len(calls[t]) : calls'[t][d] = IF d = Len(calls[t]) THEN f ELSE calls[t][d]
  <2>1. Len(calls[t]) \in Nat \ {0} /\ Last(calls[t]) = calls[t][Len(calls[t])]
    BY <1>1, TopFacts
  <2>2. /\ calls'[t] \in Seq(Frames) /\ Len(calls'[t]) = Len(calls[t])
        /\ \A d \in 1 .. Len(calls[t]) : calls'[t][d] = IF d = Len(calls[t]) THEN f ELSE calls[t][d]
    <3> DEFINE cs == calls[t]
    <3>1. cs \in Seq(Frames) /\ cs # <<>>
      BY <1>1
    <3> HIDE DEF cs
    <3>2. Append(Front(cs), f) \in Seq(Frames) /\ Len(Append(Front(cs), f)) = Len(cs)
      BY <3>1, WithTopFacts
    <3>3. \A d \in 1 .. Len(cs) : Append(Front(cs), f)[d] = IF d = Len(cs) THEN f ELSE cs[d]
      BY <3>1, WithTopFacts
    <3> QED
      BY <1>1, <3>2, <3>3 DEF cs
  <2> QED
    BY <1>1, <2>1, <2>2
<1>3. \A u \in Threads : u # t => calls'[u] = calls[u]
  BY DEF Types, WithTop
<1>4. \A u \in Threads : \A d \in 1 .. Len(calls'[u]) :
        /\ d \in 1 .. Len(calls[u])
        /\ calls'[u][d] = IF u = t /\ d = Len(calls[t]) THEN f ELSE calls[u][d]
  BY <1>2, <1>3
<1>5. Types'
  <2>1. calls' \in [Threads -> Seq(Frames)]
    <3>1. calls' = [u \in Threads |-> calls'[u]]
      BY DEF Types, WithTop
    <3> QED
      BY <1>2, <1>3, <3>1 DEF Types
  <2> QED
    BY <2>1 DEF Types, StatesTyped
<1>6. Stacks'
  <2>1. StackFits(calls'[t], next)
    <3>1. StackFits(calls[t], ntl[t]) /\ ntl[t] \in Holdings
      BY DEF Stacks, Types
    <3> QED
      BY <1>1, <3>1, ReplaceFits
  <2> QED
    BY <1>3, <2>1 DEF Stacks, Types
<1>7. CallsFounded'
  BY <1>4 DEF CallsFounded
<1>8. OneInitialiser'
  <2>1. \A u \in Threads : \A d \in 1 .. Len(calls'[u]) :
          /\ d \in 1 .. Len(calls[u])
          /\ calls'[u][d].fn = calls[u][d].fn /\ calls'[u][d].ctx = calls[u][d].ctx
    BY <1>2, <1>4
  <2> QED
    BY <2>1 DEF OneInitialiser
<1> QED
  BY <1>5, <1>6, <1>7, <1>8 DEF Kept

(* The top call ends, and gives back what it was entered with.             *)
LEMMA PopKeeps ==
  ASSUME Inv, NEW t \in Threads, calls[t] # <<>>,
         calls' = [calls EXCEPT ![t] = Front(@)], NEW next, ntl' = [ntl EXCEPT ![t] = next],
         \A below \in Holdings : Fits(Top(t), below, ntl[t]) => next = below,
         StatesTyped(throwing', once', lazy'),
         \A u \in Threads : \A d \in 1 .. Len(calls[u]) :
           (u = t /\ d = Len(calls[t])) \/ Founded(calls[u][d], once', lazy')
  PROVE  Kept'
<1> USE DEF Inv
<1>1. calls[t] \in Seq(Frames) /\ calls'[t] = Front(calls[t]) /\ Top(t) = Last(calls[t])
  BY DEF Types, Top
<1>2. /\ Len(calls[t]) \in Nat \ {0}
      /\ calls'[t] \in Seq(Frames) /\ Len(calls'[t]) = Len(calls[t]) - 1
      /\ \A d \in 1 .. Len(calls[t]) - 1 : calls'[t][d] = calls[t][d]
  BY <1>1, TopFacts
<1>3. \A u \in Threads : u # t => calls'[u] = calls[u]
  BY DEF Types
<1>4. \A u \in Threads : \A d \in 1 .. Len(calls'[u]) :
        /\ d \in 1 .. Len(calls[u]) /\ ~(u = t /\ d = Len(calls[t]))
        /\ calls'[u][d] = calls[u][d]
  BY <1>2, <1>3
<1>5. next \in Holdings /\ StackFits(calls'[t], next)
  <2>1. StackFits(calls[t], ntl[t]) /\ ntl[t] \in Holdings
    BY DEF Stacks, Types
  <2> QED
    BY <1>1, <2>1, PopFits
<1>6. Types'
  BY <1>2, <1>3, <1>5 DEF Types, StatesTyped
<1>7. Stacks'
  BY <1>3, <1>5 DEF Stacks, Types
<1>8. CallsFounded'
  BY <1>4 DEF CallsFounded
<1>9. OneInitialiser'
  BY <1>4 DEF OneInitialiser
<1> QED
  BY <1>6, <1>7, <1>8, <1>9 DEF Kept

-----------------------------------------------------------------------------
(* What is known of the call on top.                                       *)
LEMMA TopIs ==
  ASSUME Inv, NEW t \in Threads, calls[t] # <<>>
  PROVE  /\ Len(calls[t]) \in Nat \ {0} /\ Top(t) = calls[t][Len(calls[t])]
         /\ Top(t) \in Frames /\ Founded(Top(t), once, lazy)
         /\ ntl[t] \in Holdings
         /\ \E below \in Holdings : Fits(Top(t), below, ntl[t])
<1> USE DEF Inv
<1>1. calls[t] \in Seq(Frames) /\ ntl[t] \in Holdings /\ Top(t) = Last(calls[t])
  BY DEF Types, Top
<1>2. Len(calls[t]) \in Nat \ {0} /\ Top(t) = calls[t][Len(calls[t])] /\ Top(t) \in Frames
  BY <1>1, TopFacts
<1>3. \E below \in Holdings : Fits(Top(t), below, ntl[t])
  BY <1>1, TopFits DEF Stacks
<1>4. Founded(Top(t), once, lazy)
  BY <1>2 DEF CallsFounded
<1> QED
  BY <1>1, <1>2, <1>3, <1>4

(* Of an initialiser no other call runs: what it sets nobody else relies   *)
(* on before it is ready.                                                  *)
LEMMA OthersDiffer ==
  ASSUME Inv, NEW t \in Threads, calls[t] # <<>>, Top(t).fn \in Initialisers,
         NEW u \in Threads, NEW d \in 1 .. Len(calls[u]), ~(u = t /\ d = Len(calls[t]))
  PROVE  ~(calls[u][d].fn = Top(t).fn /\ calls[u][d].ctx = Top(t).ctx)
<1>1. Len(calls[t]) \in 1 .. Len(calls[t]) /\ Top(t) = calls[t][Len(calls[t])]
  BY TopIs
<1> QED
  BY <1>1 DEF Inv, OneInitialiser

(* A caller enters with_ntl_context or the generator's getter.             *)
LEMMA CallKeepsInv ==
  ASSUME Inv, NEW t \in Threads, NEW fn \in {"with", "generator"}, NEW c \in Contexts, Call(t, fn, c)
  PROVE  Inv'
<1> DEFINE f == Frame(fn, c)
<1>1. /\ calls' = [calls EXCEPT ![t] = Append(@, f)]
      /\ UNCHANGED <<ntl, throwing, once, lazy>>
  BY DEF Call
<1>2. f \in Frames /\ f.at = "ensure" /\ f.guards = <<>> /\ f.fn \notin Initialisers
  BY DEF Frame, Frames, Fns, Places, Initialisers, Flags
<1>3. Founded(f, once', lazy')
  BY <1>2 DEF Founded, Frame, Initialisers, Flags
<1>4. \A u \in Threads : \A d \in 1 .. Len(calls[u]) : Founded(calls[u][d], once', lazy')
  BY <1>1 DEF Inv, CallsFounded
<1>5. StatesTyped(throwing', once', lazy')
  BY <1>1 DEF StatesTyped, Inv, Types
<1> HIDE DEF f
<1>6. Kept'
  BY <1>1, <1>2, <1>3, <1>4, <1>5, PushKeeps
<1> QED
  BY <1>1, <1>6 DEF Inv, Kept, LazyStateDeterministic

(* The first to pass a flag enters its initialiser, alone.                 *)
LEMMA EnterOnceKeepsInv ==
  ASSUME Inv, NEW t \in Threads, EnterOnce(t)
  PROVE  Inv'
<1> DEFINE top == Top(t)
           flag == Awaits(top.fn)
           f == Frame(flag, top.ctx)
<1>1. /\ calls[t] # <<>> /\ once[top.ctx][flag] = "none"
      /\ once' = [once EXCEPT ![top.ctx][flag] = "running"]
      /\ calls' = [calls EXCEPT ![t] = Append(@, f)]
      /\ UNCHANGED <<ntl, throwing, lazy>>
  BY DEF EnterOnce, AtOnce, Running, FlagOf
<1>2. top \in Frames /\ top.ctx \in Contexts /\ flag \in Flags
  BY <1>1, TopIs DEF Frames, Awaits, Flags
<1> HIDE DEF top, flag
<1>3. f \in Frames /\ f.at = "ensure" /\ f.guards = <<>> /\ f.fn = flag /\ f.ctx = top.ctx
  BY <1>2 DEF Frame, Frames, Fns, Places, Flags
<1>4. Founded(f, once', lazy')
  BY <1>1, <1>2, <1>3 DEF Founded, Initialisers, Inv, Types
<1>5. ASSUME NEW u \in Threads, NEW d \in 1 .. Len(calls[u])
      PROVE  /\ Founded(calls[u][d], once', lazy')
             /\ ~(calls[u][d].fn = f.fn /\ calls[u][d].ctx = f.ctx)
  <2>1. Founded(calls[u][d], once, lazy) /\ calls[u][d] \in Frames
    BY ElementOfSeq DEF Inv, CallsFounded, Types
  <2>2. ~(calls[u][d].fn = f.fn /\ calls[u][d].ctx = f.ctx)
    BY <1>1, <1>2, <1>3, <2>1 DEF Founded, Initialisers
  <2>3. Founded(calls[u][d], once', lazy')
    BY <1>1, <1>2, <1>3, <2>1, <2>2
    DEF Founded, Inv, Types, Frames, Initialisers, Flags
  <2> QED
    BY <2>2, <2>3
<1>6. StatesTyped(throwing', once', lazy')
  BY <1>1, <1>2 DEF StatesTyped, Inv, Types
<1> HIDE DEF f
<1>7. Kept'
  BY <1>1, <1>3, <1>4, <1>5, <1>6, PushKeeps
<1>8. LazyStateDeterministic'
  BY <1>1, <1>2 DEF Inv, Types, LazyStateDeterministic, Flags
<1> QED
  BY <1>7, <1>8 DEF Inv, Kept

(* The caller goes on past its flag, which is ready.                       *)
LEMMA PassOnceKeepsInv ==
  ASSUME Inv, NEW t \in Threads, PassOnce(t)
  PROVE  Inv'
<1> DEFINE f == [Top(t) EXCEPT !.at = "go"]
<1>1. /\ calls[t] # <<>> /\ Top(t).at = "ensure" /\ Top(t).fn # "backend"
      /\ once[Top(t).ctx][Awaits(Top(t).fn)] = "ready"
      /\ calls' = WithTop(t, f) /\ UNCHANGED <<ntl, throwing, once, lazy>>
  BY DEF PassOnce, AtOnce, Running, FlagOf
<1>2. Top(t) \in Frames /\ Founded(Top(t), once, lazy) /\ ntl[t] \in Holdings
  BY <1>1, TopIs
<1>3. /\ f \in Frames /\ f.fn = Top(t).fn /\ f.ctx = Top(t).ctx /\ f.at = "go"
      /\ f.guards = Top(t).guards
  BY <1>2 DEF Frames, Places
<1>4. Founded(f, once', lazy')
  BY <1>1, <1>2, <1>3 DEF Founded, Awaits
<1>5. \A below \in Holdings : Fits(Top(t), below, ntl[t]) => Fits(f, below, ntl[t])
  BY <1>1, <1>3 DEF Fits, Undoes, Installed
<1>6. StatesTyped(throwing', once', lazy') /\ ntl' = [ntl EXCEPT ![t] = ntl[t]]
  BY <1>1 DEF StatesTyped, Inv, Types
<1>7. \A u \in Threads : \A d \in 1 .. Len(calls[u]) : Founded(calls[u][d], once', lazy')
  BY <1>1 DEF Inv, CallsFounded
<1> HIDE DEF f
<1>8. Kept'
  BY <1>1, <1>2, <1>3, <1>4, <1>5, <1>6, <1>7, ReplaceKeeps
<1> QED
  BY <1>1, <1>8 DEF Inv, Kept, LazyStateDeterministic
-----------------------------------------------------------------------------
(* Push: slots get new values, each with a guard, in a call that has not   *)
(* changed them yet.                                                       *)
Moved(t, order, at) ==
  [Top(t) EXCEPT !.at = at, !.guards = @ \o [k \in DOMAIN order |-> Guard(t, order[k])]]
Filled(t, values) == [s \in Slots |-> IF s \in DOMAIN values THEN values[s] ELSE ntl[t][s]]

MayPush(t, values, order, at) ==
  /\ calls[t] # <<>> /\ order \in Seq(Slots) /\ at \in Places
  /\ DOMAIN values \subseteq Slots
  /\ \A s \in DOMAIN values : values[s] \in Values /\ \E k \in DOMAIN order : order[k] = s
  /\ \A k \in DOMAIN order, j \in DOMAIN Top(t).guards : Top(t).guards[j].slot # order[k]

(* Where the call goes on, the slots hold what it relies on.               *)
Settles(t, values, order, at) ==
  \A f \in Frames :
    /\ f.fn = Top(t).fn /\ f.ctx = Top(t).ctx /\ f.at = at
    /\ Top(t).guards = <<>> =>
         \A k \in DOMAIN f.guards : \E j \in DOMAIN order : f.guards[k].slot = order[j]
    => Installed(f, Filled(t, values)) /\ Founded(f, once, lazy)

(* Any step that guards some slots and fills them.                         *)
LEMMA PushSlotsKeeps ==
  ASSUME Inv, NEW t \in Threads, NEW values, NEW order, NEW at,
         MayPush(t, values, order, at), Settles(t, values, order, at),
         Push(t, values, order, at), UNCHANGED <<throwing, once, lazy>>
  PROVE  Inv'
<1> DEFINE f == Moved(t, order, at)
           next == Filled(t, values)
<1> DEFINE added == [k \in DOMAIN order |-> Guard(t, order[k])]
<1>1. /\ calls[t] # <<>> /\ order \in Seq(Slots) /\ at \in Places
      /\ \A k \in DOMAIN order, j \in DOMAIN Top(t).guards : Top(t).guards[j].slot # order[k]
  BY DEF MayPush
<1>2. Top(t) \in Frames /\ ntl[t] \in Holdings /\ Top(t).guards \in Seq(Guards)
  BY <1>1, TopIs DEF Frames
<1>3. next \in Holdings /\ \A s \in Slots : next[s] # ntl[t][s] => \E k \in DOMAIN order : order[k] = s
  BY <1>2 DEF MayPush, Holdings, Filled
<1>4. /\ added \in Seq(Guards) /\ DOMAIN added = DOMAIN order
      /\ \A k \in DOMAIN order : added[k] = [slot |-> order[k], old |-> ntl[t][order[k]]]
  <2>1. DOMAIN order = 1 .. Len(order) /\ Len(order) \in Nat
    BY <1>1, LenProperties
  <2>2. \A k \in 1 .. Len(order) : order[k] \in Slots
    BY <1>1, ElementOfSeq
  <2>3. \A k \in 1 .. Len(order) : Guard(t, order[k]) \in Guards
    BY <1>2, <2>2 DEF Guard, Guards, Holdings
  <2>4. added \in [1 .. Len(order) -> Guards]
    BY <2>1, <2>3
  <2>5. added \in Seq(Guards)
    BY <2>1, <2>4, SeqDef
  <2> QED
    BY <2>1, <2>5 DEF Guard
<1>5. /\ f.guards = Top(t).guards \o added
      /\ f.fn = Top(t).fn /\ f.ctx = Top(t).ctx /\ f.at = at
      /\ f = [fn |-> f.fn, ctx |-> f.ctx, at |-> f.at, guards |-> f.guards]
  <2>1. f = [Top(t) EXCEPT !.at = at, !.guards = @ \o added]
    BY DEF Moved
  <2> HIDE DEF added, f
  <2> QED
    BY <1>2, <2>1 DEF Frames
<1> HIDE DEF added
<1>6. f.guards \in Seq(Guards)
  <2> DEFINE g == Top(t).guards
  <2>1. g \in Seq(Guards)
    BY <1>2
  <2> HIDE DEF g
  <2>2. g \o added \in Seq(Guards)
    BY <1>4, <2>1, ConcatProperties
  <2> QED
    BY <1>5, <2>2 DEF g
<1>7. f \in Frames
  BY <1>1, <1>2, <1>5, <1>6 DEF Frames
<1> HIDE DEF f
<1>8. Installed(f, next) /\ Founded(f, once, lazy)
  <2>1. ASSUME Top(t).guards = <<>>, NEW k \in DOMAIN f.guards
        PROVE  \E j \in DOMAIN order : f.guards[k].slot = order[j]
    <3>1. f.guards = added
      BY <1>4, <1>5, <2>1, ConcatEmptySeq
    <3> QED
      BY <1>4, <2>1, <3>1
  <2> QED
    BY <1>5, <1>7, <2>1 DEF Settles
<1> HIDE DEF next
<1>9. GuardsAdded(Top(t), f, order, added, ntl[t], next)
  BY <1>1, <1>2, <1>3, <1>4, <1>5, <1>7 DEF GuardsAdded
<1>10. \A below \in Holdings : Fits(Top(t), below, ntl[t]) => Fits(f, below, next)
  BY <1>8, <1>9, PushUndoes DEF Fits
<1>11. calls' = WithTop(t, f) /\ ntl' = [ntl EXCEPT ![t] = next]
  BY DEF Push, Inv, Types, f, next, Moved, Filled
<1>12. StatesTyped(throwing', once', lazy')
  BY DEF StatesTyped, Inv, Types
<1>13. /\ Founded(f, once', lazy')
       /\ \A u \in Threads : \A d \in 1 .. Len(calls[u]) : Founded(calls[u][d], once', lazy')
  BY <1>8 DEF Inv, CallsFounded
<1>14. Kept'
  BY <1>1, <1>3, <1>5, <1>7, <1>10, <1>11, <1>12, <1>13, ReplaceKeeps
<1> QED
  BY <1>14 DEF Inv, Kept, LazyStateDeterministic

(* The extension of a ring whose flag is ready.                            *)
LEMMA ReadyExtension ==
  ASSUME Inv, NEW c \in Contexts, once[c]["backend"] = "ready"
  PROVE  lazy[c].extension = RightExtension(c)
  BY DEF Inv, LazyStateDeterministic

(* The backend initialiser installs the prime, with its own stream.        *)
LEMMA EnterPrimeKeepsInv ==
  ASSUME Inv, NEW t \in Threads, EnterPrime(t)
  PROVE  Inv'
<1> DEFINE c == Top(t).ctx
           order == <<"p", "stream">>
           values == [p |-> Prime(c), stream |-> Seed(c, "backend")]
<1>1. /\ calls[t] # <<>> /\ Top(t).fn = "backend" /\ Top(t).at = "ensure"
      /\ Push(t, values, order, "find") /\ UNCHANGED <<throwing, once, lazy>>
  BY DEF EnterPrime, Running
<1>2. /\ Top(t) \in Frames /\ Founded(Top(t), once, lazy) /\ c \in Contexts
      /\ Top(t).guards = <<>>
  BY <1>1, TopIs DEF Fits, Installed, Frames
<1>3. MayPush(t, values, order, "find")
  BY <1>1, <1>2 DEF MayPush, Slots, Places, Values, Flags
<1>4. Settles(t, values, order, "find")
  BY <1>1, <1>2 DEF Settles, Installed, Filled, Slots, Founded
<1> HIDE DEF order, values
<1> QED
  BY <1>1, <1>3, <1>4, PushSlotsKeeps

(* Lifting the polynomial runs under the prime power.                      *)
LEMMA EnterPowerKeepsInv ==
  ASSUME Inv, NEW t \in Threads, EnterPower(t)
  PROVE  Inv'
<1> DEFINE c == Top(t).ctx
           order == <<"p">>
           values == [p |-> Power(c)]
<1>1. /\ calls[t] # <<>> /\ Top(t).fn = "backend" /\ Top(t).at = "lift"
      /\ Push(t, values, order, "convert") /\ UNCHANGED <<throwing, once, lazy>>
  BY DEF EnterPower, Running
<1>2. /\ Top(t) \in Frames /\ Founded(Top(t), once, lazy) /\ c \in Contexts
      /\ Top(t).guards = <<>>
  BY <1>1, TopIs DEF Fits, Installed, Frames
<1>3. MayPush(t, values, order, "convert")
  BY <1>1, <1>2 DEF MayPush, Slots, Places, Values
<1>4. Settles(t, values, order, "convert")
  BY <1>1, <1>2 DEF Settles, Installed, Filled, Slots, Founded
<1> HIDE DEF order, values
<1> QED
  BY <1>1, <1>3, <1>4, PushSlotsKeeps

(* The generator's search runs in the ring, with its own stream.           *)
LEMMA EnterRingKeepsInv ==
  ASSUME Inv, NEW t \in Threads, EnterRing(t)
  PROVE  Inv'
<1> DEFINE c == Top(t).ctx
           drawn == [p |-> Power(c), e |-> lazy[c].extension, stream |-> Seed(c, "teich")]
           ring == [p |-> Power(c), e |-> lazy[c].extension]
<1>1. /\ calls[t] # <<>> /\ Top(t).fn = "teich" /\ Top(t).at = "go"
      /\ IF c \in VendorSearch THEN Push(t, drawn, <<"stream", "p", "e">>, "find")
                               ELSE Push(t, ring, <<"p", "e">>, "find")
      /\ UNCHANGED <<throwing, once, lazy>>
  BY DEF EnterRing, Running
<1>2. /\ Top(t) \in Frames /\ Founded(Top(t), once, lazy) /\ c \in Contexts
      /\ Top(t).guards = <<>>
  BY <1>1, TopIs DEF Fits, Installed, Frames
<1>3. lazy[c].extension = RightExtension(c)
  BY <1>1, <1>2, ReadyExtension DEF Founded
<1>4. CASE c \in VendorSearch
  <2> DEFINE order == <<"stream", "p", "e">>
  <2>1. MayPush(t, drawn, order, "find")
    BY <1>1, <1>2, <1>3 DEF MayPush, Slots, Places, Values, Flags
  <2>2. Settles(t, drawn, order, "find")
    BY <1>1, <1>2, <1>3 DEF Settles, Installed, Filled, Slots, Founded
  <2>3. Push(t, drawn, order, "find")
    BY <1>1, <1>4
  <2> HIDE DEF order, drawn
  <2> QED
    BY <1>1, <2>1, <2>2, <2>3, PushSlotsKeeps
<1>5. CASE c \notin VendorSearch
  <2> DEFINE order == <<"p", "e">>
  <2>1. MayPush(t, ring, order, "find")
    BY <1>1, <1>2, <1>3 DEF MayPush, Slots, Places, Values
  <2>2. Settles(t, ring, order, "find")
    BY <1>1, <1>2, <1>3, <1>5 DEF Settles, Installed, Filled, Slots, Founded
  <2>3. Push(t, ring, order, "find")
    BY <1>1, <1>5
  <2> HIDE DEF order, ring
  <2> QED
    BY <1>1, <2>1, <2>2, <2>3, PushSlotsKeeps
<1> QED
  BY <1>4, <1>5

(* with_ntl_context installs its modulus.                                  *)
LEMMA PushModulusKeepsInv ==
  ASSUME Inv, NEW t \in Threads, PushModulus(t)
  PROVE  Inv'
<1> DEFINE c == Top(t).ctx
           order == <<"p">>
           values == [p |-> Power(c)]
<1>1. /\ calls[t] # <<>> /\ Top(t).fn = "with" /\ Top(t).at = "go"
      /\ Push(t, values, order, "push") /\ UNCHANGED <<throwing, once, lazy>>
  BY DEF PushModulus, Running
<1>2. /\ Top(t) \in Frames /\ Founded(Top(t), once, lazy) /\ c \in Contexts
      /\ Top(t).guards = <<>>
  BY <1>1, TopIs DEF Fits, Installed, Frames
<1>3. MayPush(t, values, order, "push")
  BY <1>1, <1>2 DEF MayPush, Slots, Places, Values
<1>4. Settles(t, values, order, "push")
  BY <1>1, <1>2 DEF Settles, Installed, Filled, Slots, Founded, Initialisers, Flags
<1> HIDE DEF order, values
<1> QED
  BY <1>1, <1>3, <1>4, PushSlotsKeeps

(* Then its extension: the body runs in the ring.                          *)
LEMMA PushExtensionKeepsInv ==
  ASSUME Inv, NEW t \in Threads, PushExtension(t)
  PROVE  Inv'
<1> DEFINE c == Top(t).ctx
           order == <<"e">>
           values == [e |-> lazy[c].extension]
<1>1. /\ calls[t] # <<>> /\ Top(t).fn = "with" /\ Top(t).at = "push"
      /\ Push(t, values, order, "body") /\ UNCHANGED <<throwing, once, lazy>>
  BY DEF PushExtension, Running
<1>2. /\ Top(t) \in Frames /\ Founded(Top(t), once, lazy) /\ c \in Contexts
      /\ \A k \in DOMAIN Top(t).guards : Top(t).guards[k].slot = "p"
      /\ ntl[t]["p"] = Power(c)
  BY <1>1, TopIs DEF Fits, Installed, Frames
<1>3. lazy[c].extension = RightExtension(c)
  BY <1>1, <1>2, ReadyExtension DEF Founded
<1>4. MayPush(t, values, order, "body")
  BY <1>1, <1>2, <1>3 DEF MayPush, Slots, Places, Values
<1>5. Settles(t, values, order, "body")
  BY <1>1, <1>2, <1>3 DEF Settles, Installed, Filled, Slots, Founded, Initialisers, Flags
<1> HIDE DEF order, values
<1> QED
  BY <1>1, <1>4, <1>5, PushSlotsKeeps

-----------------------------------------------------------------------------
(* The scopes of an initialiser end: what NTL held comes back, and only    *)
(* the initialiser writes its ring's lazy state.                           *)

(* The call's guards undo what it changed, whatever it does next.          *)
LEMMA ScopeFits ==
  ASSUME NEW f \in Frames, NEW g \in Frames, NEW holding \in Holdings,
         g.guards = <<>>, g.at \in {"lift", "done"}
  PROVE  \A below \in Holdings :
           Fits(f, below, holding) => Fits(g, below, Restore(holding, f.guards))
  BY RestoreUndoes DEF Fits, Undoes, Installed

(* An initialiser's scope ends, with a result.                             *)
LEMMA LeaveScopeKeeps ==
  ASSUME Inv, NEW t \in Threads, calls[t] # <<>>, NEW at \in {"lift", "done"},
         Top(t).fn \in Initialisers,
         LeaveScope(t, at), UNCHANGED <<throwing, once>>,
         lazy' \in [Contexts -> [base : Bases, extension : Extensions, generator : Generators]],
         \A f \in Frames : f.fn = Top(t).fn /\ f.ctx = Top(t).ctx /\ f.at = at
                           => Founded(f, once, lazy'),
         \A f \in Frames : f.fn \in Initialisers /\ ~(f.fn = Top(t).fn /\ f.ctx = Top(t).ctx)
                           => (Founded(f, once, lazy) => Founded(f, once, lazy'))
  PROVE  Kept'
<1> DEFINE f == [Top(t) EXCEPT !.at = at, !.guards = <<>>]
           next == Restore(ntl[t], Top(t).guards)
<1>1. Top(t) \in Frames /\ ntl[t] \in Holdings
  BY TopIs
<1>2. /\ f \in Frames /\ f.fn = Top(t).fn /\ f.ctx = Top(t).ctx
      /\ f.at = at /\ f.guards = <<>>
  <2>1. <<>> \in Seq(Guards) /\ at \in Places
    BY EmptySeq DEF Places
  <2> DEFINE none == <<>>
             top == Top(t)
  <2>2. top \in Frames /\ none \in Seq(Guards) /\ f = [top EXCEPT !.at = at, !.guards = none]
    BY <1>1, <2>1
  <2> HIDE DEF none, top, f
  <2>3. f \in Frames /\ f.fn = top.fn /\ f.ctx = top.ctx /\ f.at = at /\ f.guards = none
    BY <2>1, <2>2 DEF Frames
  <2> QED
    BY <2>3 DEF none, top
<1>3. calls' = WithTop(t, f) /\ ntl' = [ntl EXCEPT ![t] = next]
  BY DEF LeaveScope, Inv, Types
<1> HIDE DEF f
<1>4. \A below \in Holdings : Fits(Top(t), below, ntl[t]) => Fits(f, below, next)
  BY <1>1, <1>2, ScopeFits
<1>5. next \in Holdings
  <2>1. PICK below \in Holdings : Fits(Top(t), below, ntl[t])
    BY TopIs
  <2> QED
    BY <1>1, <2>1, RestoreUndoes DEF Fits
<1> HIDE DEF next
<1>6. Founded(f, once', lazy')
  BY <1>2
<1>7. ASSUME NEW u \in Threads, NEW d \in 1 .. Len(calls[u]), ~(u = t /\ d = Len(calls[t]))
      PROVE  Founded(calls[u][d], once', lazy')
  <2>1. calls[u][d] \in Frames /\ Founded(calls[u][d], once, lazy)
    BY ElementOfSeq DEF Inv, CallsFounded, Types
  <2>2. CASE calls[u][d].fn \in Initialisers
    <3>1. ~(calls[u][d].fn = Top(t).fn /\ calls[u][d].ctx = Top(t).ctx)
      BY <1>7, OthersDiffer
    <3> QED
      BY <2>1, <2>2, <3>1
  <2>3. CASE calls[u][d].fn \notin Initialisers
    BY <2>1, <2>3 DEF Founded, Initialisers, Flags
  <2> QED
    BY <2>2, <2>3
<1>8. StatesTyped(throwing', once', lazy')
  BY DEF StatesTyped, Inv, Types
<1> QED
  BY <1>2, <1>3, <1>4, <1>5, <1>6, <1>7, <1>8, ReplaceKeeps

(* The polynomial found is the one the context determines.                 *)
LEMMA FindPolynomialKeepsInv ==
  ASSUME Inv, NEW t \in Threads, FindPolynomial(t)
  PROVE  Inv'
<1> DEFINE c == Top(t).ctx
           found == [p |-> ntl[t].p, stream |-> ntl[t].stream]
<1>1. /\ calls[t] # <<>> /\ Top(t).fn = "backend" /\ Top(t).at = "find"
      /\ lazy' = [lazy EXCEPT ![c].base = found]
      /\ LeaveScope(t, "lift") /\ UNCHANGED <<throwing, once>>
  BY DEF FindPolynomial, Running
<1>2. /\ Top(t) \in Frames /\ Founded(Top(t), once, lazy) /\ c \in Contexts
      /\ ntl[t] \in Holdings /\ found = RightBase(c)
  BY <1>1, TopIs DEF Fits, Installed, Frames, RightBase
<1>3. found \in Bases
  BY <1>2 DEF Bases, Holdings, Slots
<1> HIDE DEF found
<1>4. lazy' \in [Contexts -> [base : Bases, extension : Extensions, generator : Generators]]
  BY <1>1, <1>2, <1>3 DEF Inv, Types
<1>5. \A f \in Frames : f.fn = Top(t).fn /\ f.ctx = c /\ f.at = "lift" => Founded(f, once, lazy')
  BY <1>1, <1>2 DEF Founded, Inv, Types
<1>6. \A f \in Frames : f.fn \in Initialisers /\ ~(f.fn = Top(t).fn /\ f.ctx = c)
                       => (Founded(f, once, lazy) => Founded(f, once, lazy'))
  BY <1>1, <1>2 DEF Founded, Inv, Types, Frames, Initialisers, Flags
<1>7. Kept'
  BY <1>1, <1>4, <1>5, <1>6, LeaveScopeKeeps DEF Initialisers, Flags
<1>8. LazyStateDeterministic'
  BY <1>1, <1>2 DEF Inv, Types, LazyStateDeterministic
<1> QED
  BY <1>7, <1>8 DEF Inv, Kept

(* So is its lift.                                                         *)
LEMMA LiftPolynomialKeepsInv ==
  ASSUME Inv, NEW t \in Threads, LiftPolynomial(t)
  PROVE  Inv'
<1> DEFINE c == Top(t).ctx
           lifted == [of |-> lazy[c].base, p |-> ntl[t].p]
<1>1. /\ calls[t] # <<>> /\ Top(t).fn = "backend" /\ Top(t).at = "convert"
      /\ lazy' = [lazy EXCEPT ![c].extension = lifted]
      /\ LeaveScope(t, "done") /\ UNCHANGED <<throwing, once>>
  BY DEF LiftPolynomial, Running
<1>2. /\ Top(t) \in Frames /\ Founded(Top(t), once, lazy) /\ c \in Contexts
      /\ ntl[t] \in Holdings /\ ntl[t].p = Power(c)
  BY <1>1, TopIs DEF Fits, Installed, Frames
<1>3. lazy[c].base = RightBase(c) /\ lifted = RightExtension(c) /\ once[c]["backend"] = "running"
  BY <1>1, <1>2 DEF Founded, RightExtension, Initialisers, Flags
<1>4. lifted \in Extensions
  BY <1>2, <1>3 DEF Extensions, Inv, Types, Holdings, Slots
<1> HIDE DEF lifted
<1>5. lazy' \in [Contexts -> [base : Bases, extension : Extensions, generator : Generators]]
  BY <1>1, <1>2, <1>4 DEF Inv, Types
<1>6. \A f \in Frames : f.fn = Top(t).fn /\ f.ctx = c /\ f.at = "done" => Founded(f, once, lazy')
  BY <1>1, <1>2, <1>3 DEF Founded, Inv, Types, Initialisers, Flags
<1>7. \A f \in Frames : f.fn \in Initialisers /\ ~(f.fn = Top(t).fn /\ f.ctx = c)
                       => (Founded(f, once, lazy) => Founded(f, once, lazy'))
  BY <1>1, <1>2 DEF Founded, Inv, Types, Frames, Initialisers, Flags
<1>8. Kept'
  BY <1>1, <1>5, <1>6, <1>7, LeaveScopeKeeps DEF Initialisers, Flags
<1>9. LazyStateDeterministic'
  BY <1>1, <1>2, <1>3 DEF Inv, Types, LazyStateDeterministic
<1> QED
  BY <1>8, <1>9 DEF Inv, Kept

(* So is the generator.                                                    *)
LEMMA FindGeneratorKeepsInv ==
  ASSUME Inv, NEW t \in Threads, FindGenerator(t)
  PROVE  Inv'
<1> DEFINE c == Top(t).ctx
           found == [p |-> ntl[t].p, e |-> ntl[t].e,
                     stream |-> IF c \in VendorSearch THEN ntl[t].stream ELSE None]
<1>1. /\ calls[t] # <<>> /\ Top(t).fn = "teich" /\ Top(t).at = "find"
      /\ lazy' = [lazy EXCEPT ![c].generator = found]
      /\ LeaveScope(t, "done") /\ UNCHANGED <<throwing, once>>
  BY DEF FindGenerator, Running
<1>2. /\ Top(t) \in Frames /\ Founded(Top(t), once, lazy) /\ c \in Contexts
      /\ ntl[t] \in Holdings /\ found = RightGenerator(c)
  BY <1>1, TopIs DEF Fits, Installed, Frames, RightGenerator, Draws
<1>3. found \in Generators /\ once[c]["teich"] = "running"
  BY <1>1, <1>2 DEF Generators, Holdings, Slots, Values, Founded, Initialisers, Flags
<1> HIDE DEF found
<1>4. lazy' \in [Contexts -> [base : Bases, extension : Extensions, generator : Generators]]
  BY <1>1, <1>2, <1>3 DEF Inv, Types
<1>5. \A f \in Frames : f.fn = Top(t).fn /\ f.ctx = c /\ f.at = "done" => Founded(f, once, lazy')
  BY <1>1, <1>2, <1>3 DEF Founded, Inv, Types, Initialisers, Flags
<1>6. \A f \in Frames : f.fn \in Initialisers /\ ~(f.fn = Top(t).fn /\ f.ctx = c)
                       => (Founded(f, once, lazy) => Founded(f, once, lazy'))
  BY <1>1, <1>2 DEF Founded, Inv, Types, Frames, Initialisers, Flags
<1>7. Kept'
  BY <1>1, <1>4, <1>5, <1>6, LeaveScopeKeeps DEF Initialisers, Flags
<1>8. LazyStateDeterministic'
  BY <1>1, <1>2, <1>3 DEF Inv, Types, LazyStateDeterministic
<1> QED
  BY <1>7, <1>8 DEF Inv, Kept

-----------------------------------------------------------------------------
(* Calls end. *)

(* The initialiser has written what its flag stands for.                   *)
LEMMA FinishOnceKeepsInv ==
  ASSUME Inv, NEW t \in Threads, FinishOnce(t)
  PROVE  Inv'
<1> DEFINE c == Top(t).ctx
           flag == Top(t).fn
<1>1. /\ calls[t] # <<>> /\ flag \in Initialisers /\ Top(t).at = "done"
      /\ once' = [once EXCEPT ![c][flag] = "ready"]
      /\ calls' = [calls EXCEPT ![t] = Front(@)]
      /\ UNCHANGED <<ntl, throwing, lazy>>
  BY DEF FinishOnce, Running
<1>2. Top(t) \in Frames /\ Founded(Top(t), once, lazy) /\ c \in Contexts /\ ntl[t] \in Holdings
  BY <1>1, TopIs DEF Frames
<1>3. once[c][flag] = "running"
  BY <1>1, <1>2 DEF Founded
<1>4. /\ once' \in [Contexts -> [Flags -> {"none", "running", "ready"}]]
      /\ once'[c][flag] = "ready"
      /\ \A k \in Contexts, f \in Flags : ~(k = c /\ f = flag) => once'[k][f] = once[k][f]
  BY <1>1, <1>2 DEF Inv, Types, Initialisers
<1>5. StatesTyped(throwing', once', lazy')
  BY <1>1, <1>4 DEF StatesTyped, Inv, Types
<1>6. ASSUME NEW below \in Holdings, Fits(Top(t), below, ntl[t])
      PROVE  ntl[t] = below
  <2>1. Top(t).guards = <<>>
    BY <1>1, <1>6 DEF Fits, Installed
  <2>2. \A s \in Slots : ntl[t][s] = below[s]
    BY <1>6, <2>1 DEF Fits, Undoes
  <2> QED
    BY <1>2, <2>2 DEF Holdings
<1>7. ASSUME NEW u \in Threads, NEW d \in 1 .. Len(calls[u]), ~(u = t /\ d = Len(calls[t]))
      PROVE  Founded(calls[u][d], once', lazy')
  <2>1. calls[u][d] \in Frames /\ Founded(calls[u][d], once, lazy)
    BY ElementOfSeq DEF Inv, CallsFounded, Types
  <2>2. ~(calls[u][d].fn = flag /\ calls[u][d].ctx = c)
    BY <1>1, <1>7, OthersDiffer
  <2>3. calls[u][d].ctx \in Contexts
    BY <2>1 DEF Frames
  <2> HIDE DEF c, flag
  <2> QED
    BY <1>1, <1>4, <2>1, <2>2, <2>3 DEF Founded, Initialisers, Flags
<1>8. ntl' = [ntl EXCEPT ![t] = ntl[t]]
  BY <1>1 DEF Inv, Types
<1>9. Kept'
  BY <1>1, <1>5, <1>6, <1>7, <1>8, PopKeeps
<1>10. LazyStateDeterministic'
  <2>1. flag = "backend" => lazy[c].extension = RightExtension(c)
    BY <1>1, <1>2 DEF Founded
  <2>2. flag = "teich" => lazy[c].generator = RightGenerator(c)
    BY <1>1, <1>2 DEF Founded
  <2> HIDE DEF c, flag
  <2> QED
    BY <1>1, <1>4, <2>1, <2>2 DEF Inv, LazyStateDeterministic, Initialisers, Flags
<1> QED
  BY <1>9, <1>10 DEF Inv, Kept

(* Leaving a call restores what it was entered with.                       *)
LEMMA LeaveFits ==
  ASSUME Inv, NEW t \in Threads, calls[t] # <<>>, Leave(t)
  PROVE  /\ ntl' = [ntl EXCEPT ![t] = Restore(ntl[t], Top(t).guards)]
         /\ \A below \in Holdings : Fits(Top(t), below, ntl[t])
                                    => Restore(ntl[t], Top(t).guards) = below
<1>1. Top(t) \in Frames /\ ntl[t] \in Holdings
  BY TopIs
<1>2. ntl' = [ntl EXCEPT ![t] = Restore(ntl[t], Top(t).guards)]
  BY DEF Leave, Inv, Types
<1> QED
  BY <1>1, <1>2, RestoreUndoes DEF Fits

(* A call returns to its caller, or an initialiser to who waits for it.    *)
LEMMA ReturnKeepsInv ==
  ASSUME Inv, NEW t \in Threads, Return(t)
  PROVE  Inv'
<1> DEFINE next == Restore(ntl[t], Top(t).guards)
<1>1. /\ calls[t] # <<>> /\ Leave(t) /\ UNCHANGED <<throwing, once, lazy>>
      /\ calls' = [calls EXCEPT ![t] = Front(@)]
  BY DEF Return, InBody, Running, Leave
<1>2. /\ ntl' = [ntl EXCEPT ![t] = next]
      /\ \A below \in Holdings : Fits(Top(t), below, ntl[t]) => next = below
  BY <1>1, LeaveFits
<1>3. /\ StatesTyped(throwing', once', lazy')
      /\ \A u \in Threads : \A d \in 1 .. Len(calls[u]) : Founded(calls[u][d], once', lazy')
  BY <1>1 DEF StatesTyped, Inv, Types, CallsFounded
<1> HIDE DEF next
<1>4. Kept'
  BY <1>1, <1>2, <1>3, PopKeeps
<1> QED
  BY <1>1, <1>4 DEF Inv, Kept, LazyStateDeterministic

(* An exception passes: the flag of an initialiser it leaves is open again, *)
(* and no other call had anything founded on that attempt.                 *)
LEMMA UnwindKeepsInv ==
  ASSUME Inv, NEW t \in Threads, Unwind(t)
  PROVE  Inv'
<1> DEFINE c == Top(t).ctx
           flag == Top(t).fn
           next == Restore(ntl[t], Top(t).guards)
<1>1. /\ calls[t] # <<>> /\ Leave(t) /\ UNCHANGED <<throwing, lazy>>
      /\ calls' = [calls EXCEPT ![t] = Front(@)]
      /\ once' = IF flag \in Initialisers THEN [once EXCEPT ![c][flag] = "none"] ELSE once
  BY DEF Unwind, Leave
<1>2. /\ ntl' = [ntl EXCEPT ![t] = next]
      /\ \A below \in Holdings : Fits(Top(t), below, ntl[t]) => next = below
  BY <1>1, LeaveFits
<1>3. Top(t) \in Frames /\ Founded(Top(t), once, lazy) /\ c \in Contexts
  BY <1>1, TopIs DEF Frames
<1>4. /\ once' \in [Contexts -> [Flags -> {"none", "running", "ready"}]]
      /\ \A k \in Contexts, f \in Flags :
           \/ once'[k][f] = once[k][f]
           \/ k = c /\ f = flag /\ flag \in Initialisers /\ once'[k][f] = "none"
  BY <1>1, <1>3 DEF Inv, Types, Initialisers
<1>5. flag \in Initialisers => once[c][flag] = "running"
  BY <1>3 DEF Founded
<1>6. StatesTyped(throwing', once', lazy')
  BY <1>1, <1>4 DEF StatesTyped, Inv, Types
<1>7. ASSUME NEW u \in Threads, NEW d \in 1 .. Len(calls[u]), ~(u = t /\ d = Len(calls[t]))
      PROVE  Founded(calls[u][d], once', lazy')
  <2>1. calls[u][d] \in Frames /\ Founded(calls[u][d], once, lazy)
    BY ElementOfSeq DEF Inv, CallsFounded, Types
  <2>2. flag \in Initialisers => ~(calls[u][d].fn = flag /\ calls[u][d].ctx = c)
    BY <1>1, <1>7, OthersDiffer
  <2>3. calls[u][d].ctx \in Contexts
    BY <2>1 DEF Frames
  <2> HIDE DEF c, flag
  <2> QED
    BY <1>1, <1>4, <1>5, <2>1, <2>2, <2>3 DEF Founded, Initialisers, Flags
<1> HIDE DEF next
<1>8. Kept'
  BY <1>1, <1>2, <1>6, <1>7, PopKeeps
<1>9. LazyStateDeterministic'
  <2> HIDE DEF c, flag
  <2> QED
    BY <1>1, <1>4 DEF Inv, LazyStateDeterministic, Flags
<1> QED
  BY <1>8, <1>9 DEF Inv, Kept

(* An exception is thrown or caught: the calls stay where they are.        *)
LEMMA ThrowCatchKeepInv ==
  ASSUME Inv, NEW t \in Threads, Throw(t) \/ Catch(t)
  PROVE  Inv'
<1>1. throwing' \in [Threads -> BOOLEAN] /\ UNCHANGED <<ntl, calls, once, lazy>>
  BY DEF Throw, Catch, Inv, Types
<1> QED
  BY <1>1 DEF Inv, Types, Stacks, CallsFounded, OneInitialiser, LazyStateDeterministic

-----------------------------------------------------------------------------
(* The invariant holds, and what follows from it. *)

(* At first no call is running and nothing was computed.                   *)
LEMMA InitEstablishesInv == Init => Inv
<1> SUFFICES ASSUME Init PROVE Inv
  OBVIOUS
<1>1. Caller \in Holdings
  BY DEF Caller, Holdings, Values
<1>2. <<>> \in Seq(Frames)
  BY EmptySeq
<1>3. Types
  BY <1>1, <1>2 DEF Init, Types, Bases, Extensions, Generators
<1>4. StackFits(<<>>, Caller)
  <2> DEFINE env == [d \in 1 .. 1 |-> Caller]
  <2>1. env \in [1 .. 1 -> Holdings] /\ env[1] = Caller
    BY <1>1
  <2> HIDE DEF env
  <2> QED
    BY <2>1 DEF StackFits
<1>5. \A t \in Threads : calls[t] = <<>> /\ ntl[t] = Caller
  BY DEF Init
<1>6. Stacks
  BY <1>4, <1>5 DEF Stacks
<1>7. CallsFounded /\ OneInitialiser
  BY <1>5 DEF CallsFounded, OneInitialiser
<1>8. LazyStateDeterministic
  BY DEF Init, LazyStateDeterministic, Flags
<1> QED
  BY <1>3, <1>6, <1>7, <1>8 DEF Inv

(* Every step of every thread keeps the invariant.                         *)
LEMMA NextKeepsInv == Inv /\ [Next]_vars => Inv'
<1> SUFFICES ASSUME Inv, [Next]_vars PROVE Inv'
  OBVIOUS
<1>1. ASSUME NEW t \in Threads, NEW fn \in {"with", "generator"}, NEW c \in Contexts, Call(t, fn, c)
      PROVE  Inv'
  BY <1>1, CallKeepsInv
<1>2. ASSUME NEW t \in Threads, Initialise(t)
      PROVE  Inv'
  BY <1>2, EnterPrimeKeepsInv, FindPolynomialKeepsInv, EnterPowerKeepsInv, LiftPolynomialKeepsInv,
     EnterRingKeepsInv, FindGeneratorKeepsInv, FinishOnceKeepsInv DEF Initialise
<1>3. ASSUME NEW t \in Threads, Proceed(t)
      PROVE  Inv'
  BY <1>2, <1>3, EnterOnceKeepsInv, PassOnceKeepsInv, PushModulusKeepsInv, PushExtensionKeepsInv
  DEF Proceed
<1>4. ASSUME NEW t \in Threads, Return(t) \/ Throw(t) \/ Unwind(t) \/ Catch(t)
      PROVE  Inv'
  BY <1>4, ReturnKeepsInv, UnwindKeepsInv, ThrowCatchKeepInv
<1>5. CASE UNCHANGED vars
  BY <1>5 DEF vars, Inv, Types, Stacks, CallsFounded, OneInitialiser, LazyStateDeterministic
<1> QED
  BY <1>1, <1>3, <1>4, <1>5 DEF Next

(* Whatever threads do, nest, throw and catch: types, stacks that lead     *)
(* back to the caller's context, calls founded on what they rely on.       *)
THEOREM Invariance == Spec => []Inv
<1> QED
  BY InitEstablishesInv, NextKeepsInv, PTL DEF Spec

(* Inside the body given to with_ntl_context the thread's modulus and      *)
(* extension are the context's, after any nested call and any exception.   *)
THEOREM BodiesInContext == Spec => []BodyInContext
<1>1. ASSUME Inv PROVE BodyInContext
  <2> SUFFICES ASSUME NEW t \in Threads, InBody(t)
               PROVE  ntl[t].p = Power(Top(t).ctx) /\ ntl[t].e = RightExtension(Top(t).ctx)
    BY DEF BodyInContext
  <2>1. calls[t] # <<>> /\ Top(t).fn = "with" /\ Top(t).at = "body"
    BY DEF InBody, Running
  <2> QED
    BY <1>1, <2>1, TopIs DEF Fits, Installed
<1> QED
  BY <1>1, Invariance, PTL

(* The polynomial and the generator of a ring do not depend on the thread  *)
(* that computed them, nor on what it had installed.                       *)
THEOREM LazyStatesDeterministic == Spec => []LazyStateDeterministic
<1>1. Inv => LazyStateDeterministic
  BY DEF Inv
<1> QED
  BY <1>1, Invariance, PTL

(* A thread out of every call has what it came with.                       *)
THEOREM CallsLeaveNoTrace == Spec => []LeavesNoTrace
<1>1. Inv => LeavesNoTrace
  BY EmptyFits DEF Inv, Stacks, LeavesNoTrace
<1> QED
  BY <1>1, Invariance, PTL

(* What a step does to the flags and the lazy state.                       *)
Published(c) ==
  /\ once[c]["backend"] = "ready" =>
       once'[c]["backend"] = "ready" /\ lazy'[c].extension = lazy[c].extension
  /\ once[c]["teich"] = "ready" =>
       once'[c]["teich"] = "ready" /\ lazy'[c].generator = lazy[c].generator

(* Around the initialisers, what is published stays.                       *)
LEMMA InitialisersPublishOnce ==
  ASSUME Inv, NEW t \in Threads, NEW c \in Contexts,
         Initialise(t) \/ EnterOnce(t) \/ Unwind(t)
  PROVE  Published(c)
<1> USE DEF Published
<1>1. /\ once \in [Contexts -> [Flags -> {"none", "running", "ready"}]]
      /\ lazy \in [Contexts -> [base : Bases, extension : Extensions, generator : Generators]]
      /\ calls[t] # <<>> => Top(t).ctx \in Contexts /\ Founded(Top(t), once, lazy)
  BY TopIs DEF Inv, Types, Frames
<1>2. CASE EnterOnce(t)
  <2>1. /\ calls[t] # <<>> /\ once[Top(t).ctx][Awaits(Top(t).fn)] = "none"
        /\ once' = [once EXCEPT ![Top(t).ctx][Awaits(Top(t).fn)] = "running"] /\ lazy' = lazy
    BY <1>2 DEF EnterOnce, AtOnce, Running, FlagOf
  <2> QED
    BY <1>1, <2>1 DEF Flags, Awaits
<1>3. CASE EnterPrime(t) \/ EnterPower(t) \/ EnterRing(t)
  BY <1>3 DEF EnterPrime, EnterPower, EnterRing
<1>4. CASE FindPolynomial(t)
  <2>1. /\ once' = once
        /\ lazy' = [lazy EXCEPT ![Top(t).ctx].base = [p |-> ntl[t].p, stream |-> ntl[t].stream]]
    BY <1>4 DEF FindPolynomial
  <2> QED
    BY <1>1, <2>1
<1>5. CASE LiftPolynomial(t)
  <2>1. /\ calls[t] # <<>> /\ Top(t).fn = "backend" /\ once' = once
        /\ lazy' = [lazy EXCEPT ![Top(t).ctx].extension =
                                  [of |-> lazy[Top(t).ctx].base, p |-> ntl[t].p]]
    BY <1>5 DEF LiftPolynomial, Running
  <2>2. once[Top(t).ctx]["backend"] = "running"
    BY <1>1, <2>1 DEF Founded, Initialisers, Flags
  <2> QED
    BY <1>1, <2>1, <2>2
<1>6. CASE FindGenerator(t)
  <2> DEFINE found == [p |-> ntl[t].p, e |-> ntl[t].e,
                       stream |-> IF Top(t).ctx \in VendorSearch THEN ntl[t].stream ELSE None]
  <2>1. /\ calls[t] # <<>> /\ Top(t).fn = "teich" /\ once' = once
        /\ lazy' = [lazy EXCEPT ![Top(t).ctx].generator = found]
    BY <1>6 DEF FindGenerator, Running
  <2>2. once[Top(t).ctx]["teich"] = "running"
    BY <1>1, <2>1 DEF Founded, Initialisers, Flags
  <2> HIDE DEF found
  <2> QED
    BY <1>1, <2>1, <2>2
<1>7. CASE FinishOnce(t)
  <2>1. /\ once' = [once EXCEPT ![Top(t).ctx][Top(t).fn] = "ready"] /\ lazy' = lazy
    BY <1>7 DEF FinishOnce
  <2> QED
    BY <1>1, <2>1 DEF Flags
<1>8. CASE Unwind(t)
  <2>1. /\ calls[t] # <<>> /\ lazy' = lazy
        /\ once' = IF Top(t).fn \in Initialisers
                   THEN [once EXCEPT ![Top(t).ctx][Top(t).fn] = "none"] ELSE once
    BY <1>8 DEF Unwind
  <2>2. Top(t).fn \in Initialisers => once[Top(t).ctx][Top(t).fn] = "running"
    BY <1>1, <2>1 DEF Founded
  <2> QED
    BY <1>1, <2>1, <2>2 DEF Flags, Initialisers
<1> QED
  BY <1>2, <1>3, <1>4, <1>5, <1>6, <1>7, <1>8 DEF Initialise

(* What readers hold references into is not written again once published.  *)
THEOREM LazyStatesPublishedOnce == Spec => PublishedOnce
<1>1. ASSUME Inv, [Next]_vars
      PROVE  \A c \in Contexts : Published(c)
  <2>1. ASSUME NEW t \in Threads, Initialise(t) \/ EnterOnce(t) \/ Unwind(t), NEW c \in Contexts
        PROVE  Published(c)
    BY <1>1, <2>1, InitialisersPublishOnce
  <2>2. ASSUME UNCHANGED <<once, lazy>>
        PROVE  \A c \in Contexts : Published(c)
    BY <2>2 DEF Published
  <2>3. ASSUME NEW t \in Threads, Proceed(t)
        PROVE  \A c \in Contexts : Published(c)
    BY <2>1, <2>2, <2>3 DEF Proceed, PassOnce, PushModulus, PushExtension
  <2>4. ASSUME NEW t \in Threads, NEW fn, NEW k,
               Call(t, fn, k) \/ Return(t) \/ Throw(t) \/ Unwind(t) \/ Catch(t)
        PROVE  \A c \in Contexts : Published(c)
    BY <2>1, <2>2, <2>4 DEF Call, Return, Throw, Catch
  <2> QED
    BY <1>1, <2>2, <2>3, <2>4 DEF Next, vars
<1>2. (\A c \in Contexts : Published(c)) =>
        \A c \in Contexts :
          /\ once[c]["backend"] = "ready" =>
               once'[c]["backend"] = "ready" /\ lazy'[c].extension = lazy[c].extension
          /\ once[c]["teich"] = "ready" =>
               once'[c]["teich"] = "ready" /\ lazy'[c].generator = lazy[c].generator
  BY DEF Published
<1> QED
  BY <1>1, <1>2, Invariance, PTL DEF Spec, PublishedOnce

-----------------------------------------------------------------------------
(* The plan cache *)

Phases == {"idle", "build", "insert", "use"}

(* The variables hold what their comments say. *)
CacheTypes ==
  /\ heap \in [Addresses -> Configs \cup {None}]
  /\ held \in [Threads -> Addresses \cup {None}]
  /\ pc \in [Threads -> Phases]
  /\ shape \in [Threads -> Shapes \cup {None}]
  /\ plan \in [Threads -> Plans \cup {None}]
  /\ entries \in [DOMAIN entries -> Plans]
  /\ DOMAIN entries \subseteq Addresses \X Shapes

(* A plan whose context is where it was, with the ring it was computed in. *)
Valid(p, theHeap) == p \in Plans /\ theHeap[p.ctx] = p.config

(* What owns a context keeps it alive: domains, threads' plans, the cache. *)
OwnersAlive ==
  /\ \A t \in Threads : held[t] # None => heap[held[t]] # None
  /\ \A t \in Threads : plan[t] # None => Valid(plan[t], heap)
  /\ \A k \in DOMAIN entries : Valid(entries[k], heap)

(* An entry's key is the address of the context its plan owns: as long as  *)
(* the entry is there the address cannot be given to another ring.         *)
KeysNameOwnedContexts ==
  \A k \in DOMAIN entries : entries[k].ctx = k[1] /\ entries[k].shape = k[2]

(* Where a thread stands in GetOrBuildRadix3Plan. *)
ThreadsInStep ==
  \A t \in Threads :
    /\ pc[t] # "idle" => held[t] # None /\ shape[t] # None
    /\ pc[t] \in {"idle", "build"} => plan[t] = None
    /\ pc[t] = "insert" => plan[t] # None /\ plan[t].ctx = held[t] /\ plan[t].shape = shape[t]
    /\ pc[t] = "use" => Key(t) \in DOMAIN entries /\ entries[Key(t)] = plan[t]

CacheInv == CacheTypes /\ OwnersAlive /\ KeysNameOwnedContexts /\ ThreadsInStep

-----------------------------------------------------------------------------

(* Collect takes nothing away that a domain, a plan or the cache owns.     *)
LEMMA CollectKeepsOwned ==
  ASSUME NEW theHeld, NEW thePlan, NEW theEntries, NEW a \in Addresses,
         \/ \E t \in Threads : theHeld[t] = a
         \/ \E t \in Threads : thePlan[t] # None /\ thePlan[t].ctx = a
         \/ \E k \in DOMAIN theEntries : theEntries[k].ctx = a
  PROVE  Collect(theHeld, thePlan, theEntries)[a] = heap[a]
  BY DEF Collect, Owned, LivePlans

(* What is left of the heap is a heap.                                     *)
LEMMA CollectType ==
  ASSUME CacheTypes, NEW theHeld, NEW thePlan, NEW theEntries
  PROVE  Collect(theHeld, thePlan, theEntries) \in [Addresses -> Configs \cup {None}]
  BY DEF Collect, CacheTypes

(* At first nothing is owned, held or cached.                              *)
LEMMA CacheInitEstablishesInv == CacheInit => CacheInv
  BY DEF CacheInit, CacheInv, CacheTypes, OwnersAlive, KeysNameOwnedContexts, ThreadsInStep, Phases

(* Contexts come and go. *)
LEMMA OwnersKeepInv ==
  ASSUME CacheInv, NEW t \in Threads,
         \/ \E a \in Addresses, config \in Configs : MakeContext(t, a, config)
         \/ \E u \in Threads : CopyDomain(t, u)
         \/ DropDomain(t)
  PROVE  CacheInv'
<1> USE NoneAssumption DEF CacheInv
<1>1. ASSUME NEW a \in Addresses, NEW config \in Configs, MakeContext(t, a, config)
      PROVE  CacheInv'
  <2>1. CacheTypes'
    BY <1>1 DEF MakeContext, CacheTypes
  <2>2. \A b \in Addresses : heap[b] # None => heap'[b] = heap[b]
    BY <1>1 DEF MakeContext, CacheTypes
  <2>3. \A p \in Plans : Valid(p, heap) => Valid(p, heap')
    BY <2>2 DEF Valid, Plans
  <2>4. OwnersAlive'
    BY <1>1, <2>2, <2>3 DEF MakeContext, CacheTypes, OwnersAlive
  <2>5. KeysNameOwnedContexts' /\ ThreadsInStep'
    BY <1>1 DEF MakeContext, CacheTypes, KeysNameOwnedContexts, ThreadsInStep, Key
  <2> QED
    BY <2>1, <2>4, <2>5
<1>2. ASSUME NEW u \in Threads, CopyDomain(t, u)
      PROVE  CacheInv'
  <2>1. /\ held[t] = None /\ held[u] # None /\ pc[t] = "idle"
        /\ held' = [held EXCEPT ![t] = held[u]]
        /\ UNCHANGED <<heap, pc, shape, plan, entries>>
    BY <1>2 DEF CopyDomain
  <2>2. CacheTypes'
    BY <2>1 DEF CacheTypes
  <2>3. OwnersAlive'
    BY <2>1 DEF OwnersAlive, CacheTypes, Valid
  <2>4. KeysNameOwnedContexts'
    BY <2>1 DEF KeysNameOwnedContexts
  <2>5. ThreadsInStep'
    BY <2>1 DEF ThreadsInStep, CacheTypes, Key
  <2> QED
    BY <2>2, <2>3, <2>4, <2>5
<1>3. CASE DropDomain(t)
  <2>1. CacheTypes'
    BY <1>3, CollectType DEF DropDomain, CacheTypes
  <2>2. \A u \in Threads : held'[u] # None => heap'[held'[u]] = heap[held'[u]]
    <3> SUFFICES ASSUME NEW u \in Threads, held'[u] # None
                 PROVE  heap'[held'[u]] = heap[held'[u]]
      OBVIOUS
    <3>1. heap' = Collect(held', plan, entries) /\ held' \in [Threads -> Addresses \cup {None}]
      BY <1>3 DEF DropDomain, CacheTypes
    <3> QED
      BY <3>1 DEF Collect, Owned
  <2>3. ASSUME NEW u \in Threads, plan[u] # None PROVE heap'[plan[u].ctx] = heap[plan[u].ctx]
    <3>1. heap' = Collect(held', plan, entries)
      BY <1>3 DEF DropDomain
    <3>2. plan[u].ctx \in Addresses
      BY <2>3 DEF CacheTypes, Plans
    <3> QED
      BY <2>3, <3>1, <3>2, CollectKeepsOwned
  <2>4. ASSUME NEW k \in DOMAIN entries PROVE heap'[entries[k].ctx] = heap[entries[k].ctx]
    <3>1. heap' = Collect(held', plan, entries)
      BY <1>3 DEF DropDomain
    <3>2. entries[k].ctx \in Addresses
      BY DEF CacheTypes, Plans
    <3> QED
      BY <3>1, <3>2, CollectKeepsOwned
  <2>5. held' = [held EXCEPT ![t] = None] /\ UNCHANGED <<pc, shape, plan, entries>>
    BY <1>3 DEF DropDomain
  <2>6. OwnersAlive'
    <3>1. \A u \in Threads : held'[u] # None => held[u] = held'[u] /\ heap'[held'[u]] # None
      BY <2>2, <2>5 DEF OwnersAlive, CacheTypes
    <3>2. \A u \in Threads : plan[u] # None => Valid(plan[u], heap')
      BY <2>3 DEF OwnersAlive, Valid
    <3>3. \A k \in DOMAIN entries : Valid(entries[k], heap')
      BY <2>4 DEF OwnersAlive, Valid
    <3> QED
      BY <2>5, <3>1, <3>2, <3>3 DEF OwnersAlive, Valid
  <2>7. KeysNameOwnedContexts' /\ ThreadsInStep'
    <3>1. pc[t] = "idle"
      BY <1>3 DEF DropDomain
    <3>2. KeysNameOwnedContexts'
      BY <2>5 DEF KeysNameOwnedContexts
    <3> QED
      BY <2>5, <3>1, <3>2 DEF CacheTypes, ThreadsInStep, Key
  <2> QED
    BY <2>1, <2>6, <2>7
<1> QED
  BY <1>1, <1>2, <1>3

(* The three critical sections of GetOrBuildRadix3Plan, and its end.       *)
LEMMA TransformKeepsInv ==
  ASSUME CacheInv, NEW t \in Threads, Transform(t)
  PROVE  CacheInv'
<1> USE NoneAssumption DEF CacheInv
<1>1. ASSUME NEW s \in Shapes, LookUp(t, s)
      PROVE  CacheInv'
  <2> DEFINE key == <<held[t], s>>
  <2>1. /\ pc[t] = "idle" /\ held[t] # None /\ shape' = [shape EXCEPT ![t] = s]
        /\ heap' = heap /\ held' = held /\ entries' = entries
    BY <1>1 DEF LookUp
  <2>2. key = Key(t)'
    BY <2>1 DEF CacheTypes, Key
  <2>3. KeysNameOwnedContexts'
    BY <2>1 DEF KeysNameOwnedContexts
  <2>4. CASE key \in DOMAIN entries
    <3>1. plan' = [plan EXCEPT ![t] = entries[key]] /\ pc' = [pc EXCEPT ![t] = "use"]
      BY <1>1, <2>4 DEF LookUp
    <3>2. entries[key] \in Plans /\ Valid(entries[key], heap)
      BY <2>4 DEF CacheTypes, OwnersAlive
    <3>3. CacheTypes'
      BY <2>1, <3>1, <3>2 DEF CacheTypes, Phases
    <3>4. OwnersAlive'
      BY <2>1, <3>1, <3>2 DEF OwnersAlive, CacheTypes, Valid
    <3>5. \A u \in Threads \ {t} : /\ pc'[u] = pc[u] /\ plan'[u] = plan[u]
                                   /\ shape'[u] = shape[u] /\ Key(u)' = Key(u)
      BY <2>1, <3>1 DEF CacheTypes, Key
    <3>6. pc'[t] = "use" /\ plan'[t] = entries[key] /\ shape'[t] = s
      BY <2>1, <3>1 DEF CacheTypes
    <3>7. ThreadsInStep'
      BY <2>1, <2>2, <2>4, <3>5, <3>6 DEF ThreadsInStep
    <3> QED
      BY <2>3, <3>3, <3>4, <3>7
  <2>5. CASE key \notin DOMAIN entries
    <3>1. plan' = plan /\ pc' = [pc EXCEPT ![t] = "build"]
      BY <1>1, <2>5 DEF LookUp
    <3>2. plan[t] = None
      BY <2>1 DEF ThreadsInStep
    <3>3. CacheTypes'
      BY <2>1, <3>1 DEF CacheTypes, Phases
    <3>4. OwnersAlive'
      BY <2>1, <3>1 DEF OwnersAlive, Valid
    <3>5. \A u \in Threads \ {t} : pc'[u] = pc[u] /\ shape'[u] = shape[u] /\ Key(u)' = Key(u)
      BY <2>1, <3>1 DEF CacheTypes, Key
    <3>6. pc'[t] = "build" /\ shape'[t] = s
      BY <2>1, <3>1 DEF CacheTypes
    <3>7. ThreadsInStep'
      BY <2>1, <3>1, <3>2, <3>5, <3>6 DEF ThreadsInStep
    <3> QED
      BY <2>3, <3>3, <3>4, <3>7
  <2> QED
    BY <2>4, <2>5
<1>2. CASE Build(t)
  <2>1. held[t] \in Addresses /\ shape[t] \in Shapes /\ heap[held[t]] \in Configs
    BY <1>2 DEF Build, CacheTypes, OwnersAlive, ThreadsInStep
  <2>2. NewPlan(t) \in Plans /\ Valid(NewPlan(t), heap)
    BY <2>1 DEF NewPlan, Plans, Valid
  <2>3. NewPlan(t).ctx = held[t] /\ NewPlan(t).shape = shape[t]
    BY DEF NewPlan
  <2>4. /\ plan' = [plan EXCEPT ![t] = NewPlan(t)]
        /\ pc' = [pc EXCEPT ![t] = "insert"]
        /\ pc[t] = "build"
        /\ UNCHANGED <<heap, held, shape, entries>>
    BY <1>2 DEF Build
  <2> QED
    BY <2>2, <2>3, <2>4
    DEF CacheTypes, Phases, OwnersAlive, KeysNameOwnedContexts, ThreadsInStep, Key
<1>3. CASE Insert(t)
  <2>1. /\ pc[t] = "insert"
        /\ entries' = Emplace(entries, Key(t), plan[t])
        /\ plan' = [plan EXCEPT ![t] = entries'[Key(t)]]
        /\ pc' = [pc EXCEPT ![t] = "use"]
        /\ UNCHANGED <<heap, held, shape>>
    BY <1>3 DEF Insert
  <2>2. /\ held[t] \in Addresses /\ shape[t] \in Shapes
        /\ plan[t] \in Plans /\ Valid(plan[t], heap)
        /\ plan[t].ctx = held[t] /\ plan[t].shape = shape[t]
    BY <2>1 DEF CacheTypes, OwnersAlive, ThreadsInStep
  <2>3. /\ DOMAIN entries' = DOMAIN entries \cup {Key(t)}
        /\ \A k \in DOMAIN entries : entries'[k] = entries[k]
        /\ Key(t) \notin DOMAIN entries => entries'[Key(t)] = plan[t]
        /\ entries' = [k \in DOMAIN entries' |-> entries'[k]]
    BY <2>1 DEF Emplace
  <2>4. \A k \in DOMAIN entries' :
          /\ entries'[k] \in Plans /\ Valid(entries'[k], heap)
          /\ entries'[k].ctx = k[1] /\ entries'[k].shape = k[2]
    <3> SUFFICES ASSUME NEW k \in DOMAIN entries'
                 PROVE  /\ entries'[k] \in Plans /\ Valid(entries'[k], heap)
                        /\ entries'[k].ctx = k[1] /\ entries'[k].shape = k[2]
      OBVIOUS
    <3>1. CASE k \in DOMAIN entries
      BY <2>3, <3>1 DEF CacheTypes, OwnersAlive, KeysNameOwnedContexts
    <3>2. CASE k \notin DOMAIN entries
      BY <2>2, <2>3, <3>2 DEF Key
    <3> QED
      BY <3>1, <3>2
  <2>5. Key(t) \in DOMAIN entries' /\ Key(t)' = Key(t) /\ Key(t) \in Addresses \X Shapes
    BY <2>1, <2>2, <2>3 DEF Key
  <2>6. CacheTypes'
    BY <2>1, <2>3, <2>4, <2>5 DEF CacheTypes, Phases
  <2>7. OwnersAlive' /\ KeysNameOwnedContexts'
    <3>1. \A u \in Threads : held[u] # None => heap[held[u]] # None
      BY DEF OwnersAlive
    <3>2. \A u \in Threads : plan'[u] # None => Valid(plan'[u], heap)
      BY <2>1, <2>4, <2>5 DEF OwnersAlive, CacheTypes
    <3>3. OwnersAlive'
      BY <2>1, <2>4, <3>1, <3>2 DEF OwnersAlive, Valid
    <3>4. KeysNameOwnedContexts'
      BY <2>4 DEF KeysNameOwnedContexts
    <3> QED
      BY <3>3, <3>4
  <2>8. ThreadsInStep'
    <3>1. \A u \in Threads : Key(u)' = Key(u)
      BY <2>1 DEF Key
    <3>2. \A u \in Threads \ {t} : pc'[u] = pc[u] /\ plan'[u] = plan[u]
      BY <2>1 DEF CacheTypes
    <3>3. pc'[t] = "use" /\ plan'[t] = entries'[Key(t)]
      BY <2>1 DEF CacheTypes
    <3>4. held[t] # None /\ shape[t] # None
      BY <2>1 DEF ThreadsInStep
    <3>5. \A u \in Threads \ {t} : pc[u] = "use" =>
            Key(u) \in DOMAIN entries' /\ entries'[Key(u)] = plan[u]
      BY <2>3 DEF ThreadsInStep
    <3> QED
      BY <2>1, <2>5, <3>1, <3>2, <3>3, <3>4, <3>5 DEF ThreadsInStep
  <2> QED
    BY <2>6, <2>7, <2>8
<1>4. CASE FinishTransform(t)
  <2>1. /\ pc[t] = "use"
        /\ pc' = [pc EXCEPT ![t] = "idle"]
        /\ plan' = [plan EXCEPT ![t] = None]
        /\ shape' = [shape EXCEPT ![t] = None]
        /\ heap' = Collect(held, plan', entries)
        /\ UNCHANGED <<held, entries>>
    BY <1>4 DEF FinishTransform
  <2>2. CacheTypes'
    BY <2>1, CollectType DEF CacheTypes, Phases
  <2>3. \A u \in Threads : held[u] # None => heap'[held[u]] = heap[held[u]]
    BY <2>1, CollectKeepsOwned DEF CacheTypes
  <2>4. ASSUME NEW u \in Threads, plan'[u] # None
        PROVE  plan'[u] = plan[u] /\ heap'[plan[u].ctx] = heap[plan[u].ctx]
    <3>1. plan'[u] = plan[u]
      BY <2>1, <2>4 DEF CacheTypes
    <3>2. plan[u].ctx \in Addresses
      BY <2>4, <3>1 DEF CacheTypes, Plans
    <3>3. PICK p : p = plan'
      OBVIOUS
    <3>4. heap' = Collect(held, p, entries) /\ p[u] # None /\ p[u].ctx = plan[u].ctx
      BY <2>1, <2>4, <3>1, <3>3
    <3>5. Collect(held, p, entries)[plan[u].ctx] = heap[plan[u].ctx]
      BY <3>2, <3>4, CollectKeepsOwned
    <3> QED
      BY <3>1, <3>4, <3>5
  <2>5. ASSUME NEW k \in DOMAIN entries PROVE heap'[entries[k].ctx] = heap[entries[k].ctx]
    <3>1. entries[k].ctx \in Addresses
      BY DEF CacheTypes, Plans
    <3> QED
      BY <2>1, <3>1, CollectKeepsOwned
  <2>6. OwnersAlive'
    <3>1. \A u \in Threads : held[u] # None => heap'[held[u]] # None
      BY <2>3 DEF OwnersAlive
    <3>2. \A u \in Threads : plan'[u] # None => Valid(plan'[u], heap')
      BY <2>4 DEF OwnersAlive, Valid
    <3>3. \A k \in DOMAIN entries : Valid(entries[k], heap')
      BY <2>5 DEF OwnersAlive, Valid
    <3> QED
      BY <2>1, <3>1, <3>2, <3>3 DEF OwnersAlive, Valid
  <2>7. KeysNameOwnedContexts' /\ ThreadsInStep'
    <3>1. KeysNameOwnedContexts'
      BY <2>1 DEF KeysNameOwnedContexts
    <3>2. \A u \in Threads \ {t} : /\ pc'[u] = pc[u] /\ plan'[u] = plan[u]
                                   /\ shape'[u] = shape[u] /\ Key(u)' = Key(u)
      BY <2>1 DEF CacheTypes, Key
    <3>3. pc'[t] = "idle" /\ plan'[t] = None
      BY <2>1 DEF CacheTypes
    <3>4. ThreadsInStep'
      BY <2>1, <3>2, <3>3 DEF ThreadsInStep
    <3> QED
      BY <3>1, <3>4
  <2> QED
    BY <2>2, <2>6, <2>7
<1> QED
  BY <1>1, <1>2, <1>3, <1>4 DEF Transform

(* Every step of every thread keeps the invariant.                         *)
LEMMA CacheInvIsInductive == CacheInv /\ [CacheNext]_cacheVars => CacheInv'
<1> SUFFICES ASSUME CacheInv, [CacheNext]_cacheVars PROVE CacheInv'
  OBVIOUS
<1>1. CASE CacheNext
  BY <1>1, OwnersKeepInv, TransformKeepsInv DEF CacheNext
<1>2. CASE UNCHANGED cacheVars
  BY <1>2
  DEF cacheVars, CacheInv, CacheTypes, OwnersAlive, Valid, KeysNameOwnedContexts, ThreadsInStep, Key
<1> QED
  BY <1>1, <1>2

(* So it holds in every reachable state.                                   *)
LEMMA CacheInvHolds == CacheSpec => []CacheInv
  BY CacheInitEstablishesInv, CacheInvIsInductive, PTL DEF CacheSpec

-----------------------------------------------------------------------------

(* The plan a transform runs with was computed for its own domain and in   *)
(* the ring its context is now, although GetOrBuildRadix3Plan compares     *)
(* addresses and addresses are used again.                                 *)
THEOREM PlansFitDomains == CacheSpec => []PlanFitsDomain
<1>1. CacheInv => PlanFitsDomain
  <2> SUFFICES ASSUME CacheInv, NEW t \in Threads, pc[t] = "use"
               PROVE  /\ plan[t].ctx = held[t] /\ plan[t].shape = shape[t]
                      /\ plan[t].config = heap[held[t]]
    BY DEF PlanFitsDomain
  <2>1. Key(t) \in DOMAIN entries /\ entries[Key(t)] = plan[t]
    BY DEF CacheInv, ThreadsInStep
  <2> QED
    BY <2>1 DEF CacheInv, OwnersAlive, Valid, KeysNameOwnedContexts, Key
<1> QED
  BY <1>1, CacheInvHolds, PTL

(* However many threads miss and build at once, transforms over one domain *)
(* run with the plan in the cache.                                         *)
THEOREM PlansAreShared == CacheSpec => []OnePlanPerDomain
<1>1. CacheInv => OnePlanPerDomain
  BY DEF CacheInv, ThreadsInStep, OnePlanPerDomain
<1> QED
  BY <1>1, CacheInvHolds, PTL
=============================================================================
