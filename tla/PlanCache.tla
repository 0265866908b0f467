----------------------------- MODULE PlanCache ------------------------------
(***************************************************************************)
(* The process-wide cache of radix-3 FFT plans.  Threads look plans up     *)
(* under a shared lock, build a missing one without any lock, and insert   *)
(* it under the exclusive lock.  A key names its ring context by address,  *)
(* and contexts are reference counted: an address may be used again.       *)
(***************************************************************************)
EXTENDS Naturals, Threading

CONSTANTS
  Addresses,   (* Where a GRContext may be allocated.                      *)
  Configs,     (* GRConfig: what distinguishes one ring from another.      *)
  Shapes       (* The rest of a key: a domain's size, offset and root.     *)

(* Radix3Plan: what it was computed for, the context it keeps alive, and,  *)
(* for the properties, who built it.                                       *)
Plans == [config : Configs, shape : Shapes, ctx : Addresses, by : Threads]

ASSUME NoneAssumption == None \notin Addresses \cup Configs \cup Shapes \cup Plans

VARIABLES
  heap,        (* The GRContext at each address; None where it is free.    *)
  held,        (* The context each thread's Domain shares ownership of.    *)
  pc,          (* "idle", "build", "insert", "use"                         *)
  shape,       (* The domain of the transform each thread runs.            *)
  plan,        (* The plan it has: [config, shape, ctx, by], or None.      *)
  entries      (* cache.entries                                            *)

cacheVars == <<heap, held, pc, shape, plan, entries>>

CacheInit ==
  /\ heap = [a \in Addresses |-> None]
  /\ held = [t \in Threads |-> None]
  /\ pc = [t \in Threads |-> "idle"]
  /\ shape = [t \in Threads |-> None]
  /\ plan = [t \in Threads |-> None]
  /\ entries = <<>>

(* context_ptr().get() and the domain's data. *)
Key(t) == <<held[t], shape[t]>>

CachedPlans == {entries[k] : k \in DOMAIN entries}
LivePlans(thePlan, theEntries) ==
  ({thePlan[t] : t \in Threads} \ {None}) \cup {theEntries[k] : k \in DOMAIN theEntries}

(* What is left of the heap once these are all the owners of contexts.     *)
Owned(theHeld, thePlan, theEntries) ==
  {theHeld[t] : t \in Threads} \cup {p.ctx : p \in LivePlans(thePlan, theEntries)}
Collect(theHeld, thePlan, theEntries) ==
  [a \in Addresses |-> IF a \in Owned(theHeld, thePlan, theEntries) THEN heap[a] ELSE None]

-----------------------------------------------------------------------------
(* Owners of contexts *)

MakeContext(t, a, config) ==
  /\ pc[t] = "idle" /\ held[t] = None
  /\ heap[a] = None
  /\ heap' = [heap EXCEPT ![a] = config]
  /\ held' = [held EXCEPT ![t] = a]
  /\ UNCHANGED <<pc, shape, plan, entries>>

CopyDomain(t, u) ==
  /\ pc[t] = "idle" /\ held[t] = None /\ held[u] # None
  /\ held' = [held EXCEPT ![t] = held[u]]
  /\ UNCHANGED <<heap, pc, shape, plan, entries>>

DropDomain(t) ==
  /\ pc[t] = "idle" /\ held[t] # None
  /\ held' = [held EXCEPT ![t] = None]
  /\ heap' = Collect(held', plan, entries)
  /\ UNCHANGED <<pc, shape, plan, entries>>

-----------------------------------------------------------------------------
(* GetOrBuildRadix3Plan *)

(* Under the shared lock; the transform starts with a hit. *)
LookUp(t, s) ==
  /\ pc[t] = "idle" /\ held[t] # None
  /\ shape' = [shape EXCEPT ![t] = s]
  /\ \/ /\ <<held[t], s>> \in DOMAIN entries
        /\ plan' = [plan EXCEPT ![t] = entries[<<held[t], s>>]]
        /\ pc' = [pc EXCEPT ![t] = "use"]
     \/ /\ <<held[t], s>> \notin DOMAIN entries
        /\ pc' = [pc EXCEPT ![t] = "build"]
        /\ UNCHANGED plan
  /\ UNCHANGED <<heap, held, entries>>

(* Mutant: the plan does not own its context. *)
MutPlanOwnsNothing(t) == [config |-> heap[held[t]], shape |-> shape[t], ctx |-> None, by |-> t]

(* BuildRadix3Plan: the plan owns the context it was computed in.          *)
NewPlan(t) == [config |-> heap[held[t]], shape |-> shape[t], ctx |-> held[t], by |-> t]

Build(t) ==
  /\ pc[t] = "build"
  /\ plan' = [plan EXCEPT ![t] = NewPlan(t)]
  /\ pc' = [pc EXCEPT ![t] = "insert"]
  /\ UNCHANGED <<heap, held, shape, entries>>

(* Mutant: the later plan replaces the one that is there.                  *)
MutLastInsertWins(t) ==
  /\ pc[t] = "insert"
  /\ entries' = [k \in DOMAIN entries \cup {Key(t)} |->
                   IF k = Key(t) THEN plan[t] ELSE entries[k]]
  /\ pc' = [pc EXCEPT ![t] = "use"]
  /\ UNCHANGED <<heap, held, shape, plan>>

(* unordered_map::emplace: what is there under the key stays.              *)
Emplace(f, key, value) ==
  [k \in DOMAIN f \cup {key} |-> IF k \in DOMAIN f THEN f[k] ELSE value]

(* Mutant: a lost race sends the thread back to building.                  *)
MutRetryOnCollision(t) ==
  /\ pc[t] = "insert"
  /\ entries' = Emplace(entries, Key(t), plan[t])
  /\ pc' = [pc EXCEPT ![t] = IF Key(t) \in DOMAIN entries THEN "build" ELSE "use"]
  /\ UNCHANGED <<heap, held, shape, plan>>

(* Under the exclusive lock: the first plan stays, and a thread that comes *)
(* later uses that one.                                                    *)
Insert(t) ==
  /\ pc[t] = "insert"
  /\ entries' = Emplace(entries, Key(t), plan[t])
  /\ plan' = [plan EXCEPT ![t] = entries'[Key(t)]]
  /\ pc' = [pc EXCEPT ![t] = "use"]
  /\ UNCHANGED <<heap, held, shape>>

(* The transform returns and forgets its plan. *)
FinishTransform(t) ==
  /\ pc[t] = "use"
  /\ pc' = [pc EXCEPT ![t] = "idle"]
  /\ plan' = [plan EXCEPT ![t] = None]
  /\ shape' = [shape EXCEPT ![t] = None]
  /\ heap' = Collect(held, plan', entries)
  /\ UNCHANGED <<held, entries>>

Transform(t) == (\E s \in Shapes : LookUp(t, s)) \/ Build(t) \/ Insert(t) \/ FinishTransform(t)

CacheNext ==
  \E t \in Threads :
    \/ \E a \in Addresses, config \in Configs : MakeContext(t, a, config)
    \/ \E u \in Threads : CopyDomain(t, u)
    \/ DropDomain(t)
    \/ Transform(t)

(* A transform that started runs to its end; nothing else has to happen.   *)
CacheSpec ==
  /\ CacheInit /\ [][CacheNext]_cacheVars
  /\ \A t \in Threads : WF_cacheVars(Build(t) \/ Insert(t) \/ FinishTransform(t))

-----------------------------------------------------------------------------

(* The plan a transform runs with was computed for its own domain and in   *)
(* the ring its context is now, although keys only compare addresses.      *)
PlanFitsDomain ==
  \A t \in Threads :
    pc[t] = "use" =>
      /\ plan[t].ctx = held[t] /\ plan[t].shape = shape[t]
      /\ plan[t].config = heap[held[t]]

(* Threads that transform over the same domain work with one plan, the one *)
(* in the cache, whoever built it; a cached plan is never replaced.        *)
OnePlanPerDomain ==
  \A t \in Threads : pc[t] = "use" => Key(t) \in DOMAIN entries /\ entries[Key(t)] = plan[t]

(* Every transform gets its plan and returns, however many threads miss.   *)
TransformsReturn == \A t \in Threads : pc[t] = "build" ~> pc[t] = "idle"
=============================================================================
