----------------------------- MODULE CoreBudget -----------------------------
(***************************************************************************)
(* The byte budget and the registry of the maintained runtime              *)
(* (src/core-v01): how many segments are mapped, who decides it, and       *)
(* whether the counters the decisions rest on tell the truth.              *)
(*                                                                         *)
(* SegmentLease models what one object holds; here the contents are left   *)
(* out and the counters come in: raw_resident_bytes, raw_inflight_bytes    *)
(* and pinned_bytes of the context, raw_resident_bytes of each object, in  *)
(* segments (SEGMENT_BYTES), wrapping around at Word like the uint64_t     *)
(* they are.  Foreground restores go through the gate under capacity_mu,   *)
(* registration goes through it without the lock, the background thread    *)
(* and sr_trim evict, and sr_unregister_object retires an object while all *)
(* this goes on.                                                           *)
(*                                                                         *)
(* The two atomics of one critical section are updated in one step.  A     *)
(* lease covers one segment: longer ones are loops over this one.          *)
(***************************************************************************)
EXTENDS Integers, FiniteSets

CONSTANTS
    Apps,              \* application threads
    Background,        \* the background thread
    NoThread,          \* the owner of a free mutex
    NoSegment,         \* what a thread outside a call, or without a victim, is about
    Objects,           \* bound: objects the application registers, each once
    SegmentsPerObject,
    Target,            \* cfg.target_raw_bytes
    Hard,              \* cfg.hard_raw_bytes
    Burst,             \* cfg.foreground_burst_bytes
    Word,              \* counters are modulo Word (2^64 bytes in the code)
    Patience,          \* candidates in a row compact_to fails on before it stops
    Score,             \* eviction score of a segment: its class, hints and base
    Incompressible,    \* segments without a base whose bytes do not shrink
    TrimGoals,         \* bound: targets given to sr_trim and to the background
    Unregisters        \* bound: applications that call sr_unregister_object

Threads  == Apps \cup {Background}
Segments == Objects \X (1 .. SegmentsPerObject)

ASSUME BudgetAssumption ==
    /\ Background \notin Apps /\ NoThread \notin Threads /\ NoSegment \notin Segments
    /\ IsFiniteSet(Apps) /\ IsFiniteSet(Objects)
    /\ SegmentsPerObject \in Nat \ {0}
    /\ Target \in Nat /\ Hard \in Nat /\ Burst \in Nat /\ Target <= Hard
    /\ Word \in Nat /\ Patience \in Nat
    /\ Word > Hard + Burst + Cardinality(Segments) + Cardinality(Threads)
    /\ Score \in [Segments -> Int]
    /\ Incompressible \subseteq Segments
    /\ TrimGoals \subseteq Nat
    /\ Unregisters \subseteq Apps

VARIABLES
    \* Context
    raw,          \* raw_resident_bytes
    inflight,     \* raw_inflight_bytes
    pinned,       \* pinned_bytes
    capacity,     \* owner of capacity_mu
    registry,     \* owner of objects_mu across several steps
    \* Object
    status,       \* being registered, in ctx->objects, or retired
    objRaw,       \* raw_resident_bytes
    \* Segment
    committed,    \* raw_committed
    restoring,    \* restoring
    pins,         \* pin_count
    retired,      \* retired
    \* the call a thread is in
    call,         \* which one
    pc,           \* where it is
    seg,          \* the segment it is about
    sawRaw,       \* raw_resident_bytes as ensure_foreground_capacity loaded it
    goal,         \* the target of compact_to
    stuck,        \* no_progress of compact_to
    victim        \* the candidate of compact_to

contextVars == <<raw, inflight, pinned>>
lockVars    == <<capacity, registry>>
objectVars  == <<status, objRaw>>
segmentVars == <<committed, restoring, pins, retired>>
callVars    == <<call, pc, seg, sawRaw, goal, stuck, victim>>
vars == <<contextVars, lockVars, objectVars, segmentVars, callVars>>

ObjectOf(s) == s[1]

Statuses == {"fresh", "loading", "live", "gone"}
Calls    == {"none", "acquire", "prewarm", "register", "compact", "unregister"}
GatePcs  == {"gate", "load", "decide", "test", "choose", "evict", "reload", "redecide"}
Pcs == {"idle", "warm", "pin", "wait", "restore", "drain", "undo", "leased", "commit", "insert",
        "done", "check", "retire", "subtract", "mark"} \cup GatePcs

Init ==
    /\ raw = 0 /\ inflight = 0 /\ pinned = 0
    /\ capacity = NoThread /\ registry = NoThread
    /\ status = [o \in Objects |-> "fresh"]
    /\ objRaw = [o \in Objects |-> 0]
    /\ committed = [s \in Segments |-> FALSE]
    /\ restoring = [s \in Segments |-> FALSE]
    /\ pins = [s \in Segments |-> 0]
    /\ retired = [s \in Segments |-> FALSE]
    /\ call = [t \in Threads |-> "none"]
    /\ pc = [t \in Threads |-> "idle"]
    /\ seg = [t \in Threads |-> NoSegment]
    /\ sawRaw = [t \in Threads |-> 0]
    /\ goal = [t \in Threads |-> 0]
    /\ stuck = [t \in Threads |-> 0]
    /\ victim = [t \in Threads |-> NoSegment]

-----------------------------------------------------------------------------
\* fetch_add and fetch_sub on the counters
Plus(n, k)  == (n + k) % Word
Minus(n, k) == (n + Word - k) % Word

Enter(t, c, s, next) ==
    /\ pc[t] = "idle"
    /\ call' = [call EXCEPT ![t] = c]
    /\ seg' = [seg EXCEPT ![t] = s]
    /\ pc' = [pc EXCEPT ![t] = next]
    /\ UNCHANGED <<sawRaw, victim>>

\* Go on inside the call.
Goto(t, next) ==
    /\ pc' = [pc EXCEPT ![t] = next]
    /\ UNCHANGED <<call, seg, sawRaw, goal, stuck, victim>>

\* Return to the application or to background_main; the locals go.
Leave(t) ==
    /\ pc' = [pc EXCEPT ![t] = "idle"]
    /\ call' = [call EXCEPT ![t] = "none"]
    /\ seg' = [seg EXCEPT ![t] = NoSegment]
    /\ sawRaw' = [sawRaw EXCEPT ![t] = 0]
    /\ goal' = [goal EXCEPT ![t] = 0]
    /\ stuck' = [stuck EXCEPT ![t] = 0]
    /\ victim' = [victim EXCEPT ![t] = NoSegment]

(***************************************************************************)
(* sr_acquire and prewarm: materialize_and_pin                             *)
(***************************************************************************)
Acquire(t) ==
    /\ t \in Apps /\ registry = NoThread
    /\ \E s \in Segments : status[ObjectOf(s)] = "live" /\ Enter(t, "acquire", s, "pin")
    /\ UNCHANGED <<contextVars, lockVars, objectVars, segmentVars, goal, stuck>>

\* prewarm, on the object the predictor names, from its first segment on.
Prewarm(t) ==
    /\ t = Background /\ registry = NoThread
    /\ raw * 10 < Target * 8
    /\ \E o \in Objects : status[o] = "live" /\ Enter(t, "prewarm", <<o, 1>>, "warm")
    /\ UNCHANGED <<contextVars, lockVars, objectVars, segmentVars, goal, stuck>>

\* One round of its loop: only what fits under the target is warmed.
Warm(t) ==
    /\ pc[t] = "warm"
    /\ IF Plus(raw, 1) <= Target THEN Goto(t, "pin") ELSE Leave(t)
    /\ UNCHANGED <<contextVars, lockVars, objectVars, segmentVars>>

\* materialize_and_pin returned SR_OK.
Materialized(t) ==
    CASE call[t] = "acquire" -> Goto(t, "leased")
      [] call[t] = "prewarm" /\ seg[t][2] < SegmentsPerObject ->
            /\ seg' = [seg EXCEPT ![t][2] = @ + 1]
            /\ pc' = [pc EXCEPT ![t] = "warm"]
            /\ UNCHANGED <<call, sawRaw, goal, stuck, victim>>
      [] OTHER -> Leave(t)

Gone(s) == retired[s] \/ status[ObjectOf(s)] = "gone"

\* SR_ERR_NOT_FOUND
NotFound(t) ==
    /\ pc[t] = "pin" /\ Gone(seg[t])
    /\ Leave(t)
    /\ UNCHANGED <<contextVars, lockVars, objectVars, segmentVars>>

Pin(t) ==
    IF call[t] = "acquire"
    THEN /\ pins' = [pins EXCEPT ![seg[t]] = @ + 1]
         /\ pinned' = IF pins[seg[t]] = 0 THEN Plus(pinned, 1) ELSE pinned
    ELSE UNCHANGED <<pins, pinned>>

PinResident(t) ==
    /\ pc[t] = "pin" /\ ~Gone(seg[t]) /\ committed[seg[t]]
    /\ Pin(t)
    /\ Materialized(t)
    /\ UNCHANGED <<raw, inflight, lockVars, objectVars, committed, restoring, retired>>

Wait(t) ==
    /\ pc[t] = "pin" /\ ~Gone(seg[t]) /\ ~committed[seg[t]] /\ restoring[seg[t]]
    /\ Goto(t, "wait")
    /\ UNCHANGED <<contextVars, lockVars, objectVars, segmentVars>>

Wake(t) ==
    /\ pc[t] = "wait" /\ (~restoring[seg[t]] \/ retired[seg[t]])
    /\ Goto(t, "pin")
    /\ UNCHANGED <<contextVars, lockVars, objectVars, segmentVars>>

BeginRestore(t) ==
    /\ pc[t] = "pin" /\ ~Gone(seg[t]) /\ ~committed[seg[t]] /\ ~restoring[seg[t]]
    /\ restoring' = [restoring EXCEPT ![seg[t]] = TRUE]
    /\ Goto(t, "gate")
    /\ UNCHANGED <<contextVars, lockVars, objectVars, committed, pins, retired>>

LockCapacity(t) ==
    /\ pc[t] = "gate" /\ capacity = NoThread
    /\ capacity' = t
    /\ Goto(t, "load")
    /\ UNCHANGED <<contextVars, registry, objectVars, segmentVars>>

\* build_from_base and commit_pages succeed; the segment is published.
Publish(t) ==
    /\ pc[t] = "restore"
    /\ committed' = [committed EXCEPT ![seg[t]] = TRUE]
    /\ restoring' = [restoring EXCEPT ![seg[t]] = FALSE]
    /\ raw' = Plus(raw, 1)
    /\ objRaw' = [objRaw EXCEPT ![ObjectOf(seg[t])] = Plus(@, 1)]
    /\ Pin(t)
    /\ Goto(t, "drain")
    /\ UNCHANGED <<inflight, lockVars, status, retired>>

RestoreFails(t) ==
    /\ pc[t] = "restore"
    /\ restoring' = [restoring EXCEPT ![seg[t]] = FALSE]
    /\ Goto(t, "undo")
    /\ UNCHANGED <<contextVars, lockVars, objectVars, committed, pins, retired>>

\* The restore is over: it no longer counts as in flight.
Drain(t) ==
    /\ pc[t] \in {"drain", "undo"}
    /\ inflight' = Minus(inflight, 1)
    /\ IF pc[t] = "drain" THEN Materialized(t) ELSE Leave(t)
    /\ UNCHANGED <<raw, pinned, lockVars, objectVars, segmentVars>>

\* sr_release: unpin_segment
Release(t) ==
    /\ pc[t] = "leased"
    /\ LET s == seg[t] IN
       /\ pins' = IF pins[s] > 0 THEN [pins EXCEPT ![s] = @ - 1] ELSE pins
       /\ pinned' = IF pins[s] = 1 THEN Minus(pinned, 1) ELSE pinned
    /\ Leave(t)
    /\ UNCHANGED <<raw, inflight, lockVars, objectVars, committed, restoring, retired>>

-----------------------------------------------------------------------------
(***************************************************************************)
(* ensure_foreground_capacity: two loads, compact_to, two loads            *)
(***************************************************************************)
LoadRaw(t) ==
    /\ pc[t] \in {"load", "reload"}
    /\ sawRaw' = [sawRaw EXCEPT ![t] = raw]
    /\ pc' = [pc EXCEPT ![t] = IF pc[t] = "load" THEN "decide" ELSE "redecide"]
    /\ UNCHANGED <<contextVars, lockVars, objectVars, segmentVars, call, seg, goal, stuck, victim>>

FitsWithoutNeeded(t, limit) == Plus(sawRaw[t], inflight) <= limit

Fits(t, limit) == Plus(sawRaw[t], inflight + 1) <= limit

\* A restore reserves its segment and lets capacity_mu go; a registration
\* reserves nothing and holds no lock.
Granted(t) ==
    IF call[t] = "register"
    THEN Goto(t, "commit") /\ UNCHANGED <<inflight, capacity>>
    ELSE Goto(t, "restore") /\ inflight' = Plus(inflight, 1) /\ capacity' = NoThread

DesiredUnguarded == Hard - inflight - 1

Desired == IF Hard > inflight + 1 THEN Hard - inflight - 1 ELSE 0

Decide(t) ==
    /\ pc[t] = "decide"
    /\ \/ Fits(t, Target) /\ Granted(t)
       \/ /\ ~Fits(t, Target)
          /\ goal' = [goal EXCEPT ![t] = Desired]
          /\ stuck' = [stuck EXCEPT ![t] = 0]
          /\ pc' = [pc EXCEPT ![t] = "test"]
          /\ UNCHANGED <<call, seg, sawRaw, victim, inflight, capacity>>
    /\ UNCHANGED <<raw, pinned, registry, objectVars, segmentVars>>

GrantedLate(t) ==
    /\ pc[t] = "redecide" /\ Fits(t, Hard + Burst)
    /\ Granted(t)
    /\ UNCHANGED <<raw, pinned, registry, objectVars, segmentVars>>

\* SR_ERR_BUDGET of a restore
Refused(t) ==
    /\ pc[t] = "redecide" /\ ~Fits(t, Hard + Burst) /\ call[t] # "register"
    /\ restoring' = [restoring EXCEPT ![seg[t]] = FALSE]
    /\ capacity' = NoThread
    /\ Leave(t)
    /\ UNCHANGED <<contextVars, registry, objectVars, committed, pins, retired>>

-----------------------------------------------------------------------------
(***************************************************************************)
(* compact_to: by the gate, by sr_trim and by the background thread        *)
(***************************************************************************)
Compact(t, target) ==
    /\ Enter(t, "compact", NoSegment, "test")
    /\ goal' = [goal EXCEPT ![t] = target]
    /\ stuck' = [stuck EXCEPT ![t] = 0]
    /\ UNCHANGED <<contextVars, lockVars, objectVars, segmentVars>>

Trim(t) == t \in Apps /\ \E g \in TrimGoals : Compact(t, g)

\* background_main: down to the target, or further under memory pressure
BackgroundCompact(t) ==
    /\ t = Background
    /\ \/ raw > Target /\ Compact(t, Target)
       \/ Compact(t, Target \div 2) \/ Compact(t, (Target * 3) \div 4)

AfterCompact(t) == IF call[t] = "compact" THEN "done" ELSE "reload"

Test(t) ==
    /\ pc[t] = "test"
    /\ Goto(t, IF raw > goal[t] THEN "choose" ELSE AfterCompact(t))
    /\ UNCHANGED <<contextVars, lockVars, objectVars, segmentVars>>

EvictableTwice(s)  == pins[s] = 0 /\ ~restoring[s] /\ ~retired[s]
EvictablePinned(s) == committed[s] /\ ~restoring[s] /\ ~retired[s]

Evictable(s) == committed[s] /\ pins[s] = 0 /\ ~restoring[s] /\ ~retired[s]

Candidates == {s \in Segments : status[ObjectOf(s)] = "live" /\ Evictable(s)}

\* Another thread may hold the mutex of s: try_lock skips it.
Contended(t, s) == \E u \in Threads \ {t} : seg[u] = s \/ victim[u] = s

\* choose_eviction_candidate takes the best score it can see.
Choose(t) ==
    /\ pc[t] = "choose" /\ registry = NoThread
    /\ \E s \in Candidates :
         /\ \A r \in Candidates : Score[r] <= Score[s] \/ Contended(t, r)
         /\ victim' = [victim EXCEPT ![t] = s]
    /\ pc' = [pc EXCEPT ![t] = "evict"]
    /\ UNCHANGED <<contextVars, lockVars, objectVars, segmentVars, call, seg, sawRaw, goal, stuck>>

NothingToEvict(t) ==
    /\ pc[t] = "choose" /\ registry = NoThread
    /\ \A r \in Candidates : Contended(t, r)
    /\ Goto(t, AfterCompact(t))
    /\ UNCHANGED <<contextVars, lockVars, objectVars, segmentVars>>

\* compact_one, which looks at the victim again under its mutex.
Evict(t) ==
    /\ pc[t] = "evict" /\ Evictable(victim[t]) /\ victim[t] \notin Incompressible
    /\ committed' = [committed EXCEPT ![victim[t]] = FALSE]
    /\ raw' = Minus(raw, 1)
    /\ objRaw' = [objRaw EXCEPT ![ObjectOf(victim[t])] = Minus(@, 1)]
    /\ stuck' = [stuck EXCEPT ![t] = 0]
    /\ pc' = [pc EXCEPT ![t] = "test"]
    /\ victim' = [victim EXCEPT ![t] = NoSegment]
    /\ UNCHANGED <<inflight, pinned, lockVars, status, restoring, pins, retired,
                   call, seg, sawRaw, goal>>

GivesUpNever(t) == FALSE

GivesUp(t) == stuck[t] = Patience

\* Not evictable any more, incompressible, or written to while it was encoded,
\* as another application thread may have done.
EvictFails(t) ==
    /\ pc[t] = "evict"
    /\ \/ ~Evictable(victim[t]) \/ victim[t] \in Incompressible
       \/ Apps \ {t} # {}
    /\ stuck' = [stuck EXCEPT ![t] = IF @ = Patience THEN 0 ELSE @ + 1]
    /\ pc' = [pc EXCEPT ![t] = IF GivesUp(t) THEN AfterCompact(t) ELSE "test"]
    /\ victim' = [victim EXCEPT ![t] = NoSegment]
    /\ UNCHANGED <<contextVars, lockVars, objectVars, segmentVars, call, seg, sawRaw, goal>>

\* sr_trim tells whether the target was reached.
Done(t) ==
    /\ pc[t] = "done"
    /\ Leave(t)
    /\ UNCHANGED <<contextVars, lockVars, objectVars, segmentVars>>

-----------------------------------------------------------------------------
(***************************************************************************)
(* sr_register_object and sr_unregister_object                             *)
(***************************************************************************)
\* With initial data every segment is loaded; without, none is.
Register(t) ==
    /\ t \in Apps
    /\ \E o \in Objects :
         /\ status[o] = "fresh"
         /\ status' = [status EXCEPT ![o] = "loading"]
         /\ \/ Enter(t, "register", <<o, 1>>, "load")
            \/ Enter(t, "register", <<o, 1>>, "insert")
    /\ UNCHANGED <<contextVars, lockVars, objRaw, segmentVars, goal, stuck>>

NextSegment(t, loop, after) ==
    IF seg[t][2] < SegmentsPerObject
    THEN seg' = [seg EXCEPT ![t][2] = @ + 1] /\ pc' = [pc EXCEPT ![t] = loop]
    ELSE seg' = [seg EXCEPT ![t][2] = 1] /\ pc' = [pc EXCEPT ![t] = after]

Commit(t) ==
    /\ pc[t] = "commit"
    /\ committed' = [committed EXCEPT ![seg[t]] = TRUE]
    /\ raw' = Plus(raw, 1)
    /\ objRaw' = [objRaw EXCEPT ![ObjectOf(seg[t])] = Plus(@, 1)]
    /\ NextSegment(t, "load", "insert")
    /\ UNCHANGED <<inflight, pinned, lockVars, status, restoring, pins, retired,
                   call, sawRaw, goal, stuck, victim>>

\* SR_ERR_BUDGET or SR_ERR_NOMEM: the object goes away with its arena.
RegisterFails(t) ==
    /\ \/ pc[t] = "redecide" /\ call[t] = "register" /\ ~Fits(t, Hard + Burst)
       \/ pc[t] = "commit"
    /\ LET o == ObjectOf(seg[t]) IN
       /\ status' = [status EXCEPT ![o] = "fresh"]
       /\ objRaw' = [objRaw EXCEPT ![o] = 0]
       /\ committed' = [s \in Segments |-> committed[s] /\ ObjectOf(s) # o]
    /\ Leave(t)
    /\ UNCHANGED <<contextVars, lockVars, restoring, pins, retired>>

Insert(t) ==
    /\ pc[t] = "insert" /\ registry = NoThread
    /\ status' = [status EXCEPT ![ObjectOf(seg[t])] = "live"]
    /\ Leave(t)
    /\ UNCHANGED <<contextVars, lockVars, objRaw, segmentVars>>

\* sr_unregister_object takes objects_mu and looks at one segment at a time.
Unregister(t) ==
    /\ t \in Unregisters /\ registry = NoThread
    /\ \E o \in Objects : status[o] = "live" /\ Enter(t, "unregister", <<o, 1>>, "check")
    /\ registry' = t
    /\ UNCHANGED <<contextVars, capacity, objectVars, segmentVars, goal, stuck>>

InUse(s) == pins[s] # 0 \/ restoring[s]

\* SR_ERR_BUSY
Busy(t) ==
    /\ pc[t] = "check" /\ InUse(seg[t])
    /\ registry' = NoThread
    /\ Leave(t)
    /\ UNCHANGED <<contextVars, capacity, objectVars, segmentVars>>

CheckSegment(t) ==
    /\ pc[t] = "check" /\ ~InUse(seg[t])
    /\ NextSegment(t, "check", "retire")
    /\ UNCHANGED <<contextVars, lockVars, objectVars, segmentVars,
                   call, sawRaw, goal, stuck, victim>>

Retire(t) ==
    /\ pc[t] = "retire"
    /\ status' = [status EXCEPT ![ObjectOf(seg[t])] = "gone"]
    /\ registry' = NoThread
    /\ Goto(t, "subtract")
    /\ UNCHANGED <<contextVars, capacity, objRaw, segmentVars>>

Subtract(t) ==
    /\ pc[t] = "subtract"
    /\ raw' = Minus(raw, objRaw[ObjectOf(seg[t])])
    /\ Goto(t, "mark")
    /\ UNCHANGED <<inflight, pinned, lockVars, objectVars, segmentVars>>

MarkSegment(t) ==
    /\ pc[t] = "mark"
    /\ retired' = [retired EXCEPT ![seg[t]] = TRUE]
    /\ IF seg[t][2] < SegmentsPerObject
       THEN /\ seg' = [seg EXCEPT ![t][2] = @ + 1]
            /\ UNCHANGED <<call, pc, sawRaw, goal, stuck, victim>>
       ELSE Leave(t)
    /\ UNCHANGED <<contextVars, lockVars, objectVars, committed, restoring, pins>>

-----------------------------------------------------------------------------
Materialize(t) ==
    \/ Warm(t) \/ NotFound(t) \/ PinResident(t) \/ Wait(t) \/ Wake(t) \/ BeginRestore(t)
    \/ Publish(t) \/ RestoreFails(t) \/ Drain(t)

EnsureCapacity(t) == LoadRaw(t) \/ Decide(t) \/ GrantedLate(t) \/ Refused(t)

CompactTo(t) ==
    \/ Test(t) \/ Choose(t) \/ NothingToEvict(t) \/ Evict(t) \/ EvictFails(t) \/ Done(t)

RegisterObject(t) == Commit(t) \/ RegisterFails(t) \/ Insert(t)

UnregisterObject(t) ==
    Busy(t) \/ CheckSegment(t) \/ Retire(t) \/ Subtract(t) \/ MarkSegment(t)

\* A step inside a call.
Proceed(t) ==
    \/ Materialize(t) \/ EnsureCapacity(t) \/ CompactTo(t)
    \/ RegisterObject(t) \/ UnregisterObject(t)

Next ==
    \E t \in Threads :
        \/ Acquire(t) \/ Prewarm(t) \/ Release(t) \/ Trim(t) \/ BackgroundCompact(t)
        \/ Register(t) \/ Unregister(t)
        \/ LockCapacity(t) \/ Proceed(t)

Spec == Init /\ [][Next]_vars

\* Threads inside a call keep running, and one that waits for objects_mu, which
\* sr_unregister_object holds while it looks for leases, gets it in the end.
\* That a thread at the gate is let through is not assumed.
Fairness == \A t \in Threads : SF_vars(Proceed(t))

FairSpec == Spec /\ Fairness
-----------------------------------------------------------------------------
(***************************************************************************)
(* What must hold                                                          *)
(***************************************************************************)
Counter == 0 .. Word - 1

TypeOK ==
    /\ raw \in Counter /\ inflight \in Counter /\ pinned \in Counter
    /\ capacity \in Threads \cup {NoThread} /\ registry \in Threads \cup {NoThread}
    /\ status \in [Objects -> Statuses]
    /\ objRaw \in [Objects -> Counter]
    /\ committed \in [Segments -> BOOLEAN]
    /\ restoring \in [Segments -> BOOLEAN]
    /\ pins \in [Segments -> Nat]
    /\ retired \in [Segments -> BOOLEAN]
    /\ call \in [Threads -> Calls]
    /\ pc \in [Threads -> Pcs]
    /\ seg \in [Threads -> Segments \cup {NoSegment}]
    /\ sawRaw \in [Threads -> Counter]
    /\ goal \in [Threads -> Nat]
    /\ stuck \in [Threads -> 0 .. Patience]
    /\ victim \in [Threads -> Segments \cup {NoSegment}]

\* The arena of a retired object goes with the last reference to it.
Mapped == {s \in Segments : committed[s] /\ status[ObjectOf(s)] # "gone"}

\* raw_inflight_bytes counts the restores under way: no path of
\* materialize_and_pin keeps a reservation or gives one back twice, or the
\* budget would shrink, or grow, for good.
InflightIsExact ==
    inflight = Cardinality({t \in Threads : pc[t] \in {"restore", "drain", "undo"}})

\* pinned_bytes counts the leased segments, once each however many leases.
PinnedIsExact == pinned = Cardinality({s \in Segments : pins[s] > 0})

\* raw_resident_bytes, on which every decision rests, counts the segments
\* that are mapped: two compactions of one victim, a restore and an eviction
\* never count one segment twice.
RawIsExact ==
    /\ raw = Cardinality(Mapped)
    /\ \A o \in Objects : objRaw[o] = Cardinality({s \in Mapped : ObjectOf(s) = o})

\* The three sums from which the gate decides are those of the segments.
CountersAreExact == InflightIsExact /\ PinnedIsExact /\ RawIsExact

\* A leased segment stays mapped, and counted as pinned, whatever compacts
\* or unregisters around it.
LeasedIsMapped ==
    \A t \in Threads : pc[t] = "leased" => committed[seg[t]] /\ pins[seg[t]] > 0

\* The gate may be passed on a stale sum (a restore that ends between the
\* two loads is counted in neither), but never by more than one segment for
\* each other thread.
OvershootIsBounded ==
    Cardinality(Mapped) + inflight - Cardinality({t \in Threads : pc[t] = "drain"})
        <= Hard + Burst + Cardinality(Threads) - 1

\* examples/core_selfcheck.cpp:149-151: a trim of an idle context reaches its
\* target ("streaming trim could not reach target" is a failure).  When
\* sr_trim answers SR_ERR_BUDGET and nobody else is inside the library, more
\* than its target really is mapped.
TrimTellsTheTruth ==
    \A t \in Apps :
        (pc[t] = "done" /\ raw > goal[t] /\ \A u \in Threads \ {t} : pc[u] = "idle")
            => Cardinality(Mapped) > goal[t]

\* Whoever holds capacity_mu gives it up: the compaction made under it comes
\* to an end whatever the other threads evict and register meanwhile.
GateIsLeft == \A t \in Threads : capacity = t ~> capacity # t
=============================================================================
