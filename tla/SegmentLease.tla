---------------------------- MODULE SegmentLease ----------------------------
(***************************************************************************)
(* The data path of the maintained StateRAM runtime (src/core-v01): one    *)
(* registered object whose segments are leased, written, journaled,        *)
(* evicted and restored by any number of threads.                          *)
(*                                                                         *)
(* A thread stands for an application thread (sr_acquire, sr_release,      *)
(* sr_trim) or for the background thread (compaction and prewarm).  Every  *)
(* block the code runs under Segment::mu is one action; everything it does *)
(* between two such blocks is a step of its own, so the model interleaves  *)
(* exactly where the code can.  Application writes go straight to the      *)
(* arena, without a lock, while the lease is live.                         *)
(*                                                                         *)
(* Abstracted here: the byte budget (the gate of materialize_and_pin may   *)
(* pass or refuse at will, CoreBudget models it), the choice among         *)
(* evictable segments (any of them), unregistration (CoreBudget), FNV-1a   *)
(* (the hash of a content is the content: collisions are not modelled).    *)
(***************************************************************************)
EXTENDS Naturals, FiniteSets

CONSTANTS
    Threads,        \* callers of the runtime, the background thread included
    SegmentCount,   \* segments of the object
    PageCount,      \* pages of a segment (PAGES_PER_SEGMENT)
    Values,         \* what a page may contain
    Zero,           \* the content of a page the system has just supplied
    BackingData,    \* the contents the rebuild / backing_read callback may return
    Ranges,         \* bound: the page ranges <<lo, hi>> the application leases
    OverlayLimit,   \* cfg.overlay_consolidate_pages
    MaxGeneration,  \* bound: no WRITE lease is requested above this generation
    DecommitTears   \* TRUE: decommit_pages may discard the data and still fail

Segments == 0 .. SegmentCount - 1
Pages    == 0 .. PageCount - 1
AllPages == 0 .. SegmentCount * PageCount - 1   \* page numbers in the object
Content  == [Pages -> Values]
Blank    == [p \in Pages |-> Zero]

ASSUME ConstantsAssumption ==
    /\ IsFiniteSet(Threads)
    /\ SegmentCount \in Nat \ {0}
    /\ PageCount \in Nat \ {0}
    /\ Zero \in Values
    /\ BackingData \subseteq Content
    /\ Ranges \subseteq {r \in AllPages \X AllPages : r[1] <= r[2]}
    /\ OverlayLimit \in Nat
    /\ MaxGeneration \in Nat
    /\ DecommitTears \in BOOLEAN

VARIABLES
    \* Segment
    raw,          \* the arena bytes of the segment
    committed,    \* raw_committed
    restoring,    \* restoring
    pins,         \* pin_count
    generation,   \* generation
    base,         \* base_kind and base_blob
    bitmap,       \* overlay_bitmap
    overlay,      \* overlay pages (meaningful on bitmap)
    hash,         \* authoritative_hash
    hashValid,    \* hash_valid
    \* a call in progress
    pc,           \* where the thread is in sr_acquire / sr_release / prewarm
    lease,        \* the request: mode, first and last segment, first and last page
    at,           \* index of the segment loop the thread is in
    held,         \* segments of lease->segments it has pinned and not unpinned
    job,          \* what materialize_and_pin copied under the lock
    scratch,      \* the rebuilt bytes
    built,        \* the local variable ok
    \* a compaction in progress
    cpc,          \* where the thread is in compact_one
    victim,       \* the candidate
    snap          \* generation and bytes copied by consolidate_and_decommit

storeVars   == <<raw, committed, base, bitmap, overlay, hash, hashValid, generation>>
callVars    == <<pc, lease, at, held>>
restoreVars == <<job, scratch, built>>
compactVars == <<cpc, victim, snap>>
vars == <<storeVars, restoring, pins, callVars, restoreVars, compactVars>>

BaseKinds == {"NONE", "BACKING", "COMPRESSED"}
Modes     == {"READ", "WRITE", "PREWARM"}
RestorePcs == {"gate", "copy", "build", "fill", "publish"}
CallPcs   == {"idle", "pin", "wait", "leased", "journal", "unpin"} \cup RestorePcs
CompactPcs == {"none", "direct", "snapshot", "swap"}

NoBase      == [kind |-> "NONE", data |-> Blank]
BackingBase == [kind |-> "BACKING", data |-> Blank]
NoLease     == [mode |-> "READ", first |-> 0, last |-> 0, lo |-> 0, hi |-> 0]
NoJob       == [base |-> NoBase, bitmap |-> {}, overlay |-> Blank,
                hash |-> Blank, hashValid |-> FALSE]
NoSnap      == [generation |-> 0, data |-> Blank]

(***************************************************************************)
(* sr_register_object leaves every segment of an object in one of three    *)
(* states: loaded from initial data (no base), loaded and trusted to match *)
(* its backing, or unloaded with only its backing.                         *)
(***************************************************************************)
Loaded(b, d) ==
    /\ raw = d /\ hash = d
    /\ committed = [s \in Segments |-> TRUE]
    /\ hashValid = [s \in Segments |-> TRUE]
    /\ base = [s \in Segments |-> b]

RegisteredWithData   == \E d \in [Segments -> Content] : Loaded(NoBase, d)
RegisteredTrusted    == \E d \in [Segments -> BackingData] : Loaded(BackingBase, d)
RegisteredByBacking  ==
    /\ raw = [s \in Segments |-> Blank] /\ hash = [s \in Segments |-> Blank]
    /\ committed = [s \in Segments |-> FALSE]
    /\ hashValid = [s \in Segments |-> FALSE]
    /\ base = [s \in Segments |-> BackingBase]

Init ==
    /\ RegisteredWithData \/ RegisteredTrusted \/ RegisteredByBacking
    /\ bitmap = [s \in Segments |-> {}]
    /\ overlay = [s \in Segments |-> Blank]
    /\ generation = [s \in Segments |-> 0]
    /\ restoring = [s \in Segments |-> FALSE]
    /\ pins = [s \in Segments |-> 0]
    /\ pc = [t \in Threads |-> "idle"]
    /\ lease = [t \in Threads |-> NoLease]
    /\ at = [t \in Threads |-> 0]
    /\ held = [t \in Threads |-> {}]
    /\ job = [t \in Threads |-> NoJob]
    /\ scratch = [t \in Threads |-> Blank]
    /\ built = [t \in Threads |-> FALSE]
    /\ cpc = [t \in Threads |-> "none"]
    /\ victim = [t \in Threads |-> 0]
    /\ snap = [t \in Threads |-> NoSnap]

-----------------------------------------------------------------------------
(***************************************************************************)
(* sr_acquire and prewarm                                                  *)
(***************************************************************************)

SegmentOf(page) == page \div PageCount

Request(t, mode, lo, hi) ==
    /\ pc[t] = "idle" /\ cpc[t] = "none"
    /\ lease' = [lease EXCEPT ![t] = [mode |-> mode, first |-> SegmentOf(lo),
                                      last |-> SegmentOf(hi), lo |-> lo, hi |-> hi]]
    /\ at' = [at EXCEPT ![t] = SegmentOf(lo)]
    /\ pc' = [pc EXCEPT ![t] = "pin"]
    /\ UNCHANGED <<storeVars, restoring, pins, held, restoreVars, compactVars>>

Acquire(t) ==
    \E r \in Ranges, mode \in {"READ", "WRITE"} :
        /\ mode = "WRITE" =>
             \A s \in SegmentOf(r[1]) .. SegmentOf(r[2]) : generation[s] < MaxGeneration
        /\ Request(t, mode, r[1], r[2])

\* prewarm calls materialize_and_pin with pin = false, one segment at a time.
Prewarm(t) ==
    \E s \in Segments :
        Request(t, "PREWARM", s * PageCount, s * PageCount + PageCount - 1)

\* materialize_and_pin returned SR_OK for segment at[t]: the next one, or done.
NextPc(t) ==
    IF at[t] < lease[t].last THEN "pin"
    ELSE IF lease[t].mode = "PREWARM" THEN "idle" ELSE "leased"

NextAtPastLast(t) == at[t] + 1

NextAt(t) == IF at[t] < lease[t].last THEN at[t] + 1 ELSE at[t]

\* materialize_and_pin returned an error: sr_acquire unpins what it has pinned.
FailPcLeaking(t) == "idle"

FailPc(t) == IF held[t] = {} THEN "idle" ELSE "unpin"

Pin(t) ==
    /\ pins' = IF lease[t].mode = "PREWARM" THEN pins
               ELSE [pins EXCEPT ![at[t]] = @ + 1]
    /\ held' = IF lease[t].mode = "PREWARM" THEN held
               ELSE [held EXCEPT ![t] = @ \cup {at[t]}]
    /\ at' = [at EXCEPT ![t] = NextAt(t)]

\* s.cv.notify_all() by t, which itself goes to next: the waiters on the
\* segment of t take the lock again and look at it afresh.
NotifyNobody(t, next) == pc' = [pc EXCEPT ![t] = next]

Notify(t, next) ==
    pc' = [u \in Threads |->
             IF u = t THEN next
             ELSE IF pc[u] = "wait" /\ at[u] = at[t] THEN "pin" ELSE pc[u]]

PinResident(t) ==
    /\ pc[t] = "pin" /\ committed[at[t]]
    /\ Pin(t)
    /\ pc' = [pc EXCEPT ![t] = NextPc(t)]
    /\ UNCHANGED <<storeVars, restoring, lease, restoreVars, compactVars>>

Wait(t) ==
    /\ pc[t] = "pin" /\ ~committed[at[t]] /\ restoring[at[t]]
    /\ pc' = [pc EXCEPT ![t] = "wait"]
    /\ UNCHANGED <<storeVars, restoring, pins, lease, at, held, restoreVars, compactVars>>

MayRestore(s) == ~committed[s] /\ ~restoring[s]

BeginRestore(t) ==
    /\ pc[t] = "pin" /\ MayRestore(at[t])
    /\ restoring' = [restoring EXCEPT ![at[t]] = TRUE]
    /\ pc' = [pc EXCEPT ![t] = "gate"]
    /\ UNCHANGED <<storeVars, pins, lease, at, held, restoreVars, compactVars>>

GatePass(t) ==
    /\ pc[t] = "gate" /\ cpc[t] = "none"
    /\ pc' = [pc EXCEPT ![t] = "copy"]
    /\ UNCHANGED <<storeVars, restoring, pins, lease, at, held, restoreVars, compactVars>>

EndRestore(s) == restoring' = [restoring EXCEPT ![s] = FALSE]

\* SR_ERR_BUDGET
GateRefuse(t) ==
    /\ pc[t] = "gate" /\ cpc[t] = "none"
    /\ EndRestore(at[t])
    /\ Notify(t, FailPc(t))
    /\ UNCHANGED <<storeVars, pins, lease, at, held, restoreVars, compactVars>>

CopySegment(t) ==
    /\ pc[t] = "copy"
    /\ LET s == at[t] IN
       job' = [job EXCEPT ![t] = [base |-> base[s], bitmap |-> bitmap[s],
                                  overlay |-> overlay[s], hash |-> hash[s],
                                  hashValid |-> hashValid[s]]]
    /\ pc' = [pc EXCEPT ![t] = "build"]
    /\ UNCHANGED <<storeVars, restoring, pins, lease, at, held, scratch, built, compactVars>>

\* The overlay pages b of ov laid over the content d.
Compose(d, b, ov) == [p \in Pages |-> IF p \in b THEN ov[p] ELSE d[p]]

\* What build_from_base may find under the overlay; empty when it fails.
BaseContents(b) ==
    {d \in BackingData : b.kind = "BACKING"} \cup {d \in {b.data} : b.kind = "COMPRESSED"}

NotVerified(t, content) == TRUE

Verified(t, content) == job[t].hashValid => content = job[t].hash

\* build_from_base and the hash check succeed.
Rebuild(t) ==
    /\ pc[t] = "build"
    /\ \E d \in BaseContents(job[t].base) :
         LET content == Compose(d, job[t].bitmap, job[t].overlay) IN
         /\ Verified(t, content)
         /\ scratch' = [scratch EXCEPT ![t] = content]
    /\ built' = [built EXCEPT ![t] = TRUE]
    /\ pc' = [pc EXCEPT ![t] = "fill"]
    /\ UNCHANGED <<storeVars, restoring, pins, lease, at, held, job, compactVars>>

\* The callback fails, there is no base, or the content fails its hash.
RebuildFails(t) ==
    /\ pc[t] = "build"
    /\ \/ job[t].base.kind \in {"NONE", "BACKING"}
       \/ \E d \in BaseContents(job[t].base) :
            ~Verified(t, Compose(d, job[t].bitmap, job[t].overlay))
    /\ built' = [built EXCEPT ![t] = FALSE]
    /\ pc' = [pc EXCEPT ![t] = "publish"]
    /\ UNCHANGED <<storeVars, restoring, pins, lease, at, held, job, scratch, compactVars>>

\* commit_pages, then memset and memcpy into the arena, without the lock.
Fill(t) ==
    /\ pc[t] = "fill"
    /\ \/ raw' = [raw EXCEPT ![at[t]] = scratch[t]] /\ UNCHANGED built
       \/ built' = [built EXCEPT ![t] = FALSE] /\ UNCHANGED raw
    /\ pc' = [pc EXCEPT ![t] = "publish"]
    /\ UNCHANGED <<committed, base, bitmap, overlay, hash, hashValid, generation,
                   restoring, pins, lease, at, held, job, scratch, compactVars>>

Forget(t) ==
    /\ job' = [job EXCEPT ![t] = NoJob]
    /\ scratch' = [scratch EXCEPT ![t] = Blank]
    /\ built' = [built EXCEPT ![t] = FALSE]

\* fnv1a64 of the arena bytes of s
FreshHash(s) == raw[s]

Publish(t) ==
    /\ pc[t] = "publish" /\ built[t]
    /\ LET s == at[t] IN
       /\ committed' = [committed EXCEPT ![s] = TRUE]
       /\ hash' = IF hashValid[s] THEN hash ELSE [hash EXCEPT ![s] = FreshHash(s)]
       /\ hashValid' = [hashValid EXCEPT ![s] = TRUE]
       /\ EndRestore(s)
    /\ Pin(t)
    /\ Notify(t, NextPc(t))
    /\ Forget(t)
    /\ UNCHANGED <<raw, base, bitmap, overlay, generation, lease, compactVars>>

\* SR_ERR_CORRUPTION or SR_ERR_BACKING
PublishFailure(t) ==
    /\ pc[t] = "publish" /\ ~built[t]
    /\ EndRestore(at[t])
    /\ Notify(t, FailPc(t))
    /\ Forget(t)
    /\ UNCHANGED <<storeVars, pins, lease, at, held, compactVars>>

-----------------------------------------------------------------------------
(***************************************************************************)
(* The life of a lease and sr_release                                      *)
(***************************************************************************)

\* The pages of segment s in the range the application leased.
LeasedPages(t, s) ==
    {p \in Pages : lease[t].lo <= s * PageCount + p /\ s * PageCount + p <= lease[t].hi}

\* The application stores into the leased range.
Write(t) ==
    /\ pc[t] = "leased" /\ lease[t].mode = "WRITE"
    /\ \E s \in held[t] : \E p \in LeasedPages(t, s), v \in Values :
         raw' = [raw EXCEPT ![s][p] = v]
    /\ UNCHANGED <<committed, base, bitmap, overlay, hash, hashValid, generation,
                   restoring, pins, callVars, restoreVars, compactVars>>

BeginRelease(t) ==
    /\ pc[t] = "leased"
    /\ pc' = [pc EXCEPT ![t] = IF lease[t].mode = "WRITE" THEN "journal" ELSE "unpin"]
    /\ at' = [at EXCEPT ![t] = lease[t].first]
    /\ UNCHANGED <<storeVars, restoring, pins, lease, held, restoreVars, compactVars>>

Lower(a, b)  == IF a < b THEN a ELSE b
Higher(a, b) == IF a < b THEN b ELSE a

\* overlapping_pages_bitmap: the range lo .. hi clipped to segment s, as page
\* indexes of the segment.
OverlappingPagesShort(s, lo, hi) ==
    LET origin == s * PageCount
        begin  == Higher(origin, lo)
        end    == Lower(origin + PageCount, hi + 1) IN
    {p \in Pages : begin < end /\ begin - origin <= p /\ p < end - 1 - origin}

OverlappingPages(s, lo, hi) ==
    LET origin == s * PageCount
        begin  == Higher(origin, lo)
        end    == Lower(origin + PageCount, hi + 1) IN
    {p \in Pages : begin < end /\ begin - origin <= p /\ p <= end - 1 - origin}

AfterJournal(t) == IF at[t] < lease[t].last THEN "journal" ELSE "unpin"

\* journal_write_segment of segment at[t].  Its SR_ERR_INTERNAL return needs an
\* evicted, unpinned or retired segment: without unregistration a caller that
\* met it would be stuck here.
Journal(t) ==
    /\ pc[t] = "journal"
    /\ committed[at[t]] /\ pins[at[t]] > 0
    /\ LET s == at[t]
           bits == OverlappingPages(s, lease[t].lo, lease[t].hi) IN
       /\ bitmap' = [bitmap EXCEPT ![s] = @ \cup bits]
       /\ overlay' = [overlay EXCEPT ![s] = Compose(@, bits, raw[s])]
       /\ generation' = [generation EXCEPT ![s] = @ + 1]
       /\ hash' = [hash EXCEPT ![s] = FreshHash(s)]
       /\ hashValid' = [hashValid EXCEPT ![s] = TRUE]
    /\ at' = [at EXCEPT ![t] = NextAt(t)]
    /\ pc' = [pc EXCEPT ![t] = AfterJournal(t)]
    /\ UNCHANGED <<raw, committed, base, restoring, pins, lease, held,
                   restoreVars, compactVars>>

\* unpin_segment, in the order of lease->segments
Unpin(t) ==
    /\ pc[t] = "unpin"
    /\ \E s \in held[t] :
         /\ \A r \in held[t] : s <= r
         /\ pins' = IF pins[s] > 0 THEN [pins EXCEPT ![s] = @ - 1] ELSE pins
         /\ held' = [held EXCEPT ![t] = @ \ {s}]
         /\ pc' = [pc EXCEPT ![t] = IF held[t] = {s} THEN "idle" ELSE "unpin"]
    /\ UNCHANGED <<storeVars, restoring, lease, at, restoreVars, compactVars>>

-----------------------------------------------------------------------------
(***************************************************************************)
(* Compaction: choose_eviction_candidate and compact_one, by the           *)
(* background thread, by sr_trim, or by a foreground caller that makes     *)
(* room inside the capacity gate.                                          *)
(***************************************************************************)
Evictable(s) == committed[s] /\ pins[s] = 0 /\ ~restoring[s]

ToCompactPc(t, next) == cpc' = [cpc EXCEPT ![t] = next]

DropSnap(t) ==
    /\ victim' = [victim EXCEPT ![t] = 0]
    /\ snap' = [snap EXCEPT ![t] = NoSnap]

Choose(t) ==
    /\ pc[t] \in {"idle", "gate"} /\ cpc[t] = "none"
    /\ \E s \in Segments : Evictable(s) /\ victim' = [victim EXCEPT ![t] = s]
    /\ ToCompactPc(t, "direct")
    /\ UNCHANGED <<storeVars, restoring, pins, callVars, restoreVars, snap>>

\* decommit_pages succeeds.
Decommit(s) ==
    /\ raw' = [raw EXCEPT ![s] = Blank]
    /\ committed' = [committed EXCEPT ![s] = FALSE]

\* decommit_pages returns false: madvise is refused, or (DecommitTears) the
\* mprotect that follows a successful madvise is.
DecommitFails(s) ==
    /\ UNCHANGED committed
    /\ \/ UNCHANGED raw
       \/ DecommitTears /\ raw' = [raw EXCEPT ![s] = Blank]

DirectAllowed(s) ==
    Evictable(s) /\ base[s].kind # "NONE" /\ Cardinality(bitmap[s]) <= OverlayLimit

DirectDecommit(t) ==
    /\ cpc[t] = "direct" /\ DirectAllowed(victim[t])
    /\ \/ Decommit(victim[t]) /\ ToCompactPc(t, "none") /\ DropSnap(t)
       \/ DecommitFails(victim[t]) /\ ToCompactPc(t, "snapshot") /\ UNCHANGED <<victim, snap>>
    /\ UNCHANGED <<base, bitmap, overlay, hash, hashValid, generation,
                   restoring, pins, callVars, restoreVars>>

DirectRefused(t) ==
    /\ cpc[t] = "direct" /\ ~DirectAllowed(victim[t])
    /\ ToCompactPc(t, "snapshot")
    /\ UNCHANGED <<storeVars, restoring, pins, callVars, restoreVars, victim, snap>>

Snapshot(t) ==
    /\ cpc[t] = "snapshot" /\ Evictable(victim[t])
    /\ snap' = [snap EXCEPT ![t] = [generation |-> generation[victim[t]],
                                    data |-> raw[victim[t]]]]
    /\ ToCompactPc(t, "swap")
    /\ UNCHANGED <<storeVars, restoring, pins, callVars, restoreVars, victim>>

\* The candidate is no longer evictable, or its bytes do not compress.
GiveUp(t) ==
    /\ \/ cpc[t] = "snapshot" /\ ~Evictable(victim[t])
       \/ cpc[t] = "swap"
    /\ ToCompactPc(t, "none")
    /\ DropSnap(t)
    /\ UNCHANGED <<storeVars, restoring, pins, callVars, restoreVars>>

StillCurrent(t) ==
    Evictable(victim[t]) /\ generation[victim[t]] = snap[t].generation

Swap(t) ==
    /\ cpc[t] = "swap" /\ StillCurrent(t)
    /\ LET s == victim[t] IN
       \/ /\ Decommit(s)
          /\ base' = [base EXCEPT ![s] = [kind |-> "COMPRESSED", data |-> snap[t].data]]
          /\ bitmap' = [bitmap EXCEPT ![s] = {}]
          /\ overlay' = [overlay EXCEPT ![s] = Blank]
          /\ hash' = [hash EXCEPT ![s] = snap[t].data]
          /\ hashValid' = [hashValid EXCEPT ![s] = TRUE]
       \/ DecommitFails(s) /\ UNCHANGED <<base, bitmap, overlay, hash, hashValid>>
    /\ ToCompactPc(t, "none")
    /\ DropSnap(t)
    /\ UNCHANGED <<generation, restoring, pins, callVars, restoreVars>>

\* The locked recheck fails: eviction_aborts_generation_changed.
SwapAborted(t) ==
    /\ cpc[t] = "swap" /\ ~StillCurrent(t)
    /\ ToCompactPc(t, "none")
    /\ DropSnap(t)
    /\ UNCHANGED <<storeVars, restoring, pins, callVars, restoreVars>>

-----------------------------------------------------------------------------
Materialize(t) ==
    \/ PinResident(t) \/ Wait(t) \/ BeginRestore(t)
    \/ GatePass(t) \/ GateRefuse(t) \/ CopySegment(t)
    \/ Rebuild(t) \/ RebuildFails(t) \/ Fill(t)
    \/ Publish(t) \/ PublishFailure(t)

Release(t) == Journal(t) \/ Unpin(t)

CompactOne(t) ==
    \/ DirectDecommit(t) \/ DirectRefused(t)
    \/ Snapshot(t) \/ GiveUp(t) \/ Swap(t) \/ SwapAborted(t)

Next ==
    \E t \in Threads :
        \/ Acquire(t) \/ Prewarm(t) \/ Materialize(t)
        \/ Write(t) \/ BeginRelease(t) \/ Release(t)
        \/ Choose(t) \/ CompactOne(t)

Spec == Init /\ [][Next]_vars

(***************************************************************************)
(* A thread inside a call keeps running: the operating system schedules    *)
(* it, and none of its steps blocks on anything but Segment::mu and cv.    *)
(* The capacity gate is left in the end (strong fairness): its compact_to  *)
(* stops after 17 candidates in a row that could not be evicted, and each  *)
(* one evicted stays so, since capacity_mu keeps other restores out.       *)
(* Nothing says that the application ever calls, writes or releases, nor   *)
(* that the gate passes.                                                   *)
(***************************************************************************)
Fairness ==
    \A t \in Threads :
        /\ WF_vars(Materialize(t)) /\ WF_vars(Release(t)) /\ WF_vars(CompactOne(t))
        /\ SF_vars(GatePass(t) \/ GateRefuse(t))

FairSpec == Spec /\ Fairness
-----------------------------------------------------------------------------
(***************************************************************************)
(* What must hold                                                          *)
(***************************************************************************)
BaseType == [kind : BaseKinds, data : Content]

StoreTypeOK ==
    /\ raw \in [Segments -> Content]
    /\ committed \in [Segments -> BOOLEAN]
    /\ base \in [Segments -> BaseType]
    /\ bitmap \in [Segments -> SUBSET Pages]
    /\ overlay \in [Segments -> Content]
    /\ hash \in [Segments -> Content]
    /\ hashValid \in [Segments -> BOOLEAN]
    /\ generation \in [Segments -> Nat]

LockTypeOK ==
    /\ restoring \in [Segments -> BOOLEAN]
    /\ pins \in [Segments -> Nat]

CallTypeOK ==
    /\ pc \in [Threads -> CallPcs]
    /\ lease \in [Threads -> [mode : Modes, first : Segments, last : Segments,
                              lo : AllPages, hi : AllPages]]
    /\ at \in [Threads -> Segments]
    /\ held \in [Threads -> SUBSET Segments]

RestoreTypeOK ==
    /\ job \in [Threads -> [base : BaseType, bitmap : SUBSET Pages, overlay : Content,
                            hash : Content, hashValid : BOOLEAN]]
    /\ scratch \in [Threads -> Content]
    /\ built \in [Threads -> BOOLEAN]

CompactTypeOK ==
    /\ cpc \in [Threads -> CompactPcs]
    /\ victim \in [Threads -> Segments]
    /\ snap \in [Threads -> [generation : Nat, data : Content]]

TypeOK == StoreTypeOK /\ LockTypeOK /\ CallTypeOK /\ RestoreTypeOK /\ CompactTypeOK

Holders(s)    == {t \in Threads : s \in held[t]}
Restorers(s)  == {t \in Threads : pc[t] \in RestorePcs /\ at[t] = s}
\* Pages of s an application may be storing into, or has not journaled yet.
Unjournaled(s) ==
    UNION {LeasedPages(t, s) : t \in
        {u \in Threads : /\ s \in held[u] /\ lease[u].mode = "WRITE"
                         /\ pc[u] = "leased" \/ (pc[u] = "journal" /\ s >= at[u])}}

\* pin_count counts the leases that hold the segment: no error path of
\* sr_acquire leaks a pin, none is given back twice.
PinsCountHolders == \A s \in Segments : pins[s] = Cardinality(Holders(s))

\* A pinned segment stays mapped and is not being restored: the pointer of
\* sr_lease_data is valid until sr_release.
LeasedIsResident ==
    \A t \in Threads : \A s \in held[t] : committed[s] /\ ~restoring[s]

\* restoring is a lock: it is set exactly while one thread restores the
\* segment, and only a segment that is not mapped is restored.
OneRestorer ==
    \A s \in Segments :
        /\ restoring[s] => ~committed[s] /\ Cardinality(Restorers(s)) = 1
        /\ ~restoring[s] => Restorers(s) = {}

\* A backing that always returns the same content (rebuild is deterministic).
BackingIsHonest == BackingData # {} /\ \A d, e \in BackingData : d = e

\* The contents materialize_and_pin could produce for s.
Rebuilt(s) == {Compose(d, bitmap[s], overlay[s]) : d \in BaseContents(base[s])}

\* Acknowledged writes survive dormancy: outside the ranges still being
\* written, the base and the overlay rebuild exactly what the arena holds.
BackingAgrees ==
    \A s \in Segments : \A p \in Pages \ Unjournaled(s) :
        (committed[s] /\ (base[s].kind = "BACKING" => BackingIsHonest))
            => \A d \in Rebuilt(s) : d[p] = raw[s][p]

\* authoritative_hash is the hash of the arena whenever nobody is writing.
HashAgrees ==
    \A s \in Segments :
        (committed[s] /\ Unjournaled(s) = {}) => hashValid[s] /\ hash[s] = raw[s]

\* include/stateram_core.h:188-190: "A WRITE lease is conservatively journaled
\* at page granularity on release, so acknowledged writes survive later
\* dormancy."  Once nobody is writing, a mapped segment that has been written
\* holds the bytes that were last acknowledged.
AcknowledgedWritesSurvive ==
    \A s \in Segments :
        (generation[s] > 0 /\ committed[s] /\ Unjournaled(s) = {}) => raw[s] = hash[s]

\* A dormant segment can be rebuilt, and what is rebuilt passes its hash: no
\* order of leases and evictions makes a later sr_acquire fail with
\* SR_ERR_CORRUPTION.
DormantIsRecoverable ==
    \A s \in Segments :
        (~committed[s] /\ hashValid[s] /\
         (base[s].kind = "BACKING" => BackingIsHonest)) => Rebuilt(s) = {hash[s]}

\* A restore uses what it copied under the lock long after: the segment must
\* not have moved meanwhile.
RestoreIsCurrent ==
    \A t \in Threads : pc[t] \in {"build", "fill", "publish"} =>
        LET s == at[t] IN
        job[t] = [base |-> base[s], bitmap |-> bitmap[s], overlay |-> overlay[s],
                  hash |-> hash[s], hashValid |-> hashValid[s]]

\* What a lease promises its holder: a pin of its own on every segment it has
\* acquired, through failures on later segments, and the segment mapped.
LeasesHold == PinsCountHolders /\ LeasedIsResident

\* What the parts of a segment owe each other: one restorer, which works on
\* what the segment still is, a base and an overlay that rebuild the arena and
\* the hash of the arena.
SegmentsAgree == OneRestorer /\ RestoreIsCurrent /\ BackingAgrees /\ HashAgrees

\* The bytes consolidate_and_decommit installs as the new base are the bytes
\* it discards: a write journaled while it was encoding is never dropped.
SwapKeepsNewest ==
    [][\A s \in Segments : base'[s] # base[s] =>
         base'[s].data = raw[s] /\ hash'[s] = raw[s]]_vars

(***************************************************************************)
(* The object is a memory: eviction, journaling, consolidation and         *)
(* restoration are invisible (include/stateram_core.h:188-190).            *)
(***************************************************************************)
Memory == INSTANCE LeasedMemory WITH
    Segments <- Segments, Pages <- Pages,
    mem <- [s \in Segments |-> IF committed[s] THEN raw[s] ELSE hash[s]],
    known <- hashValid,
    grants <- [t \in Threads |->
        IF pc[t] = "leased" THEN [mode |-> lease[t].mode,
                                   pages |-> [s \in Segments |-> LeasedPages(t, s)]]
        ELSE [mode |-> "NONE", pages |-> [s \in Segments |-> {}]]]

IsMemory == Memory!Spec

\* Every restore ends, successfully or not, and every thread that waited for
\* it is woken: no wakeup is lost on an error path.
RestoreEnds   == \A s \in Segments : restoring[s] ~> ~restoring[s]
WaiterReturns == \A t \in Threads : pc[t] = "wait" ~> pc[t] # "wait"
WaitsEnd      == RestoreEnds /\ WaiterReturns
=============================================================================
