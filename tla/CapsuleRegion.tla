--------------------------- MODULE CapsuleRegion ---------------------------
(***************************************************************************)
(* The capsule SDK (src/stateram_sdk.cpp): one region of memory that an    *)
(* application writes to directly and that can be put to sleep.  A         *)
(* background thread compresses a baseline of every unit while the         *)
(* application keeps writing; the write watch of the operating system      *)
(* tells which pages the baseline missed; sr_enter_dormant appends those   *)
(* pages to the capsule and gives the memory back; the core is restored at *)
(* once and the rest by a second background thread.                        *)
(*                                                                         *)
(* One application thread calls the SDK and writes to the region, as every *)
(* host of the repository does; the two background threads run beside it.  *)
(* A call that fails without a trace is left out: it changes nothing.      *)
(***************************************************************************)
EXTENDS Integers, FiniteSets

CONSTANTS
    UnitCount,      \* units of the region
    CoreCount,      \* units that sr_resume_core restores
    PagesPerUnit,
    Values,         \* what a page can hold
    Gone,           \* what a page that is decommitted holds
    Missing,        \* no baseline yet, or NO_DELTA
    Retries         \* whether sr_enter_dormant is called again after a
                    \* failure that left part of the dirty pages behind

ASSUME RegionAssumption ==
    /\ UnitCount \in Nat /\ CoreCount \in Nat /\ PagesPerUnit \in Nat \ {0}
    /\ 0 < CoreCount /\ CoreCount < UnitCount
    /\ Gone \notin Values /\ Missing \notin Values /\ Gone # Missing
    /\ Retries \in BOOLEAN

Units     == 1 .. UnitCount
CoreUnits == 1 .. CoreCount
Pages     == Units \X (1 .. PagesPerUnit)

UnitOf(p)    == p[1]
Before(p, q) == p[1] < q[1] \/ (p[1] = q[1] /\ p[2] < q[2])

\* PackedArena reserves twice the region; counted in pages.
PackPages == 2 * UnitCount * PagesPerUnit

VARIABLES
    state,      \* SRState
    arena,      \* what the application sees in each page
    touched,    \* the write watch: pages written since it was reset
    packed,     \* the capsule exists (pack is not null)
    used,       \* used_ of the pack, in pages
    base,       \* what refs[] rebuilds for each page
    delta,      \* what delta_offsets[] adds
    builder,    \* baseline_thread: no handle, running, ended
    built,      \* units it has compressed
    cancel,     \* baseline_cancel
    deep,       \* deep_thread: no handle, running, ended
    restored,   \* units restored so far
    deepOk,     \* deep_ok
    call,       \* the call that waits for a thread
    freed,      \* sr_destroy has returned
    \* what the application knows
    wrote,      \* the last value it wrote to each page
    mutated,    \* it has written since the region began to resume
    spent       \* a failed sr_enter_dormant left dirty pages behind

capsuleVars == <<packed, used, base, delta>>
builderVars == <<builder, built, cancel>>
deepVars    == <<deep, restored, deepOk>>
appVars     == <<call, freed, wrote, mutated, spent>>
vars == <<state, arena, touched, capsuleVars, builderVars, deepVars, appVars>>

\* SR_ACTIVE_NO_CAPSULE, SR_BASELINE_BUILDING, SR_ACTIVE_BASELINE, SR_DORMANT,
\* SR_CORE_RESUMED, SR_DEEP_RESTORING and SR_ACTIVE_CAPSULE
States  == {"active", "building", "baseline", "dormant", "core", "deep", "capsule"}
Threads == {"none", "running", "ended"}

\* sr_create commits zeroed pages.
Init ==
    /\ state = "active"
    /\ \E zero \in Values : arena = [p \in Pages |-> zero]
    /\ touched = {}
    /\ packed = FALSE /\ used = 0
    /\ base = [p \in Pages |-> Missing]
    /\ delta = [p \in Pages |-> Missing]
    /\ builder = "none" /\ built = 0 /\ cancel = FALSE
    /\ deep = "none" /\ restored = 0 /\ deepOk = FALSE
    /\ call = "none" /\ freed = FALSE
    /\ wrote = arena /\ mutated = FALSE /\ spent = FALSE

Idle == call = "none" /\ ~freed

NoThreads == builder = "none" /\ deep = "none"

-----------------------------------------------------------------------------
\* The application writes where memory is committed; while the region is
\* resuming it keeps to the core.
Writable(p) ==
    \/ state \in {"active", "building", "baseline", "capsule"}
    \/ state \in {"core", "deep"} /\ UnitOf(p) \in CoreUnits

Write(p, v) ==
    /\ Idle /\ Writable(p) /\ arena[p] # v
    /\ arena' = [arena EXCEPT ![p] = v]
    /\ wrote' = [wrote EXCEPT ![p] = v]
    /\ touched' = touched \cup {p}
    /\ mutated' = (mutated \/ state \in {"core", "deep", "capsule"})
    /\ UNCHANGED <<state, capsuleVars, builderVars, deepVars, call, freed, spent>>

(***************************************************************************)
(* The baseline: sr_begin_background_baseline and baseline_thread_proc     *)
(***************************************************************************)
ClearCapsule ==
    /\ packed' = FALSE /\ used' = 0
    /\ base' = [p \in Pages |-> Missing]
    /\ delta' = [p \in Pages |-> Missing]

BeginBaseline ==
    /\ Idle /\ NoThreads /\ state = "active"
    /\ packed' = TRUE /\ used' = 0
    /\ base' = [p \in Pages |-> Missing]
    /\ delta' = [p \in Pages |-> Missing]
    /\ touched' = {}
    /\ builder' = "running" /\ built' = 0 /\ cancel' = FALSE
    /\ state' = "building"
    /\ UNCHANGED <<arena, deepVars, appVars>>

\* CreateThread fails: the watch is reset and the capsule taken away again.
BeginFails ==
    /\ Idle /\ NoThreads /\ state = "active"
    /\ ClearCapsule
    /\ touched' = {}
    /\ UNCHANGED <<state, arena, builderVars, deepVars, appVars>>

\* What Compress can read of a page.  The application may be writing to a
\* page of the watch at this moment, and then the bytes are anything.
Read(p) == IF p \in touched THEN Values ELSE {arena[p]}

\* PackedArena::append
FitsAlways(n) == n \in Nat

Fits(n) == used + n <= PackPages

\* compress_append of the next unit
BuildUnit ==
    /\ builder = "running" /\ built < UnitCount
    /\ \E image \in [1 .. PagesPerUnit -> Values], cost \in 1 .. PagesPerUnit :
         LET u == built + 1 IN
         /\ \A i \in 1 .. PagesPerUnit : image[i] \in Read(<<u, i>>)
         /\ Fits(cost)
         /\ base' = [p \in Pages |-> IF UnitOf(p) = u THEN image[p[2]] ELSE base[p]]
         /\ used' = used + cost
    /\ built' = built + 1
    /\ UNCHANGED <<state, arena, touched, packed, delta, builder, cancel, deepVars, appVars>>

MayAbandonEarly == built < UnitCount

MayAbandon == built < UnitCount \/ cancel

\* A cancellation, memory pressure, or a failure to compress or to append.
AbandonBaseline ==
    /\ builder = "running" /\ MayAbandon
    /\ ClearCapsule
    /\ state' = "active"
    /\ builder' = "ended"
    /\ UNCHANGED <<arena, touched, built, cancel, deepVars, appVars>>

CompleteResettingWatch ==
    /\ builder = "running" /\ built = UnitCount /\ ~cancel
    /\ touched' = {}
    /\ state' = "baseline"
    /\ builder' = "ended"
    /\ UNCHANGED <<arena, capsuleVars, built, cancel, deepVars, appVars>>

CompleteBaseline ==
    /\ builder = "running" /\ built = UnitCount /\ ~cancel
    /\ state' = "baseline"
    /\ builder' = "ended"
    /\ UNCHANGED <<arena, touched, capsuleVars, built, cancel, deepVars, appVars>>

\* sr_wait_baseline, when it does not time out
WaitBaseline ==
    /\ Idle /\ builder = "ended"
    /\ builder' = "none"
    /\ UNCHANGED <<state, arena, touched, capsuleVars, built, cancel, deepVars, appVars>>

\* sr_cancel_background_baseline waits 30 seconds for the thread.
Cancel ==
    /\ Idle /\ builder # "none"
    /\ cancel' = TRUE
    /\ call' = "cancel"
    /\ UNCHANGED <<state, arena, touched, capsuleVars, builder, built, deepVars,
                   freed, wrote, mutated, spent>>

CancelJoins ==
    /\ call = "cancel" /\ builder = "ended"
    /\ builder' = "none"
    /\ call' = "none"
    /\ UNCHANGED <<state, arena, touched, capsuleVars, built, cancel, deepVars,
                   freed, wrote, mutated, spent>>

CancelTimesOut ==
    /\ call = "cancel" /\ builder = "running"
    /\ call' = "none"
    /\ UNCHANGED <<state, arena, touched, capsuleVars, builderVars, deepVars,
                   freed, wrote, mutated, spent>>

-----------------------------------------------------------------------------
(***************************************************************************)
(* Going to sleep: sr_enter_dormant                                        *)
(***************************************************************************)
MayEnterDormant ==
    /\ Idle /\ packed /\ NoThreads /\ state = "baseline"
    /\ spent => Retries

\* Append these pages, of those GetWriteWatch returned and has reset.
Capture(pages) ==
    /\ Fits(Cardinality(pages))
    /\ used' = used + Cardinality(pages)
    /\ delta' = [p \in Pages |-> IF p \in pages THEN arena[p] ELSE delta[p]]
    /\ touched' = {}

EnterDormant ==
    /\ MayEnterDormant
    /\ Capture(touched)
    /\ arena' = [p \in Pages |-> Gone]
    /\ state' = "dormant"
    /\ UNCHANGED <<packed, base, builderVars, deepVars, appVars>>

\* The pack is exhausted or cannot be committed at some page, or VirtualFree
\* fails after the last one.
EnterDormantFails ==
    /\ MayEnterDormant
    /\ \E pages \in SUBSET touched :
         /\ \A p \in pages, q \in touched \ pages : Before(p, q)
         /\ Capture(pages)
         /\ spent' = (spent \/ pages # touched)
    /\ UNCHANGED <<state, arena, packed, base, builderVars, deepVars,
                   call, freed, wrote, mutated>>

-----------------------------------------------------------------------------
(***************************************************************************)
(* Waking up: sr_resume_core, then deep_thread_proc                        *)
(***************************************************************************)
\* build_unit
Rebuilt(p) == IF delta[p] # Missing THEN delta[p] ELSE base[p]

\* The units are committed and filled; the write watch sees that too.
Restore(units) ==
    /\ arena' = [p \in Pages |-> IF UnitOf(p) \in units THEN Rebuilt(p) ELSE arena[p]]
    /\ touched' = touched \cup {p \in Pages : UnitOf(p) \in units}

ResumeCore ==
    /\ Idle /\ state = "dormant"
    /\ Restore(CoreUnits)
    /\ state' = "core"
    /\ mutated' = FALSE
    /\ UNCHANGED <<capsuleVars, builderVars, deepVars, call, freed, wrote, spent>>

\* VirtualAlloc fails at some unit; the region stays dormant.
ResumeCoreFails ==
    /\ Idle /\ state = "dormant"
    /\ \E u \in CoreUnits : Restore(1 .. u - 1)
    /\ UNCHANGED <<state, capsuleVars, builderVars, deepVars, appVars>>

StartDeep ==
    /\ Idle /\ deep = "none" /\ state = "core"
    /\ deep' = "running" /\ restored' = CoreCount /\ deepOk' = FALSE
    /\ state' = "deep"
    /\ UNCHANGED <<arena, touched, capsuleVars, builderVars, appVars>>

DeepUnit ==
    /\ deep = "running" /\ restored < UnitCount
    /\ Restore({restored + 1})
    /\ restored' = restored + 1
    /\ UNCHANGED <<state, capsuleVars, builderVars, deep, deepOk, appVars>>

DeepFails ==
    /\ deep = "running" /\ restored < UnitCount
    /\ deep' = "ended"
    /\ UNCHANGED <<state, arena, touched, capsuleVars, builderVars, restored, deepOk, appVars>>

DeepCompletes ==
    /\ deep = "running" /\ restored = UnitCount
    /\ deep' = "ended" /\ deepOk' = TRUE
    /\ state' = "capsule"
    /\ UNCHANGED <<arena, touched, capsuleVars, builderVars, restored, appVars>>

\* sr_wait_deep, when it does not time out
WaitDeep ==
    /\ Idle /\ deep = "ended"
    /\ deep' = "none"
    /\ state' = IF deepOk THEN "capsule" ELSE state
    /\ UNCHANGED <<arena, touched, capsuleVars, builderVars, restored, deepOk, appVars>>

-----------------------------------------------------------------------------
\* sr_rearm_existing_capsule, called "before the cooperative application
\* resumes mutating the arena": by an application that has not written since
\* sr_resume_core.
Rearm ==
    /\ Idle /\ packed /\ NoThreads /\ state = "capsule"
    /\ ~mutated
    /\ touched' = {}
    /\ state' = "baseline"
    /\ UNCHANGED <<arena, capsuleVars, builderVars, deepVars, appVars>>

MayReleaseAnytime == Idle /\ builder = "none" /\ state # "active"

MayRelease == Idle /\ NoThreads /\ state \in {"capsule", "baseline"}

ReleaseCapsule ==
    /\ MayRelease
    /\ ClearCapsule
    /\ state' = "active"
    /\ spent' = FALSE
    /\ UNCHANGED <<arena, touched, builderVars, deepVars, call, freed, wrote, mutated>>

\* sr_destroy joins both threads, the builder after cancelling it.
Destroy ==
    /\ Idle
    /\ call' = "destroy"
    /\ cancel' = (cancel \/ builder # "none")
    /\ UNCHANGED <<state, arena, touched, capsuleVars, builder, built, deepVars,
                   freed, wrote, mutated, spent>>

Joined == builder # "running" /\ deep # "running"

Destroyed ==
    /\ call = "destroy" /\ Joined
    /\ builder' = "none" /\ deep' = IF deep = "ended" THEN "none" ELSE deep
    /\ packed' = FALSE
    /\ freed' = TRUE
    /\ call' = "none"
    /\ UNCHANGED <<state, arena, touched, used, base, delta, built, cancel, restored, deepOk,
                   wrote, mutated, spent>>

-----------------------------------------------------------------------------
Application ==
    \/ \E p \in Pages, v \in Values : Write(p, v)
    \/ BeginBaseline \/ BeginFails \/ WaitBaseline \/ Cancel \/ CancelTimesOut
    \/ EnterDormant \/ EnterDormantFails \/ ResumeCore \/ ResumeCoreFails
    \/ StartDeep \/ WaitDeep \/ Rearm \/ ReleaseCapsule \/ Destroy

BuilderThread == BuildUnit \/ AbandonBaseline \/ CompleteBaseline
DeepThread    == DeepUnit \/ DeepFails \/ DeepCompletes
Join          == CancelJoins \/ Destroyed

Next == Application \/ BuilderThread \/ DeepThread \/ Join

Spec == Init /\ [][Next]_vars

\* The threads keep running, also in background mode, and a wait for a thread
\* that has ended returns.
Fairness == WF_vars(BuilderThread) /\ WF_vars(DeepThread) /\ WF_vars(Join)

FairSpec == Spec /\ Fairness
-----------------------------------------------------------------------------
TypeOK ==
    /\ state \in States
    /\ arena \in [Pages -> Values \cup {Gone}]
    /\ touched \subseteq Pages
    /\ packed \in BOOLEAN /\ used \in 0 .. PackPages
    /\ base \in [Pages -> Values \cup {Missing}]
    /\ delta \in [Pages -> Values \cup {Missing}]
    /\ builder \in Threads /\ built \in 0 .. UnitCount /\ cancel \in BOOLEAN
    /\ deep \in Threads /\ restored \in 0 .. UnitCount /\ deepOk \in BOOLEAN
    /\ call \in {"none", "cancel", "destroy"} /\ freed \in BOOLEAN
    /\ wrote \in [Pages -> Values] /\ mutated \in BOOLEAN /\ spent \in BOOLEAN

\* What the region holds for the application, asleep or not, and the region
\* as the contract sees it
Content == [p \in Pages |-> IF arena[p] = Gone THEN Rebuilt(p) ELSE arena[p]]

View == [state |-> IF freed THEN "none" ELSE state, builder |-> builder, deep |-> deep,
         content |-> Content, clean |-> ~mutated, whole |-> ~spent]

Contract == INSTANCE RegionContract WITH
    CorePages <- {p \in Pages : UnitOf(p) \in CoreUnits}, region <- View

\* The SDK keeps what stateram_sdk.h promises: the content of a region changes
\* by the application's writes alone, every call has the outcomes of
\* RegionCalls, and a thread changes nothing but the state.
KeepsContract == Contract!Spec

\* Every page holds, or can be rebuilt to, what the application last wrote
\* to it: through a baseline made while it was writing, several sleeps on one
\* capsule, failed calls and restores that stop half-way.
NothingIsLost ==
    ~freed => \A p \in Pages :
        wrote[p] = IF arena[p] = Gone THEN Rebuilt(p) ELSE arena[p]

\* What sr_enter_dormant relies on: a page the watch does not name is in the
\* capsule as the application left it.
WatchCoversCapsule ==
    /\ state = "baseline" /\ ~spent /\ ~freed =>
         \A p \in Pages \ touched : Rebuilt(p) = wrote[p]
    /\ builder = "running" =>
         \A p \in Pages \ touched : UnitOf(p) <= built => base[p] = wrote[p]

\* A region that is not whole in memory has a whole capsule to come back
\* from.
SleeperKeepsCapsule ==
    (~freed /\ \E p \in Pages : arena[p] = Gone) =>
        packed /\ \A p \in Pages : base[p] # Missing

\* The deep thread reads the capsule without a lock: no call of the application
\* drops, extends or replaces it meanwhile.
CapsuleIsStable == [][deep = "running" => UNCHANGED capsuleVars]_vars

\* The background threads take turns, and neither outlives the region.
ThreadsAreJoined ==
    /\ ~(builder = "running" /\ deep = "running")
    /\ freed => builder # "running" /\ deep # "running"

\* The capsule does what it is for: the region is what the application wrote,
\* the watch marks what the capsule lacks, a sleeper has a whole one, and one
\* thread at a time works on it.
CapsuleIsSound ==
    NothingIsLost /\ WatchCoversCapsule /\ SleeperKeepsCapsule /\ ThreadsAreJoined

\* Both threads end, cancelled or not, and sr_destroy returns.
ThreadsEnd == (builder = "running" ~> builder # "running") /\ (deep = "running" ~> deep # "running")
DestroyReturns == call = "destroy" ~> freed
CallsReturn == ThreadsEnd /\ DestroyReturns
=============================================================================
