# A verification of StateRAM

StateRAM keeps a program's cold state in a cheaper form than mapped memory and
brings it back when the program touches it. The repository holds a maintained
runtime, `core-v01/`, and the prototypes that led to it in the root directory
(`docs/RESEARCH_HISTORY.md`). This directory holds TLA+ models of the parts
that carry the logic, the TLC configurations that check them on small
instances, and proofs, checked by TLAPS, that what matters most holds on every
instance.

The models are translated from the code. Where a property quotes a header, a
comment or a test, the comment above the property says which line.

## The system

### Core runtime (`core-v01/src`, `core-v01/include/stateram_core.h`)

An application registers *objects*. An object is an address range cut into
segments of 256 KiB, each of which is mapped or not. A segment that is not
mapped can be rebuilt from its *base* (a compressed copy, or a rebuild callback
of the application), its *overlay* (pages written since the base was made) and
is checked against its *hash*.

| part | state | operations |
|---|---|---|
| segment | arena bytes, `raw_committed`, `restoring`, `pin_count`, `generation`, base, overlay and bitmap, hash and `hash_valid`, `retired`; a mutex and a condition variable | `materialize_and_pin`, `unpin_segment`, `journal_write_segment`, `direct_decommit_with_existing_base`, `consolidate_and_decommit` |
| object | segments, its share of the counters, hints, `retired` | `sr_register_object`, `sr_unregister_object` |
| context | `raw_resident_bytes`, `raw_inflight_bytes`, `pinned_bytes` and other counters (atomics); the table of objects (`objects_mu`); the capacity gate (`capacity_mu`); the predictor (`predictor_mu`); the background thread's flags (`bg_mu`) | `ensure_foreground_capacity`, `compact_to`, `choose_eviction_candidate`, `sr_trim`, `prewarm` |
| lease | object, range, mode, pinned segments | `sr_acquire`, `sr_lease_data`, `sr_mark_dirty`, `sr_release` |

Application threads acquire leases and read or write the arena directly while
they hold them. The background thread wakes on a period or on a hint and either
compacts or prewarms. A restore marks its segment, passes the capacity gate
(which may itself evict), copies base and overlay under the segment's mutex,
rebuilds outside it, and publishes. A compaction picks a victim by score with
`try_lock`, and later drops it if it is still evictable; when the victim has no
usable base it compresses a copy outside the mutex and swaps it in only if the
generation has not changed.

What is hard: the same segment is wanted by restorers, waiters, evictors and an
unregistration, each of which looks, lets the mutex go, and acts later; leases
over several segments fail half-way; decisions about the budget rest on sums
of atomics that are read one after the other.

### Capsule SDK (`stateram_sdk.cpp`, `stateram_sdk.h`)

One region of memory under the operating system's write watch, with a
*capsule*: an append-only pack that holds a compressed baseline of every unit
and later copies of dirty pages. State: the arena and its write watch,
`refs`, `delta_offsets`, the pack, `state` (`SR_ACTIVE_NO_CAPSULE` to
`SR_ACTIVE_CAPSULE`), two background threads with their flags. Operations:
create, begin/cancel/wait a background baseline, enter dormant, resume core,
start/wait deep, rearm, release, destroy. What is hard: the baseline is taken
while the application writes; every call can fail half-way; the threads read
what the calls change.

### Userfaultfd runtime (`stateram9.c`, `stateram9.h`)

A region whose pages are made by a *recipe*. State: the dirty bit and the
representation (nothing, delta or snapshot) of each page; in the kernel, which
pages are present and which are write-protected. A handler thread answers
faults: it makes a missing page from recipe and representation, or marks a
page dirty and lifts its protection. The application calls checkpoint,
dematerialize, materialize (each whole or on a range) and rebase. What is hard:
the handler and the calls share pages and bits and almost no lock.

### Hosts of the SDK (`phase7_host.cpp` to `phase14_governor.cpp`)

Each loads the SDK as a library, creates one region (phases 7 to 10) or four to
six *workspaces* (11 to 14), and takes them through sleep and restoration with a
hash of the content before and after. The later ones switch between workspaces:
the one in the foreground sleeps, another is resumed, deep restored, checked,
rearmed and written. Operations: the fixed order of calls, the foreground that
writes while a baseline is built, the ways out when a call fails. What is hard:
threads of the SDK run whenever a call fails, and a write at the wrong place in
the order is in no capsule.

### Guarded launchers (phases 10 to 14, `core-v01/evaluation`, `core-v01/workbench`)

A launcher starts one child suspended, puts it into a job object with limits,
resumes it, and polls it and the machine until the child ends or memory, CPU or
time are over their limits. It tells the outcome in a guard file and an exit
code. State: the job, the child's life, tick counts modulo 2^32, streaks of CPU
samples, the file of an earlier run. What is hard: the child, the launcher's
end, the job and the file change in any order.

### Remote capsules (`stateram_phase3_appaware.cpp` to `stateram_phase6_packed.cpp`)

The prototypes before the SDK: a parent keeps the memory of a child in a capsule
of its own, takes it away and writes it back, part of it while the child works.
The two share a block with one command and two events; every wait of the parent
has a timeout and none of the child's has. What is hard: a late answer, a lost
order, a child that dies, a failed step with later ones still to come.

### Recipe arena (`stateram_win_bench.cpp`)

Units whose content a recipe can make, materialized by `main` when it touches
them and by a prefetch worker, evicted oldest first when the budget is used up.
Pages that were written are saved as deltas. State: each unit's state, dirty
bit, delta and pins; the heap of ages with entries that have become invalid;
committed and pending bytes; the queue. One mutex guards all but the memory.
What is hard: recipes run and pages are read and written outside the mutex.

### What is left

| program | what it is |
|---|---|
| predictor and hints (`stateram_core.part2`, `part4`, `part6`) | transition counts and hint scores from which the background chooses what to prewarm |
| `stateram12_real_bench.c`, `stateram13_final_bench.c` | one thread with an LRU of segments over the userfaultfd runtime |
| the evaluator's and the workbench's child | sequences of core calls that are measured; a window with documents in leases |
| scripts, CI, reports, probes | building, running, comparing CSV files |

## Modules

| module | models | state and actions |
|---|---|---|
| `LeasedMemory` | what an object promises: a memory that changes only when the holder of a write lease stores into its range | `mem`, `known`, `grants`; `Grant`, `Store`, `Return`, `Look` |
| `SegmentLease` | the data path of the core for one object and any number of threads | the fields of `Segment`, and for each thread where it is in `sr_acquire`, `sr_release`, prewarm and `compact_one`; one action for each block under `Segment::mu` and for each thing done between two blocks |
| `SegmentLease_proofs` | theorems about `SegmentLease`, and that it implements `LeasedMemory` | |
| `CoreBudget` | the counters, the capacity gate, `compact_to`, registration, unregistration, the background thread | the counters modulo `Word`, the owners of `capacity_mu` and `objects_mu`, the flags of each segment, and where each thread is |
| `CoreBudget_proofs` | theorems about `CoreBudget` | |
| `CapsuleRegion` | one region of the SDK with its two threads | arena, write watch, capsule, `SRState`, thread handles and flags; one action for each call that returns at once, several for those that wait or work unit by unit |
| `CapsuleRegion_proofs` | theorems about `CapsuleRegion`, and that it implements `RegionContract` | |
| `RegionCalls` | what the calls of the SDK promise, for one region as a record | when a call is accepted, its outcomes on success and on failure, what the threads may make of it |
| `RegionContract` | an application's view of one region | `region`; `Write`, `Call`, `ThreadEnds`, `Destroy` |
| `CapsuleHosts` | the hosts of phases 7 to 14 over regions that behave as `RegionCalls` says | each host is a script of calls; one action runs a step, with success, failure and exception; others are the threads of the SDK, the foreground's writes and the clean-up |
| `CapsuleHosts_proofs` | theorems about `CapsuleHosts` | |
| `Launcher` | the seven guarded launchers | the job, the child, the clock, the samples, the guard file; a launch step, a poll, the stop, the report, the child's own steps, the launcher's sudden end |
| `Launcher_proofs` | theorems about `Launcher` | |
| `RemoteCapsule` | phases 3 to 6, both processes | the parent's script and capsule, the command block and the events, the child's memory and write watch |
| `RemoteCapsule_proofs` | theorems about `RemoteCapsule` | |
| `StateArena` | the recipe arena | units, counters, heap, queue, and where `main` and the worker are; one action for each block under the mutex and for each access to memory outside it |
| `StateArena_proofs` | theorems about `StateArena` | |
| `TrackedRegion` | the userfaultfd runtime with its handler | pages present and writable, faults pending, dirty bits, representations; the handler in four steps, each call of the library page by page |
| `TrackedRegion_proofs` | theorems about `TrackedRegion` | |
| `MCSegmentLease`, `MCCoreBudget`, `MCTrackedRegion`, `MCCapsuleHosts`, `MCLauncher`, `MCRemoteCapsule`, `MCStateArena` | values for the constants of the small instances | |

`SegmentLease` and `CoreBudget` split the core between them. `SegmentLease`
keeps contents and lets the gate pass or refuse at will; `CoreBudget` keeps the
gate and the counters and leaves contents out. What the one assumes of the
other is checked there: that a thread waiting at the gate is let through or
refused is `GateIsLeft`; that a victim is dropped only when nobody leases it is
`LeasesHold`.

`CapsuleRegion` and `CapsuleHosts` meet in `RegionCalls`. `CapsuleRegion` has the
pack, the write watch and the units, and is checked (`KeepsContract`) and proved
(`SdkKeepsContract`) to do to the application's content and to the state of the
region only what `RegionCalls` allows. `CapsuleHosts` has up to six regions that
do anything `RegionCalls` allows, so what it shows of a host holds over the SDK.
A launcher of phases 10 to 14 starts such a host; `Launcher` takes the child to
be any program, so the two do not have to be composed.

### How the code was reduced

*Interleaving.* A block under a mutex is one step, with the atomics it updates.
An application's store to leased memory is a step of its own, as is every
restore, compression and system call outside a lock. In `TrackedRegion`, which
has almost no locks, every call of the recipe, change of a dirty bit or
representation and `madvise` is a step.

*Data.* A page is one value; `TrackedRegion`, where the encoding matters, has
bytes. A content's hash is the content. The codecs return what was put in. In
`SegmentLease` a compression may fail at will.

*Left out of the modelled parts.* Statistics and metrics; in `CoreBudget` the
critical prefix (skipped below pressure 3), the age and the changing hints in
the eviction score (`Score` is one constant order) and leases over several
segments; unregistration in `SegmentLease`; in `CapsuleRegion` calls that fail
without changing anything; in `TrackedRegion` destruction and a handler that
gives up on an error of `poll` or of an `ioctl`; in the hosts, launchers and
prototypes every time and size that is only reported or that can only turn a
pass into a fail, and the layout of CSV files and of the pack; in `StateArena`
the choice of the next unit (any unit may come next) and the queue's hints (any
unit may be queued). A conjunction such as `ContentIsKept` names several
properties that one run answers together; its parts are stated one by one.

*Bounds.* `MaxGeneration` stops new write leases, `Ranges`, `Stores`,
`TrimGoals`, `Unregisters` and `Recipes` list the inputs that are tried,
`Objects` bounds the registrations. `Patience` stands for the 16 failures of
`compact_to`, `Word` for 2^64 bytes, `ClockSize` for the 2^32 ticks of
`GetTickCount`, `SustainedSamples` for 8 samples, `SafetyTicks` for the 250 ms
between checks, `MaxRuns` for how often a program is launched. In the proofs
the constants are arbitrary.

## Runs

All runs are exhaustive. Deadlock is checked in the runs of the core and of the
userfaultfd runtime; the other systems end (`sr_destroy`, a process that exits),
and there the liveness properties say that they end as they should.

| run | instance | distinct states | shows |
|---|---|---|---|
| `lease_one_segment` | 2 threads, 1 segment of 2 pages, every page range, 2 write generations, a backing that drifts between two versions | 609,126 | restoring flag, pins, overlay, base and hash stay consistent (`SegmentsAgree`); a dormant segment can be rebuilt; the object implements `LeasedMemory` (`IsMemory`) |
| `lease_two_segments` | 2 threads, leases over 2 segments | 56,307 | no pin leaks when a lease fails half-way, a leased segment stays mapped (`LeasesHold`); restores end and waiters return on every exit (`WaitsEnd`) |
| `budget_counters` | 2 applications and the background, 4 objects, a budget of one segment | 590,455 | the counters equal what they count; the overshoot is at most one segment for each other thread |
| `budget_unregister` | a two-segment object, an incompressible first segment, trims and an unregistration | 105,410 | leased segments stay mapped; whoever holds the gate leaves it |
| `budget_unregister_race` (violation) | 1 application and the background, 1 object | | see *Disagreements* |
| `capsule_region` | 3 units, 1 of them core, 2 values | 781,896 | no write is lost, the watch covers what the capsule lacks, a sleeper has a whole capsule, the threads never meet (`CapsuleIsSound`); the region keeps `RegionContract`; both threads end and `sr_destroy` returns |
| `tracked_region` | a reader and writer, the handler, a thread that calls the library; 2 pages of 2 bytes | 344,256 | nothing stored is lost, no write escapes the dirty bits, no stale page is copied in, a drop keeps dirty pages, every call returns |
| `tracked_drop_race` (violation) | writers go on during a drop | | see *Disagreements* |
| `guarded_launch` | phases 13 and 14, evaluator and workbench; 2 launches each, a clock of 12 ticks that starts near its end, a timeout of 6, 2 samples | 129,592 | the child runs only contained and is not left running; an abort for CPU, memory or time comes when it should and only then; guard file, exit code and child tell one story; both end |
| `capsule_hosts` | every host in each of its configurations (up to 6 workspaces, 96 switches), a core of one page and another page, the SDK of the repository or the one the host was written for | 45,377 | every call is one the SDK accepts unless an earlier one failed; what comes back is what was hashed, and only one workspace is awake; a pass is earned, and nothing is left running; every host returns |
| `remote_capsule` | phases 3 to 6; a core page and two others | 38,700 | an answer is one to the last command and a pass is earned; memory that is away is in the capsule, comes back as it was and is not used meanwhile; the parent returns and the child ends |
| `state_arena` | 3 units, budgets of 1 to 3, a queue of 1, writes to one unit | 296,230 | the counters are exact, the budget holds with what is pending, what `main` wrote survives the two threads' evictions, no wait is for ever |

Why the instances are large enough. Two threads on one segment reach every pair
of {restore, wait, lease, write, journal, unpin, direct drop, compress and
swap}; two pages separate a bitmap that is exact from one that is off by one;
two segments are the least on which a lease fails half-way. In the budget, four
objects over a budget of one let every thread hold or claim a segment while one
more is evicted. Three units give the capsule a core, a unit the deep thread
has restored and one it has not; the pack holds twice the region, which the
sleeps after the baseline exhaust. Two pages of two bytes give the userfaultfd
runtime a clean run that ends at a dirty page, a delta that is not a snapshot,
and a snapshot. In the launcher, the clock starts again at 0 within the timeout,
a second run finds the files of the first, and a poll can be late by a tick;
phases 10 to 12 add no combination of data that the four programs do not have.
The hosts run with their real scripts. In `StateArena`, three units over a
budget of two give `main` and the worker a unit each and one more to evict for.
The proofs below cover all sizes of every module.

### Fairness

`SegmentLease!Fairness`: threads inside a call keep running (weak fairness),
and a thread at the capacity gate is eventually let through or refused (strong
fairness). The gate is a mutex whose holder always leaves it (`GateIsLeft` in
`budget_unregister`). `CoreBudget!Fairness`: threads inside the library keep
running and `objects_mu` does not pass over a waiter for ever. `GateIsLeft` needs
no more; that `capacity_mu` does not pass over a waiter either is what
`SegmentLease` adds. The C++ standard promises neither of `std::mutex`: both are
assumptions about the platform. `CapsuleRegion!Fairness`: the two threads run and
a call that waits for them returns when they have ended.
`TrackedRegion!Fairness`: threads run, and the handler comes to each message,
which the kernel queues in order. `Launcher!FairSpec`: the launcher is scheduled
and a process that was killed ends; the child itself owes nothing.
`CapsuleHosts!FairSpec`: the host and the threads of the SDK run, which
`CallsReturn` shows of the SDK. `RemoteCapsule!FairSpec`: both processes are
scheduled and a wait with a timeout ends. `StateArena!FairSpec`: both threads
run inside their calls, and the destructor goes on. No call is ever *begun* by
fairness.

### Disagreements between the code and what is said of it

Two are runs that TLC finds violated:

* **`budget_unregister_race`.** `core_selfcheck.cpp:149-151` expects a trim of
  an idle context to reach its target. `sr_unregister_object` subtracts the
  object's resident bytes between its busy check and the retirement of the
  segments, so an eviction or a restore in flight is counted twice or never,
  and the sum may wrap. The same property also fails on a registration of two
  segments whose second `commit_pages` fails (`part5:195-203`): the first one
  stays counted for ever (`SegmentsPerObject = 2`, `Unregisters = {}`).
* **`tracked_drop_race`.** `stateram9.h:46-47` says dirty pages are preserved by
  `stateram9_dematerialize_safe`, without asking for quiet writers. The dirty
  bits of a run are read before the run is dropped. The other members of
  `Breaches` show what the remaining promises rest on: a reader that faults
  while the recipe is changed gets the old page (`ImageIsCurrent`), a failing
  protection leaves writes unseen (`WritesAreSeen`), a failing recipe is served
  as zeroes (`NothingIsLost`).

Two more take one changed constant of a passing run to see:

* `stateram_core.h:188-190` says acknowledged writes survive later dormancy. On
  POSIX `decommit_pages` (`platform.cpp:60-63`) discards pages and may then
  fail; its callers keep the segment mapped, and the next lease reads zeroes.
  With `DecommitTears = TRUE` TLC finds `AcknowledgedWritesSurvive` violated;
  with `FALSE`, `DormantStaysRecoverable` is proved for every instance.
* `sr_enter_dormant` resets the write watch before it appends; a second call
  after a failure captures only what was written since. With `Retries = TRUE`
  TLC finds `NothingIsLost` of `CapsuleRegion` violated.

What the models of the programs around the SDK show besides, which no document
denies:

* The SDK's `sr_api_version` is the one of phase 14. With it phase 10 returns 21
  and phases 11 to 13 end with 99; phases 7 to 9 do not look and run.
* Phase 7 hashes the whole arena also when `sr_wait_deep` has failed
  (`phase7_host.cpp:185`), an access violation (`UsesWhatIsThere` of
  `CapsuleHosts` names the exception). Phases 8 to 10 try to release a region
  whose deep restore failed, which is refused. Phase 9 gives up if its first
  baseline is complete before it cancels it (`phase9_host.cpp:431`).
* Phase 10's exception handler unloads the SDK without destroying the region
  (`phase10_local.cpp:708`); `NothingIsLeft` excepts it.
* In phases 5 and 6 an order to stop that comes before the child begins to spin
  is lost (`stateram_phase6_packed.cpp:563`); `ChildEnds` asks for a child that
  is prompt.
* An eviction of the recipe arena discards the heap entries of the pinned units
  it passes (`stateram_win_bench.cpp:366`). `RoomIsFound` says that this, or a
  failure of `VirtualFree`, is behind every touch that finds no room.
* A launcher that fails in its setup leaves the guard file of an earlier run;
  `GuardTellsTheRun` is about launchers that came to watch their child.

## Proofs

Every theorem is proved to the last leaf with tlapm 1.4.5 (Z3, Zenon and the
LS4 procedure for temporal steps), from the assumptions on the constants that
the modules name.

**`SegmentLease_proofs`**, from `ConstantsAssumption` alone (any number of
threads, segments, pages and values). `TypeCorrect` is inductive by itself. The
safety of the control is the invariant `ControlInv`: `HeldInv` says which
segments a thread holds at each point of its loops; `RestoreInv` ties the
restoring flag to the one thread that restores; `PinInv` states that
`pin_count` is the number of holders and that a leased segment is mapped.
`HeldInv` is what makes the rest inductive: without it a thread in the middle
of a loop could hold anything. From it come `PinsAreCounted`,
`LeaseStaysResident` and `RestoreIsExclusive`.
The safety of the data is `DataInv`, under `DecommitTears = FALSE`:
`RestoreDataInv` (what a restorer copied is what the segment still has),
`StoreDataInv` (a segment rebuilds to its content, outside the pages under
write) and `SnapDataInv` (a compaction whose generation still matches holds
the current bytes). From it come `DormantStaysRecoverable`, `HashStaysFresh`,
`BackingStaysFaithful`, `RestoreStaysCurrent` and `SwapIsCurrent`.

The last section of that module is the refinement: `ImplementsMemory`, every step of the lease path
is a step of `LeasedMemory` or a stutter, with a mapped segment read from the
arena and a dormant one from its authoritative hash. It covers a drifting
backing and any overlay.

**`CoreBudget_proofs`**, from `BudgetAssumption`: any number of threads, objects
and segments, any budget, a `Word` that can count what there is. `TypeInv` joins the types with the call each thread is in (`Placed`).
`InflightIsExact` and `PinnedIsExact` are inductive over it. `LeasedIsMapped` is
not: that a release leaves the segment pinned for the next holder needs pins
that count the holders (`Leased`), and that a failed registration takes no
lease's memory needs that nobody leases an object before it is inserted
(`Registered`). These three hold with unregistrations going on. `RawIsExact` does
not (`budget_unregister_race`); it is proved with them as `CountersStayExact`
under `Undisturbed`: nobody unregisters and an object is one segment, so that no
registration fails after it has mapped one. `Unmapped` is what it needs: a
segment is restored by one thread and not mapped meanwhile. From the exact sum
follows `OvershootStaysBounded`. Its invariant is `ClaimsBounded`: a thread that
has a segment granted, or has seen a sum under the limit and may yet be granted
one, has a claim; a new claim is made at a moment when the mapped segments are
under the limit and the other claims belong to other threads, and to be granted
a segment, to map it or to fail adds none.

**`CapsuleRegion_proofs`**, for any number of units, pages and values and for
`Retries = FALSE`. `RegionInv` says, for each state of the region, where the
content of every page can be found: in the arena (`Resident`), in the capsule
(`Whole`, `Asleep`), or in the capsule but for the pages the watch names
(`Watched`); and what the two threads may be doing (`ThreadInv`, `FreedInv`)
and that committed units agree with the progress of a restore (`CommitInv`).
None of the checked invariants is inductive alone: `NothingIsLost` needs to
know why a page can be rebuilt, which differs from state to state. From it come
`TypeCorrect`, `NoWriteIsLost`, `WatchIsSound`, `SleeperIsWhole`,
`ThreadsNeverMeet` and `CapsuleStaysStill`. With `Retries = TRUE` TLC
finds a violation, so the assumption cannot be dropped.

The last section of that module is the refinement: `SdkKeepsContract`, every step
of `CapsuleRegion` is
under the mapping `View` a step of `RegionContract` or a stutter. The content of
a region in the contract is, page by page, the arena or what the capsule
rebuilds; by `RegionInv` it is what the application wrote last, so it changes
with the application's writes alone, and what is left is to show for each call
that its outcome is one of `RegionCalls`.

**`TrackedRegion_proofs`**, from `TrackedAssumption` and for `Allowed = {}`: any
number of threads, pages, bytes and values. `EncodeApply` says that `apply_rep`
undoes `encode_delta`, whichever form is the shorter. `TrackedInv` joins what a
sleeping thread waits for (`SleepInv`), what the handler knows of the page it
serves between two of its steps (`HandlerInv`), who is quiet during a call
(`QuietInv`), what a call knows of the page it is at (`CallInv`), and where the
content of a page is (`DataInv`: in memory, or in recipe and representation as
soon as the page is clean or gone). None of the checked invariants is inductive
alone: that a copied page is current needs that the page stays absent while the
handler prepares it, which needs that its thread still sleeps; that a clean page
can be rebuilt needs that no write reaches it, which needs the dirty bits. From
it come `TypeCorrect`, `NoStoreIsLost`, `CleanPagesAreSafe`, `NoWriteEscapes`,
`CopiesAreCurrent` and `DropKeepsDirty`. The run `tracked_drop_race` shows that
the assumption on `Allowed` cannot be dropped.

**`StateArena_proofs`**, from the three assumptions of the module: any number of
units, any budgets, any capacity of the queue. `ArenaInv` joins where each
thread is and that it has a unit (`Placed`), that a unit being materialized
belongs to one thread, which knows what its memory holds (`Owned`), that the one
pin is `main`'s (`Pinned`), that each unit is, or is rebuilt as, what `main`
wrote, and is what the recipe makes if it is not dirty (`Kept`), that a resident
unit has its entry in the heap until one is discarded (`Heaped`), and the
counters. `CountsAreExact` by itself is not inductive: that a step takes one
from `pending` only if something is pending needs `Owned`. `BudgetIsKept` needs
all of `Heaped`, `Pinned` and `Owned`: an eviction that ends without room has
gone through the whole heap, so only pinned and materializing units are left,
and those are one for each thread. `EvictFacts` and `SweepRoom` state once what
an eviction does, for its two callers. From `ArenaInv` come `TypeCorrect`,
`CountsStayExact`, `BudgetStaysKept` and `ContentStaysKept`.

**`RemoteCapsule_proofs`**, from `PageAssumption`: any number of pages and any
core. The four scripts enter as `Course`: the present step and the one after it
are a stage of the program's own script; everything else is proved of steps by
name. `RemoteInv` says what the exchange of commands is at each step
(`Protocol`: the child keeps still, or the command on its way, at work or
answered is this step's), which pages are there (`Presence`), that the child
uses only those (`Uses`) and writes only at the parent's step for it (`Writes`),
where the content is (`Contents`), that what was written since the snapshot is
in the write watch and then in the report (`Watched`), what has been hashed
(`Hashed`) and what the parent knows at the end (`Ended`). That an answer is one
to the last command is not inductive: it needs that the steps that follow a
failed wait ask nothing of the child but to exit, which is why `Protocol` holds
only of steps that are not skipped. From it come `TypeCorrect`,
`MemoryStaysKept` and `VerdictStaysEarned`.

**`Launcher_proofs`**, from `LauncherAssumption` and `ProgramsAssumption`: any
set of the seven launchers, any clock that is long enough for the timeout, any
number of samples. The order of each launch is data and is written out once
(`OrderIsLaunch`, `StepTable`). `LaunchInv` says what child and job are at each
step of a launch (`ChildFollowsLaunch`, `JobFollowsLaunch`); that the child's
code tells whether it wrote its result (`ChildTellsItsEnd`) and that the guard
file says so (`GuardAgrees`); that the ticks counted are those that have passed,
although the clock comes round (`LowIsCounted`, `TimeIsCounted`); and that a
streak is as long as the row of samples over the limit that ends with the last
(`StreaksTrail`, `StreaksStop`). `ChildIsContained` is not inductive: that a job
limits a child that runs needs what the launch had done when it resumed it.
`CpuAbortIsEarned` relates the streaks, which the code keeps, to the samples,
which it forgets. From `LaunchInv` come `TypeCorrect`, `ChildStaysContained`,
`AbortsStayEarned` and `GuardStaysTrue`. The proof shows a little more than
`ShortageIsBounded` asks: a shortage that is watched has lasted less than
`SafetyTicks` at the last check.

**`CapsuleHosts_proofs`**, from `HostAssumption` and `ScriptAssumption`, for
regions of any pages, any core and any values. The twelve scripts are data, up
to 890 steps long, and are put together from the programs' loops by operators
that are defined by recursion, which the provers cannot unfold. So what is
true of a script as a text is an assumption of the model: which move of a
workspace comes before which (`InOrder`), which failures are only remembered
(`FailsWell`), that nothing is checked that has been written since the last hash
(`Hashed`), that the workspaces take turns (`TakesTurns`), and that the gates can
be met (`CanPass`). `ScriptAssumption` has no free constant: when TLC evaluates it
in `capsule_hosts` it is decided once and for all. What the text does not say,
and the theorems do, is what happens when steps fail, are remembered or not, or
throw, and the SDK's threads end at any moment. First, each call of `RegionCalls`
keeps a promise about the state of its region, and no thread that ends breaks
one (`CallSucceeds`, `CallFails`, `ThreadOutcome`). `HostInv` then says that the
last move of each workspace has kept its promise, or that its failure has been
noted (`PromisesHold`); that no capsule misses a page (`CapsulesAreWhole`); that
a region holds what was hashed unless it is being written to
(`ContentsAreHashed`); and that the counters at the gate are numbers of steps of
the script if none was left out (`StepsAreCounted`, `WaitsHaveWoken`,
`ChecksHaveVerified`). `KindsOfStep` reduces the actions to three kinds.
`CallsAreAccepted` is not inductive: it needs `PromisesHold`, and that needs to
know which failures the script goes on after. From `HostInv` come `TypeCorrect`,
`CallsStayAccepted`, `ContentStaysThere` and `EndStaysEarned`.

The conjunctions that the runs check have theorems of their own beside those of
their parts: `LeasesAlwaysHold`, `SegmentsAlwaysAgree`, `CapsuleStaysSound`,
`ContentStaysKept` and `HandlerStaysCurrent`.

Only model-checked: every liveness property (`WaitsEnd`, `GateIsLeft` and the
like), since liveness under fairness is out of the prover's reach; that the
scripts are as `ScriptAssumption` says, which is a finite question about data; and
`RawIsExact` and the other properties of `CoreBudget` while an object is
unregistered, where the code breaks them. Every safety invariant that a passing
run checks is a theorem.

## Plan

Done: the modules above, in the order of the table. What is left, in the order
of importance:

1. `SegmentCache` (benches 12 and 13): an LRU of segments over the range calls
   of the userfaultfd runtime, over a contract that `TrackedRegion` is shown to
   keep.
2. `Predictor`: transition counts, hint scores modulo 2^32 and the choice of
   what to prewarm. `CoreBudget` lets the background prewarm any object, so its
   properties hold whatever the predictor says.
3. The workbench's order of save, switch and load over `LeasedMemory`.

## Not modelled, and why

Statistics calls copy fields. The codecs, the hash function and the platform's
memory readings are data transformations or inputs: the models take a codec to
be lossless, a hash to have no collision and a reading to be anything. The
predictor chooses what is prewarmed and nothing else depends on it. The benches
12 and 13, the evaluator's child and the workbench's window are sequential
programs over components that are modelled with any sequence of calls. The
scripts, the CI files, the probes and the reports hold no state of the system.

## Running the checks

```
tlc -workers 2 -config LeaseOneSegment.cfg MCSegmentLease
tlapm SegmentLease_proofs.tla
```

Each cfg belongs to the module `PROJECT.json` names beside it; the longest runs
take about two minutes and the longest proof a few.
