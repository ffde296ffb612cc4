----------------------------- MODULE StateArena -----------------------------
(***************************************************************************)
(* The recipe arena of stateram_win_bench.cpp: a reserved range of units   *)
(* whose content can be computed, committed when they are touched and      *)
(* decommitted, oldest first, when the budget is used up.  Pages that were *)
(* written are saved as deltas.  main touches units, writes in them,       *)
(* changes the budget and queues units that it expects to need; a worker   *)
(* materializes what is queued.  One mutex guards all but the memory.      *)
(*                                                                         *)
(* A unit is one page here, and its content whether the byte that main     *)
(* writes is inverted; sizes are counted in units.  The heap of ages is    *)
(* the sequence of the units that have a valid entry: those that a newer   *)
(* entry or an eviction has made invalid are skipped by the code.          *)
(***************************************************************************)
EXTENDS Integers, Sequences, FiniteSets

CONSTANTS
    Units,
    NoUnit,     \* UINT64_MAX
    Written,    \* those that main writes in
    MinBudget, MaxBudget,   \* --min-budget-mb and --max-budget-mb
    QueueCap,   \* of the prefetch queue
    Nothing,    \* in a page that is not committed, and in a delta not saved
    Blank       \* in a page that was just committed

\* set_budget grants this much
Floor == 2

ASSUME UnitAssumption == IsFiniteSet(Units) /\ Written \subseteq Units /\ NoUnit \notin Units
                         /\ {Nothing, Blank} \cap BOOLEAN = {}
                         /\ Nothing # Blank
ASSUME BudgetAssumption ==
    MinBudget \in Nat /\ MaxBudget \in Nat /\ MinBudget =< MaxBudget /\ Floor =< MaxBudget
ASSUME QueueAssumption == QueueCap \in Nat

Threads == {"main", "worker"}

VARIABLES
    \* the units
    state, mem, dirty, delta, pins,
    lru,
    \* the counters
    committed, pending, budget,
    \* what main and the worker share besides
    queue, prefetching, stopping,
    \* where each of them is, and with which unit
    pc, unit,
    \* main's
    writing, canary,
    errors,     \* integrity_errors > 0
    failed,     \* why a touch has returned false, or "no"
    spoiled     \* history: a unit that might be evicted has lost its entry in the heap

units    == <<state, mem, delta, lru>>
counters == <<committed, pending>>
shared   == <<queue, prefetching, stopping>>
mains    == <<writing, canary, errors>>
vars == <<units, dirty, pins, counters, budget, shared, pc, unit, mains, failed, spoiled>>

Init ==
    /\ state = [u \in Units |-> "reserved"]
    /\ mem = [u \in Units |-> Nothing]
    /\ dirty = [u \in Units |-> FALSE]
    /\ delta = [u \in Units |-> Nothing]
    /\ pins = [u \in Units |-> 0]
    /\ lru = <<>>
    /\ committed = 0 /\ pending = 0 /\ budget = MaxBudget
    /\ queue = <<>> /\ prefetching = TRUE /\ stopping = FALSE
    /\ pc = [t \in Threads |-> IF t = "main" THEN "loop" ELSE "wait"]
    /\ unit = [t \in Threads |-> NoUnit]
    /\ writing = FALSE /\ canary = [u \in Units |-> FALSE]
    /\ errors = FALSE /\ failed = "no" /\ spoiled = FALSE

Go(t, label) == pc' = [pc EXCEPT ![t] = label]

\* The units with a valid entry in the heap, and a new entry for one
Listed == {lru[i] : i \in 1 .. Len(lru)}
Pushed(u) ==
    IF u \notin Listed THEN Append(lru, u)
    ELSE LET k == CHOOSE i \in 1 .. Len(lru) : lru[i] = u
         IN  Append(SubSeq(lru, 1, k - 1) \o SubSeq(lru, k + 1, Len(lru)), u)

-----------------------------------------------------------------------------
(***************************************************************************)
(* evict_until_room_locked                                                 *)
(***************************************************************************)
\* How many units must go
Excess(need, limit) ==
    IF committed + pending + need > limit THEN committed + pending + need - limit ELSE 0

EvictablePinnedToo(protect) == {u \in Units : state[u] = "resident" /\ u # protect}

Evictable(protect) == {u \in Units : state[u] = "resident" /\ pins[u] = 0 /\ u # protect}

\* The units of the n oldest entries, and those of them that may be evicted
Popped(n) == {lru[i] : i \in 1 .. n}
Found(n, protect) == Popped(n) \cap Evictable(protect)

\* n entries are popped and the units of victims evicted: because this makes
\* room, because there are no more, or because VirtualFree fails at the last.
Sweep(need, limit, protect, n, victims) ==
    LET found == Found(n, protect) IN
    \/ /\ victims = found /\ Cardinality(found) = Excess(need, limit)
       /\ n > 0 => lru[n] \in found
    \/ victims = found /\ Cardinality(found) < Excess(need, limit) /\ n = Len(lru)
    \/ /\ n > 0 /\ lru[n] \in found /\ victims = found \ {lru[n]}
       /\ Cardinality(found) =< Excess(need, limit)

Room(need, limit, victims) == Cardinality(victims) = Excess(need, limit)

StateWithout(victims) == [u \in Units |-> IF u \in victims THEN "reserved" ELSE state[u]]

\* The dirty pages, saved before VirtualFree is called
Saved(found) == [u \in Units |-> IF u \in found /\ dirty[u] THEN mem[u] ELSE delta[u]]

Evict(protect, n, victims) ==
    /\ lru' = SubSeq(lru, n + 1, Len(lru))
    /\ delta' = Saved(Found(n, protect))
    /\ mem' = [u \in Units |-> IF u \in victims THEN Nothing ELSE mem[u]]
    /\ committed' = committed - Cardinality(victims)
    /\ spoiled' = (spoiled \/ Popped(n) # victims)

-----------------------------------------------------------------------------
(***************************************************************************)
(* ensure_resident, which both threads call                                *)
(***************************************************************************)
Succeed(t) ==
    /\ Go(t, IF t = "main" THEN "pin" ELSE "wait")
    /\ unit' = IF t = "main" THEN unit ELSE [unit EXCEPT ![t] = NoUnit]

Fail(t, why) ==
    /\ Go(t, IF t = "main" THEN "stop" ELSE "wait")
    /\ unit' = [unit EXCEPT ![t] = NoUnit]
    /\ failed' = IF t = "main" THEN why ELSE failed

Hit(t) ==
    /\ pc[t] = "ensure" /\ state[unit[t]] = "resident"
    /\ lru' = Pushed(unit[t])
    /\ Succeed(t)
    /\ UNCHANGED <<state, mem, delta, dirty, pins, counters, budget, shared, mains, failed, spoiled>>

\* A unit that is being materialized is waited for.
Admit(t) ==
    /\ pc[t] = "ensure" /\ state[unit[t]] = "reserved"
    /\ \E n \in 0 .. Len(lru), victims \in SUBSET Evictable(unit[t]) :
         /\ Sweep(1, budget, unit[t], n, victims)
         /\ Evict(unit[t], n, victims)
         /\ IF Room(1, budget, victims)
            THEN /\ state' = [StateWithout(victims) EXCEPT ![unit[t]] = "materializing"]
                 /\ pending' = pending + 1
                 /\ Go(t, "commit") /\ UNCHANGED <<unit, failed>>
            ELSE /\ state' = StateWithout(victims)
                 /\ Fail(t, "room") /\ UNCHANGED pending
    /\ UNCHANGED <<dirty, pins, budget, shared, mains>>

\* VirtualAlloc
Commit(t) ==
    /\ pc[t] = "commit"
    /\ mem' = [mem EXCEPT ![unit[t]] = Blank]
    /\ Go(t, "fill")
    /\ UNCHANGED <<state, delta, lru, dirty, pins, counters, budget, shared, unit, mains,
                   failed, spoiled>>

RefuseKeepingPending(t) ==
    /\ pc[t] = "commit"
    /\ state' = [state EXCEPT ![unit[t]] = "reserved"]
    /\ Fail(t, "commit")
    /\ UNCHANGED <<mem, delta, lru, dirty, pins, counters, budget, shared, mains, spoiled>>

Refuse(t) ==
    /\ pc[t] = "commit"
    /\ state' = [state EXCEPT ![unit[t]] = "reserved"]
    /\ pending' = pending - 1
    /\ Fail(t, "commit")
    /\ UNCHANGED <<mem, delta, lru, dirty, pins, committed, budget, shared, mains, spoiled>>

Fill(t) ==
    /\ pc[t] = "fill"
    /\ mem' = [mem EXCEPT ![unit[t]] = FALSE]
    /\ Go(t, "apply")
    /\ UNCHANGED <<state, delta, lru, dirty, pins, counters, budget, shared, unit, mains,
                   failed, spoiled>>

\* What the unit's recipe and its delta make of it
Rebuilt(u) == IF dirty[u] /\ delta[u] # Nothing THEN delta[u] ELSE FALSE

Apply(t) ==
    /\ pc[t] = "apply"
    /\ mem' = [mem EXCEPT ![unit[t]] = Rebuilt(unit[t])]
    /\ pending' = pending - 1 /\ committed' = committed + 1
    /\ state' = [state EXCEPT ![unit[t]] = "resident"]
    /\ lru' = Pushed(unit[t])
    /\ Succeed(t)
    /\ UNCHANGED <<delta, dirty, pins, budget, shared, mains, failed, spoiled>>

-----------------------------------------------------------------------------
(***************************************************************************)
(* main: touch                                                             *)
(***************************************************************************)
Touch(u, write) ==
    /\ pc["main"] = "loop"
    /\ unit' = [unit EXCEPT !["main"] = u]
    /\ writing' = write
    /\ Go("main", "ensure")
    /\ UNCHANGED <<units, dirty, pins, counters, budget, shared, canary, errors, failed, spoiled>>

\* The worker may have evicted the unit again.
Pin ==
    /\ pc["main"] = "pin"
    /\ IF state[unit["main"]] = "resident"
       THEN /\ pins' = [pins EXCEPT ![unit["main"]] = @ + 1]
            /\ lru' = Pushed(unit["main"])
            /\ Go("main", "check") /\ UNCHANGED <<unit, failed>>
       ELSE Fail("main", "taken") /\ UNCHANGED <<pins, lru>>
    /\ UNCHANGED <<state, mem, delta, dirty, counters, budget, shared, mains, spoiled>>

Check ==
    /\ pc["main"] = "check"
    /\ errors' = (errors \/ mem[unit["main"]] # canary[unit["main"]])
    /\ Go("main", IF writing THEN "mark" ELSE "unpin")
    /\ UNCHANGED <<units, dirty, pins, counters, budget, shared, unit, writing, canary,
                   failed, spoiled>>

Mark ==
    /\ pc["main"] = "mark"
    /\ dirty' = [dirty EXCEPT ![unit["main"]] = TRUE]
    /\ Go("main", "write")
    /\ UNCHANGED <<units, pins, counters, budget, shared, unit, mains, failed, spoiled>>

Write ==
    /\ pc["main"] = "write"
    /\ mem' = [mem EXCEPT ![unit["main"]] = (@ = FALSE)]
    /\ Go("main", "unpin")
    /\ UNCHANGED <<state, delta, lru, dirty, pins, counters, budget, shared, unit, mains,
                   failed, spoiled>>

\* touch returns true, and main notes what it has written.
Unpin ==
    /\ pc["main"] = "unpin"
    /\ pins' = [pins EXCEPT ![unit["main"]] = IF @ > 0 THEN @ - 1 ELSE 0]
    /\ canary' = [canary EXCEPT ![unit["main"]] = (@ # writing)]
    /\ writing' = FALSE
    /\ unit' = [unit EXCEPT !["main"] = NoUnit]
    /\ Go("main", "hint")
    /\ UNCHANGED <<units, dirty, counters, budget, shared, errors, failed, spoiled>>

-----------------------------------------------------------------------------
(***************************************************************************)
(* main: the hints, the governor, the end                                  *)
(***************************************************************************)
EnqueueUncapped(u) ==
    /\ pc["main"] = "hint" /\ prefetching /\ Len(queue) =< QueueCap
    /\ queue' = Append(queue, u)
    /\ UNCHANGED <<units, dirty, pins, counters, budget, prefetching, stopping, pc, unit, mains,
                   failed, spoiled>>

Enqueue(u) ==
    /\ pc["main"] = "hint" /\ prefetching /\ Len(queue) < QueueCap
    /\ queue' = Append(queue, u)
    /\ UNCHANGED <<units, dirty, pins, counters, budget, prefetching, stopping, pc, unit, mains,
                   failed, spoiled>>

EndHints ==
    /\ pc["main"] = "hint"
    /\ Go("main", "loop")
    /\ UNCHANGED <<units, dirty, pins, counters, budget, shared, unit, mains, failed, spoiled>>

\* update_governor: set_prefetch_enabled stores the flag, and clears the queue
\* if it is off; then set_budget.
Govern(danger) ==
    /\ pc["main"] = "loop"
    /\ prefetching' = ~danger
    /\ Go("main", IF danger THEN "clear" ELSE "budget")
    /\ UNCHANGED <<units, dirty, pins, counters, budget, queue, stopping, unit, mains,
                   failed, spoiled>>

Clear ==
    /\ pc["main"] = "clear"
    /\ queue' = <<>>
    /\ Go("main", "budget")
    /\ UNCHANGED <<units, dirty, pins, counters, budget, prefetching, stopping, unit, mains,
                   failed, spoiled>>

GrantAnything(target) == target

Grant(target) == IF target > Floor THEN target ELSE Floor

\* In danger, when prefetching is off, the budget is the least.
SetBudget ==
    /\ pc["main"] = "budget"
    /\ \E target \in IF prefetching THEN MinBudget .. MaxBudget ELSE {MinBudget} :
         /\ budget' = Grant(target)
         /\ \E n \in 0 .. Len(lru), victims \in SUBSET Evictable(NoUnit) :
              /\ Sweep(0, Grant(target), NoUnit, n, victims)
              /\ Evict(NoUnit, n, victims)
              /\ state' = StateWithout(victims)
    /\ Go("main", "loop")
    /\ UNCHANGED <<dirty, pins, pending, shared, unit, mains, failed>>

Finish ==
    /\ pc["main"] = "loop"
    /\ Go("main", "stop")
    /\ UNCHANGED <<units, dirty, pins, counters, budget, shared, unit, mains, failed, spoiled>>

StopUnseen ==
    /\ pc["main"] = "stop"
    /\ Go("main", "join")
    /\ UNCHANGED <<units, dirty, pins, counters, budget, shared, unit, mains, failed, spoiled>>

\* ~StateArena, after the steps or after the exception of a failed touch
Stop ==
    /\ pc["main"] = "stop"
    /\ stopping' = TRUE
    /\ Go("main", "join")
    /\ UNCHANGED <<units, dirty, pins, counters, budget, queue, prefetching, unit, mains,
                   failed, spoiled>>

Release ==
    /\ pc["main"] = "join" /\ pc["worker"] = "ended"
    /\ mem' = [u \in Units |-> Nothing]
    /\ Go("main", "ended")
    /\ UNCHANGED <<state, delta, lru, dirty, pins, counters, budget, shared, unit, mains,
                   failed, spoiled>>

-----------------------------------------------------------------------------
(***************************************************************************)
(* worker_loop                                                             *)
(***************************************************************************)
\* The worker materializes the unit, or drops it because the CPU is busy.
Take ==
    /\ pc["worker"] = "wait" /\ ~stopping /\ prefetching /\ queue # <<>>
    /\ queue' = Tail(queue)
    /\ \/ unit' = [unit EXCEPT !["worker"] = Head(queue)] /\ Go("worker", "ensure")
       \/ UNCHANGED <<unit, pc>>
    /\ UNCHANGED <<units, dirty, pins, counters, budget, prefetching, stopping, mains,
                   failed, spoiled>>

Leave ==
    /\ pc["worker"] = "wait" /\ stopping
    /\ Go("worker", "ended")
    /\ UNCHANGED <<units, dirty, pins, counters, budget, shared, unit, mains, failed, spoiled>>

Ensuring(t) == Hit(t) \/ Admit(t) \/ Commit(t) \/ Refuse(t) \/ Fill(t) \/ Apply(t)

Touching == Ensuring("main") \/ Pin \/ Check \/ Mark \/ Write \/ Unpin

Governing == Clear \/ SetBudget

Next ==
    \/ \E u \in Units, write \in BOOLEAN : (write => u \in Written) /\ Touch(u, write)
    \/ Touching
    \/ \E u \in Units : Enqueue(u)
    \/ EndHints
    \/ \E danger \in BOOLEAN : Govern(danger)
    \/ Governing
    \/ Finish \/ Stop \/ Release
    \/ Take \/ Leave \/ Ensuring("worker")

Spec == Init /\ [][Next]_vars

\* Both threads run; how long main goes on with its steps is left open.
FairSpec ==
    /\ Spec
    /\ WF_vars(Touching \/ Governing \/ Stop \/ Release)
    /\ WF_vars(Ensuring("worker") \/ Take \/ Leave)

-----------------------------------------------------------------------------
(***************************************************************************)
(* Properties                                                              *)
(***************************************************************************)
Filling(t) == pc[t] \in {"commit", "fill", "apply"}

\* main has pinned its unit.
Using == pc["main"] \in {"check", "mark", "write", "unpin"}

Resident == {u \in Units : state[u] = "resident"}
Materializing == {u \in Units : state[u] = "materializing"}

\* The type invariant
TypeOK ==
    /\ state \in [Units -> {"reserved", "materializing", "resident"}]
    /\ mem \in [Units -> BOOLEAN \cup {Nothing, Blank}]
    /\ dirty \in [Units -> BOOLEAN]
    /\ delta \in [Units -> BOOLEAN \cup {Nothing}]
    /\ pins \in [Units -> Nat]
    /\ lru \in Seq(Units)
    /\ committed \in Nat /\ pending \in Nat /\ budget \in Nat
    /\ queue \in Seq(Units) /\ Len(queue) =< QueueCap
    /\ prefetching \in BOOLEAN /\ stopping \in BOOLEAN
    /\ pc \in [Threads -> {"ensure", "commit", "fill", "apply", "pin", "check", "mark", "write",
                           "unpin", "hint", "loop", "clear", "budget", "stop", "join", "ended",
                           "wait"}]
    /\ unit \in [Threads -> Units \cup {NoUnit}]
    /\ writing \in BOOLEAN /\ canary \in [Units -> BOOLEAN]
    /\ errors \in BOOLEAN /\ spoiled \in BOOLEAN
    /\ failed \in {"no", "room", "commit", "taken"}

\* committed_bytes_ and pending_bytes_, from which every admission decides, are
\* the units that are resident and those being materialized, whichever thread
\* was refused memory or evicted for the other in between.
CountsAreExact ==
    /\ committed = Cardinality(Resident)
    /\ pending = Cardinality(Materializing)

\* What main's gate asks of peak_committed, without the slack of one unit: not
\* even what two threads have been admitted to commit exceeds --max-budget-mb.
PeakIsBounded == committed + pending =< MaxBudget

\* The budget in force holds at every moment, also just after it was lowered
\* while the worker materializes, unless VirtualFree has failed or a pinned
\* unit lost its entry in the heap.
WithinBudget ==
    ~spoiled => committed + pending =< budget

\* What main expects to find in the unit; it has yet to note its last write
\* when it is about to unpin.
Expected(u) ==
    IF pc["main"] = "unpin" /\ writing /\ u = unit["main"] THEN ~canary[u] ELSE canary[u]

\* No write is lost: the page of a resident unit, and else the recipe and the
\* delta, is what main wrote last, however often the two threads have evicted
\* and materialized the unit since.
NoWriteIsLost ==
    pc["main"] # "ended" =>
        \A u \in Units :
            (IF state[u] = "resident" THEN mem[u] ELSE Rebuilt(u)) = Expected(u)

\* main reads and writes a unit outside the mutex, and a thread fills one:
\* its memory is there, and the other thread neither fills nor evicts it.
UsesWhatIsThere ==
    /\ Using => state[unit["main"]] = "resident" /\ mem[unit["main"]] \in BOOLEAN
    /\ \A t \in Threads :
          pc[t] \in {"fill", "apply"} =>
             /\ mem[unit[t]] \notin {Nothing, TRUE}
             /\ \A s \in Threads \ {t} : Filling(s) => unit[s] # unit[t]

\* integrity_errors stays 0, as main's gate requires.
IntegrityHolds == ~errors

\* A touch that fails ends the program, and it fails for want of room only if
\* VirtualFree has failed or an eviction has dropped the entry of a pinned
\* unit, which is then not evicted until it is touched again.  Otherwise the
\* least budget that set_budget leaves is enough for main's unit and the worker's.
RoomIsFound == failed = "room" => spoiled

\* A unit that is touched is found, or main ends: waiting for the worker to
\* materialize it is not for ever.
TouchReturns == pc["main"] = "ensure" ~> pc["main"] \in {"hint", "stop"}

\* The destructor joins the worker, whatever it is doing when stop_ is set.
DestructorReturns == pc["main"] = "stop" ~> pc["main"] = "ended"
\* The budget is kept at every moment, and it is enough for every touch.
BudgetIsKept == WithinBudget /\ PeakIsBounded /\ RoomIsFound

\* What main reads is there and is what it wrote.
ContentIsKept == NoWriteIsLost /\ UsesWhatIsThere /\ IntegrityHolds

\* No call of the arena waits for ever.
CallsReturn == TouchReturns /\ DestructorReturns
=============================================================================
