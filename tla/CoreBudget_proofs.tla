-------------------------- MODULE CoreBudget_proofs --------------------------
(***************************************************************************)
(* Theorems about CoreBudget: the counters from which the gate decides     *)
(* stay exact, the gate is passed by less than a segment for each thread,  *)
(* and leased segments stay mapped, for any number of threads, objects and *)
(* segments and any budget.                                                *)
(***************************************************************************)
EXTENDS CoreBudget, FiniteSetTheorems, TLAPS

-----------------------------------------------------------------------------
(***************************************************************************)
(* Segments and counters                                                   *)
(***************************************************************************)
LEMMA SegmentFacts ==
    /\ \A o \in Objects : <<o, 1>> \in Segments /\ ObjectOf(<<o, 1>>) = o
    /\ \A s \in Segments : ObjectOf(s) \in Objects
    /\ NoSegment \notin Segments
BY BudgetAssumption DEF Segments, ObjectOf

\* The loops over an object's segments stay on them.
LEMMA LoopFacts ==
    ASSUME NEW s \in Segments
    PROVE  /\ [s EXCEPT ![2] = 1] \in Segments
           /\ ObjectOf([s EXCEPT ![2] = 1]) = ObjectOf(s)
           /\ s[2] < SegmentsPerObject => [s EXCEPT ![2] = @ + 1] \in Segments
           /\ ObjectOf([s EXCEPT ![2] = @ + 1]) = ObjectOf(s)
BY BudgetAssumption DEF Segments, ObjectOf

\* There are fewer threads and segments than a counter can count.
LEMMA Finiteness ==
    /\ IsFiniteSet(Segments) /\ IsFiniteSet(Threads)
    /\ Cardinality(Segments) < Word /\ Cardinality(Threads) < Word
    /\ Word \in Nat \ {0}
<1>1. IsFiniteSet(Segments)
  <2>1. IsFiniteSet(1 .. SegmentsPerObject)
    BY BudgetAssumption, FS_Interval
  <2> QED
    BY <2>1, BudgetAssumption, FS_Product DEF Segments
<1>2. IsFiniteSet(Threads)
  BY BudgetAssumption, FS_AddElement DEF Threads
<1>3. Cardinality(Segments) \in Nat /\ Cardinality(Threads) \in Nat
  BY <1>1, <1>2, FS_CardinalityType
<1> QED
  BY <1>1, <1>2, <1>3, BudgetAssumption

\* A counter below 2^64 does not wrap.
LEMMA CounterFacts ==
    /\ \A n, k \in Nat : Plus(n, k) \in Counter
    /\ \A n \in Nat : n + 1 < Word => Plus(n, 1) = n + 1
    /\ \A n, k \in Counter : Minus(n, k) \in Counter
    /\ \A n \in Counter : Minus(n, 1) \in Counter
    /\ \A n \in Counter : n > 0 => Minus(n, 1) = n - 1
    /\ 0 \in Counter /\ Counter \subseteq Nat
BY Finiteness DEF Plus, Minus, Counter

\* A counter that counts a set still does when both grow by one.
LEMMA CountGrows ==
    ASSUME NEW S, IsFiniteSet(S), Cardinality(S) < Word,
           NEW A \in SUBSET S, NEW x \in S, x \notin A
    PROVE  Plus(Cardinality(A), 1) = Cardinality(A \cup {x})
<1>1. IsFiniteSet(A) /\ A \cup {x} \in SUBSET S
  BY FS_Subset
<1>2. Cardinality(A) \in Nat /\ Cardinality(S) \in Nat
  BY <1>1, FS_CardinalityType
<1>3. Cardinality(A \cup {x}) = Cardinality(A) + 1
  BY <1>1, FS_AddElement
<1>4. Cardinality(A \cup {x}) =< Cardinality(S)
  BY <1>1, FS_Subset
<1> QED
  BY <1>2, <1>3, <1>4, Finiteness, CounterFacts

\* A counter that counts a set still does when both shrink by one.
LEMMA CountShrinks ==
    ASSUME NEW S, IsFiniteSet(S), Cardinality(S) < Word,
           NEW A \in SUBSET S, NEW x \in A
    PROVE  Minus(Cardinality(A), 1) = Cardinality(A \ {x})
<1>1. IsFiniteSet(A) /\ Cardinality(A) =< Cardinality(S)
  BY FS_Subset
<1>2. Cardinality(A) \in Nat /\ Cardinality(S) \in Nat
  BY <1>1, FS_CardinalityType
<1>3. Cardinality(A \ {x}) = Cardinality(A) - 1 /\ Cardinality(A \ {x}) \in Nat
  BY <1>1, FS_RemoveElement, FS_CardinalityType
<1>4. Cardinality(A) \in Counter /\ Cardinality(A) > 0
  BY <1>1, <1>2, <1>3, Finiteness DEF Counter
<1> QED
  BY <1>3, <1>4, CounterFacts

-----------------------------------------------------------------------------
(***************************************************************************)
(* Where each thread is, and the types                                     *)
(***************************************************************************)
\* The call a thread is in for each place it can be at, and what it is about.
PlacedAt(t) ==
    /\ pc[t] = "idle" <=> call[t] = "none"
    /\ pc[t] \in {"pin", "wait", "gate", "restore", "drain", "undo"}
            => call[t] \in {"acquire", "prewarm"}
    /\ pc[t] = "leased" => call[t] = "acquire"
    /\ pc[t] = "warm" => call[t] = "prewarm"
    /\ pc[t] \in {"commit", "insert"} => call[t] = "register"
    /\ pc[t] \in {"check", "retire", "subtract", "mark"} => call[t] = "unregister"
    /\ pc[t] \in {"load", "decide", "reload", "redecide"}
            => call[t] \in {"acquire", "prewarm", "register"}
    /\ pc[t] \in {"test", "choose", "evict"}
            => call[t] \in {"acquire", "prewarm", "register", "compact"}
    /\ pc[t] = "done" => call[t] = "compact"
    /\ call[t] \in {"acquire", "prewarm", "register", "unregister"} => seg[t] \in Segments
    /\ pc[t] = "evict" => victim[t] \in Segments

Placed == \A t \in Threads : PlacedAt(t)

\* The types of the shared state and those of the calls.
SharedTypes ==
    /\ raw \in Counter /\ inflight \in Counter /\ pinned \in Counter
    /\ capacity \in Threads \cup {NoThread} /\ registry \in Threads \cup {NoThread}
    /\ status \in [Objects -> Statuses]
    /\ objRaw \in [Objects -> Counter]
    /\ committed \in [Segments -> BOOLEAN]
    /\ restoring \in [Segments -> BOOLEAN]
    /\ pins \in [Segments -> Nat]
    /\ retired \in [Segments -> BOOLEAN]

CallTypes ==
    /\ call \in [Threads -> Calls]
    /\ pc \in [Threads -> Pcs]
    /\ seg \in [Threads -> Segments \cup {NoSegment}]
    /\ sawRaw \in [Threads -> Counter]
    /\ goal \in [Threads -> Nat]
    /\ stuck \in [Threads -> 0 .. Patience]
    /\ victim \in [Threads -> Segments \cup {NoSegment}]

\* TypeOK in its two parts, in a state and in the next.
LEMMA TypeParts ==
    /\ TypeOK <=> SharedTypes /\ CallTypes
    /\ TypeOK' <=> (SharedTypes /\ CallTypes)'
BY DEF TypeOK, SharedTypes, CallTypes

TypeInv == TypeOK /\ Placed

\* A loop that moves on to the next segment, or back to the first.
LEMMA SegmentMoves ==
    ASSUME CallTypes, NEW t \in Threads, seg[t] \in Segments,
           \/ seg[t][2] < SegmentsPerObject /\ seg' = [seg EXCEPT ![t][2] = @ + 1]
           \/ seg' = [seg EXCEPT ![t][2] = 1]
    PROVE  /\ seg' \in [Threads -> Segments \cup {NoSegment}]
           /\ seg'[t] \in Segments /\ ObjectOf(seg'[t]) = ObjectOf(seg[t])
           /\ \A u \in Threads \ {t} : seg'[u] = seg[u]
<1>1. PICK s \in Segments : /\ seg' = [seg EXCEPT ![t] = s]
                            /\ ObjectOf(s) = ObjectOf(seg[t])
  BY LoopFacts
<1> QED
  BY <1>1 DEF CallTypes

\* Everything is in its type at first, and every thread outside the library.
LEMMA TypeInit == Init => TypeInv
BY BudgetAssumption, SegmentFacts, CounterFacts
DEF Init, TypeInv, TypeOK, Placed, PlacedAt, Statuses, Calls, Pcs, GatePcs

\* The moves that many actions share keep the types of the calls.
LEMMA GotoTypes ==
    ASSUME CallTypes, NEW t \in Threads, NEW p \in Pcs, Goto(t, p)
    PROVE  CallTypes'
BY DEF CallTypes, Goto

\* A call that begins.
LEMMA EnterTypes ==
    ASSUME CallTypes, NEW t \in Threads, NEW c \in Calls, NEW p \in Pcs,
           NEW s \in Segments \cup {NoSegment}, Enter(t, c, s, p), UNCHANGED <<goal, stuck>>
    PROVE  CallTypes'
BY DEF CallTypes, Enter

\* A call that returns.
LEMMA LeaveTypes ==
    ASSUME CallTypes, NEW t \in Threads, Leave(t)
    PROVE  CallTypes'
BY BudgetAssumption, CounterFacts DEF CallTypes, Leave, Calls, Pcs

\* The return from materialize_and_pin to sr_acquire or to prewarm.
LEMMA MaterializedTypes ==
    ASSUME CallTypes, NEW t \in Threads, seg[t] \in Segments,
           call[t] \in {"acquire", "prewarm"}, Materialized(t)
    PROVE  CallTypes'
<1>1. CASE call[t] = "acquire"
  <2>1. Goto(t, "leased")
    BY <1>1 DEF Materialized
  <2> QED
    BY <2>1, GotoTypes DEF Pcs
<1>2. CASE call[t] = "prewarm" /\ seg[t][2] < SegmentsPerObject
  <2>1. /\ seg' = [seg EXCEPT ![t][2] = @ + 1] /\ pc' = [pc EXCEPT ![t] = "warm"]
        /\ UNCHANGED <<call, sawRaw, goal, stuck, victim>>
    BY <1>2 DEF Materialized
  <2> QED
    BY <1>2, <2>1, SegmentMoves DEF CallTypes, Pcs
<1>3. CASE call[t] = "prewarm" /\ ~(seg[t][2] < SegmentsPerObject)
  <2>1. Leave(t)
    BY <1>3 DEF Materialized
  <2> QED
    BY <2>1, LeaveTypes
<1> QED
  BY <1>1, <1>2, <1>3

\* A pin keeps pin_count and pinned_bytes in their types.
LEMMA PinTypes ==
    ASSUME SharedTypes, NEW t \in Threads, seg[t] \in Segments, Pin(t)
    PROVE  pins' \in [Segments -> Nat] /\ pinned' \in Counter
BY CounterFacts DEF SharedTypes, Pin

\* The calls that begin keep the types and places.
LEMMA BeginKeepsTypes ==
    ASSUME TypeInv, SharedTypes, CallTypes, Placed, NEW t \in Threads,
           \/ Acquire(t) \/ Prewarm(t) \/ Trim(t) \/ BackgroundCompact(t)
           \/ Register(t) \/ Unregister(t)
    PROVE  TypeInv'
<1>1. CASE Acquire(t)
  <2>1. SharedTypes'
    BY <1>1, BudgetAssumption, SegmentFacts, CounterFacts
    DEF Acquire, Enter, SharedTypes, Placed, PlacedAt, Statuses, Calls, Pcs,
        GatePcs, contextVars, lockVars, objectVars, segmentVars
  <2>2. CallTypes'
    <3>1. PICK s \in Segments : Enter(t, "acquire", s, "pin")
      BY <1>1 DEF Acquire
    <3> QED
      BY <1>1, <3>1, EnterTypes DEF Acquire, Calls, Pcs
  <2>3. Placed'
    BY <1>1, BudgetAssumption, SegmentFacts, TypeParts
    DEF Acquire, Enter, CallTypes, Placed, PlacedAt, Statuses, Calls, Pcs,
        GatePcs, contextVars, lockVars, objectVars, segmentVars
  <2> QED
    BY <2>1, <2>2, <2>3, TypeParts DEF TypeInv
<1>2. CASE Prewarm(t)
  <2>1. SharedTypes'
    BY <1>2, BudgetAssumption, SegmentFacts, CounterFacts
    DEF Prewarm, Enter, SharedTypes, Placed, PlacedAt, Statuses, Calls, Pcs,
        GatePcs, contextVars, lockVars, objectVars, segmentVars
  <2>2. CallTypes'
    <3>1. PICK o \in Objects : Enter(t, "prewarm", <<o, 1>>, "warm")
      BY <1>2 DEF Prewarm
    <3> QED
      BY <1>2, <3>1, SegmentFacts, EnterTypes DEF Prewarm, Calls, Pcs
  <2>3. Placed'
    BY <1>2, BudgetAssumption, SegmentFacts, TypeParts
    DEF Prewarm, Enter, CallTypes, Placed, PlacedAt, Statuses, Calls, Pcs,
        GatePcs, contextVars, lockVars, objectVars, segmentVars
  <2> QED
    BY <2>1, <2>2, <2>3, TypeParts DEF TypeInv
<1>3. CASE Trim(t)
  <2>1. SharedTypes'
    BY <1>3, BudgetAssumption, SegmentFacts, CounterFacts
    DEF Trim, Compact, Enter, SharedTypes, Placed, PlacedAt, Statuses, Calls, Pcs,
        GatePcs, contextVars, lockVars, objectVars, segmentVars
  <2>2. CallTypes'
    BY <1>3, BudgetAssumption, SegmentFacts, CounterFacts
    DEF Trim, Compact, Enter, CallTypes, Placed, PlacedAt, Statuses, Calls, Pcs,
        GatePcs, contextVars, lockVars, objectVars, segmentVars
  <2>3. Placed'
    BY <1>3, BudgetAssumption, SegmentFacts, TypeParts
    DEF Trim, Compact, Enter, CallTypes, Placed, PlacedAt, Statuses, Calls, Pcs,
        GatePcs, contextVars, lockVars, objectVars, segmentVars
  <2> QED
    BY <2>1, <2>2, <2>3, TypeParts DEF TypeInv
<1>4. CASE BackgroundCompact(t)
  <2>1. SharedTypes'
    BY <1>4, BudgetAssumption, SegmentFacts, CounterFacts
    DEF BackgroundCompact, Compact, Enter, SharedTypes, Placed, PlacedAt,
        Statuses, Calls, Pcs, GatePcs, contextVars, lockVars, objectVars,
        segmentVars
  <2>2. CallTypes'
    BY <1>4, BudgetAssumption, SegmentFacts, CounterFacts
    DEF BackgroundCompact, Compact, Enter, CallTypes, Placed, PlacedAt, Statuses,
        Calls, Pcs, GatePcs, contextVars, lockVars, objectVars, segmentVars
  <2>3. Placed'
    BY <1>4, BudgetAssumption, SegmentFacts, TypeParts
    DEF BackgroundCompact, Compact, Enter, CallTypes, Placed, PlacedAt, Statuses,
        Calls, Pcs, GatePcs, contextVars, lockVars, objectVars, segmentVars
  <2> QED
    BY <2>1, <2>2, <2>3, TypeParts DEF TypeInv
<1>5. CASE Register(t)
  <2>1. SharedTypes'
    BY <1>5, BudgetAssumption, SegmentFacts, CounterFacts
    DEF Register, Enter, SharedTypes, Placed, PlacedAt, Statuses, Calls, Pcs,
        GatePcs, contextVars, lockVars, objectVars, segmentVars
  <2>2. CallTypes'
    <3>1. PICK o \in Objects : \/ Enter(t, "register", <<o, 1>>, "load")
                              \/ Enter(t, "register", <<o, 1>>, "insert")
      BY <1>5 DEF Register
    <3> QED
      BY <1>5, <3>1, SegmentFacts, EnterTypes DEF Register, Calls, Pcs, GatePcs
  <2>3. Placed'
    BY <1>5, BudgetAssumption, SegmentFacts, TypeParts
    DEF Register, Enter, CallTypes, Placed, PlacedAt, Statuses, Calls, Pcs,
        GatePcs, contextVars, lockVars, objectVars, segmentVars
  <2> QED
    BY <2>1, <2>2, <2>3, TypeParts DEF TypeInv
<1>6. CASE Unregister(t)
  <2>1. SharedTypes'
    BY <1>6, BudgetAssumption, SegmentFacts, CounterFacts
    DEF Unregister, Enter, SharedTypes, Placed, PlacedAt, Statuses, Calls, Pcs,
        GatePcs, contextVars, lockVars, objectVars, segmentVars
  <2>2. CallTypes'
    <3>1. PICK o \in Objects : Enter(t, "unregister", <<o, 1>>, "check")
      BY <1>6 DEF Unregister
    <3> QED
      BY <1>6, <3>1, SegmentFacts, EnterTypes DEF Unregister, Calls, Pcs
  <2>3. Placed'
    BY <1>6, BudgetAssumption, SegmentFacts, TypeParts
    DEF Unregister, Enter, CallTypes, Placed, PlacedAt, Statuses, Calls, Pcs,
        GatePcs, contextVars, lockVars, objectVars, segmentVars
  <2> QED
    BY <2>1, <2>2, <2>3, TypeParts DEF TypeInv
<1> QED
  BY <1>1, <1>2, <1>3, <1>4, <1>5, <1>6

\* materialize_and_pin, prewarm's loop and sr_release keep the types and places.
LEMMA MaterializeKeepsTypes ==
    ASSUME TypeInv, SharedTypes, CallTypes, Placed, NEW t \in Threads,
           \/ Warm(t) \/ NotFound(t) \/ PinResident(t) \/ Wait(t) \/ Wake(t)
           \/ BeginRestore(t) \/ LockCapacity(t) \/ Publish(t) \/ RestoreFails(t)
           \/ Drain(t) \/ Release(t)
    PROVE  TypeInv'
<1>1. CASE Warm(t)
  <2>1. SharedTypes'
    BY <1>1, BudgetAssumption, SegmentFacts, CounterFacts
    DEF Warm, Goto, Leave, SharedTypes, Placed, PlacedAt, Statuses, Calls, Pcs,
        GatePcs, contextVars, lockVars, objectVars, segmentVars
  <2>2. CallTypes'
    BY <1>1, GotoTypes, LeaveTypes DEF Warm, Pcs
  <2>3. Placed'
    BY <1>1, BudgetAssumption, SegmentFacts, TypeParts
    DEF Warm, Goto, Leave, CallTypes, Placed, PlacedAt, Statuses, Calls, Pcs,
        GatePcs, contextVars, lockVars, objectVars, segmentVars
  <2> QED
    BY <2>1, <2>2, <2>3, TypeParts DEF TypeInv
<1>2. CASE NotFound(t)
  <2>1. SharedTypes'
    BY <1>2, BudgetAssumption, SegmentFacts, CounterFacts
    DEF NotFound, Leave, SharedTypes, Placed, PlacedAt, Statuses, Calls, Pcs,
        GatePcs, contextVars, lockVars, objectVars, segmentVars
  <2>2. CallTypes'
    BY <1>2, BudgetAssumption, SegmentFacts, CounterFacts
    DEF NotFound, Leave, CallTypes, Placed, PlacedAt, Statuses, Calls, Pcs,
        GatePcs, contextVars, lockVars, objectVars, segmentVars
  <2>3. Placed'
    BY <1>2, BudgetAssumption, SegmentFacts, TypeParts
    DEF NotFound, Leave, CallTypes, Placed, PlacedAt, Statuses, Calls, Pcs,
        GatePcs, contextVars, lockVars, objectVars, segmentVars
  <2> QED
    BY <2>1, <2>2, <2>3, TypeParts DEF TypeInv
<1>3. CASE PinResident(t)
  <2>1. SharedTypes'
    BY <1>3, PinTypes
    DEF PinResident, SharedTypes, Placed, PlacedAt, lockVars, objectVars
  <2>2. CallTypes'
    BY <1>3, MaterializedTypes DEF PinResident, Placed, PlacedAt
  <2>3. Placed'
    BY <1>3, BudgetAssumption, SegmentFacts, SegmentMoves, TypeParts
    DEF PinResident, Pin, Materialized, Goto, Leave, CallTypes, Placed, PlacedAt,
        Statuses, Calls, Pcs, GatePcs, contextVars, lockVars, objectVars,
        segmentVars
  <2> QED
    BY <2>1, <2>2, <2>3, TypeParts DEF TypeInv
<1>4. CASE Wait(t)
  <2>1. SharedTypes'
    BY <1>4, BudgetAssumption, SegmentFacts, CounterFacts
    DEF Wait, Goto, SharedTypes, Placed, PlacedAt, Statuses, Calls, Pcs, GatePcs,
        contextVars, lockVars, objectVars, segmentVars
  <2>2. CallTypes'
    BY <1>4, BudgetAssumption, SegmentFacts, CounterFacts
    DEF Wait, Goto, CallTypes, Placed, PlacedAt, Statuses, Calls, Pcs, GatePcs,
        contextVars, lockVars, objectVars, segmentVars
  <2>3. Placed'
    BY <1>4, BudgetAssumption, SegmentFacts, TypeParts
    DEF Wait, Goto, CallTypes, Placed, PlacedAt, Statuses, Calls, Pcs, GatePcs,
        contextVars, lockVars, objectVars, segmentVars
  <2> QED
    BY <2>1, <2>2, <2>3, TypeParts DEF TypeInv
<1>5. CASE Wake(t)
  <2>1. SharedTypes'
    BY <1>5, BudgetAssumption, SegmentFacts, CounterFacts
    DEF Wake, Goto, SharedTypes, Placed, PlacedAt, Statuses, Calls, Pcs, GatePcs,
        contextVars, lockVars, objectVars, segmentVars
  <2>2. CallTypes'
    BY <1>5, BudgetAssumption, SegmentFacts, CounterFacts
    DEF Wake, Goto, CallTypes, Placed, PlacedAt, Statuses, Calls, Pcs, GatePcs,
        contextVars, lockVars, objectVars, segmentVars
  <2>3. Placed'
    BY <1>5, BudgetAssumption, SegmentFacts, TypeParts
    DEF Wake, Goto, CallTypes, Placed, PlacedAt, Statuses, Calls, Pcs, GatePcs,
        contextVars, lockVars, objectVars, segmentVars
  <2> QED
    BY <2>1, <2>2, <2>3, TypeParts DEF TypeInv
<1>6. CASE BeginRestore(t)
  <2>1. SharedTypes'
    BY <1>6, BudgetAssumption, SegmentFacts, CounterFacts
    DEF BeginRestore, Goto, SharedTypes, Placed, PlacedAt, Statuses, Calls, Pcs,
        GatePcs, contextVars, lockVars, objectVars, segmentVars
  <2>2. CallTypes'
    BY <1>6, BudgetAssumption, SegmentFacts, CounterFacts
    DEF BeginRestore, Goto, CallTypes, Placed, PlacedAt, Statuses, Calls, Pcs,
        GatePcs, contextVars, lockVars, objectVars, segmentVars
  <2>3. Placed'
    BY <1>6, BudgetAssumption, SegmentFacts, TypeParts
    DEF BeginRestore, Goto, CallTypes, Placed, PlacedAt, Statuses, Calls, Pcs,
        GatePcs, contextVars, lockVars, objectVars, segmentVars
  <2> QED
    BY <2>1, <2>2, <2>3, TypeParts DEF TypeInv
<1>7. CASE LockCapacity(t)
  <2>1. SharedTypes'
    BY <1>7, BudgetAssumption, SegmentFacts, CounterFacts
    DEF LockCapacity, Goto, SharedTypes, Placed, PlacedAt, Statuses, Calls, Pcs,
        GatePcs, contextVars, lockVars, objectVars, segmentVars
  <2>2. CallTypes'
    BY <1>7, BudgetAssumption, SegmentFacts, CounterFacts
    DEF LockCapacity, Goto, CallTypes, Placed, PlacedAt, Statuses, Calls, Pcs,
        GatePcs, contextVars, lockVars, objectVars, segmentVars
  <2>3. Placed'
    BY <1>7, BudgetAssumption, SegmentFacts, TypeParts
    DEF LockCapacity, Goto, CallTypes, Placed, PlacedAt, Statuses, Calls, Pcs,
        GatePcs, contextVars, lockVars, objectVars, segmentVars
  <2> QED
    BY <2>1, <2>2, <2>3, TypeParts DEF TypeInv
<1>8. CASE Publish(t)
  <2>1. SharedTypes'
    <3>1. seg[t] \in Segments /\ ObjectOf(seg[t]) \in Objects
      BY <1>8, SegmentFacts DEF Publish, Placed, PlacedAt
    <3> QED
      BY <1>8, <3>1, PinTypes, CounterFacts DEF Publish, SharedTypes, lockVars
  <2>2. CallTypes'
    BY <1>8, BudgetAssumption, SegmentFacts, CounterFacts
    DEF Publish, Pin, Goto, CallTypes, Placed, PlacedAt, Statuses, Calls, Pcs,
        GatePcs, contextVars, lockVars, objectVars, segmentVars
  <2>3. Placed'
    BY <1>8, BudgetAssumption, SegmentFacts, TypeParts
    DEF Publish, Pin, Goto, CallTypes, Placed, PlacedAt, Statuses, Calls, Pcs,
        GatePcs, contextVars, lockVars, objectVars, segmentVars
  <2> QED
    BY <2>1, <2>2, <2>3, TypeParts DEF TypeInv
<1>9. CASE RestoreFails(t)
  <2>1. SharedTypes'
    BY <1>9, BudgetAssumption, SegmentFacts, CounterFacts
    DEF RestoreFails, Goto, SharedTypes, Placed, PlacedAt, Statuses, Calls, Pcs,
        GatePcs, contextVars, lockVars, objectVars, segmentVars
  <2>2. CallTypes'
    BY <1>9, BudgetAssumption, SegmentFacts, CounterFacts
    DEF RestoreFails, Goto, CallTypes, Placed, PlacedAt, Statuses, Calls, Pcs,
        GatePcs, contextVars, lockVars, objectVars, segmentVars
  <2>3. Placed'
    BY <1>9, BudgetAssumption, SegmentFacts, TypeParts
    DEF RestoreFails, Goto, CallTypes, Placed, PlacedAt, Statuses, Calls, Pcs,
        GatePcs, contextVars, lockVars, objectVars, segmentVars
  <2> QED
    BY <2>1, <2>2, <2>3, TypeParts DEF TypeInv
<1>10. CASE Drain(t)
  <2>1. SharedTypes'
    BY <1>10, BudgetAssumption, SegmentFacts, CounterFacts
    DEF Drain, Materialized, Goto, Leave, SharedTypes, Placed, PlacedAt, Statuses,
        Calls, Pcs, GatePcs, contextVars, lockVars, objectVars, segmentVars
  <2>2. CallTypes'
    BY <1>10, MaterializedTypes, LeaveTypes DEF Drain, Placed, PlacedAt
  <2>3. Placed'
    BY <1>10, BudgetAssumption, SegmentFacts, SegmentMoves, TypeParts
    DEF Drain, Materialized, Goto, Leave, CallTypes, Placed, PlacedAt, Statuses,
        Calls, Pcs, GatePcs, contextVars, lockVars, objectVars, segmentVars
  <2> QED
    BY <2>1, <2>2, <2>3, TypeParts DEF TypeInv
<1>11. CASE Release(t)
  <2>1. SharedTypes'
    BY <1>11, BudgetAssumption, SegmentFacts, CounterFacts
    DEF Release, Leave, SharedTypes, Placed, PlacedAt, Statuses, Calls, Pcs,
        GatePcs, contextVars, lockVars, objectVars, segmentVars
  <2>2. CallTypes'
    BY <1>11, BudgetAssumption, SegmentFacts, CounterFacts
    DEF Release, Leave, CallTypes, Placed, PlacedAt, Statuses, Calls, Pcs,
        GatePcs, contextVars, lockVars, objectVars, segmentVars
  <2>3. Placed'
    BY <1>11, BudgetAssumption, SegmentFacts, TypeParts
    DEF Release, Leave, CallTypes, Placed, PlacedAt, Statuses, Calls, Pcs,
        GatePcs, contextVars, lockVars, objectVars, segmentVars
  <2> QED
    BY <2>1, <2>2, <2>3, TypeParts DEF TypeInv
<1> QED
  BY <1>1, <1>2, <1>3, <1>4, <1>5, <1>6, <1>7, <1>8, <1>9, <1>10, <1>11

\* ensure_foreground_capacity keeps the types and places.
LEMMA EnsureCapacityKeepsTypes ==
    ASSUME TypeInv, SharedTypes, CallTypes, Placed, NEW t \in Threads,
           LoadRaw(t) \/ Decide(t) \/ GrantedLate(t) \/ Refused(t)
    PROVE  TypeInv'
<1>1. CASE LoadRaw(t)
  <2>1. SharedTypes'
    BY <1>1, BudgetAssumption, SegmentFacts, CounterFacts
    DEF LoadRaw, SharedTypes, Placed, PlacedAt, Statuses, Calls, Pcs, GatePcs,
        contextVars, lockVars, objectVars, segmentVars
  <2>2. CallTypes'
    <3>1. raw \in Counter /\ (IF pc[t] = "load" THEN "decide" ELSE "redecide") \in Pcs
      BY DEF SharedTypes, Pcs, GatePcs
    <3> QED
      BY <1>1, <3>1 DEF LoadRaw, CallTypes
  <2>3. Placed'
    BY <1>1, BudgetAssumption, SegmentFacts, TypeParts
    DEF LoadRaw, CallTypes, Placed, PlacedAt, Statuses, Calls, Pcs, GatePcs,
        contextVars, lockVars, objectVars, segmentVars
  <2> QED
    BY <2>1, <2>2, <2>3, TypeParts DEF TypeInv
<1>2. CASE Decide(t)
  <2>1. SharedTypes'
    BY <1>2, BudgetAssumption, SegmentFacts, CounterFacts
    DEF Decide, Granted, Goto, Desired, SharedTypes, Placed, PlacedAt, Statuses,
        Calls, Pcs, GatePcs, contextVars, lockVars, objectVars, segmentVars
  <2>2. CallTypes'
    <3>1. Desired \in Nat
      BY BudgetAssumption, CounterFacts DEF Desired, SharedTypes
    <3>2. CASE Granted(t)
      BY <3>2, GotoTypes DEF Granted, Pcs
    <3>3. CASE /\ goal' = [goal EXCEPT ![t] = Desired]
               /\ stuck' = [stuck EXCEPT ![t] = 0]
               /\ pc' = [pc EXCEPT ![t] = "test"]
               /\ UNCHANGED <<call, seg, sawRaw, victim>>
      BY <3>1, <3>3, BudgetAssumption DEF CallTypes, Pcs, GatePcs
    <3> QED
      BY <1>2, <3>2, <3>3 DEF Decide
  <2>3. Placed'
    BY <1>2, BudgetAssumption, SegmentFacts, TypeParts
    DEF Decide, Granted, Goto, Desired, CallTypes, Placed, PlacedAt, Statuses,
        Calls, Pcs, GatePcs, contextVars, lockVars, objectVars, segmentVars
  <2> QED
    BY <2>1, <2>2, <2>3, TypeParts DEF TypeInv
<1>3. CASE GrantedLate(t)
  <2>1. SharedTypes'
    <3>1. Plus(inflight, 1) \in Counter
      BY CounterFacts DEF SharedTypes
    <3>2. /\ inflight' = inflight \/ inflight' = Plus(inflight, 1)
          /\ capacity' = capacity \/ capacity' = NoThread
          /\ UNCHANGED <<raw, pinned, registry, objectVars, segmentVars>>
      BY <1>3 DEF GrantedLate, Granted
    <3> QED
      BY <3>1, <3>2 DEF SharedTypes, objectVars, segmentVars
  <2>2. CallTypes'
    BY <1>3, BudgetAssumption, SegmentFacts, CounterFacts
    DEF GrantedLate, Granted, Goto, CallTypes, Placed, PlacedAt, Statuses, Calls,
        Pcs, GatePcs, contextVars, lockVars, objectVars, segmentVars
  <2>3. Placed'
    BY <1>3, BudgetAssumption, SegmentFacts, TypeParts
    DEF GrantedLate, Granted, Goto, CallTypes, Placed, PlacedAt, Statuses, Calls,
        Pcs, GatePcs, contextVars, lockVars, objectVars, segmentVars
  <2> QED
    BY <2>1, <2>2, <2>3, TypeParts DEF TypeInv
<1>4. CASE Refused(t)
  <2>1. SharedTypes'
    BY <1>4, BudgetAssumption, SegmentFacts, CounterFacts
    DEF Refused, Leave, SharedTypes, Placed, PlacedAt, Statuses, Calls, Pcs,
        GatePcs, contextVars, lockVars, objectVars, segmentVars
  <2>2. CallTypes'
    BY <1>4, BudgetAssumption, SegmentFacts, CounterFacts
    DEF Refused, Leave, CallTypes, Placed, PlacedAt, Statuses, Calls, Pcs,
        GatePcs, contextVars, lockVars, objectVars, segmentVars
  <2>3. Placed'
    BY <1>4, BudgetAssumption, SegmentFacts, TypeParts
    DEF Refused, Leave, CallTypes, Placed, PlacedAt, Statuses, Calls, Pcs,
        GatePcs, contextVars, lockVars, objectVars, segmentVars
  <2> QED
    BY <2>1, <2>2, <2>3, TypeParts DEF TypeInv
<1> QED
  BY <1>1, <1>2, <1>3, <1>4

\* compact_to keeps the types and places.
LEMMA CompactToKeepsTypes ==
    ASSUME TypeInv, SharedTypes, CallTypes, Placed, NEW t \in Threads,
           \/ Test(t) \/ Choose(t) \/ NothingToEvict(t) \/ Evict(t) \/ EvictFails(t)
           \/ Done(t)
    PROVE  TypeInv'
<1>1. CASE Test(t)
  <2>1. SharedTypes'
    BY <1>1, BudgetAssumption, SegmentFacts, CounterFacts
    DEF Test, Goto, AfterCompact, SharedTypes, Placed, PlacedAt, Statuses, Calls,
        Pcs, GatePcs, contextVars, lockVars, objectVars, segmentVars
  <2>2. CallTypes'
    BY <1>1, BudgetAssumption, SegmentFacts, CounterFacts
    DEF Test, Goto, AfterCompact, CallTypes, Placed, PlacedAt, Statuses, Calls,
        Pcs, GatePcs, contextVars, lockVars, objectVars, segmentVars
  <2>3. Placed'
    BY <1>1, BudgetAssumption, SegmentFacts, TypeParts
    DEF Test, Goto, AfterCompact, CallTypes, Placed, PlacedAt, Statuses, Calls,
        Pcs, GatePcs, contextVars, lockVars, objectVars, segmentVars
  <2> QED
    BY <2>1, <2>2, <2>3, TypeParts DEF TypeInv
<1>2. CASE Choose(t)
  <2>1. SharedTypes'
    BY <1>2, BudgetAssumption, SegmentFacts, CounterFacts
    DEF Choose, Candidates, SharedTypes, Placed, PlacedAt, Statuses, Calls, Pcs,
        GatePcs, contextVars, lockVars, objectVars, segmentVars
  <2>2. CallTypes'
    BY <1>2, BudgetAssumption, SegmentFacts, CounterFacts
    DEF Choose, Candidates, CallTypes, Placed, PlacedAt, Statuses, Calls, Pcs,
        GatePcs, contextVars, lockVars, objectVars, segmentVars
  <2>3. Placed'
    BY <1>2, BudgetAssumption, SegmentFacts, TypeParts
    DEF Choose, Candidates, CallTypes, Placed, PlacedAt, Statuses, Calls, Pcs,
        GatePcs, contextVars, lockVars, objectVars, segmentVars
  <2> QED
    BY <2>1, <2>2, <2>3, TypeParts DEF TypeInv
<1>3. CASE NothingToEvict(t)
  <2>1. SharedTypes'
    BY <1>3, BudgetAssumption, SegmentFacts, CounterFacts
    DEF NothingToEvict, Goto, AfterCompact, SharedTypes, Placed, PlacedAt,
        Statuses, Calls, Pcs, GatePcs, contextVars, lockVars, objectVars,
        segmentVars
  <2>2. CallTypes'
    BY <1>3, BudgetAssumption, SegmentFacts, CounterFacts
    DEF NothingToEvict, Goto, AfterCompact, CallTypes, Placed, PlacedAt, Statuses,
        Calls, Pcs, GatePcs, contextVars, lockVars, objectVars, segmentVars
  <2>3. Placed'
    BY <1>3, BudgetAssumption, SegmentFacts, TypeParts
    DEF NothingToEvict, Goto, AfterCompact, CallTypes, Placed, PlacedAt, Statuses,
        Calls, Pcs, GatePcs, contextVars, lockVars, objectVars, segmentVars
  <2> QED
    BY <2>1, <2>2, <2>3, TypeParts DEF TypeInv
<1>4. CASE Evict(t)
  <2>1. SharedTypes'
    BY <1>4, BudgetAssumption, SegmentFacts, CounterFacts
    DEF Evict, SharedTypes, Placed, PlacedAt, Statuses, Calls, Pcs, GatePcs,
        contextVars, lockVars, objectVars, segmentVars
  <2>2. CallTypes'
    BY <1>4, BudgetAssumption, SegmentFacts, CounterFacts
    DEF Evict, CallTypes, Placed, PlacedAt, Statuses, Calls, Pcs, GatePcs,
        contextVars, lockVars, objectVars, segmentVars
  <2>3. Placed'
    BY <1>4, BudgetAssumption, SegmentFacts, TypeParts
    DEF Evict, CallTypes, Placed, PlacedAt, Statuses, Calls, Pcs, GatePcs,
        contextVars, lockVars, objectVars, segmentVars
  <2> QED
    BY <2>1, <2>2, <2>3, TypeParts DEF TypeInv
<1>5. CASE EvictFails(t)
  <2>1. SharedTypes'
    BY <1>5, BudgetAssumption, SegmentFacts, CounterFacts
    DEF EvictFails, AfterCompact, GivesUp, SharedTypes, Placed, PlacedAt,
        Statuses, Calls, Pcs, GatePcs, contextVars, lockVars, objectVars,
        segmentVars
  <2>2. CallTypes'
    BY <1>5, BudgetAssumption, SegmentFacts, CounterFacts
    DEF EvictFails, AfterCompact, GivesUp, CallTypes, Placed, PlacedAt, Statuses,
        Calls, Pcs, GatePcs, contextVars, lockVars, objectVars, segmentVars
  <2>3. Placed'
    BY <1>5, BudgetAssumption, SegmentFacts, TypeParts
    DEF EvictFails, AfterCompact, GivesUp, CallTypes, Placed, PlacedAt, Statuses,
        Calls, Pcs, GatePcs, contextVars, lockVars, objectVars, segmentVars
  <2> QED
    BY <2>1, <2>2, <2>3, TypeParts DEF TypeInv
<1>6. CASE Done(t)
  <2>1. SharedTypes'
    BY <1>6, BudgetAssumption, SegmentFacts, CounterFacts
    DEF Done, Leave, SharedTypes, Placed, PlacedAt, Statuses, Calls, Pcs, GatePcs,
        contextVars, lockVars, objectVars, segmentVars
  <2>2. CallTypes'
    BY <1>6, BudgetAssumption, SegmentFacts, CounterFacts
    DEF Done, Leave, CallTypes, Placed, PlacedAt, Statuses, Calls, Pcs, GatePcs,
        contextVars, lockVars, objectVars, segmentVars
  <2>3. Placed'
    BY <1>6, BudgetAssumption, SegmentFacts, TypeParts
    DEF Done, Leave, CallTypes, Placed, PlacedAt, Statuses, Calls, Pcs, GatePcs,
        contextVars, lockVars, objectVars, segmentVars
  <2> QED
    BY <2>1, <2>2, <2>3, TypeParts DEF TypeInv
<1> QED
  BY <1>1, <1>2, <1>3, <1>4, <1>5, <1>6

\* Registration and unregistration keep the types and places.
LEMMA RegistryKeepsTypes ==
    ASSUME TypeInv, SharedTypes, CallTypes, Placed, NEW t \in Threads,
           \/ Commit(t) \/ RegisterFails(t) \/ Insert(t) \/ Busy(t) \/ CheckSegment(t)
           \/ Retire(t) \/ Subtract(t) \/ MarkSegment(t)
    PROVE  TypeInv'
<1>1. CASE Commit(t)
  <2>1. SharedTypes'
    BY <1>1, BudgetAssumption, SegmentFacts, CounterFacts
    DEF Commit, NextSegment, SharedTypes, Placed, PlacedAt, Statuses, Calls, Pcs,
        GatePcs, contextVars, lockVars, objectVars, segmentVars
  <2>2. CallTypes'
    BY <1>1, BudgetAssumption, SegmentFacts, SegmentMoves, CounterFacts
    DEF Commit, NextSegment, CallTypes, Placed, PlacedAt, Statuses, Calls, Pcs,
        GatePcs, contextVars, lockVars, objectVars, segmentVars
  <2>3. Placed'
    BY <1>1, BudgetAssumption, SegmentFacts, SegmentMoves, TypeParts
    DEF Commit, NextSegment, CallTypes, Placed, PlacedAt, Statuses, Calls, Pcs,
        GatePcs, contextVars, lockVars, objectVars, segmentVars
  <2> QED
    BY <2>1, <2>2, <2>3, TypeParts DEF TypeInv
<1>2. CASE RegisterFails(t)
  <2>1. SharedTypes'
    BY <1>2, BudgetAssumption, SegmentFacts, CounterFacts
    DEF RegisterFails, Leave, SharedTypes, Placed, PlacedAt, Statuses, Calls, Pcs,
        GatePcs, contextVars, lockVars, objectVars, segmentVars
  <2>2. CallTypes'
    BY <1>2, BudgetAssumption, SegmentFacts, CounterFacts
    DEF RegisterFails, Leave, CallTypes, Placed, PlacedAt, Statuses, Calls, Pcs,
        GatePcs, contextVars, lockVars, objectVars, segmentVars
  <2>3. Placed'
    BY <1>2, BudgetAssumption, SegmentFacts, TypeParts
    DEF RegisterFails, Leave, CallTypes, Placed, PlacedAt, Statuses, Calls, Pcs,
        GatePcs, contextVars, lockVars, objectVars, segmentVars
  <2> QED
    BY <2>1, <2>2, <2>3, TypeParts DEF TypeInv
<1>3. CASE Insert(t)
  <2>1. SharedTypes'
    BY <1>3, BudgetAssumption, SegmentFacts, CounterFacts
    DEF Insert, Leave, SharedTypes, Placed, PlacedAt, Statuses, Calls, Pcs,
        GatePcs, contextVars, lockVars, objectVars, segmentVars
  <2>2. CallTypes'
    BY <1>3, BudgetAssumption, SegmentFacts, CounterFacts
    DEF Insert, Leave, CallTypes, Placed, PlacedAt, Statuses, Calls, Pcs, GatePcs,
        contextVars, lockVars, objectVars, segmentVars
  <2>3. Placed'
    BY <1>3, BudgetAssumption, SegmentFacts, TypeParts
    DEF Insert, Leave, CallTypes, Placed, PlacedAt, Statuses, Calls, Pcs, GatePcs,
        contextVars, lockVars, objectVars, segmentVars
  <2> QED
    BY <2>1, <2>2, <2>3, TypeParts DEF TypeInv
<1>4. CASE Busy(t)
  <2>1. SharedTypes'
    BY <1>4, BudgetAssumption, SegmentFacts, CounterFacts
    DEF Busy, Leave, SharedTypes, Placed, PlacedAt, Statuses, Calls, Pcs, GatePcs,
        contextVars, lockVars, objectVars, segmentVars
  <2>2. CallTypes'
    BY <1>4, BudgetAssumption, SegmentFacts, CounterFacts
    DEF Busy, Leave, CallTypes, Placed, PlacedAt, Statuses, Calls, Pcs, GatePcs,
        contextVars, lockVars, objectVars, segmentVars
  <2>3. Placed'
    BY <1>4, BudgetAssumption, SegmentFacts, TypeParts
    DEF Busy, Leave, CallTypes, Placed, PlacedAt, Statuses, Calls, Pcs, GatePcs,
        contextVars, lockVars, objectVars, segmentVars
  <2> QED
    BY <2>1, <2>2, <2>3, TypeParts DEF TypeInv
<1>5. CASE CheckSegment(t)
  <2>1. SharedTypes'
    BY <1>5, BudgetAssumption, SegmentFacts, CounterFacts
    DEF CheckSegment, NextSegment, SharedTypes, Placed, PlacedAt, Statuses, Calls,
        Pcs, GatePcs, contextVars, lockVars, objectVars, segmentVars
  <2>2. CallTypes'
    BY <1>5, BudgetAssumption, SegmentFacts, SegmentMoves, CounterFacts
    DEF CheckSegment, NextSegment, CallTypes, Placed, PlacedAt, Statuses, Calls,
        Pcs, GatePcs, contextVars, lockVars, objectVars, segmentVars
  <2>3. Placed'
    BY <1>5, BudgetAssumption, SegmentFacts, SegmentMoves, TypeParts
    DEF CheckSegment, NextSegment, CallTypes, Placed, PlacedAt, Statuses, Calls,
        Pcs, GatePcs, contextVars, lockVars, objectVars, segmentVars
  <2> QED
    BY <2>1, <2>2, <2>3, TypeParts DEF TypeInv
<1>6. CASE Retire(t)
  <2>1. SharedTypes'
    BY <1>6, BudgetAssumption, SegmentFacts, CounterFacts
    DEF Retire, Goto, SharedTypes, Placed, PlacedAt, Statuses, Calls, Pcs,
        GatePcs, contextVars, lockVars, objectVars, segmentVars
  <2>2. CallTypes'
    BY <1>6, BudgetAssumption, SegmentFacts, CounterFacts
    DEF Retire, Goto, CallTypes, Placed, PlacedAt, Statuses, Calls, Pcs, GatePcs,
        contextVars, lockVars, objectVars, segmentVars
  <2>3. Placed'
    BY <1>6, BudgetAssumption, SegmentFacts, TypeParts
    DEF Retire, Goto, CallTypes, Placed, PlacedAt, Statuses, Calls, Pcs, GatePcs,
        contextVars, lockVars, objectVars, segmentVars
  <2> QED
    BY <2>1, <2>2, <2>3, TypeParts DEF TypeInv
<1>7. CASE Subtract(t)
  <2>1. SharedTypes'
    BY <1>7, BudgetAssumption, SegmentFacts, CounterFacts
    DEF Subtract, Goto, SharedTypes, Placed, PlacedAt, Statuses, Calls, Pcs,
        GatePcs, contextVars, lockVars, objectVars, segmentVars
  <2>2. CallTypes'
    BY <1>7, BudgetAssumption, SegmentFacts, CounterFacts
    DEF Subtract, Goto, CallTypes, Placed, PlacedAt, Statuses, Calls, Pcs,
        GatePcs, contextVars, lockVars, objectVars, segmentVars
  <2>3. Placed'
    BY <1>7, BudgetAssumption, SegmentFacts, TypeParts
    DEF Subtract, Goto, CallTypes, Placed, PlacedAt, Statuses, Calls, Pcs,
        GatePcs, contextVars, lockVars, objectVars, segmentVars
  <2> QED
    BY <2>1, <2>2, <2>3, TypeParts DEF TypeInv
<1>8. CASE MarkSegment(t)
  <2>1. SharedTypes'
    BY <1>8, BudgetAssumption, SegmentFacts, CounterFacts
    DEF MarkSegment, Leave, SharedTypes, Placed, PlacedAt, Statuses, Calls, Pcs,
        GatePcs, contextVars, lockVars, objectVars, segmentVars
  <2>2. CallTypes'
    <3>1. seg[t] \in Segments
      BY <1>8 DEF MarkSegment, Placed, PlacedAt
    <3>2. CASE seg[t][2] < SegmentsPerObject
      <4>1. /\ seg' = [seg EXCEPT ![t][2] = @ + 1]
            /\ UNCHANGED <<call, pc, sawRaw, goal, stuck, victim>>
        BY <1>8, <3>2 DEF MarkSegment
      <4> QED
        BY <3>1, <3>2, <4>1, SegmentMoves DEF CallTypes
    <3>3. CASE ~(seg[t][2] < SegmentsPerObject)
      BY <1>8, <3>3, LeaveTypes DEF MarkSegment
    <3> QED
      BY <3>2, <3>3
  <2>3. Placed'
    BY <1>8, BudgetAssumption, SegmentFacts, SegmentMoves, TypeParts
    DEF MarkSegment, Leave, CallTypes, Placed, PlacedAt, Statuses, Calls, Pcs,
        GatePcs, contextVars, lockVars, objectVars, segmentVars
  <2> QED
    BY <2>1, <2>2, <2>3, TypeParts DEF TypeInv
<1> QED
  BY <1>1, <1>2, <1>3, <1>4, <1>5, <1>6, <1>7, <1>8

\* Every step is one of these.
LEMMA Steps ==
    ASSUME Next
    PROVE  \E t \in Threads :
             \/ Acquire(t) \/ Prewarm(t) \/ Trim(t) \/ BackgroundCompact(t)
             \/ Register(t) \/ Unregister(t)
             \/ Warm(t) \/ NotFound(t) \/ PinResident(t) \/ Wait(t) \/ Wake(t)
             \/ BeginRestore(t)
             \/ LockCapacity(t) \/ Publish(t) \/ RestoreFails(t) \/ Drain(t)
             \/ Release(t)
             \/ LoadRaw(t) \/ Decide(t) \/ GrantedLate(t) \/ Refused(t)
             \/ Test(t) \/ Choose(t) \/ NothingToEvict(t) \/ Evict(t) \/ EvictFails(t)
             \/ Done(t)
             \/ Commit(t) \/ RegisterFails(t) \/ Insert(t) \/ Busy(t)
             \/ CheckSegment(t) \/ Retire(t)
             \/ Subtract(t) \/ MarkSegment(t)
BY DEF Next, Proceed, Materialize, EnsureCapacity, CompactTo, RegisterObject,
   UnregisterObject

\* Every step keeps the types and the places.
LEMMA TypeNext == TypeInv /\ [Next]_vars => TypeInv'
<1> SUFFICES ASSUME TypeInv, [Next]_vars PROVE TypeInv'
  OBVIOUS
<1>1. SharedTypes /\ CallTypes /\ Placed
  BY TypeParts DEF TypeInv
<1>2. CASE UNCHANGED vars
  <2>1. SharedTypes' /\ CallTypes'
    BY <1>1, <1>2 DEF SharedTypes, CallTypes, vars, contextVars, lockVars,
           objectVars, segmentVars, callVars
  <2>2. Placed'
    BY <1>1, <1>2 DEF Placed, PlacedAt, vars, callVars
  <2> QED
    BY <2>1, <2>2, TypeParts DEF TypeInv
<1>3. CASE Next
  BY <1>1, <1>3, Steps, BeginKeepsTypes, MaterializeKeepsTypes,
     EnsureCapacityKeepsTypes,
     CompactToKeepsTypes, RegistryKeepsTypes
<1> QED
  BY <1>2, <1>3

\* Types and places are an invariant.
LEMMA TypesStay == Spec => []TypeInv
BY TypeInit, TypeNext, PTL DEF Spec

\* TypeOK, for every instance.
THEOREM TypeCorrect == Spec => []TypeOK
<1>1. TypeInv => TypeOK
  BY DEF TypeInv
<1> QED
  BY <1>1, TypesStay, PTL

-----------------------------------------------------------------------------
(***************************************************************************)
(* Restores in flight                                                      *)
(***************************************************************************)
Reserving == {t \in Threads : pc[t] \in {"restore", "drain", "undo"}}

\* InflightIsExact in terms of Reserving, in a state and in the next.
LEMMA ReservingFacts ==
    /\ InflightIsExact <=> inflight = Cardinality(Reserving)
    /\ InflightIsExact' <=> inflight' = Cardinality(Reserving')
    /\ Reserving \in SUBSET Threads
BY DEF InflightIsExact, Reserving

\* A step that begins no restore and ends none.
LEMMA ReservationsKept ==
    ASSUME InflightIsExact, inflight' = inflight, NEW t \in Threads,
           \A u \in Threads \ {t} : pc'[u] = pc[u],
           pc'[t] \in {"restore", "drain", "undo"} <=> pc[t] \in {"restore", "drain", "undo"}
    PROVE  InflightIsExact'
<1>1. Reserving' = Reserving
  BY DEF Reserving
<1> QED
  BY <1>1, ReservingFacts

\* A restore that is granted its segment.
LEMMA ReservationBegins ==
    ASSUME CallTypes, InflightIsExact, NEW t \in Threads,
           pc[t] \in {"decide", "redecide"}, Granted(t)
    PROVE  InflightIsExact'
<1>1. CASE call[t] = "register"
  BY <1>1, ReservationsKept DEF Granted, Goto, CallTypes
<1>2. CASE call[t] # "register"
  <2>1. Reserving' = Reserving \cup {t} /\ t \notin Reserving
    BY <1>2 DEF Granted, Goto, Reserving, CallTypes
  <2> QED
    BY <1>2, <2>1, ReservingFacts, CountGrows, Finiteness DEF Granted
<1> QED
  BY <1>1, <1>2

\* No restore is in flight at first.
LEMMA InflightInit == Init => InflightIsExact
<1>1. Init => Reserving = {}
  BY DEF Init, Reserving
<1> QED
  BY <1>1, ReservingFacts, FS_EmptySet DEF Init

\* The calls that begin keep the sum of the restores in flight.
LEMMA BeginKeepsInflight ==
    ASSUME CallTypes, Placed, InflightIsExact, NEW t \in Threads,
           \/ Acquire(t) \/ Prewarm(t) \/ Trim(t) \/ BackgroundCompact(t)
           \/ Register(t) \/ Unregister(t)
    PROVE  InflightIsExact'
<1>1. CASE Acquire(t)
  BY <1>1, ReservationsKept DEF Acquire, Enter, CallTypes, Placed, PlacedAt, contextVars
<1>2. CASE Prewarm(t)
  BY <1>2, ReservationsKept DEF Prewarm, Enter, CallTypes, Placed, PlacedAt, contextVars
<1>3. CASE Trim(t)
  BY <1>3, ReservationsKept
  DEF Trim, Compact, Enter, CallTypes, Placed, PlacedAt, contextVars
<1>4. CASE BackgroundCompact(t)
  BY <1>4, ReservationsKept
  DEF BackgroundCompact, Compact, Enter, CallTypes, Placed, PlacedAt, contextVars
<1>5. CASE Register(t)
  BY <1>5, ReservationsKept
  DEF Register, Enter, CallTypes, Placed, PlacedAt, contextVars
<1>6. CASE Unregister(t)
  BY <1>6, ReservationsKept
  DEF Unregister, Enter, CallTypes, Placed, PlacedAt, contextVars
<1> QED
  BY <1>1, <1>2, <1>3, <1>4, <1>5, <1>6

\* materialize_and_pin, prewarm's loop and sr_release keep the sum of the restores in flight.
LEMMA MaterializeKeepsInflight ==
    ASSUME CallTypes, Placed, InflightIsExact, NEW t \in Threads,
           \/ Warm(t) \/ NotFound(t) \/ PinResident(t) \/ Wait(t) \/ Wake(t)
           \/ BeginRestore(t) \/ LockCapacity(t) \/ Publish(t) \/ RestoreFails(t)
           \/ Drain(t) \/ Release(t)
    PROVE  InflightIsExact'
<1>1. CASE Warm(t)
  BY <1>1, ReservationsKept
  DEF Warm, Goto, Leave, CallTypes, Placed, PlacedAt, contextVars
<1>2. CASE NotFound(t)
  BY <1>2, ReservationsKept
  DEF NotFound, Leave, CallTypes, Placed, PlacedAt, contextVars
<1>3. CASE PinResident(t)
  BY <1>3, ReservationsKept
  DEF PinResident, Pin, Materialized, Goto, Leave, CallTypes, Placed, PlacedAt,
      contextVars
<1>4. CASE Wait(t)
  BY <1>4, ReservationsKept DEF Wait, Goto, CallTypes, Placed, PlacedAt, contextVars
<1>5. CASE Wake(t)
  BY <1>5, ReservationsKept DEF Wake, Goto, CallTypes, Placed, PlacedAt, contextVars
<1>6. CASE BeginRestore(t)
  BY <1>6, ReservationsKept
  DEF BeginRestore, Goto, CallTypes, Placed, PlacedAt, contextVars
<1>7. CASE LockCapacity(t)
  BY <1>7, ReservationsKept
  DEF LockCapacity, Goto, CallTypes, Placed, PlacedAt, contextVars
<1>8. CASE Publish(t)
  BY <1>8, ReservationsKept
  DEF Publish, Pin, Goto, CallTypes, Placed, PlacedAt, contextVars
<1>9. CASE RestoreFails(t)
  BY <1>9, ReservationsKept
  DEF RestoreFails, Goto, CallTypes, Placed, PlacedAt, contextVars
<1>10. CASE Drain(t)
  <2>1. Reserving' = Reserving \ {t} /\ t \in Reserving
    BY <1>10 DEF Drain, Materialized, Goto, Leave, Reserving, CallTypes
  <2> QED
    BY <1>10, <2>1, ReservingFacts, CountShrinks, Finiteness DEF Drain
<1>11. CASE Release(t)
  BY <1>11, ReservationsKept
  DEF Release, Leave, CallTypes, Placed, PlacedAt, contextVars
<1> QED
  BY <1>1, <1>2, <1>3, <1>4, <1>5, <1>6, <1>7, <1>8, <1>9, <1>10, <1>11

\* ensure_foreground_capacity keeps the sum of the restores in flight.
LEMMA EnsureCapacityKeepsInflight ==
    ASSUME CallTypes, Placed, InflightIsExact, NEW t \in Threads,
           LoadRaw(t) \/ Decide(t) \/ GrantedLate(t) \/ Refused(t)
    PROVE  InflightIsExact'
<1>1. CASE LoadRaw(t)
  BY <1>1, ReservationsKept DEF LoadRaw, CallTypes, Placed, PlacedAt, contextVars
<1>2. CASE Decide(t)
  BY <1>2, ReservationBegins, ReservationsKept DEF Decide, CallTypes
<1>3. CASE GrantedLate(t)
  BY <1>3, ReservationBegins DEF GrantedLate
<1>4. CASE Refused(t)
  BY <1>4, ReservationsKept DEF Refused, Leave, CallTypes, Placed, PlacedAt, contextVars
<1> QED
  BY <1>1, <1>2, <1>3, <1>4

\* compact_to keeps the sum of the restores in flight.
LEMMA CompactToKeepsInflight ==
    ASSUME CallTypes, Placed, InflightIsExact, NEW t \in Threads,
           \/ Test(t) \/ Choose(t) \/ NothingToEvict(t) \/ Evict(t) \/ EvictFails(t)
           \/ Done(t)
    PROVE  InflightIsExact'
<1>1. CASE Test(t)
  BY <1>1, ReservationsKept
  DEF Test, Goto, AfterCompact, CallTypes, Placed, PlacedAt, contextVars
<1>2. CASE Choose(t)
  BY <1>2, ReservationsKept
  DEF Choose, Candidates, CallTypes, Placed, PlacedAt, contextVars
<1>3. CASE NothingToEvict(t)
  BY <1>3, ReservationsKept
  DEF NothingToEvict, Goto, AfterCompact, CallTypes, Placed, PlacedAt, contextVars
<1>4. CASE Evict(t)
  BY <1>4, ReservationsKept DEF Evict, CallTypes, Placed, PlacedAt, contextVars
<1>5. CASE EvictFails(t)
  BY <1>5, ReservationsKept
  DEF EvictFails, AfterCompact, GivesUp, CallTypes, Placed, PlacedAt, contextVars
<1>6. CASE Done(t)
  BY <1>6, ReservationsKept DEF Done, Leave, CallTypes, Placed, PlacedAt, contextVars
<1> QED
  BY <1>1, <1>2, <1>3, <1>4, <1>5, <1>6

\* Registration and unregistration keep the sum of the restores in flight.
LEMMA RegistryKeepsInflight ==
    ASSUME CallTypes, Placed, InflightIsExact, NEW t \in Threads,
           \/ Commit(t) \/ RegisterFails(t) \/ Insert(t) \/ Busy(t) \/ CheckSegment(t)
           \/ Retire(t) \/ Subtract(t) \/ MarkSegment(t)
    PROVE  InflightIsExact'
<1>1. CASE Commit(t)
  BY <1>1, ReservationsKept
  DEF Commit, NextSegment, CallTypes, Placed, PlacedAt, contextVars
<1>2. CASE RegisterFails(t)
  BY <1>2, ReservationsKept
  DEF RegisterFails, Leave, CallTypes, Placed, PlacedAt, contextVars
<1>3. CASE Insert(t)
  BY <1>3, ReservationsKept DEF Insert, Leave, CallTypes, Placed, PlacedAt, contextVars
<1>4. CASE Busy(t)
  BY <1>4, ReservationsKept DEF Busy, Leave, CallTypes, Placed, PlacedAt, contextVars
<1>5. CASE CheckSegment(t)
  BY <1>5, ReservationsKept
  DEF CheckSegment, NextSegment, CallTypes, Placed, PlacedAt, contextVars
<1>6. CASE Retire(t)
  BY <1>6, ReservationsKept DEF Retire, Goto, CallTypes, Placed, PlacedAt, contextVars
<1>7. CASE Subtract(t)
  BY <1>7, ReservationsKept DEF Subtract, Goto, CallTypes, Placed, PlacedAt, contextVars
<1>8. CASE MarkSegment(t)
  BY <1>8, ReservationsKept
  DEF MarkSegment, Leave, CallTypes, Placed, PlacedAt, contextVars
<1> QED
  BY <1>1, <1>2, <1>3, <1>4, <1>5, <1>6, <1>7, <1>8

\* Every step keeps the sum of the restores in flight.
LEMMA InflightNext ==
    TypeInv /\ InflightIsExact /\ [Next]_vars => InflightIsExact'
<1> SUFFICES ASSUME TypeInv, InflightIsExact, [Next]_vars PROVE InflightIsExact'
  OBVIOUS
<1>1. CallTypes /\ Placed
  BY TypeParts DEF TypeInv
<1>2. CASE UNCHANGED vars
  BY <1>2 DEF InflightIsExact, vars, contextVars, callVars
<1>3. CASE Next
  BY <1>1, <1>3, Steps, BeginKeepsInflight, MaterializeKeepsInflight,
     EnsureCapacityKeepsInflight, CompactToKeepsInflight, RegistryKeepsInflight
<1> QED
  BY <1>2, <1>3

\* InflightIsExact, for every instance: raw_inflight_bytes counts the restores
\* that have been granted their bytes and have not come to their end.
THEOREM InflightStaysExact == Spec => []InflightIsExact
BY TypesStay, InflightInit, InflightNext, PTL DEF Spec

-----------------------------------------------------------------------------
(***************************************************************************)
(* Pinned segments                                                         *)
(***************************************************************************)
PinnedSegments == {s \in Segments : pins[s] > 0}

\* PinnedIsExact in terms of PinnedSegments, in a state and in the next.
LEMMA PinnedFacts ==
    /\ PinnedIsExact <=> pinned = Cardinality(PinnedSegments)
    /\ PinnedIsExact' <=> pinned' = Cardinality(PinnedSegments')
    /\ PinnedSegments \in SUBSET Segments
BY DEF PinnedIsExact, PinnedSegments

\* A step that pins nothing.
LEMMA PinsKept ==
    ASSUME PinnedIsExact, UNCHANGED <<pins, pinned>>
    PROVE  PinnedIsExact'
BY DEF PinnedIsExact

\* The first pin of a segment is counted, and no other.
LEMMA PinKeepsPinned ==
    ASSUME SharedTypes, PinnedIsExact, NEW t \in Threads, seg[t] \in Segments, Pin(t)
    PROVE  PinnedIsExact'
<1>1. CASE call[t] # "acquire"
  BY <1>1, PinsKept DEF Pin
<1>2. CASE call[t] = "acquire" /\ pins[seg[t]] = 0
  <2>1. PinnedSegments' = PinnedSegments \cup {seg[t]} /\ seg[t] \notin PinnedSegments
    BY <1>2 DEF Pin, PinnedSegments, SharedTypes
  <2> QED
    BY <1>2, <2>1, PinnedFacts, CountGrows, Finiteness DEF Pin
<1>3. CASE call[t] = "acquire" /\ pins[seg[t]] # 0
  <2>1. PinnedSegments' = PinnedSegments
    BY <1>3 DEF Pin, PinnedSegments, SharedTypes
  <2> QED
    BY <1>3, <2>1, PinnedFacts DEF Pin
<1> QED
  BY <1>1, <1>2, <1>3

\* The last pin of a segment is given back, and no other.
LEMMA ReleaseKeepsPinned ==
    ASSUME SharedTypes, Placed, PinnedIsExact, NEW t \in Threads, Release(t)
    PROVE  PinnedIsExact'
<1>1. seg[t] \in Segments
  BY DEF Release, Placed, PlacedAt
<1>2. CASE pins[seg[t]] = 1
  <2>1. PinnedSegments' = PinnedSegments \ {seg[t]} /\ seg[t] \in PinnedSegments
    BY <1>1, <1>2 DEF Release, PinnedSegments, SharedTypes
  <2> QED
    BY <1>2, <2>1, PinnedFacts, CountShrinks, Finiteness DEF Release
<1>3. CASE pins[seg[t]] # 1
  <2>1. PinnedSegments' = PinnedSegments
    BY <1>1, <1>3 DEF Release, PinnedSegments, SharedTypes
  <2> QED
    BY <1>3, <2>1, PinnedFacts DEF Release
<1> QED
  BY <1>2, <1>3

\* Nothing is pinned at first.
LEMMA PinnedInit == Init => PinnedIsExact
<1>1. Init => PinnedSegments = {}
  BY DEF Init, PinnedSegments
<1> QED
  BY <1>1, PinnedFacts, FS_EmptySet DEF Init

\* Every step keeps the sum of the pinned segments.
LEMMA PinnedNext ==
    TypeInv /\ PinnedIsExact /\ [Next]_vars => PinnedIsExact'
<1> SUFFICES ASSUME TypeInv, PinnedIsExact, [Next]_vars PROVE PinnedIsExact'
  OBVIOUS
<1>1. SharedTypes /\ Placed
  BY TypeParts DEF TypeInv
<1>2. CASE UNCHANGED vars
  BY <1>2, PinsKept DEF vars, contextVars, segmentVars
<1>3. ASSUME NEW t \in Threads, PinResident(t) \/ Publish(t)
      PROVE  PinnedIsExact'
  <2>1. seg[t] \in Segments /\ Pin(t)
    BY <1>1, <1>3 DEF PinResident, Publish, Placed, PlacedAt
  <2> QED
    BY <1>1, <2>1, PinKeepsPinned
<1>4. ASSUME NEW t \in Threads,
             \/ Acquire(t) \/ Prewarm(t) \/ Trim(t) \/ BackgroundCompact(t)
             \/ Register(t) \/ Unregister(t)
             \/ Warm(t) \/ NotFound(t) \/ Wait(t) \/ Wake(t) \/ BeginRestore(t)
             \/ LockCapacity(t)
             \/ RestoreFails(t) \/ Drain(t)
             \/ LoadRaw(t) \/ Decide(t) \/ GrantedLate(t) \/ Refused(t)
             \/ Test(t) \/ Choose(t) \/ NothingToEvict(t) \/ Evict(t) \/ EvictFails(t)
             \/ Done(t)
             \/ Commit(t) \/ RegisterFails(t) \/ Insert(t) \/ Busy(t)
             \/ CheckSegment(t) \/ Retire(t)
             \/ Subtract(t) \/ MarkSegment(t)
      PROVE  PinnedIsExact'
  BY <1>4, PinsKept
  DEF Acquire, Prewarm, Trim, BackgroundCompact, Register, Unregister,
      Warm, NotFound, Wait, Wake, BeginRestore, LockCapacity,
      RestoreFails, Drain, LoadRaw, Decide, GrantedLate, Refused, Test,
      Choose, NothingToEvict, Evict, EvictFails, Done, Commit,
      RegisterFails, Insert, Busy, CheckSegment, Retire, Subtract,
      MarkSegment, contextVars, segmentVars, Compact
<1> QED
  BY <1>1, <1>2, <1>3, <1>4, Steps, ReleaseKeepsPinned

\* PinnedIsExact, for every instance: pinned_bytes counts each leased segment
\* once, however many leases and failed restores there are.
THEOREM PinnedStaysExact == Spec => []PinnedIsExact
BY TypesStay, PinnedInit, PinnedNext, PTL DEF Spec

-----------------------------------------------------------------------------
(***************************************************************************)
(* Objects and the calls about them                                        *)
(***************************************************************************)
\* An object is registered by one thread, and nobody leases, warms or
\* unregisters it before.
Registered ==
    /\ \A t \in Threads : call[t] = "register" => status[ObjectOf(seg[t])] = "loading"
    /\ \A t \in Threads : call[t] \in {"acquire", "prewarm", "unregister"}
            => status[ObjectOf(seg[t])] \in {"live", "gone"}
    /\ \A t, u \in Threads :
            (t # u /\ call[t] = "register" /\ call[u] = "register")
                => ObjectOf(seg[t]) # ObjectOf(seg[u])

\* Nothing is being registered at first.
LEMMA RegisteredInit == Init => Registered
BY DEF Init, Registered

\* A step that registers nothing and ends no registration.
LEMMA RegisteredKept ==
    ASSUME Registered, NEW t \in Threads,
           \A u \in Threads \ {t} : call'[u] = call[u] /\ seg'[u] = seg[u],
           call'[t] = "none" \/ call'[t] = "compact"
              \/ (call'[t] = call[t] /\ ObjectOf(seg'[t]) = ObjectOf(seg[t])),
           status' = status
    PROVE  Registered'
BY DEF Registered

\* The calls that begin keep the registrations apart.
LEMMA BeginKeepsRegistered ==
    ASSUME SharedTypes, CallTypes, Placed, Registered, NEW t \in Threads,
           \/ Acquire(t) \/ Prewarm(t) \/ Trim(t) \/ BackgroundCompact(t)
           \/ Register(t) \/ Unregister(t)
    PROVE  Registered'
<1>1. CASE Acquire(t)
  BY <1>1, SegmentFacts
  DEF Acquire, Enter, Registered, SharedTypes, CallTypes, Placed, PlacedAt,
      objectVars, contextVars, lockVars, segmentVars
<1>2. CASE Prewarm(t)
  BY <1>2, SegmentFacts
  DEF Prewarm, Enter, Registered, SharedTypes, CallTypes, Placed, PlacedAt,
      objectVars, contextVars, lockVars, segmentVars
<1>3. CASE Trim(t)
  BY <1>3, RegisteredKept
  DEF Trim, Compact, Enter, CallTypes, Placed, PlacedAt, objectVars, contextVars,
      lockVars, segmentVars
<1>4. CASE BackgroundCompact(t)
  BY <1>4, RegisteredKept
  DEF BackgroundCompact, Compact, Enter, CallTypes, Placed, PlacedAt, objectVars,
      contextVars, lockVars, segmentVars
<1>5. CASE Register(t)
  BY <1>5, SegmentFacts
  DEF Register, Enter, Registered, SharedTypes, CallTypes, Placed, PlacedAt,
      objectVars, contextVars, lockVars, segmentVars
<1>6. CASE Unregister(t)
  BY <1>6, SegmentFacts
  DEF Unregister, Enter, Registered, SharedTypes, CallTypes, Placed, PlacedAt,
      objectVars, contextVars, lockVars, segmentVars
<1> QED
  BY <1>1, <1>2, <1>3, <1>4, <1>5, <1>6

\* materialize_and_pin, prewarm's loop and sr_release keep the registrations apart.
LEMMA MaterializeKeepsRegistered ==
    ASSUME SharedTypes, CallTypes, Placed, Registered, NEW t \in Threads,
           \/ Warm(t) \/ NotFound(t) \/ PinResident(t) \/ Wait(t) \/ Wake(t)
           \/ BeginRestore(t) \/ LockCapacity(t) \/ Publish(t) \/ RestoreFails(t)
           \/ Drain(t) \/ Release(t)
    PROVE  Registered'
<1>1. CASE Warm(t)
  BY <1>1, RegisteredKept
  DEF Warm, Goto, Leave, CallTypes, Placed, PlacedAt, objectVars, contextVars,
      lockVars, segmentVars
<1>2. CASE NotFound(t)
  BY <1>2, RegisteredKept
  DEF NotFound, Leave, CallTypes, Placed, PlacedAt, objectVars, contextVars,
      lockVars, segmentVars
<1>3. CASE PinResident(t)
  BY <1>3, RegisteredKept, SegmentMoves
  DEF PinResident, Pin, Materialized, Goto, Leave, CallTypes, Placed, PlacedAt,
      objectVars, contextVars, lockVars, segmentVars
<1>4. CASE Wait(t)
  BY <1>4, RegisteredKept
  DEF Wait, Goto, CallTypes, Placed, PlacedAt, objectVars, contextVars, lockVars,
      segmentVars
<1>5. CASE Wake(t)
  BY <1>5, RegisteredKept
  DEF Wake, Goto, CallTypes, Placed, PlacedAt, objectVars, contextVars, lockVars,
      segmentVars
<1>6. CASE BeginRestore(t)
  BY <1>6, RegisteredKept
  DEF BeginRestore, Goto, CallTypes, Placed, PlacedAt, objectVars, contextVars,
      lockVars, segmentVars
<1>7. CASE LockCapacity(t)
  BY <1>7, RegisteredKept
  DEF LockCapacity, Goto, CallTypes, Placed, PlacedAt, objectVars, contextVars,
      lockVars, segmentVars
<1>8. CASE Publish(t)
  BY <1>8, RegisteredKept
  DEF Publish, Pin, Goto, CallTypes, Placed, PlacedAt, objectVars, contextVars,
      lockVars, segmentVars
<1>9. CASE RestoreFails(t)
  BY <1>9, RegisteredKept
  DEF RestoreFails, Goto, CallTypes, Placed, PlacedAt, objectVars, contextVars,
      lockVars, segmentVars
<1>10. CASE Drain(t)
  BY <1>10, RegisteredKept, SegmentMoves
  DEF Drain, Materialized, Goto, Leave, CallTypes, Placed, PlacedAt, objectVars,
      contextVars, lockVars, segmentVars
<1>11. CASE Release(t)
  BY <1>11, RegisteredKept
  DEF Release, Leave, CallTypes, Placed, PlacedAt, objectVars, contextVars,
      lockVars, segmentVars
<1> QED
  BY <1>1, <1>2, <1>3, <1>4, <1>5, <1>6, <1>7, <1>8, <1>9, <1>10, <1>11

\* ensure_foreground_capacity keeps the registrations apart.
LEMMA EnsureCapacityKeepsRegistered ==
    ASSUME SharedTypes, CallTypes, Placed, Registered, NEW t \in Threads,
           LoadRaw(t) \/ Decide(t) \/ GrantedLate(t) \/ Refused(t)
    PROVE  Registered'
<1>1. CASE LoadRaw(t)
  BY <1>1, RegisteredKept
  DEF LoadRaw, CallTypes, Placed, PlacedAt, objectVars, contextVars, lockVars,
      segmentVars
<1>2. CASE Decide(t)
  BY <1>2, RegisteredKept
  DEF Decide, Granted, Goto, Desired, CallTypes, Placed, PlacedAt, objectVars,
      contextVars, lockVars, segmentVars
<1>3. CASE GrantedLate(t)
  BY <1>3, RegisteredKept
  DEF GrantedLate, Granted, Goto, CallTypes, Placed, PlacedAt, objectVars,
      contextVars, lockVars, segmentVars
<1>4. CASE Refused(t)
  BY <1>4, RegisteredKept
  DEF Refused, Leave, CallTypes, Placed, PlacedAt, objectVars, contextVars,
      lockVars, segmentVars
<1> QED
  BY <1>1, <1>2, <1>3, <1>4

\* compact_to keeps the registrations apart.
LEMMA CompactToKeepsRegistered ==
    ASSUME SharedTypes, CallTypes, Placed, Registered, NEW t \in Threads,
           \/ Test(t) \/ Choose(t) \/ NothingToEvict(t) \/ Evict(t) \/ EvictFails(t)
           \/ Done(t)
    PROVE  Registered'
<1>1. CASE Test(t)
  BY <1>1, RegisteredKept
  DEF Test, Goto, AfterCompact, CallTypes, Placed, PlacedAt, objectVars,
      contextVars, lockVars, segmentVars
<1>2. CASE Choose(t)
  BY <1>2, RegisteredKept
  DEF Choose, Candidates, CallTypes, Placed, PlacedAt, objectVars, contextVars,
      lockVars, segmentVars
<1>3. CASE NothingToEvict(t)
  BY <1>3, RegisteredKept
  DEF NothingToEvict, Goto, AfterCompact, CallTypes, Placed, PlacedAt, objectVars,
      contextVars, lockVars, segmentVars
<1>4. CASE Evict(t)
  BY <1>4, RegisteredKept
  DEF Evict, CallTypes, Placed, PlacedAt, objectVars, contextVars, lockVars,
      segmentVars
<1>5. CASE EvictFails(t)
  BY <1>5, RegisteredKept
  DEF EvictFails, AfterCompact, GivesUp, CallTypes, Placed, PlacedAt, objectVars,
      contextVars, lockVars, segmentVars
<1>6. CASE Done(t)
  BY <1>6, RegisteredKept
  DEF Done, Leave, CallTypes, Placed, PlacedAt, objectVars, contextVars, lockVars,
      segmentVars
<1> QED
  BY <1>1, <1>2, <1>3, <1>4, <1>5, <1>6

\* Registration and unregistration keep the registrations apart.
LEMMA RegistryKeepsRegistered ==
    ASSUME SharedTypes, CallTypes, Placed, Registered, NEW t \in Threads,
           \/ Commit(t) \/ RegisterFails(t) \/ Insert(t) \/ Busy(t) \/ CheckSegment(t)
           \/ Retire(t) \/ Subtract(t) \/ MarkSegment(t)
    PROVE  Registered'
<1>1. CASE Commit(t)
  BY <1>1, RegisteredKept, SegmentMoves
  DEF Commit, NextSegment, CallTypes, Placed, PlacedAt, objectVars, contextVars,
      lockVars, segmentVars
<1>2. CASE RegisterFails(t)
  BY <1>2, SegmentFacts
  DEF RegisterFails, Leave, Registered, SharedTypes, CallTypes, Placed, PlacedAt,
      objectVars, contextVars, lockVars, segmentVars
<1>3. CASE Insert(t)
  BY <1>3, SegmentFacts
  DEF Insert, Leave, Registered, SharedTypes, CallTypes, Placed, PlacedAt,
      objectVars, contextVars, lockVars, segmentVars
<1>4. CASE Busy(t)
  BY <1>4, RegisteredKept
  DEF Busy, Leave, CallTypes, Placed, PlacedAt, objectVars, contextVars, lockVars,
      segmentVars
<1>5. CASE CheckSegment(t)
  BY <1>5, RegisteredKept, SegmentMoves
  DEF CheckSegment, NextSegment, CallTypes, Placed, PlacedAt, objectVars,
      contextVars, lockVars, segmentVars
<1>6. CASE Retire(t)
  BY <1>6, SegmentFacts
  DEF Retire, Goto, Registered, SharedTypes, CallTypes, Placed, PlacedAt,
      objectVars, contextVars, lockVars, segmentVars
<1>7. CASE Subtract(t)
  BY <1>7, RegisteredKept
  DEF Subtract, Goto, CallTypes, Placed, PlacedAt, objectVars, contextVars,
      lockVars, segmentVars
<1>8. CASE MarkSegment(t)
  BY <1>8, RegisteredKept, SegmentMoves
  DEF MarkSegment, Leave, CallTypes, Placed, PlacedAt, objectVars, contextVars,
      lockVars, segmentVars
<1> QED
  BY <1>1, <1>2, <1>3, <1>4, <1>5, <1>6, <1>7, <1>8

\* Every step keeps the registrations apart.
LEMMA RegisteredNext ==
    TypeInv /\ Registered /\ [Next]_vars => Registered'
<1> SUFFICES ASSUME TypeInv, Registered, [Next]_vars PROVE Registered'
  OBVIOUS
<1>1. SharedTypes /\ CallTypes /\ Placed
  BY TypeParts DEF TypeInv
<1>2. CASE UNCHANGED vars
  BY <1>2 DEF Registered, vars, objectVars, callVars
<1>3. CASE Next
  BY <1>1, <1>3, Steps, BeginKeepsRegistered, MaterializeKeepsRegistered,
     EnsureCapacityKeepsRegistered, CompactToKeepsRegistered, RegistryKeepsRegistered
<1> QED
  BY <1>2, <1>3

-----------------------------------------------------------------------------
(***************************************************************************)
(* Leases                                                                  *)
(***************************************************************************)
Holding(t) == call[t] = "acquire" /\ pc[t] \in {"drain", "leased"}

Holders(s) == {t \in Threads : Holding(t) /\ seg[t] = s}

\* A pin for each holder, and no pin on what is not mapped.
Leased ==
    /\ \A s \in Segments : pins[s] = Cardinality(Holders(s))
    /\ \A s \in Segments : pins[s] > 0 => committed[s]

\* A segment has finitely many holders.
LEMMA HoldersAreFinite ==
    ASSUME NEW s \in Segments
    PROVE  /\ IsFiniteSet(Holders(s)) /\ Cardinality(Holders(s)) \in Nat
           /\ Holders(s) # {} => Cardinality(Holders(s)) > 0
<1>1. IsFiniteSet(Holders(s))
  BY Finiteness, FS_Subset DEF Holders
<1> QED
  BY <1>1, FS_CardinalityType, FS_EmptySet

\* What Leased says of a thread that holds a lease, of one that begins a call
\* and of an object that is not inserted yet.
LEMMA LeaseFacts ==
    ASSUME Leased, Placed, Registered
    PROVE  /\ \A t \in Threads : Holding(t) => committed[seg[t]] /\ pins[seg[t]] > 0
           /\ \A s \in Segments :
                pins[s] > 0 => status[ObjectOf(s)] \in {"live", "gone"}
<1>1. ASSUME NEW t \in Threads, Holding(t)
      PROVE  committed[seg[t]] /\ pins[seg[t]] > 0
  <2>1. seg[t] \in Segments /\ t \in Holders(seg[t])
    BY <1>1 DEF Holding, Holders, Placed, PlacedAt
  <2>2. Cardinality(Holders(seg[t])) \in Nat /\ Cardinality(Holders(seg[t])) > 0
    BY <2>1, HoldersAreFinite
  <2> QED
    BY <2>1, <2>2 DEF Leased
<1>2. ASSUME NEW s \in Segments, pins[s] > 0
      PROVE  status[ObjectOf(s)] \in {"live", "gone"}
  <2>1. Holders(s) # {}
    BY <1>2, FS_EmptySet DEF Leased
  <2>2. PICK t \in Holders(s) : TRUE
    BY <2>1
  <2> QED
    BY <2>2 DEF Holders, Holding, Registered
<1> QED
  BY <1>1, <1>2

\* There is no lease at first.
LEMMA LeasedInit == Init => Leased
<1> SUFFICES ASSUME Init PROVE Leased
  OBVIOUS
<1>1. \A s \in Segments : Holders(s) = {}
  BY DEF Init, Holders, Holding
<1> QED
  <2>1. \A s \in Segments : pins[s] = 0 /\ Cardinality(Holders(s)) = 0
    BY <1>1, FS_EmptySet DEF Init
  <2> QED
    BY <2>1 DEF Leased

\* A step that begins no lease and ends none.
LEMMA LeasesKept ==
    ASSUME Leased, NEW t \in Threads, pins' = pins,
           \A u \in Threads \ {t} : call'[u] = call[u] /\ pc'[u] = pc[u] /\ seg'[u] = seg[u],
           \/ ~Holding(t) /\ ~Holding(t)'
           \/ Holding(t) /\ Holding(t)' /\ seg'[t] = seg[t],
           \A s \in Segments : (pins[s] > 0 /\ committed[s]) => committed'[s]
    PROVE  Leased'
<1>1. \A s \in Segments : Holders(s)' = Holders(s)
  BY DEF Holders, Holding
<1> QED
  BY <1>1 DEF Leased

\* A lease that begins, on a segment that is now mapped.
LEMMA LeaseBegins ==
    ASSUME Leased, Placed, SharedTypes, NEW t \in Threads, seg[t] \in Segments,
           call[t] = "acquire", ~Holding(t), Holding(t)',
           \A u \in Threads \ {t} : call'[u] = call[u] /\ pc'[u] = pc[u],
           seg' = seg, Pin(t), committed'[seg[t]],
           \A s \in Segments : committed[s] => committed'[s]
    PROVE  Leased'
<1>1. PICK s \in Segments : s = seg[t]
  OBVIOUS
<1>2. Holders(s)' = Holders(s) \cup {t} /\ t \notin Holders(s)
  BY <1>1 DEF Holders, Holding
<1>3. IsFiniteSet(Holders(s))
  BY HoldersAreFinite
<1>4. Cardinality(Holders(s)') = Cardinality(Holders(s)) + 1
  BY <1>2, <1>3, FS_AddElement
<1>5. \A r \in Segments \ {s} : Holders(r)' = Holders(r)
  BY <1>1 DEF Holders, Holding
<1>6. pins' = [pins EXCEPT ![s] = @ + 1]
  BY <1>1 DEF Pin
<1>7. \A r \in Segments : pins'[r] = Cardinality(Holders(r)')
  BY <1>4, <1>5, <1>6 DEF Leased, SharedTypes
<1>8. \A r \in Segments : pins'[r] > 0 => committed'[r]
  BY <1>1, <1>6 DEF Leased, SharedTypes
<1> QED
  BY <1>7, <1>8 DEF Leased

\* A lease that ends, with the pin it had.
LEMMA ReleaseKeepsLeased ==
    ASSUME Leased, Placed, SharedTypes, CallTypes, NEW t \in Threads, Release(t)
    PROVE  Leased'
<1>1. seg[t] \in Segments /\ Holding(t) /\ call[t] = "acquire"
  BY DEF Release, Placed, PlacedAt, Holding
<1>2. PICK s \in Segments : s = seg[t]
  BY <1>1
<1>3. Holders(s)' = Holders(s) \ {t} /\ t \in Holders(s)
  BY <1>1, <1>2 DEF Release, Leave, Holders, Holding, CallTypes
<1>4. IsFiniteSet(Holders(s)) /\ Cardinality(Holders(s)) \in Nat /\ Cardinality(Holders(s)) > 0
  BY <1>3, HoldersAreFinite
<1>5. Cardinality(Holders(s)') = Cardinality(Holders(s)) - 1
  BY <1>3, <1>4, FS_RemoveElement
<1>6. \A r \in Segments \ {s} : Holders(r)' = Holders(r)
  BY <1>1, <1>2, SegmentFacts DEF Release, Leave, Holders, Holding, CallTypes
<1>7. pins' = [pins EXCEPT ![s] = @ - 1] /\ committed' = committed
  BY <1>2, <1>4 DEF Release, Leased
<1>8. \A r \in Segments : pins'[r] = Cardinality(Holders(r)')
  BY <1>4, <1>5, <1>6, <1>7 DEF Leased, SharedTypes
<1>9. \A r \in Segments : pins'[r] > 0 => committed'[r]
  <2>1. \A r \in Segments : pins'[r] > 0 => pins[r] > 0
    BY <1>7 DEF SharedTypes
  <2> QED
    BY <1>7, <2>1 DEF Leased
<1> QED
  BY <1>8, <1>9 DEF Leased

\* The calls that begin keep the leases.
LEMMA BeginKeepsLeased ==
    ASSUME SharedTypes, CallTypes, Placed, Registered, Leased, NEW t \in Threads,
           \/ Acquire(t) \/ Prewarm(t) \/ Trim(t) \/ BackgroundCompact(t)
           \/ Register(t) \/ Unregister(t)
    PROVE  Leased'
<1>1. CASE Acquire(t)
  BY <1>1, LeasesKept
  DEF Acquire, Enter, Holding, CallTypes, Placed, PlacedAt, contextVars, objectVars,
      segmentVars
<1>2. CASE Prewarm(t)
  BY <1>2, LeasesKept
  DEF Prewarm, Enter, Holding, CallTypes, Placed, PlacedAt, contextVars, objectVars,
      segmentVars
<1>3. CASE Trim(t)
  BY <1>3, LeasesKept
  DEF Trim, Compact, Enter, Holding, CallTypes, Placed, PlacedAt, contextVars,
      objectVars, segmentVars
<1>4. CASE BackgroundCompact(t)
  BY <1>4, LeasesKept
  DEF BackgroundCompact, Compact, Enter, Holding, CallTypes, Placed, PlacedAt,
      contextVars, objectVars, segmentVars
<1>5. CASE Register(t)
  BY <1>5, LeasesKept
  DEF Register, Enter, Holding, CallTypes, Placed, PlacedAt, contextVars,
      objectVars, segmentVars
<1>6. CASE Unregister(t)
  BY <1>6, LeasesKept
  DEF Unregister, Enter, Holding, CallTypes, Placed, PlacedAt, contextVars,
      objectVars, segmentVars
<1> QED
  BY <1>1, <1>2, <1>3, <1>4, <1>5, <1>6

\* materialize_and_pin, prewarm's loop and sr_release keep the leases.
LEMMA MaterializeKeepsLeased ==
    ASSUME SharedTypes, CallTypes, Placed, Registered, Leased, NEW t \in Threads,
           \/ Warm(t) \/ NotFound(t) \/ PinResident(t) \/ Wait(t) \/ Wake(t)
           \/ BeginRestore(t) \/ LockCapacity(t) \/ Publish(t) \/ RestoreFails(t)
           \/ Drain(t) \/ Release(t)
    PROVE  Leased'
<1>1. CASE Warm(t)
  BY <1>1, LeasesKept
  DEF Warm, Goto, Leave, Holding, CallTypes, Placed, PlacedAt, contextVars,
      objectVars, segmentVars
<1>2. CASE NotFound(t)
  BY <1>2, LeasesKept
  DEF NotFound, Leave, Holding, CallTypes, Placed, PlacedAt, contextVars,
      objectVars, segmentVars
<1>3. CASE PinResident(t)
  <2>1. CASE call[t] = "acquire"
    BY <1>3, <2>1, LeaseBegins
    DEF PinResident, Pin, Materialized, Goto, Leave, SharedTypes, Holding,
        CallTypes, Placed, PlacedAt, contextVars, objectVars, segmentVars
  <2>2. CASE call[t] # "acquire"
    BY <1>3, <2>2, LeasesKept, SegmentMoves
    DEF PinResident, Pin, Materialized, Goto, Leave, SharedTypes, Holding,
        CallTypes, Placed, PlacedAt, contextVars, objectVars, segmentVars
  <2> QED
    BY <2>1, <2>2
<1>4. CASE Wait(t)
  BY <1>4, LeasesKept
  DEF Wait, Goto, Holding, CallTypes, Placed, PlacedAt, contextVars, objectVars,
      segmentVars
<1>5. CASE Wake(t)
  BY <1>5, LeasesKept
  DEF Wake, Goto, Holding, CallTypes, Placed, PlacedAt, contextVars, objectVars,
      segmentVars
<1>6. CASE BeginRestore(t)
  BY <1>6, LeasesKept
  DEF BeginRestore, Goto, Holding, CallTypes, Placed, PlacedAt, contextVars,
      objectVars, segmentVars
<1>7. CASE LockCapacity(t)
  BY <1>7, LeasesKept
  DEF LockCapacity, Goto, Holding, CallTypes, Placed, PlacedAt, contextVars,
      objectVars, segmentVars
<1>8. CASE Publish(t)
  <2>1. CASE call[t] = "acquire"
    BY <1>8, <2>1, LeaseBegins
    DEF Publish, Pin, Goto, SharedTypes, Holding, CallTypes, Placed, PlacedAt,
        contextVars, objectVars, segmentVars
  <2>2. CASE call[t] # "acquire"
    BY <1>8, <2>2, LeasesKept, SegmentMoves
    DEF Publish, Pin, Goto, SharedTypes, Holding, CallTypes, Placed, PlacedAt,
        contextVars, objectVars, segmentVars
  <2> QED
    BY <2>1, <2>2
<1>9. CASE RestoreFails(t)
  BY <1>9, LeasesKept
  DEF RestoreFails, Goto, Holding, CallTypes, Placed, PlacedAt, contextVars,
      objectVars, segmentVars
<1>10. CASE Drain(t)
  BY <1>10, LeasesKept, SegmentMoves
  DEF Drain, Materialized, Goto, Leave, Holding, CallTypes, Placed, PlacedAt,
      contextVars, objectVars, segmentVars
<1>11. CASE Release(t)
  BY <1>11, ReleaseKeepsLeased
<1> QED
  BY <1>1, <1>2, <1>3, <1>4, <1>5, <1>6, <1>7, <1>8, <1>9, <1>10, <1>11

\* ensure_foreground_capacity keeps the leases.
LEMMA EnsureCapacityKeepsLeased ==
    ASSUME SharedTypes, CallTypes, Placed, Registered, Leased, NEW t \in Threads,
           LoadRaw(t) \/ Decide(t) \/ GrantedLate(t) \/ Refused(t)
    PROVE  Leased'
<1>1. CASE LoadRaw(t)
  BY <1>1, LeasesKept
  DEF LoadRaw, Holding, CallTypes, Placed, PlacedAt, contextVars, objectVars,
      segmentVars
<1>2. CASE Decide(t)
  BY <1>2, LeasesKept
  DEF Decide, Granted, Goto, Desired, Holding, CallTypes, Placed, PlacedAt,
      contextVars, objectVars, segmentVars
<1>3. CASE GrantedLate(t)
  BY <1>3, LeasesKept
  DEF GrantedLate, Granted, Goto, Holding, CallTypes, Placed, PlacedAt, contextVars,
      objectVars, segmentVars
<1>4. CASE Refused(t)
  BY <1>4, LeasesKept
  DEF Refused, Leave, Holding, CallTypes, Placed, PlacedAt, contextVars, objectVars,
      segmentVars
<1> QED
  BY <1>1, <1>2, <1>3, <1>4

\* compact_to keeps the leases.
LEMMA CompactToKeepsLeased ==
    ASSUME SharedTypes, CallTypes, Placed, Registered, Leased, NEW t \in Threads,
           \/ Test(t) \/ Choose(t) \/ NothingToEvict(t) \/ Evict(t) \/ EvictFails(t)
           \/ Done(t)
    PROVE  Leased'
<1>1. CASE Test(t)
  BY <1>1, LeasesKept
  DEF Test, Goto, AfterCompact, Holding, CallTypes, Placed, PlacedAt, contextVars,
      objectVars, segmentVars
<1>2. CASE Choose(t)
  BY <1>2, LeasesKept
  DEF Choose, Candidates, Holding, CallTypes, Placed, PlacedAt, contextVars,
      objectVars, segmentVars
<1>3. CASE NothingToEvict(t)
  BY <1>3, LeasesKept
  DEF NothingToEvict, Goto, AfterCompact, Holding, CallTypes, Placed, PlacedAt,
      contextVars, objectVars, segmentVars
<1>4. CASE Evict(t)
  BY <1>4, LeasesKept
  DEF Evict, Evictable, SharedTypes, Holding, CallTypes, Placed, PlacedAt,
      contextVars, objectVars, segmentVars
<1>5. CASE EvictFails(t)
  BY <1>5, LeasesKept
  DEF EvictFails, AfterCompact, GivesUp, Holding, CallTypes, Placed, PlacedAt,
      contextVars, objectVars, segmentVars
<1>6. CASE Done(t)
  BY <1>6, LeasesKept
  DEF Done, Leave, Holding, CallTypes, Placed, PlacedAt, contextVars, objectVars,
      segmentVars
<1> QED
  BY <1>1, <1>2, <1>3, <1>4, <1>5, <1>6

\* Registration and unregistration keep the leases.
LEMMA RegistryKeepsLeased ==
    ASSUME SharedTypes, CallTypes, Placed, Registered, Leased, NEW t \in Threads,
           \/ Commit(t) \/ RegisterFails(t) \/ Insert(t) \/ Busy(t) \/ CheckSegment(t)
           \/ Retire(t) \/ Subtract(t) \/ MarkSegment(t)
    PROVE  Leased'
<1>1. CASE Commit(t)
  BY <1>1, LeasesKept, SegmentMoves
  DEF Commit, NextSegment, SharedTypes, Holding, CallTypes, Placed, PlacedAt,
      contextVars, objectVars, segmentVars
<1>2. CASE RegisterFails(t)
  <2>1. status[ObjectOf(seg[t])] = "loading"
    BY <1>2 DEF RegisterFails, Registered, Placed, PlacedAt
  <2>2. \A s \in Segments : (pins[s] > 0 /\ committed[s]) => committed'[s]
    BY <1>2, <2>1, LeaseFacts DEF RegisterFails
  <2> QED
    BY <1>2, <2>2, LeasesKept
    DEF RegisterFails, Leave, Holding, CallTypes, Placed, PlacedAt, contextVars,
        objectVars, segmentVars
<1>3. CASE Insert(t)
  BY <1>3, LeasesKept
  DEF Insert, Leave, Holding, CallTypes, Placed, PlacedAt, contextVars, objectVars,
      segmentVars
<1>4. CASE Busy(t)
  BY <1>4, LeasesKept
  DEF Busy, Leave, Holding, CallTypes, Placed, PlacedAt, contextVars, objectVars,
      segmentVars
<1>5. CASE CheckSegment(t)
  BY <1>5, LeasesKept, SegmentMoves
  DEF CheckSegment, NextSegment, SharedTypes, Holding, CallTypes, Placed, PlacedAt,
      contextVars, objectVars, segmentVars
<1>6. CASE Retire(t)
  BY <1>6, LeasesKept
  DEF Retire, Goto, Holding, CallTypes, Placed, PlacedAt, contextVars, objectVars,
      segmentVars
<1>7. CASE Subtract(t)
  BY <1>7, LeasesKept
  DEF Subtract, Goto, Holding, CallTypes, Placed, PlacedAt, contextVars, objectVars,
      segmentVars
<1>8. CASE MarkSegment(t)
  BY <1>8, LeasesKept, SegmentMoves
  DEF MarkSegment, Leave, SharedTypes, Holding, CallTypes, Placed, PlacedAt,
      contextVars, objectVars, segmentVars
<1> QED
  BY <1>1, <1>2, <1>3, <1>4, <1>5, <1>6, <1>7, <1>8

LeaseInv == TypeInv /\ Registered /\ Leased

\* Every step keeps the leases.
LEMMA LeaseNext == LeaseInv /\ [Next]_vars => LeaseInv'
<1> SUFFICES ASSUME LeaseInv, [Next]_vars PROVE LeaseInv'
  OBVIOUS
<1>1. SharedTypes /\ CallTypes /\ Placed /\ TypeInv /\ Registered /\ Leased
  BY TypeParts DEF TypeInv, LeaseInv
<1>2. CASE UNCHANGED vars
  <2>1. Leased'
    BY <1>1, <1>2 DEF Leased, Holders, Holding, vars, segmentVars, callVars
  <2> QED
    BY <1>1, <2>1, TypeNext, RegisteredNext DEF LeaseInv
<1>3. CASE Next
  <2>1. Leased'
    BY <1>1, <1>3, Steps, BeginKeepsLeased, MaterializeKeepsLeased,
       EnsureCapacityKeepsLeased, CompactToKeepsLeased, RegistryKeepsLeased
  <2> QED
    BY <1>1, <2>1, TypeNext, RegisteredNext DEF LeaseInv
<1> QED
  BY <1>2, <1>3

\* Leases with their pins are an invariant.
LEMMA LeasesStay == Spec => []LeaseInv
<1>1. Init => LeaseInv
  BY TypeInit, RegisteredInit, LeasedInit DEF LeaseInv
<1> QED
  BY <1>1, LeaseNext, PTL DEF Spec

\* LeasedIsMapped, for every instance: no eviction, failed registration or
\* unregistration takes the memory of a lease away.
THEOREM LeasedStaysMapped == Spec => []LeasedIsMapped
<1>1. LeaseInv => LeasedIsMapped
  <2> SUFFICES ASSUME LeaseInv PROVE LeasedIsMapped
    OBVIOUS
  <2>1. \A t \in Threads : pc[t] = "leased" => Holding(t)
    BY DEF LeaseInv, TypeInv, Placed, PlacedAt, Holding
  <2> QED
    BY <2>1, LeaseFacts DEF LeaseInv, TypeInv, LeasedIsMapped
<1> QED
  BY <1>1, LeasesStay, PTL

-----------------------------------------------------------------------------
(***************************************************************************)
(* The resident sum                                                        *)
(*                                                                         *)
(* It is exact as long as no object is unregistered and no registration    *)
(* fails after it has mapped a segment.                                    *)
(***************************************************************************)
Undisturbed == Unregisters = {} /\ SegmentsPerObject = 1

RestoringAt(t) ==
    call[t] \in {"acquire", "prewarm"} /\ pc[t] \in GatePcs \cup {"restore"}

\* A restoring segment has one thread that restores it and is not mapped;
\* nothing of an object is mapped before its registration.
Unmapped ==
    /\ \A t \in Threads : RestoringAt(t) => restoring[seg[t]] /\ ~committed[seg[t]]
    /\ \A t, u \in Threads :
            (t # u /\ RestoringAt(t) /\ RestoringAt(u)) => seg[t] # seg[u]
    /\ \A t \in Threads : (call[t] = "register" /\ pc[t] # "insert") => ~committed[seg[t]]
    /\ \A s \in Segments : status[ObjectOf(s)] = "fresh" => ~committed[s]

NoneGone ==
    /\ \A t \in Threads : call[t] # "unregister"
    /\ \A o \in Objects : status[o] # "gone"

\* Without unregistration no object is retired.
LEMMA NoneGoneNext ==
    ASSUME Undisturbed, TypeInv, NoneGone, [Next]_vars
    PROVE  NoneGone'
<1>1. SharedTypes /\ CallTypes /\ Placed
  BY TypeParts DEF TypeInv
<1>2. CASE UNCHANGED vars
  BY <1>2 DEF NoneGone, vars, objectVars, callVars
<1>3. ASSUME NEW t \in Threads,
             Acquire(t) \/ Prewarm(t) \/ Trim(t) \/ BackgroundCompact(t) \/ Register(t)
      PROVE  NoneGone'
  BY <1>1, <1>3
  DEF NoneGone, CallTypes, SharedTypes, Acquire, Prewarm, Trim, BackgroundCompact,
      Register, Enter, Compact, objectVars
<1>4. ASSUME NEW t \in Threads,
             \/ Warm(t) \/ NotFound(t) \/ PinResident(t) \/ Wait(t) \/ Wake(t)
             \/ BeginRestore(t) \/ LockCapacity(t) \/ Publish(t) \/ RestoreFails(t)
             \/ Drain(t) \/ Release(t)
      PROVE  NoneGone'
  BY <1>1, <1>4
  DEF NoneGone, CallTypes, SharedTypes, Warm, NotFound, PinResident, Wait, Wake,
      BeginRestore, LockCapacity, Publish, RestoreFails, Drain, Release, Goto,
      Leave, Pin, Materialized, objectVars
<1>5. ASSUME NEW t \in Threads,
             LoadRaw(t) \/ Decide(t) \/ GrantedLate(t) \/ Refused(t)
      PROVE  NoneGone'
  BY <1>1, <1>5
  DEF NoneGone, CallTypes, SharedTypes, LoadRaw, Decide, GrantedLate, Refused,
      Granted, Goto, Desired, Leave, objectVars
<1>6. ASSUME NEW t \in Threads,
             \/ Test(t) \/ Choose(t) \/ NothingToEvict(t) \/ Evict(t) \/ EvictFails(t)
             \/ Done(t)
      PROVE  NoneGone'
  BY <1>1, <1>6
  DEF NoneGone, CallTypes, SharedTypes, Test, Choose, NothingToEvict, Evict,
      EvictFails, Done, Goto, AfterCompact, Candidates, GivesUp, Leave, objectVars
<1>7. ASSUME NEW t \in Threads,
             Commit(t) \/ RegisterFails(t) \/ Insert(t)
      PROVE  NoneGone'
  BY <1>1, <1>7
  DEF NoneGone, CallTypes, SharedTypes, Commit, RegisterFails, Insert, NextSegment,
      Leave, objectVars
<1>8. ASSUME NEW t \in Threads,
             \/ Unregister(t) \/ Busy(t) \/ CheckSegment(t) \/ Retire(t)
             \/ Subtract(t) \/ MarkSegment(t)
      PROVE  FALSE
  BY <1>1, <1>8
  DEF Undisturbed, NoneGone, Unregister, Busy, CheckSegment, Retire, Subtract,
     MarkSegment, Placed, PlacedAt
<1> QED
  BY <1>2, <1>3, <1>4, <1>5, <1>6, <1>7, <1>8, Steps

\* A step that begins no restore and no registration.
LEMMA UnmappedKept ==
    ASSUME Unmapped, NEW t \in Threads, restoring' = restoring, status' = status,
           \A u \in Threads \ {t} : call'[u] = call[u] /\ pc'[u] = pc[u] /\ seg'[u] = seg[u],
           \A s \in Segments : committed'[s] => committed[s],
           RestoringAt(t)' => RestoringAt(t) /\ seg'[t] = seg[t],
           (call'[t] = "register" /\ pc'[t] # "insert")
               => call[t] = "register" /\ pc[t] # "insert" /\ seg'[t] = seg[t],
           \A u \in Threads :
               call[u] \in {"acquire", "prewarm", "register"} => seg[u] \in Segments
    PROVE  Unmapped'
BY DEF Unmapped, RestoringAt

\* A restore that ends, in a mapped segment or not.
LEMMA UnmappedAfterRestore ==
    ASSUME Unmapped, Registered, Placed, SharedTypes, NEW t \in Threads, RestoringAt(t),
           ~RestoringAt(t)', call'[t] # "register", status' = status,
           \A u \in Threads \ {t} : call'[u] = call[u] /\ pc'[u] = pc[u] /\ seg'[u] = seg[u],
           restoring' = [restoring EXCEPT ![seg[t]] = FALSE],
           \A s \in Segments \ {seg[t]} : committed'[s] => committed[s]
    PROVE  Unmapped'
<1>1. /\ seg[t] \in Segments /\ status[ObjectOf(seg[t])] \in {"live", "gone"}
  BY DEF RestoringAt, Registered, Placed, PlacedAt
<1>2. \A u \in Threads : call[u] \in {"acquire", "prewarm", "register"} => seg[u] \in Segments
  BY DEF Placed, PlacedAt
<1>3. \A u \in Threads \ {t} : RestoringAt(u)' =>
          RestoringAt(u) /\ seg[u] # seg[t] /\ seg[u] \in Segments
  BY <1>2 DEF Unmapped, RestoringAt
<1>4. \A u \in Threads : (call'[u] = "register" /\ pc'[u] # "insert") => ~committed'[seg'[u]]
  BY <1>1, <1>2 DEF Unmapped, Registered
<1>5. \A s \in Segments : status'[ObjectOf(s)] = "fresh" => ~committed'[s]
  BY <1>1 DEF Unmapped
<1>6. \A u \in Threads : RestoringAt(u)' => restoring'[seg'[u]] /\ ~committed'[seg'[u]]
  BY <1>3 DEF Unmapped, SharedTypes
<1>7. \A u, v \in Threads :
          (u # v /\ RestoringAt(u)' /\ RestoringAt(v)') => seg'[u] # seg'[v]
  BY <1>3 DEF Unmapped
<1> QED
  BY <1>4, <1>5, <1>6, <1>7 DEF Unmapped

\* The calls that begin keep what is not mapped unmapped.
LEMMA BeginKeepsUnmapped ==
    ASSUME Undisturbed, SharedTypes, CallTypes, Placed, Registered, Unmapped,
           NEW t \in Threads,
           Acquire(t) \/ Prewarm(t) \/ Trim(t) \/ BackgroundCompact(t) \/ Register(t)
    PROVE  Unmapped'
<1>1. CASE Acquire(t)
  BY <1>1, UnmappedKept
  DEF Acquire, Enter, RestoringAt, GatePcs, CallTypes, Placed, PlacedAt, objectVars,
      segmentVars
<1>2. CASE Prewarm(t)
  BY <1>2, UnmappedKept
  DEF Prewarm, Enter, RestoringAt, GatePcs, CallTypes, Placed, PlacedAt, objectVars,
      segmentVars
<1>3. CASE Trim(t)
  BY <1>3, UnmappedKept
  DEF Trim, Compact, Enter, RestoringAt, GatePcs, CallTypes, Placed, PlacedAt,
      objectVars, segmentVars
<1>4. CASE BackgroundCompact(t)
  BY <1>4, UnmappedKept
  DEF BackgroundCompact, Compact, Enter, RestoringAt, GatePcs, CallTypes, Placed,
      PlacedAt, objectVars, segmentVars
<1>5. CASE Register(t)
  BY <1>5, SegmentFacts
  DEF Register, Enter, Unmapped, SharedTypes, RestoringAt, GatePcs, CallTypes,
      Placed, PlacedAt, objectVars, segmentVars
<1> QED
  BY <1>1, <1>2, <1>3, <1>4, <1>5

\* materialize_and_pin, prewarm's loop and sr_release keep what is not mapped unmapped.
LEMMA MaterializeKeepsUnmapped ==
    ASSUME Undisturbed, SharedTypes, CallTypes, Placed, Registered, Unmapped,
           NEW t \in Threads,
           \/ Warm(t) \/ NotFound(t) \/ PinResident(t) \/ Wait(t) \/ Wake(t)
           \/ BeginRestore(t) \/ LockCapacity(t) \/ Publish(t) \/ RestoreFails(t)
           \/ Drain(t) \/ Release(t)
    PROVE  Unmapped'
<1>1. CASE Warm(t)
  BY <1>1, UnmappedKept
  DEF Warm, Goto, Leave, RestoringAt, GatePcs, CallTypes, Placed, PlacedAt,
      objectVars, segmentVars
<1>2. CASE NotFound(t)
  BY <1>2, UnmappedKept
  DEF NotFound, Leave, RestoringAt, GatePcs, CallTypes, Placed, PlacedAt,
      objectVars, segmentVars
<1>3. CASE PinResident(t)
  BY <1>3, UnmappedKept, SegmentMoves
  DEF PinResident, Pin, Materialized, Goto, Leave, RestoringAt, GatePcs, CallTypes,
      Placed, PlacedAt, objectVars, segmentVars
<1>4. CASE Wait(t)
  BY <1>4, UnmappedKept
  DEF Wait, Goto, RestoringAt, GatePcs, CallTypes, Placed, PlacedAt, objectVars,
      segmentVars
<1>5. CASE Wake(t)
  BY <1>5, UnmappedKept
  DEF Wake, Goto, RestoringAt, GatePcs, CallTypes, Placed, PlacedAt, objectVars,
      segmentVars
<1>6. CASE BeginRestore(t)
  BY <1>6, SegmentFacts
  DEF BeginRestore, Goto, Unmapped, SharedTypes, RestoringAt, GatePcs, CallTypes,
      Placed, PlacedAt, objectVars, segmentVars
<1>7. CASE LockCapacity(t)
  BY <1>7, UnmappedKept
  DEF LockCapacity, Goto, RestoringAt, GatePcs, CallTypes, Placed, PlacedAt,
      objectVars, segmentVars
<1>8. CASE Publish(t)
  BY <1>8, UnmappedAfterRestore
  DEF Publish, Pin, Goto, SharedTypes, RestoringAt, GatePcs, CallTypes, Placed,
      PlacedAt, objectVars, segmentVars
<1>9. CASE RestoreFails(t)
  BY <1>9, UnmappedAfterRestore
  DEF RestoreFails, Goto, SharedTypes, RestoringAt, GatePcs, CallTypes, Placed,
      PlacedAt, objectVars, segmentVars
<1>10. CASE Drain(t)
  BY <1>10, UnmappedKept, SegmentMoves
  DEF Drain, Materialized, Goto, Leave, RestoringAt, GatePcs, CallTypes, Placed,
      PlacedAt, objectVars, segmentVars
<1>11. CASE Release(t)
  BY <1>11, UnmappedKept
  DEF Release, Leave, RestoringAt, GatePcs, CallTypes, Placed, PlacedAt, objectVars,
      segmentVars
<1> QED
  BY <1>1, <1>2, <1>3, <1>4, <1>5, <1>6, <1>7, <1>8, <1>9, <1>10, <1>11

\* ensure_foreground_capacity keeps what is not mapped unmapped.
LEMMA EnsureCapacityKeepsUnmapped ==
    ASSUME Undisturbed, SharedTypes, CallTypes, Placed, Registered, Unmapped,
           NEW t \in Threads,
           LoadRaw(t) \/ Decide(t) \/ GrantedLate(t) \/ Refused(t)
    PROVE  Unmapped'
<1>1. CASE LoadRaw(t)
  BY <1>1, UnmappedKept
  DEF LoadRaw, RestoringAt, GatePcs, CallTypes, Placed, PlacedAt, objectVars,
      segmentVars
<1>2. CASE Decide(t)
  BY <1>2, UnmappedKept
  DEF Decide, Granted, Goto, Desired, RestoringAt, GatePcs, CallTypes, Placed,
      PlacedAt, objectVars, segmentVars
<1>3. CASE GrantedLate(t)
  BY <1>3, UnmappedKept
  DEF GrantedLate, Granted, Goto, RestoringAt, GatePcs, CallTypes, Placed, PlacedAt,
      objectVars, segmentVars
<1>4. CASE Refused(t)
  BY <1>4, UnmappedAfterRestore
  DEF Refused, Leave, SharedTypes, RestoringAt, GatePcs, CallTypes, Placed,
      PlacedAt, objectVars, segmentVars
<1> QED
  BY <1>1, <1>2, <1>3, <1>4

\* compact_to keeps what is not mapped unmapped.
LEMMA CompactToKeepsUnmapped ==
    ASSUME Undisturbed, SharedTypes, CallTypes, Placed, Registered, Unmapped,
           NEW t \in Threads,
           \/ Test(t) \/ Choose(t) \/ NothingToEvict(t) \/ Evict(t) \/ EvictFails(t)
           \/ Done(t)
    PROVE  Unmapped'
<1>1. CASE Test(t)
  BY <1>1, UnmappedKept
  DEF Test, Goto, AfterCompact, RestoringAt, GatePcs, CallTypes, Placed, PlacedAt,
      objectVars, segmentVars
<1>2. CASE Choose(t)
  BY <1>2, UnmappedKept
  DEF Choose, Candidates, RestoringAt, GatePcs, CallTypes, Placed, PlacedAt,
      objectVars, segmentVars
<1>3. CASE NothingToEvict(t)
  BY <1>3, UnmappedKept
  DEF NothingToEvict, Goto, AfterCompact, RestoringAt, GatePcs, CallTypes, Placed,
      PlacedAt, objectVars, segmentVars
<1>4. CASE Evict(t)
  BY <1>4, UnmappedKept
  DEF Evict, SharedTypes, RestoringAt, GatePcs, CallTypes, Placed, PlacedAt,
      objectVars, segmentVars
<1>5. CASE EvictFails(t)
  BY <1>5, UnmappedKept
  DEF EvictFails, AfterCompact, GivesUp, RestoringAt, GatePcs, CallTypes, Placed,
      PlacedAt, objectVars, segmentVars
<1>6. CASE Done(t)
  BY <1>6, UnmappedKept
  DEF Done, Leave, RestoringAt, GatePcs, CallTypes, Placed, PlacedAt, objectVars,
      segmentVars
<1> QED
  BY <1>1, <1>2, <1>3, <1>4, <1>5, <1>6

\* Registration and unregistration keep what is not mapped unmapped.
LEMMA RegistryKeepsUnmapped ==
    ASSUME Undisturbed, SharedTypes, CallTypes, Placed, Registered, Unmapped,
           NEW t \in Threads,
           Commit(t) \/ RegisterFails(t) \/ Insert(t)
    PROVE  Unmapped'
<1>1. CASE Commit(t)
  <2>1. /\ seg[t] \in Segments /\ ~(seg[t][2] < SegmentsPerObject)
        /\ status[ObjectOf(seg[t])] = "loading" /\ call[t] = "register"
    BY <1>1 DEF Commit, Placed, PlacedAt, Registered, Undisturbed, Segments
  <2>2. /\ pc' = [pc EXCEPT ![t] = "insert"]
        /\ \A u \in Threads \ {t} : seg'[u] = seg[u]
        /\ UNCHANGED <<status, restoring, call>>
        /\ committed' = [committed EXCEPT ![seg[t]] = TRUE]
    BY <1>1, <2>1, SegmentMoves DEF Commit, NextSegment
  <2>3. \A u \in Threads : RestoringAt(u)' =>
            u # t /\ RestoringAt(u) /\ seg[u] \in Segments /\ seg[u] # seg[t]
    BY <2>1, <2>2 DEF RestoringAt, CallTypes, Registered, Placed, PlacedAt
  <2>4. \A u \in Threads : (call'[u] = "register" /\ pc'[u] # "insert") =>
            u # t /\ pc[u] # "insert" /\ seg[u] \in Segments /\ seg[u] # seg[t]
    BY <2>1, <2>2 DEF CallTypes, Registered, Placed, PlacedAt
  <2>5. \A u \in Threads : RestoringAt(u)' => restoring'[seg'[u]] /\ ~committed'[seg'[u]]
    BY <2>2, <2>3 DEF Unmapped, SharedTypes
  <2>6. \A u, v \in Threads :
            (u # v /\ RestoringAt(u)' /\ RestoringAt(v)') => seg'[u] # seg'[v]
    BY <2>2, <2>3 DEF Unmapped
  <2>7. \A u \in Threads : (call'[u] = "register" /\ pc'[u] # "insert") => ~committed'[seg'[u]]
    BY <2>2, <2>4 DEF Unmapped, SharedTypes
  <2>8. \A s \in Segments : status'[ObjectOf(s)] = "fresh" => ~committed'[s]
    BY <2>1, <2>2 DEF Unmapped, SharedTypes
  <2> QED
    BY <2>5, <2>6, <2>7, <2>8 DEF Unmapped
<1>2. CASE RegisterFails(t)
  BY <1>2, SegmentFacts
  DEF RegisterFails, Leave, Unmapped, SharedTypes, RestoringAt, GatePcs, CallTypes,
      Placed, PlacedAt, objectVars, segmentVars
<1>3. CASE Insert(t)
  BY <1>3, SegmentFacts
  DEF Insert, Leave, Unmapped, SharedTypes, RestoringAt, GatePcs, CallTypes, Placed,
      PlacedAt, objectVars, segmentVars
<1> QED
  BY <1>1, <1>2, <1>3

\* Every step keeps what is not mapped unmapped.
LEMMA UnmappedNext ==
    ASSUME Undisturbed, TypeInv, Registered, NoneGone, Unmapped, [Next]_vars
    PROVE  Unmapped'
<1>1. SharedTypes /\ CallTypes /\ Placed
  BY TypeParts DEF TypeInv
<1>2. CASE UNCHANGED vars
  BY <1>2 DEF Unmapped, RestoringAt, vars, objectVars, segmentVars, callVars
<1>3. ASSUME NEW t \in Threads,
             \/ Unregister(t) \/ Busy(t) \/ CheckSegment(t) \/ Retire(t)
             \/ Subtract(t) \/ MarkSegment(t)
      PROVE  FALSE
  BY <1>1, <1>3
  DEF Undisturbed, NoneGone, Unregister, Busy, CheckSegment, Retire, Subtract,
     MarkSegment, Placed, PlacedAt
<1> QED
  BY <1>1, <1>2, <1>3, Steps, BeginKeepsUnmapped, MaterializeKeepsUnmapped,
     EnsureCapacityKeepsUnmapped, CompactToKeepsUnmapped, RegistryKeepsUnmapped

(* What the sum and the shares of the objects count, when nothing is gone. *)
MappedOf(o) == {s \in Mapped : ObjectOf(s) = o}

\* RawIsExact in terms of Mapped and MappedOf, in a state and in the next.
LEMMA MappedFacts ==
    /\ RawIsExact <=> /\ raw = Cardinality(Mapped)
                      /\ \A o \in Objects : objRaw[o] = Cardinality(MappedOf(o))
    /\ RawIsExact' <=> /\ raw' = Cardinality(Mapped')
                       /\ \A o \in Objects : objRaw'[o] = Cardinality(MappedOf(o)')
    /\ Mapped \in SUBSET Segments
    /\ \A o \in Objects : MappedOf(o) \in SUBSET Segments
BY DEF RawIsExact, Mapped, MappedOf

\* A step that maps nothing and drops nothing.
LEMMA RawKept ==
    ASSUME RawIsExact, NoneGone, NoneGone', UNCHANGED <<raw, objRaw, committed>>
    PROVE  RawIsExact'
<1>1. Mapped' = Mapped /\ \A o \in Objects : MappedOf(o)' = MappedOf(o)
  BY SegmentFacts DEF Mapped, MappedOf, NoneGone
<1> QED
  BY <1>1, MappedFacts

\* A segment is mapped and counted.
LEMMA RawGrows ==
    ASSUME RawIsExact, NoneGone, NoneGone', SharedTypes, NEW s \in Segments, ~committed[s],
           committed' = [committed EXCEPT ![s] = TRUE], raw' = Plus(raw, 1),
           objRaw' = [objRaw EXCEPT ![ObjectOf(s)] = Plus(@, 1)]
    PROVE  RawIsExact'
<1> DEFINE p == ObjectOf(s)
<1>1. p \in Objects
  BY SegmentFacts
<1>2. Mapped' = Mapped \cup {s} /\ s \notin Mapped
  BY SegmentFacts DEF Mapped, NoneGone, SharedTypes
<1>3. MappedOf(p)' = MappedOf(p) \cup {s} /\ s \notin MappedOf(p)
  BY <1>2 DEF MappedOf
<1>4. \A o \in Objects \ {p} : MappedOf(o)' = MappedOf(o)
  BY <1>2 DEF MappedOf
<1>5. raw' = Cardinality(Mapped')
  BY <1>2, MappedFacts, CountGrows, Finiteness
<1>6. /\ objRaw'[p] = Plus(Cardinality(MappedOf(p)), 1)
      /\ \A o \in Objects \ {p} : objRaw'[o] = objRaw[o]
  BY <1>1, MappedFacts DEF SharedTypes
<1>7. objRaw'[p] = Cardinality(MappedOf(p)')
  BY <1>1, <1>3, <1>6, MappedFacts, CountGrows, Finiteness
<1> HIDE DEF p
<1> QED
  BY <1>4, <1>5, <1>6, <1>7, MappedFacts

\* A segment is dropped and no longer counted.
LEMMA RawShrinks ==
    ASSUME RawIsExact, NoneGone, NoneGone', SharedTypes, NEW s \in Segments, committed[s],
           committed' = [committed EXCEPT ![s] = FALSE], raw' = Minus(raw, 1),
           objRaw' = [objRaw EXCEPT ![ObjectOf(s)] = Minus(@, 1)]
    PROVE  RawIsExact'
<1> DEFINE p == ObjectOf(s)
<1>1. p \in Objects
  BY SegmentFacts
<1>2. Mapped' = Mapped \ {s} /\ s \in Mapped
  BY SegmentFacts DEF Mapped, NoneGone, SharedTypes
<1>3. MappedOf(p)' = MappedOf(p) \ {s} /\ s \in MappedOf(p)
  BY <1>2 DEF MappedOf
<1>4. \A o \in Objects \ {p} : MappedOf(o)' = MappedOf(o)
  BY <1>2 DEF MappedOf
<1>5. raw' = Cardinality(Mapped')
  BY <1>2, MappedFacts, CountShrinks, Finiteness
<1>6. /\ objRaw'[p] = Minus(Cardinality(MappedOf(p)), 1)
      /\ \A o \in Objects \ {p} : objRaw'[o] = objRaw[o]
  BY <1>1, MappedFacts DEF SharedTypes
<1>7. objRaw'[p] = Cardinality(MappedOf(p)')
  BY <1>1, <1>3, <1>6, MappedFacts, CountShrinks, Finiteness
<1> HIDE DEF p
<1> QED
  BY <1>4, <1>5, <1>6, <1>7, MappedFacts

\* A registration that fails has nothing mapped to give back.
LEMMA RegisterFailsKeepsRaw ==
    ASSUME Undisturbed, RawIsExact, NoneGone, NoneGone', Unmapped, SharedTypes, CallTypes,
           Placed, NEW t \in Threads, RegisterFails(t)
    PROVE  RawIsExact'
<1> DEFINE p == ObjectOf(seg[t])
<1>1. seg[t] \in Segments /\ p \in Objects /\ ~committed[seg[t]]
  BY SegmentFacts DEF RegisterFails, Placed, PlacedAt, Unmapped
<1>2. \A s \in Segments : ObjectOf(s) = p => s = seg[t]
  BY <1>1 DEF Undisturbed, Segments, ObjectOf
<1>3. committed' = committed
  BY <1>1, <1>2 DEF RegisterFails, SharedTypes
<1>4. Mapped' = Mapped /\ \A o \in Objects : MappedOf(o)' = MappedOf(o)
  BY <1>3, SegmentFacts DEF Mapped, MappedOf, NoneGone
<1>5. MappedOf(p) = {}
  BY <1>1, <1>2 DEF Mapped, MappedOf
<1>6. objRaw' = [objRaw EXCEPT ![p] = 0] /\ raw' = raw
  BY DEF RegisterFails, contextVars
<1>7. objRaw'[p] = Cardinality(MappedOf(p))
  BY <1>1, <1>5, <1>6, FS_EmptySet DEF SharedTypes
<1>8. \A o \in Objects \ {p} : objRaw'[o] = objRaw[o]
  BY <1>6 DEF SharedTypes
<1> HIDE DEF p
<1> QED
  BY <1>4, <1>6, <1>7, <1>8, MappedFacts

\* Every step keeps the resident sums.
LEMMA RawNext ==
    ASSUME Undisturbed, TypeInv, Registered, NoneGone, NoneGone', Unmapped, RawIsExact,
           [Next]_vars
    PROVE  RawIsExact'
<1>1. SharedTypes /\ CallTypes /\ Placed
  BY TypeParts DEF TypeInv
<1>2. CASE UNCHANGED vars
  BY <1>2, RawKept DEF vars, contextVars, objectVars, segmentVars
<1>3. ASSUME NEW t \in Threads,
             \/ Unregister(t) \/ Busy(t) \/ CheckSegment(t) \/ Retire(t)
             \/ Subtract(t) \/ MarkSegment(t)
      PROVE  FALSE
  BY <1>1, <1>3
  DEF Undisturbed, NoneGone, Unregister, Busy, CheckSegment, Retire, Subtract,
     MarkSegment, Placed, PlacedAt
<1>4. ASSUME NEW t \in Threads, Publish(t) \/ Commit(t)
      PROVE  RawIsExact'
  <2>1. /\ seg[t] \in Segments /\ ~committed[seg[t]]
        /\ committed' = [committed EXCEPT ![seg[t]] = TRUE] /\ raw' = Plus(raw, 1)
        /\ objRaw' = [objRaw EXCEPT ![ObjectOf(seg[t])] = Plus(@, 1)]
    BY <1>1, <1>4 DEF Publish, Commit, Unmapped, RestoringAt, Placed, PlacedAt
  <2> QED
    BY <1>1, <2>1, RawGrows
<1>5. ASSUME NEW t \in Threads, Evict(t)
      PROVE  RawIsExact'
  <2>1. /\ victim[t] \in Segments /\ committed[victim[t]]
        /\ committed' = [committed EXCEPT ![victim[t]] = FALSE] /\ raw' = Minus(raw, 1)
        /\ objRaw' = [objRaw EXCEPT ![ObjectOf(victim[t])] = Minus(@, 1)]
    BY <1>1, <1>5 DEF Evict, Evictable, Placed, PlacedAt
  <2> QED
    BY <1>1, <2>1, RawShrinks
<1>6. ASSUME NEW t \in Threads,
             \/ Acquire(t) \/ Prewarm(t) \/ Trim(t) \/ BackgroundCompact(t)
             \/ Register(t)
             \/ Warm(t) \/ NotFound(t) \/ PinResident(t) \/ Wait(t) \/ Wake(t)
             \/ BeginRestore(t)
             \/ LockCapacity(t) \/ RestoreFails(t) \/ Drain(t) \/ Release(t)
             \/ LoadRaw(t) \/ Decide(t) \/ GrantedLate(t) \/ Refused(t)
             \/ Test(t) \/ Choose(t) \/ NothingToEvict(t) \/ EvictFails(t) \/ Done(t)
             \/ Insert(t)
      PROVE  RawIsExact'
  BY <1>6, RawKept
  DEF Acquire, Prewarm, Trim, BackgroundCompact, Register, Warm,
      NotFound, PinResident, Wait, Wake, BeginRestore, LockCapacity,
      RestoreFails, Drain, Release, LoadRaw, Decide, GrantedLate,
      Refused, Test, Choose, NothingToEvict, EvictFails, Done, Insert,
      contextVars, objectVars, segmentVars, Compact
<1> QED
  BY <1>1, <1>2, <1>3, <1>4, <1>5, <1>6, Steps, RegisterFailsKeepsRaw

SumInv == TypeInv /\ Registered /\ NoneGone /\ Unmapped /\ RawIsExact

\* Nothing is mapped at first.
LEMMA SumInit == Init => SumInv
<1> SUFFICES ASSUME Init PROVE SumInv
  OBVIOUS
<1>1. Mapped = {} /\ \A o \in Objects : MappedOf(o) = {}
  BY DEF Init, Mapped, MappedOf
<1>2. RawIsExact
  BY <1>1, FS_EmptySet, MappedFacts DEF Init
<1>3. NoneGone /\ Unmapped
  BY DEF Init, NoneGone, Unmapped, RestoringAt
<1> QED
  BY <1>2, <1>3, TypeInit, RegisteredInit DEF SumInv

\* CountersAreExact, for every instance in which no object is unregistered and
\* an object is one segment (a registration that fails on a later segment
\* leaves the earlier ones counted): whoever restores, warms, registers and
\* evicts, the three sums are those of the segments.
THEOREM CountersStayExact ==
    ASSUME Undisturbed
    PROVE  Spec => []CountersAreExact
<1>1. SumInv /\ [Next]_vars => SumInv'
  BY Undisturbed, TypeNext, RegisteredNext, NoneGoneNext, UnmappedNext, RawNext
  DEF SumInv
<1>2. SumInv /\ InflightIsExact /\ PinnedIsExact => CountersAreExact
  BY DEF SumInv, CountersAreExact
<1> QED
  BY <1>1, <1>2, SumInit, InflightStaysExact, PinnedStaysExact, PTL DEF Spec

-----------------------------------------------------------------------------
(***************************************************************************)
(* How far the gate can be passed                                          *)
(***************************************************************************)
Limit == Hard + Burst

\* The threads that have a segment granted which is not mapped yet, or may
\* still be granted one on the sum they have seen.
Claiming ==
    {t \in Threads : \/ pc[t] \in {"restore", "undo", "commit"}
                     \/ (pc[t] \in {"decide", "redecide"} /\ sawRaw[t] < Limit)}

\* With every claim honoured the limit is exceeded by less than one segment
\* for each thread: a thread that adds its claim has seen a sum under the
\* limit at that moment, and the other claims are of other threads.
ClaimsBounded ==
    /\ Cardinality(Mapped) + Cardinality(Claiming) <= Limit + Cardinality(Threads) - 1
    /\ \A t \in Threads : sawRaw[t] <= Cardinality(Segments)

\* What is mapped and what is claimed can be counted.
LEMMA ClaimFacts ==
    /\ IsFiniteSet(Mapped) /\ Cardinality(Mapped) \in Nat
    /\ Cardinality(Mapped) <= Cardinality(Segments)
    /\ IsFiniteSet(Claiming) /\ Cardinality(Claiming) \in Nat
    /\ Cardinality(Claiming) <= Cardinality(Threads)
    /\ Cardinality(Threads) \in Nat \ {0} /\ Cardinality(Segments) \in Nat /\ Limit \in Nat
<1>1. Mapped \in SUBSET Segments /\ Claiming \in SUBSET Threads
  BY DEF Mapped, Claiming
<1>2. Cardinality(Threads) # 0
  BY Finiteness, FS_EmptySet DEF Threads
<1> QED
  BY <1>1, <1>2, Finiteness, FS_Subset, FS_CardinalityType, BudgetAssumption DEF Limit

\* The same in the next state.
LEMMA ClaimFactsNext ==
    /\ IsFiniteSet(Mapped') /\ Cardinality(Mapped') \in Nat
    /\ IsFiniteSet(Claiming') /\ Cardinality(Claiming') \in Nat
    /\ Cardinality(Claiming') <= Cardinality(Threads)
<1>1. Mapped' \in SUBSET Segments /\ Claiming' \in SUBSET Threads
  BY DEF Mapped, Claiming
<1> QED
  BY <1>1, Finiteness, FS_Subset, FS_CardinalityType

\* A step that maps nothing and claims nothing.
LEMMA ClaimsKept ==
    ASSUME ClaimsBounded, NoneGone, NEW t \in Threads,
           \A s \in Segments : committed'[s] => committed[s],
           \A u \in Threads \ {t} : pc'[u] = pc[u] /\ sawRaw'[u] = sawRaw[u],
           t \in Claiming' => t \in Claiming,
           sawRaw'[t] <= Cardinality(Segments)
    PROVE  ClaimsBounded'
<1>1. Mapped' \in SUBSET Mapped
  BY SegmentFacts DEF Mapped, NoneGone
<1>2. Claiming' \in SUBSET Claiming
  BY DEF Claiming
<1>3. Cardinality(Mapped') <= Cardinality(Mapped)
  BY <1>1, ClaimFacts, FS_Subset
<1>4. Cardinality(Claiming') <= Cardinality(Claiming)
  BY <1>2, ClaimFacts, FS_Subset
<1>5. Cardinality(Mapped') + Cardinality(Claiming') <= Limit + Cardinality(Threads) - 1
  BY <1>3, <1>4, ClaimFacts, ClaimFactsNext DEF ClaimsBounded
<1>6. \A u \in Threads : sawRaw'[u] <= Cardinality(Segments)
  BY DEF ClaimsBounded
<1> QED
  BY <1>5, <1>6 DEF ClaimsBounded

\* A claim that becomes a mapped segment.
LEMMA ClaimLands ==
    ASSUME ClaimsBounded, NoneGone, NEW t \in Threads, NEW s \in Segments,
           t \in Claiming, t \notin Claiming',
           \A u \in Threads \ {t} : pc'[u] = pc[u],
           sawRaw' = sawRaw, committed' = [committed EXCEPT ![s] = TRUE]
    PROVE  ClaimsBounded'
<1>1. Mapped' \in SUBSET (Mapped \cup {s})
  BY SegmentFacts DEF Mapped, NoneGone
<1>2. Claiming' = Claiming \ {t}
  BY DEF Claiming
<1>3. /\ IsFiniteSet(Mapped \cup {s}) /\ Cardinality(Mapped \cup {s}) \in Nat
      /\ Cardinality(Mapped \cup {s}) <= Cardinality(Mapped) + 1
  <2>1. /\ IsFiniteSet(Mapped \cup {s})
        /\ \/ Cardinality(Mapped \cup {s}) = Cardinality(Mapped)
           \/ Cardinality(Mapped \cup {s}) = Cardinality(Mapped) + 1
    BY ClaimFacts, FS_AddElement
  <2> QED
    BY <2>1, ClaimFacts
<1>4. Cardinality(Mapped') <= Cardinality(Mapped \cup {s})
  BY <1>1, <1>3, FS_Subset
<1>5. Cardinality(Claiming') = Cardinality(Claiming) - 1
  BY <1>2, ClaimFacts, FS_RemoveElement
<1>6. Cardinality(Mapped') + Cardinality(Claiming') <= Limit + Cardinality(Threads) - 1
  BY <1>3, <1>4, <1>5, ClaimFacts, ClaimFactsNext DEF ClaimsBounded
<1> QED
  BY <1>6 DEF ClaimsBounded

\* A thread that sees the sum.
LEMMA LoadKeepsClaims ==
    ASSUME ClaimsBounded, NoneGone, RawIsExact, SharedTypes, CallTypes, NEW t \in Threads,
           LoadRaw(t)
    PROVE  ClaimsBounded'
<1>1. /\ sawRaw' = [sawRaw EXCEPT ![t] = raw] /\ committed' = committed /\ status' = status
      /\ \A u \in Threads \ {t} : pc'[u] = pc[u]
      /\ pc'[t] \in {"decide", "redecide"}
  BY DEF LoadRaw, CallTypes, segmentVars, objectVars
<1>2. raw = Cardinality(Mapped) /\ Mapped' = Mapped
  BY <1>1, MappedFacts DEF Mapped
<1>3. sawRaw'[t] = raw /\ \A u \in Threads \ {t} : sawRaw'[u] = sawRaw[u]
  BY <1>1 DEF CallTypes
<1>4. \A u \in Threads : sawRaw'[u] <= Cardinality(Segments)
  BY <1>2, <1>3, ClaimFacts DEF ClaimsBounded
<1>5. CASE raw < Limit
  <2>1. Cardinality(Mapped') + Cardinality(Claiming') <= Limit + Cardinality(Threads) - 1
    BY <1>2, <1>5, ClaimFacts, ClaimFactsNext
  <2> QED
    BY <2>1, <1>4 DEF ClaimsBounded
<1>6. CASE ~(raw < Limit)
  <2>1. t \notin Claiming'
    BY <1>1, <1>3, <1>6 DEF Claiming
  <2> QED
    BY <1>1, <1>3, <1>4, <2>1, ClaimsKept
<1> QED
  BY <1>5, <1>6

\* Who is granted a segment has seen a sum under the limit.
LEMMA GrantIsClaimed ==
    ASSUME ClaimsBounded, InflightIsExact, SharedTypes, CallTypes, NEW t \in Threads,
           pc[t] \in {"decide", "redecide"}, NEW l \in {Target, Limit}, Fits(t, l)
    PROVE  t \in Claiming
<1>1. Reserving \in SUBSET (Threads \ {t})
  BY DEF Reserving
<1>2. /\ IsFiniteSet(Threads \ {t})
      /\ Cardinality(Threads \ {t}) = Cardinality(Threads) - 1
  BY Finiteness, FS_RemoveElement
<1>3. Cardinality(Reserving) <= Cardinality(Threads) - 1
  BY <1>1, <1>2, FS_Subset
<1>4. inflight \in Nat /\ inflight <= Cardinality(Threads) - 1
  BY <1>3, ReservingFacts, CounterFacts DEF SharedTypes
<1>5. sawRaw[t] \in Nat /\ sawRaw[t] <= Cardinality(Segments)
  BY CounterFacts DEF CallTypes, ClaimsBounded
<1>6. sawRaw[t] + (inflight + 1) < Word /\ sawRaw[t] + (inflight + 1) \in Nat
  BY <1>4, <1>5, ClaimFacts, BudgetAssumption DEF Limit
<1>7. Plus(sawRaw[t], inflight + 1) = sawRaw[t] + (inflight + 1)
  BY <1>6, Finiteness DEF Plus
<1>8. sawRaw[t] < Limit
  BY <1>4, <1>5, <1>7, BudgetAssumption DEF Fits, Limit
<1> QED
  BY <1>8 DEF Claiming

\* The calls that begin claim nothing.
LEMMA BeginKeepsClaims ==
    ASSUME ClaimsBounded, InflightIsExact, RawIsExact, NoneGone, Undisturbed,
           SharedTypes, CallTypes, Placed, NEW t \in Threads,
           \/ Acquire(t) \/ Prewarm(t) \/ Trim(t) \/ BackgroundCompact(t)
           \/ Register(t)
    PROVE  ClaimsBounded'
<1>1. 0 <= Cardinality(Segments) /\ \A u \in Threads : sawRaw[u] <= Cardinality(Segments)
  BY ClaimFacts DEF ClaimsBounded
<1>2. CASE Acquire(t)
  BY <1>1, <1>2, ClaimsKept
  DEF Acquire, Enter, Claiming, CallTypes, Placed, PlacedAt, segmentVars
<1>3. CASE Prewarm(t)
  BY <1>1, <1>3, ClaimsKept
  DEF Prewarm, Enter, Claiming, CallTypes, Placed, PlacedAt, segmentVars
<1>4. CASE Trim(t)
  BY <1>1, <1>4, ClaimsKept
  DEF Trim, Compact, Enter, Claiming, CallTypes, Placed, PlacedAt, segmentVars
<1>5. CASE BackgroundCompact(t)
  BY <1>1, <1>5, ClaimsKept
  DEF BackgroundCompact, Compact, Enter, Claiming, CallTypes, Placed, PlacedAt,
      segmentVars
<1>6. CASE Register(t)
  BY <1>1, <1>6, ClaimsKept
  DEF Register, Enter, Claiming, CallTypes, Placed, PlacedAt, segmentVars
<1> QED
  BY <1>2, <1>3, <1>4, <1>5, <1>6

\* materialize_and_pin keeps the claims bounded.
LEMMA MaterializeKeepsClaims ==
    ASSUME ClaimsBounded, InflightIsExact, RawIsExact, NoneGone, Undisturbed,
           SharedTypes, CallTypes, Placed, NEW t \in Threads,
           \/ Warm(t) \/ NotFound(t) \/ PinResident(t) \/ Wait(t) \/ Wake(t)
           \/ BeginRestore(t) \/ LockCapacity(t) \/ Publish(t) \/ RestoreFails(t)
           \/ Drain(t) \/ Release(t)
    PROVE  ClaimsBounded'
<1>1. 0 <= Cardinality(Segments) /\ \A u \in Threads : sawRaw[u] <= Cardinality(Segments)
  BY ClaimFacts DEF ClaimsBounded
<1>2. CASE Warm(t)
  BY <1>1, <1>2, ClaimsKept
  DEF Warm, Goto, Leave, Claiming, CallTypes, Placed, PlacedAt, segmentVars
<1>3. CASE NotFound(t)
  BY <1>1, <1>3, ClaimsKept
  DEF NotFound, Leave, Claiming, CallTypes, Placed, PlacedAt, segmentVars
<1>4. CASE PinResident(t)
  BY <1>1, <1>4, ClaimsKept
  DEF PinResident, Pin, Materialized, Goto, Leave, Claiming, CallTypes, Placed,
      PlacedAt, segmentVars
<1>5. CASE Wait(t)
  BY <1>1, <1>5, ClaimsKept
  DEF Wait, Goto, Claiming, CallTypes, Placed, PlacedAt, segmentVars
<1>6. CASE Wake(t)
  BY <1>1, <1>6, ClaimsKept
  DEF Wake, Goto, Claiming, CallTypes, Placed, PlacedAt, segmentVars
<1>7. CASE BeginRestore(t)
  BY <1>1, <1>7, ClaimsKept
  DEF BeginRestore, Goto, Claiming, CallTypes, Placed, PlacedAt, segmentVars
<1>8. CASE LockCapacity(t)
  BY <1>1, <1>8, ClaimsKept
  DEF LockCapacity, Goto, Claiming, CallTypes, Placed, PlacedAt, segmentVars
<1>9. CASE Publish(t)
  BY <1>9, ClaimLands
  DEF Publish, Goto, Claiming, CallTypes, Placed, PlacedAt, segmentVars
<1>10. CASE RestoreFails(t)
  BY <1>1, <1>10, ClaimsKept
  DEF RestoreFails, Goto, Claiming, CallTypes, Placed, PlacedAt, segmentVars
<1>11. CASE Drain(t)
  BY <1>1, <1>11, ClaimsKept
  DEF Drain, Materialized, Goto, Leave, Claiming, CallTypes, Placed, PlacedAt,
      segmentVars
<1>12. CASE Release(t)
  BY <1>1, <1>12, ClaimsKept
  DEF Release, Leave, Claiming, CallTypes, Placed, PlacedAt, segmentVars
<1> QED
  BY <1>2, <1>3, <1>4, <1>5, <1>6, <1>7, <1>8, <1>9, <1>10, <1>11, <1>12

\* ensure_foreground_capacity keeps the claims bounded.
LEMMA EnsureCapacityKeepsClaims ==
    ASSUME ClaimsBounded, InflightIsExact, RawIsExact, NoneGone, Undisturbed,
           SharedTypes, CallTypes, Placed, NEW t \in Threads,
           LoadRaw(t) \/ Decide(t) \/ GrantedLate(t) \/ Refused(t)
    PROVE  ClaimsBounded'
<1>1. 0 <= Cardinality(Segments) /\ \A u \in Threads : sawRaw[u] <= Cardinality(Segments)
  BY ClaimFacts DEF ClaimsBounded
<1>2. CASE LoadRaw(t)
  BY <1>2, LoadKeepsClaims
<1>3. CASE Decide(t)
  <2>1. /\ committed' = committed
        /\ \A u \in Threads \ {t} : pc'[u] = pc[u] /\ sawRaw'[u] = sawRaw[u]
        /\ sawRaw'[t] = sawRaw[t]
    BY <1>3 DEF Decide, Granted, Goto, CallTypes, segmentVars
  <2>2. CASE Fits(t, Target) /\ Granted(t)
    BY <1>1, <1>3, <2>1, <2>2, ClaimsKept, GrantIsClaimed DEF Decide
  <2>3. CASE pc' = [pc EXCEPT ![t] = "test"]
    BY <1>1, <2>1, <2>3, ClaimsKept DEF Claiming, CallTypes
  <2> QED
    BY <1>3, <2>2, <2>3 DEF Decide
<1>4. CASE GrantedLate(t)
  <2>1. t \in Claiming
    BY <1>4, GrantIsClaimed DEF GrantedLate, Limit
  <2> QED
    BY <1>1, <1>4, <2>1, ClaimsKept
    DEF GrantedLate, Granted, Goto, Claiming, CallTypes, segmentVars
<1>5. CASE Refused(t)
  BY <1>1, <1>5, ClaimsKept
  DEF Refused, Leave, Claiming, CallTypes, Placed, PlacedAt, segmentVars
<1> QED
  BY <1>2, <1>3, <1>4, <1>5

\* compact_to claims nothing.
LEMMA CompactToKeepsClaims ==
    ASSUME ClaimsBounded, InflightIsExact, RawIsExact, NoneGone, Undisturbed,
           SharedTypes, CallTypes, Placed, NEW t \in Threads,
           \/ Test(t) \/ Choose(t) \/ NothingToEvict(t) \/ Evict(t) \/ EvictFails(t)
           \/ Done(t)
    PROVE  ClaimsBounded'
<1>1. 0 <= Cardinality(Segments) /\ \A u \in Threads : sawRaw[u] <= Cardinality(Segments)
  BY ClaimFacts DEF ClaimsBounded
<1>2. CASE Test(t)
  BY <1>1, <1>2, ClaimsKept
  DEF Test, Goto, AfterCompact, Claiming, CallTypes, Placed, PlacedAt, segmentVars
<1>3. CASE Choose(t)
  BY <1>1, <1>3, ClaimsKept
  DEF Choose, Candidates, Claiming, CallTypes, Placed, PlacedAt, segmentVars
<1>4. CASE NothingToEvict(t)
  BY <1>1, <1>4, ClaimsKept
  DEF NothingToEvict, Goto, AfterCompact, Claiming, CallTypes, Placed, PlacedAt,
      segmentVars
<1>5. CASE Evict(t)
  BY <1>1, <1>5, ClaimsKept
  DEF Evict, SharedTypes, Claiming, CallTypes, Placed, PlacedAt, segmentVars
<1>6. CASE EvictFails(t)
  BY <1>1, <1>6, ClaimsKept
  DEF EvictFails, AfterCompact, GivesUp, Claiming, CallTypes, Placed, PlacedAt,
      segmentVars
<1>7. CASE Done(t)
  BY <1>1, <1>7, ClaimsKept
  DEF Done, Leave, Claiming, CallTypes, Placed, PlacedAt, segmentVars
<1> QED
  BY <1>2, <1>3, <1>4, <1>5, <1>6, <1>7

\* Registration keeps the claims bounded.
LEMMA RegistryKeepsClaims ==
    ASSUME ClaimsBounded, InflightIsExact, RawIsExact, NoneGone, Undisturbed,
           SharedTypes, CallTypes, Placed, NEW t \in Threads,
           Commit(t) \/ RegisterFails(t) \/ Insert(t)
    PROVE  ClaimsBounded'
<1>1. 0 <= Cardinality(Segments) /\ \A u \in Threads : sawRaw[u] <= Cardinality(Segments)
  BY ClaimFacts DEF ClaimsBounded
<1>2. CASE Commit(t)
  <2>1. seg[t] \in Segments /\ ~(seg[t][2] < SegmentsPerObject)
    BY <1>2 DEF Commit, Placed, PlacedAt, Undisturbed, Segments
  <2>2. pc' = [pc EXCEPT ![t] = "insert"]
    BY <1>2, <2>1 DEF Commit, NextSegment
  <2> QED
    BY <1>2, <2>1, <2>2, ClaimLands DEF Commit, Claiming, CallTypes
<1>3. CASE RegisterFails(t)
  BY <1>1, <1>3, ClaimsKept
  DEF RegisterFails, Leave, SharedTypes, Claiming, CallTypes, Placed, PlacedAt,
      segmentVars
<1>4. CASE Insert(t)
  BY <1>1, <1>4, ClaimsKept
  DEF Insert, Leave, Claiming, CallTypes, Placed, PlacedAt, segmentVars
<1> QED
  BY <1>2, <1>3, <1>4

\* Every step keeps the claims bounded.
LEMMA ClaimsNext ==
    ASSUME Undisturbed, TypeInv, NoneGone, InflightIsExact, RawIsExact, ClaimsBounded,
           [Next]_vars
    PROVE  ClaimsBounded'
<1>1. SharedTypes /\ CallTypes /\ Placed
  BY TypeParts DEF TypeInv
<1>2. CASE UNCHANGED vars
  BY <1>2 DEF ClaimsBounded, Mapped, Claiming, vars, objectVars, segmentVars, callVars
<1>3. ASSUME NEW t \in Threads,
             \/ Unregister(t) \/ Busy(t) \/ CheckSegment(t) \/ Retire(t) \/ Subtract(t)
             \/ MarkSegment(t)
      PROVE  FALSE
  BY <1>1, <1>3 DEF Undisturbed, NoneGone, Unregister, Busy, CheckSegment, Retire, Subtract,
     MarkSegment, Placed, PlacedAt
<1> QED
  BY <1>1, <1>2, <1>3, Steps, BeginKeepsClaims, MaterializeKeepsClaims,
     EnsureCapacityKeepsClaims, CompactToKeepsClaims, RegistryKeepsClaims

\* Nothing is claimed at first.
LEMMA ClaimsInit == Init => ClaimsBounded
<1> SUFFICES ASSUME Init PROVE ClaimsBounded
  OBVIOUS
<1>1. Mapped = {} /\ Claiming = {}
  BY DEF Init, Mapped, Claiming
<1>2. Cardinality(Mapped) = 0 /\ Cardinality(Claiming) = 0
  BY <1>1, FS_EmptySet
<1>3. \A t \in Threads : sawRaw[t] = 0
  BY DEF Init
<1> QED
  BY <1>2, <1>3, ClaimFacts DEF ClaimsBounded

\* What the bound on the claims says of what is mapped and restored.
LEMMA ClaimsBoundOvershoot ==
    ASSUME ClaimsBounded, InflightIsExact
    PROVE  OvershootIsBounded
<1> DEFINE draining == {t \in Threads : pc[t] = "drain"}
           filling == {t \in Threads : pc[t] \in {"restore", "undo"}}
<1>1. /\ Reserving = draining \cup filling /\ draining \cap filling = {}
      /\ draining \in SUBSET Threads /\ filling \in SUBSET Threads
      /\ filling \in SUBSET Claiming
  BY DEF Reserving, Claiming
<1>2. IsFiniteSet(draining) /\ IsFiniteSet(filling)
  BY <1>1, Finiteness, FS_Subset
<1>3. Cardinality(draining) \in Nat /\ Cardinality(filling) \in Nat
  BY <1>2, FS_CardinalityType
<1>4. Cardinality(Reserving) = Cardinality(draining) + Cardinality(filling)
  BY <1>1, <1>2, <1>3, FS_Union, FS_EmptySet
<1>5. Cardinality(filling) <= Cardinality(Claiming)
  BY <1>1, ClaimFacts, FS_Subset
<1>6. inflight = Cardinality(draining) + Cardinality(filling)
  BY <1>4, ReservingFacts
<1> HIDE DEF draining, filling
<1>7. Cardinality(Mapped) + inflight - Cardinality(draining)
          <= Limit + Cardinality(Threads) - 1
  BY <1>3, <1>5, <1>6, ClaimFacts DEF ClaimsBounded
<1> QED
  BY <1>7 DEF OvershootIsBounded, Limit, draining

\* OvershootIsBounded, for every instance in which no object is unregistered and
\* an object is one segment: however many threads decide on stale sums, what is
\* mapped or being restored exceeds the limit by less than a segment for each.
THEOREM OvershootStaysBounded ==
    ASSUME Undisturbed
    PROVE  Spec => []OvershootIsBounded
<1>1. SumInv /\ InflightIsExact /\ ClaimsBounded /\ [Next]_vars => ClaimsBounded'
  BY Undisturbed, ClaimsNext DEF SumInv
<1>2. InflightIsExact /\ ClaimsBounded => OvershootIsBounded
  BY ClaimsBoundOvershoot
<1>3. SumInv /\ [Next]_vars => SumInv'
  BY Undisturbed, TypeNext, RegisteredNext, NoneGoneNext, UnmappedNext, RawNext DEF SumInv
<1> QED
  BY <1>1, <1>2, <1>3, SumInit, ClaimsInit, InflightStaysExact, PTL DEF Spec

=============================================================================
