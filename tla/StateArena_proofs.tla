------------------------- MODULE StateArena_proofs -------------------------
(***************************************************************************)
(* Theorems about StateArena, for any number of units, any budgets and any *)
(* capacity of the queue.                                                  *)
(***************************************************************************)
EXTENDS StateArena, FiniteSetTheorems, SequenceTheorems, TLAPS

-----------------------------------------------------------------------------
(***************************************************************************)
(* The invariant.                                                          *)
(***************************************************************************)
Labels == {"ensure", "commit", "fill", "apply", "pin", "check", "mark", "write", "unpin", "hint",
           "loop", "clear", "budget", "stop", "join", "ended", "wait"}

\* Which steps a thread takes, and that it has a unit while it needs one
Placed ==
    /\ pc["main"] # "wait"
    /\ pc["worker"] \in {"ensure", "commit", "fill", "apply", "wait", "ended"}
    /\ \A t \in Threads : pc[t] \in {"ensure", "commit", "fill", "apply", "pin", "check", "mark",
                                     "write", "unpin"} => unit[t] \in Units
    /\ pc["main"] \in {"mark", "write"} => writing
    /\ pc["main"] = "write" => dirty[unit["main"]]
    /\ pc["main"] = "ended" => pc["worker"] = "ended"

\* A unit is being materialized by one thread, which knows what its memory holds.
Owned ==
    /\ \A u \in Units : state[u] = "materializing" <=> \E t \in Threads : Filling(t) /\ unit[t] = u
    /\ Filling("main") /\ Filling("worker") => unit["main"] # unit["worker"]
    /\ \A t \in Threads : /\ pc[t] = "fill" => mem[unit[t]] = Blank
                          /\ pc[t] = "apply" => mem[unit[t]] = FALSE

\* The one pin is main's, of a resident unit.
Pinned ==
    /\ \A u \in Units : pins[u] = IF Using /\ unit["main"] = u THEN 1 ELSE 0
    /\ Using => state[unit["main"]] = "resident"

\* Each unit is, or is rebuilt as, what main wrote; without a dirty bit this is
\* what the recipe makes.
Kept ==
    pc["main"] # "ended" =>
        \A u \in Units :
            /\ (IF state[u] = "resident" THEN mem[u] ELSE Rebuilt(u)) = Expected(u)
            /\ ~dirty[u] => Expected(u) = FALSE

\* Until an entry is discarded, every resident unit has one.
Heaped == ~spoiled => Resident \subseteq Listed

Granted == Floor =< budget /\ budget =< MaxBudget

ArenaInv ==
    /\ TypeOK /\ Placed /\ Owned /\ Pinned /\ Kept /\ Heaped
    /\ CountsAreExact /\ Granted /\ BudgetIsKept /\ ~errors

-----------------------------------------------------------------------------
(***************************************************************************)
(* The heap.                                                               *)
(***************************************************************************)
\* A new entry takes no other unit's entry away.
LEMMA PushedLists ==
    ASSUME lru \in Seq(Units), NEW u \in Units
    PROVE  /\ Pushed(u) \in Seq(Units)
           /\ Listed \cup {u} \subseteq {Pushed(u)[i] : i \in 1 .. Len(Pushed(u))}
<1>1. CASE u \notin Listed
  BY <1>1, AppendProperties DEF Pushed, Listed
<1>2. CASE u \in Listed
  <2> DEFINE k == CHOOSE i \in 1 .. Len(lru) : lru[i] = u
             a == SubSeq(lru, 1, k - 1)
             b == SubSeq(lru, k + 1, Len(lru))
  <2>1. k \in 1 .. Len(lru) /\ lru[k] = u
    BY <1>2 DEF Listed
  <2>2. Pushed(u) = Append(a \o b, u)
    BY <1>2 DEF Pushed
  <2> HIDE DEF k
  <2>3. /\ a \in Seq(Units) /\ Len(a) = k - 1
        /\ \A i \in 1 .. k - 1 : a[i] = lru[i]
    BY <2>1, SubSeqProperties
  <2>4. /\ b \in Seq(Units) /\ Len(b) = Len(lru) - k
        /\ \A i \in 1 .. Len(lru) - k : b[i] = lru[k + i]
    BY <2>1, SubSeqProperties
  <2> HIDE DEF a, b
  <2>5. /\ a \o b \in Seq(Units) /\ Len(a \o b) = Len(lru) - 1
        /\ \A i \in 1 .. Len(lru) - 1 :
              (a \o b)[i] = IF i =< k - 1 THEN a[i] ELSE b[i - (k - 1)]
    <3>1. Len(a) + Len(b) = Len(lru) - 1 /\ k \in Int
      BY <2>1, <2>3, <2>4
    <3>2. /\ a \o b \in Seq(Units) /\ Len(a \o b) = Len(a) + Len(b)
          /\ \A i \in 1 .. Len(a) + Len(b) :
                (a \o b)[i] = IF i =< Len(a) THEN a[i] ELSE b[i - Len(a)]
      BY <2>3, <2>4, ConcatProperties
    <3> QED BY <2>3, <3>1, <3>2
  <2>6. /\ Pushed(u) \in Seq(Units) /\ Len(Pushed(u)) = Len(lru)
        /\ \A i \in 1 .. Len(lru) - 1 : Pushed(u)[i] = (a \o b)[i]
        /\ Pushed(u)[Len(lru)] = u
    BY <2>2, <2>5, AppendProperties
  <2>7. ASSUME NEW v \in Listed PROVE \E i \in 1 .. Len(lru) : Pushed(u)[i] = v
    <3>1. PICK i \in 1 .. Len(lru) : lru[i] = v
      BY <2>7 DEF Listed
    <3>2. CASE i < k
      <4>1. i \in 1 .. k - 1 /\ i \in 1 .. Len(lru) - 1
        BY <2>1, <3>2
      <4> QED BY <2>3, <2>5, <2>6, <3>1, <4>1
    <3>3. CASE i = k
      <4>1. Len(lru) \in 1 .. Len(lru)
        BY <2>1
      <4> QED BY <2>1, <2>6, <3>1, <3>3, <4>1
    <3>4. CASE i > k
      <4>0. i - 1 - (k - 1) = i - k
        BY <2>1
      <4>1. i - 1 \in 1 .. Len(lru) - 1 /\ ~(i - 1 =< k - 1) /\ i - k \in 1 .. Len(lru) - k
        BY <2>1, <3>4
      <4>2. b[i - k] = lru[i]
        BY <2>1, <2>4, <4>1
      <4>3. (a \o b)[i - 1] = b[i - k]
        BY <2>5, <4>0, <4>1
      <4>4. i - 1 \in 1 .. Len(lru)
        BY <4>1
      <4> QED BY <2>6, <3>1, <4>1, <4>2, <4>3, <4>4
    <3> QED BY <2>1, <3>2, <3>3, <3>4
  <2> QED BY <1>2, <2>6, <2>7
<1> QED BY <1>1, <1>2

\* What a page that is absent or blank holds is no content.
LEMMA NothingType == Nothing \notin BOOLEAN /\ Blank \notin BOOLEAN /\ Nothing # Blank
BY UnitAssumption

\* There are finitely many units, so they can be counted.
LEMMA ResidentIsFinite ==
    IsFiniteSet(Resident) /\ IsFiniteSet(Materializing)
BY FS_Subset, UnitAssumption DEF Resident, Materializing

\* What the counters, the content and the heap are when victims have gone.
LEMMA EvictFacts ==
    ASSUME ArenaInv, pc["main"] # "ended",
           NEW protect, NEW n \in 0 .. Len(lru), NEW victims \in SUBSET Evictable(protect),
           NEW need, NEW limit, Sweep(need, limit, protect, n, victims),
           Evict(protect, n, victims)
    PROVE  /\ victims \subseteq Resident /\ \A u \in victims : pins[u] = 0
           /\ IsFiniteSet(victims) /\ Cardinality(victims) \in Nat
           /\ committed' \in Nat /\ committed' = committed - Cardinality(victims)
           /\ committed' = Cardinality(Resident \ victims)
           /\ lru' \in Seq(Units)
           /\ Listed \ Popped(n) \subseteq Listed'
           /\ mem' \in [Units -> BOOLEAN \cup {Nothing, Blank}]
           /\ \A u \in Units \ victims : mem'[u] = mem[u]
           /\ delta' \in [Units -> BOOLEAN \cup {Nothing}]
           /\ \A u \in Units :
                 (IF u \in Resident \ victims THEN mem'[u]
                  ELSE IF dirty[u] /\ delta'[u] # Nothing THEN delta'[u] ELSE FALSE) = Expected(u)
           /\ spoiled' = (spoiled \/ Popped(n) # victims)
<1> USE DEF ArenaInv
<1>1. victims \subseteq Resident /\ \A u \in victims : pins[u] = 0
  BY DEF Evictable, Resident
<1>2. IsFiniteSet(victims) /\ Cardinality(victims) \in Nat
  BY <1>1, FS_Subset, FS_CardinalityType, ResidentIsFinite
<1>3. /\ Cardinality(Resident \ victims) = Cardinality(Resident) - Cardinality(victims)
      /\ Cardinality(Resident \ victims) \in Nat
  <2>1. Resident \cap victims = victims
    BY <1>1
  <2>2. /\ IsFiniteSet(Resident \ victims)
        /\ Cardinality(Resident \ victims)
             = Cardinality(Resident) - Cardinality(Resident \cap victims)
    BY ResidentIsFinite, FS_Difference
  <2>3. Cardinality(Resident \ victims) \in Nat
    BY <2>2, FS_CardinalityType
  <2> QED BY <2>1, <2>2, <2>3
<1>4. committed' \in Nat /\ committed' = committed - Cardinality(victims)
      /\ committed' = Cardinality(Resident \ victims)
  BY <1>3 DEF Evict, CountsAreExact
<1>5. lru \in Seq(Units) /\ Len(lru) \in Nat /\ n \in Int /\ \A i \in 1 .. Len(lru) : lru[i] \in Units
  BY DEF TypeOK
<1>6. /\ lru' \in Seq(Units) /\ Len(lru') = Len(lru) - n
      /\ \A i \in 1 .. Len(lru) - n : lru'[i] = lru[n + i]
  <2>1. lru' = SubSeq(lru, n + 1, Len(lru))
    BY DEF Evict
  <2>2. /\ SubSeq(lru, n + 1, Len(lru)) \in Seq(Units)
        /\ Len(SubSeq(lru, n + 1, Len(lru))) = IF n + 1 =< Len(lru) THEN Len(lru) - (n + 1) + 1 ELSE 0
        /\ \A i \in 1 .. Len(lru) - (n + 1) + 1 :
              SubSeq(lru, n + 1, Len(lru))[i] = lru[(n + 1) + i - 1]
    BY <1>5, SubSeqProperties
  <2> QED BY <1>5, <2>1, <2>2
<1>7. Listed \ Popped(n) \subseteq Listed'
  <2> SUFFICES ASSUME NEW v \in Listed \ Popped(n) PROVE v \in Listed'
    OBVIOUS
  <2>1. PICK i \in 1 .. Len(lru) : lru[i] = v
    BY DEF Listed
  <2>2. i \notin 1 .. n
    BY <2>1 DEF Popped
  <2>3. i - n \in 1 .. Len(lru') /\ lru'[i - n] = v
    BY <1>5, <1>6, <2>1, <2>2
  <2> QED BY <2>3 DEF Listed
<1>8. /\ mem' \in [Units -> BOOLEAN \cup {Nothing, Blank}]
      /\ \A u \in Units \ victims : mem'[u] = mem[u]
  BY DEF Evict, TypeOK
<1>9. Found(n, protect) \subseteq Resident /\ victims \subseteq Found(n, protect)
  BY DEF Found, Evictable, Resident, Sweep
<1>10. \A u \in Resident : mem[u] \in BOOLEAN
  BY DEF Kept, Resident, Expected, TypeOK
<1>11. delta' \in [Units -> BOOLEAN \cup {Nothing}]
  BY <1>9, <1>10 DEF Evict, Saved, TypeOK
<1>12. ASSUME NEW u \in Units
       PROVE (IF u \in Resident \ victims THEN mem'[u]
              ELSE IF dirty[u] /\ delta'[u] # Nothing THEN delta'[u] ELSE FALSE) = Expected(u)
  <2>1. CASE u \in Resident \ victims
    BY <1>8, <2>1 DEF Kept, Resident
  <2>2. CASE u \notin Resident
    <3>1. delta'[u] = delta[u]
      BY <1>9, <2>2 DEF Evict, Saved, TypeOK
    <3> QED BY <2>2, <3>1 DEF Kept, Resident, Rebuilt
  <2>3. CASE u \in victims
    <3>1. dirty[u] => delta'[u] = mem[u]
      BY <1>9, <2>3 DEF Evict, Saved, TypeOK
    <3>2. mem[u] = Expected(u) /\ mem[u] \in BOOLEAN /\ (~dirty[u] => Expected(u) = FALSE)
      BY <1>1, <1>10, <2>3 DEF Kept, Resident
    <3> QED BY <1>1, <2>3, <3>1, <3>2, NothingType
  <2> QED BY <2>1, <2>2, <2>3
<1>13. spoiled' = (spoiled \/ Popped(n) # victims)
  BY DEF Evict
<1> QED BY <1>1, <1>2, <1>4, <1>6, <1>7, <1>8, <1>11, <1>12, <1>13

\* An eviction makes room, unless it has gone through the whole heap or
\* discarded the entry of a unit that stays.
LEMMA SweepRoom ==
    ASSUME ArenaInv, NEW protect, NEW n \in 0 .. Len(lru),
           NEW victims \in SUBSET Evictable(protect), NEW need \in Nat, NEW limit \in Nat,
           Cardinality(victims) \in Nat, Sweep(need, limit, protect, n, victims)
    PROVE  /\ Room(need, limit, victims) =>
                 committed - Cardinality(victims) + pending + need =< limit
           /\ ~Room(need, limit, victims) /\ Popped(n) = victims =>
                 /\ Listed \cap Evictable(protect) \subseteq victims
                 /\ Cardinality(victims) < committed + pending + need - limit
<1>1. committed \in Nat /\ pending \in Nat
  BY DEF ArenaInv, TypeOK
<1>2. Room(need, limit, victims) => committed - Cardinality(victims) + pending + need =< limit
  BY <1>1 DEF Room, Excess
<1>3. ASSUME ~Room(need, limit, victims), Popped(n) = victims
      PROVE  /\ Listed \cap Evictable(protect) \subseteq victims
             /\ Cardinality(victims) < committed + pending + need - limit
  <2>1. ~(n > 0 /\ lru[n] \in Found(n, protect) /\ victims = Found(n, protect) \ {lru[n]})
    <3> SUFFICES ASSUME n > 0, victims = Found(n, protect) \ {lru[n]} PROVE FALSE
      OBVIOUS
    <3>1. lru[n] \in Popped(n)
      BY DEF Popped
    <3> QED BY <1>3, <3>1
  <2>2. /\ victims = Found(n, protect) /\ n = Len(lru)
        /\ Cardinality(victims) < Excess(need, limit)
    BY <1>3, <2>1 DEF Sweep, Room
  <2>3. Listed \cap Evictable(protect) \subseteq victims
    BY <2>2 DEF Listed, Found, Popped
  <2> QED BY <1>1, <2>2, <2>3 DEF Excess
<1> QED BY <1>2, <1>3

\* A thread that materializes has a reservation.
LEMMA FillingIsPending ==
    ASSUME ArenaInv, NEW t \in Threads, Filling(t)
    PROVE  /\ unit[t] \in Units /\ state[unit[t]] = "materializing"
           /\ unit[t] \in Materializing /\ unit[t] \notin Resident
           /\ pending \in Nat /\ pending - 1 \in Nat
           /\ Cardinality(Materializing \ {unit[t]}) = pending - 1
           /\ Cardinality(Resident \cup {unit[t]}) = committed + 1
<1>1. unit[t] \in Units /\ state[unit[t]] = "materializing"
  BY DEF ArenaInv, Placed, Owned, Filling
<1>2. unit[t] \in Materializing /\ unit[t] \notin Resident
  BY <1>1 DEF Materializing, Resident
<1>3. /\ IsFiniteSet(Materializing \ {unit[t]})
      /\ Cardinality(Materializing \ {unit[t]}) = Cardinality(Materializing) - 1
  BY <1>2, ResidentIsFinite, FS_RemoveElement
<1>4. Cardinality(Resident \cup {unit[t]}) = Cardinality(Resident) + 1
  BY <1>2, ResidentIsFinite, FS_AddElement
<1>5. Cardinality(Materializing \ {unit[t]}) \in Nat
  BY <1>3, FS_CardinalityType
<1> QED BY <1>1, <1>2, <1>3, <1>4, <1>5 DEF ArenaInv, CountsAreExact, TypeOK

\* A thread that materializes knows its unit.
LEMMA FillingUnits == ArenaInv => \A t \in Threads : Filling(t) => unit[t] \in Units
BY DEF ArenaInv, Placed, Filling

\* While main materializes nothing, the worker alone does, and one unit at most.
LEMMA OneFilling ==
    ASSUME ArenaInv, pc["main"] \in {"ensure", "budget"}
    PROVE  pending =< 1
<1>1. Materializing \subseteq {unit["worker"]}
  BY DEF ArenaInv, Owned, Materializing, Filling, Threads
<1>2. IsFiniteSet({unit["worker"]}) /\ Cardinality({unit["worker"]}) = 1
  BY FS_Singleton
<1>3. Cardinality(Materializing) =< 1
  BY <1>1, <1>2, FS_Subset
<1> QED BY <1>3 DEF ArenaInv, CountsAreExact

\* The invariant holds at the start, and every step keeps it.
LEMMA InitArenaInv == Init => ArenaInv
<1> SUFFICES ASSUME Init PROVE ArenaInv
  OBVIOUS
<1>1. Resident = {} /\ Materializing = {} /\ Listed = {}
  BY DEF Init, Resident, Materializing, Listed
<1>2. TypeOK
  <2>1. lru \in Seq(Units) /\ queue \in Seq(Units) /\ Len(queue) = 0
    BY EmptySeq DEF Init
  <2>2. pc \in [Threads -> Labels]
    BY DEF Init, Labels, Threads
  <2>3. pins \in [Units -> Nat] /\ budget \in Nat /\ 0 =< QueueCap
    BY BudgetAssumption, QueueAssumption DEF Init
  <2> QED BY <2>1, <2>2, <2>3 DEF Init, TypeOK, Labels
<1>3. CountsAreExact
  BY <1>1, FS_EmptySet DEF Init, CountsAreExact
<1>4. Placed /\ Owned /\ Pinned /\ Kept /\ Heaped
  BY <1>1 DEF Init, Placed, Owned, Pinned, Kept, Heaped, Filling, Using, Expected, Rebuilt,
     Threads
<1>5. Granted /\ BudgetIsKept /\ ~errors
  BY BudgetAssumption DEF Init, Granted, BudgetIsKept, WithinBudget, PeakIsBounded,
     RoomIsFound, Floor
<1> QED BY <1>2, <1>3, <1>4, <1>5 DEF ArenaInv

\* One step for each action; Admit and SetBudget, which evict, come last.
LEMMA NextArenaInv == ASSUME ArenaInv, [Next]_vars PROVE ArenaInv'
<1> USE DEF ArenaInv, units, counters, shared, mains, Go
<1>1. ASSUME NEW u \in Units, NEW write \in BOOLEAN, Touch(u, write) PROVE ArenaInv'
  <2> USE <1>1 DEF Touch
  <2>1. Placed'
    BY NothingType DEF Placed, Threads, TypeOK
  <2>2. TypeOK'
    <3>1. /\ state' \in [Units -> {"reserved", "materializing", "resident"}]
          /\ dirty' \in [Units -> BOOLEAN] /\ delta' \in [Units -> BOOLEAN \cup {Nothing}]
          /\ canary' \in [Units -> BOOLEAN]
      BY DEF TypeOK
    <3>2. mem' \in [Units -> BOOLEAN \cup {Nothing, Blank}] /\ pins' \in [Units -> Nat]
      BY DEF TypeOK
    <3>3. lru' \in Seq(Units) /\ queue' \in Seq(Units) /\ Len(queue') =< QueueCap
      BY DEF TypeOK
    <3>4. committed' \in Nat /\ pending' \in Nat /\ budget' \in Nat
      BY DEF TypeOK
    <3>5. pc' \in [Threads -> Labels] /\ unit' \in [Threads -> Units \cup {NoUnit}]
      BY DEF TypeOK, Threads, Labels
    <3>6. /\ failed' \in {"no", "room", "commit", "taken"} /\ prefetching' \in BOOLEAN
          /\ stopping' \in BOOLEAN /\ writing' \in BOOLEAN /\ errors' \in BOOLEAN
          /\ spoiled' \in BOOLEAN
      BY DEF TypeOK
    <3> QED BY <3>1, <3>2, <3>3, <3>4, <3>5, <3>6 DEF TypeOK, Labels
  <2>3. Owned'
    BY NothingType DEF Owned, Filling, Using, Placed, Threads, TypeOK, Pinned
  <2>4. Pinned'
    BY DEF Pinned, Using, Placed, Threads, TypeOK
  <2>5. Kept' /\ ~errors'
    BY NothingType DEF Kept, Expected, Rebuilt, Pinned, Using, Owned, Filling, Placed,
       Threads, TypeOK
  <2>6. CountsAreExact' /\ Heaped'
    BY DEF CountsAreExact, Heaped, Resident, Materializing, Listed
  <2>7. Granted' /\ BudgetIsKept'
    BY DEF Granted, BudgetIsKept, WithinBudget, PeakIsBounded, RoomIsFound, TypeOK
  <2> QED BY <2>1, <2>2, <2>3, <2>4, <2>5, <2>6, <2>7
<1>2. ASSUME NEW t \in Threads, Hit(t) PROVE ArenaInv'
  <2> USE <1>2 DEF Hit, Succeed
  <2>a. /\ lru' \in Seq(Units)
        /\ Listed \cup {unit[t]} \subseteq Listed'
    <3>1. unit[t] \in Units /\ lru \in Seq(Units)
      BY DEF Placed, TypeOK, Threads
    <3>2. /\ Pushed(unit[t]) \in Seq(Units)
          /\ Listed \cup {unit[t]}
               \subseteq {Pushed(unit[t])[i] : i \in 1 .. Len(Pushed(unit[t]))}
      BY <3>1, PushedLists
    <3> QED BY <3>2 DEF Listed
  <2>1. Placed'
    BY <2>a, NothingType DEF Placed, Threads, TypeOK
  <2>2. TypeOK'
    <3>1. /\ state' \in [Units -> {"reserved", "materializing", "resident"}]
          /\ dirty' \in [Units -> BOOLEAN] /\ delta' \in [Units -> BOOLEAN \cup {Nothing}]
          /\ canary' \in [Units -> BOOLEAN]
      BY DEF TypeOK
    <3>2. mem' \in [Units -> BOOLEAN \cup {Nothing, Blank}] /\ pins' \in [Units -> Nat]
      BY DEF TypeOK
    <3>3. lru' \in Seq(Units) /\ queue' \in Seq(Units) /\ Len(queue') =< QueueCap
      BY <2>a DEF TypeOK
    <3>4. committed' \in Nat /\ pending' \in Nat /\ budget' \in Nat
      BY DEF TypeOK
    <3>5. pc' \in [Threads -> Labels] /\ unit' \in [Threads -> Units \cup {NoUnit}]
      BY DEF TypeOK, Threads, Labels
    <3>6. /\ failed' \in {"no", "room", "commit", "taken"} /\ prefetching' \in BOOLEAN
          /\ stopping' \in BOOLEAN /\ writing' \in BOOLEAN /\ errors' \in BOOLEAN
          /\ spoiled' \in BOOLEAN
      BY DEF TypeOK
    <3> QED BY <3>1, <3>2, <3>3, <3>4, <3>5, <3>6 DEF TypeOK, Labels
  <2>3. Owned'
    BY <2>a, NothingType DEF Owned, Filling, Using, Placed, Threads, TypeOK, Pinned
  <2>4. Pinned'
    BY <2>a DEF Pinned, Using, Placed, Threads, TypeOK
  <2>5. Kept' /\ ~errors'
    BY <2>a, NothingType DEF Kept, Expected, Rebuilt, Pinned, Using, Owned, Filling, Placed,
       Threads, TypeOK
  <2>6. CountsAreExact' /\ Heaped'
    BY <2>a DEF CountsAreExact, Heaped, Resident, Materializing, Listed
  <2>7. Granted' /\ BudgetIsKept'
    BY <2>a DEF Granted, BudgetIsKept, WithinBudget, PeakIsBounded, RoomIsFound, TypeOK
  <2> QED BY <2>1, <2>2, <2>3, <2>4, <2>5, <2>6, <2>7
<1>3. ASSUME NEW t \in Threads, Commit(t) PROVE ArenaInv'
  <2> USE <1>3 DEF Commit
  <2>1. Placed'
    BY NothingType DEF Placed, Threads, TypeOK
  <2>2. TypeOK'
    <3>1. /\ state' \in [Units -> {"reserved", "materializing", "resident"}]
          /\ dirty' \in [Units -> BOOLEAN] /\ delta' \in [Units -> BOOLEAN \cup {Nothing}]
          /\ canary' \in [Units -> BOOLEAN]
      BY DEF TypeOK
    <3>2. mem' \in [Units -> BOOLEAN \cup {Nothing, Blank}] /\ pins' \in [Units -> Nat]
      BY DEF TypeOK
    <3>3. lru' \in Seq(Units) /\ queue' \in Seq(Units) /\ Len(queue') =< QueueCap
      BY DEF TypeOK
    <3>4. committed' \in Nat /\ pending' \in Nat /\ budget' \in Nat
      BY DEF TypeOK
    <3>5. pc' \in [Threads -> Labels] /\ unit' \in [Threads -> Units \cup {NoUnit}]
      BY DEF TypeOK, Threads, Labels
    <3>6. /\ failed' \in {"no", "room", "commit", "taken"} /\ prefetching' \in BOOLEAN
          /\ stopping' \in BOOLEAN /\ writing' \in BOOLEAN /\ errors' \in BOOLEAN
          /\ spoiled' \in BOOLEAN
      BY DEF TypeOK
    <3> QED BY <3>1, <3>2, <3>3, <3>4, <3>5, <3>6 DEF TypeOK, Labels
  <2>3. Owned'
    BY NothingType DEF Owned, Filling, Using, Placed, Threads, TypeOK, Pinned
  <2>4. Pinned'
    BY DEF Pinned, Using, Placed, Threads, TypeOK
  <2>5. Kept' /\ ~errors'
    <3>1. ~errors' /\ \A u \in Units : Expected(u)' = Expected(u)
      BY DEF Expected, Threads, TypeOK, Using
    <3>2. pc["main"]' # "ended" => pc["main"] # "ended"
      BY DEF Threads, TypeOK
    <3>3. unit[t] \in Units /\ state[unit[t]] # "resident"
      BY DEF Owned, Filling, Placed, Threads
    <3> QED BY <3>1, <3>2, <3>3 DEF Kept, Rebuilt, TypeOK
  <2>6. CountsAreExact' /\ Heaped'
    BY DEF CountsAreExact, Heaped, Resident, Materializing, Listed
  <2>7. Granted' /\ BudgetIsKept'
    BY DEF Granted, BudgetIsKept, WithinBudget, PeakIsBounded, RoomIsFound, TypeOK
  <2> QED BY <2>1, <2>2, <2>3, <2>4, <2>5, <2>6, <2>7
<1>4. ASSUME NEW t \in Threads, Refuse(t) PROVE ArenaInv'
  <2> USE <1>4 DEF Refuse, Fail
  <2>b. /\ unit[t] \in Units /\ state[unit[t]] = "materializing"
        /\ pending' \in Nat /\ pending' = pending - 1 /\ committed \in Nat
    BY FillingIsPending DEF Filling, TypeOK
  <2>c. Resident' = Resident /\ Materializing' = Materializing \ {unit[t]}
    BY <2>b DEF Resident, Materializing, TypeOK
  <2>1. Placed'
    BY <2>b, <2>c, NothingType DEF Placed, Threads, TypeOK
  <2>2. TypeOK'
    <3>1. /\ state' \in [Units -> {"reserved", "materializing", "resident"}]
          /\ dirty' \in [Units -> BOOLEAN] /\ delta' \in [Units -> BOOLEAN \cup {Nothing}]
          /\ canary' \in [Units -> BOOLEAN]
      BY DEF TypeOK
    <3>2. mem' \in [Units -> BOOLEAN \cup {Nothing, Blank}] /\ pins' \in [Units -> Nat]
      BY DEF TypeOK
    <3>3. lru' \in Seq(Units) /\ queue' \in Seq(Units) /\ Len(queue') =< QueueCap
      BY DEF TypeOK
    <3>4. committed' \in Nat /\ pending' \in Nat /\ budget' \in Nat
      BY <2>b DEF TypeOK
    <3>5. pc' \in [Threads -> Labels] /\ unit' \in [Threads -> Units \cup {NoUnit}]
      BY DEF TypeOK, Threads, Labels
    <3>6. /\ failed' \in {"no", "room", "commit", "taken"} /\ prefetching' \in BOOLEAN
          /\ stopping' \in BOOLEAN /\ writing' \in BOOLEAN /\ errors' \in BOOLEAN
          /\ spoiled' \in BOOLEAN
      BY DEF TypeOK
    <3> QED BY <3>1, <3>2, <3>3, <3>4, <3>5, <3>6 DEF TypeOK, Labels
  <2>3. Owned'
    BY <2>b, <2>c, NothingType DEF Owned, Filling, Using, Placed, Threads, TypeOK, Pinned
  <2>4. Pinned'
    BY <2>b, <2>c DEF Pinned, Using, Placed, Threads, TypeOK
  <2>5. Kept' /\ ~errors'
    <3>1. ~errors' /\ \A u \in Units : Expected(u)' = Expected(u)
      BY DEF Expected, Threads, TypeOK, Using
    <3>2. pc["main"]' # "ended" => pc["main"] # "ended"
      BY DEF Threads, TypeOK
    <3>3. unit[t] \in Units /\ state[unit[t]] # "resident"
      BY DEF Owned, Filling, Placed, Threads
    <3> QED BY <3>1, <3>2, <3>3 DEF Kept, Rebuilt, TypeOK
  <2>6. CountsAreExact' /\ Heaped'
    BY <2>b, <2>c, FillingIsPending DEF CountsAreExact, Heaped, Listed, Filling
  <2>7. Granted' /\ BudgetIsKept'
    <3>1. failed' \in {failed, "commit"}
      OBVIOUS
    <3>2. committed' + pending' =< committed + pending /\ budget \in Nat /\ pending \in Nat
      BY <2>b DEF TypeOK
    <3>3. Granted' /\ RoomIsFound'
      BY <3>1 DEF Granted, BudgetIsKept, RoomIsFound
    <3>4. WithinBudget' /\ PeakIsBounded'
      BY <2>b, <3>2, BudgetAssumption DEF BudgetIsKept, WithinBudget, PeakIsBounded
    <3> QED BY <3>3, <3>4 DEF BudgetIsKept
  <2> QED BY <2>1, <2>2, <2>3, <2>4, <2>5, <2>6, <2>7
<1>5. ASSUME NEW t \in Threads, Fill(t) PROVE ArenaInv'
  <2> USE <1>5 DEF Fill
  <2>1. Placed'
    BY NothingType DEF Placed, Threads, TypeOK
  <2>2. TypeOK'
    <3>1. /\ state' \in [Units -> {"reserved", "materializing", "resident"}]
          /\ dirty' \in [Units -> BOOLEAN] /\ delta' \in [Units -> BOOLEAN \cup {Nothing}]
          /\ canary' \in [Units -> BOOLEAN]
      BY DEF TypeOK
    <3>2. mem' \in [Units -> BOOLEAN \cup {Nothing, Blank}] /\ pins' \in [Units -> Nat]
      BY DEF TypeOK
    <3>3. lru' \in Seq(Units) /\ queue' \in Seq(Units) /\ Len(queue') =< QueueCap
      BY DEF TypeOK
    <3>4. committed' \in Nat /\ pending' \in Nat /\ budget' \in Nat
      BY DEF TypeOK
    <3>5. pc' \in [Threads -> Labels] /\ unit' \in [Threads -> Units \cup {NoUnit}]
      BY DEF TypeOK, Threads, Labels
    <3>6. /\ failed' \in {"no", "room", "commit", "taken"} /\ prefetching' \in BOOLEAN
          /\ stopping' \in BOOLEAN /\ writing' \in BOOLEAN /\ errors' \in BOOLEAN
          /\ spoiled' \in BOOLEAN
      BY DEF TypeOK
    <3> QED BY <3>1, <3>2, <3>3, <3>4, <3>5, <3>6 DEF TypeOK, Labels
  <2>3. Owned'
    <3>1. unit[t] \in Units /\ mem'[unit[t]] = FALSE /\ \A u \in Units : u # unit[t] =>
       mem'[u] = mem[u]
      BY DEF Placed, TypeOK, Threads
    <3>2. \A s \in Threads \ {t} : Filling(s) => unit[s] # unit[t]
      BY DEF Owned, Filling, Threads
    <3>3. /\ \A s \in Threads : Filling(s)' <=> Filling(s)
          /\ \A s \in Threads \ {t} : pc[s]' = pc[s]
          /\ pc[t]' = "apply" /\ unit' = unit /\ state' = state
      BY DEF Filling, TypeOK
    <3>4. \A s \in Threads : Filling(s) => unit[s] \in Units
      BY FillingUnits
    <3>5. \A u \in Units : state'[u] = "materializing"
             <=> \E s \in Threads : Filling(s)' /\ unit'[s] = u
      BY <3>3 DEF Owned
    <3>6. Filling("main")' /\ Filling("worker")' => unit'["main"] # unit'["worker"]
      BY <3>3 DEF Owned, Threads
    <3>7. ASSUME NEW s \in Threads
          PROVE  /\ pc'[s] = "fill" => mem'[unit'[s]] = Blank
                 /\ pc'[s] = "apply" => mem'[unit'[s]] = FALSE
      <4>1. CASE s = t
        BY <3>1, <3>3, <4>1
      <4>2. CASE s # t
        <5>1. Filling(s) => mem'[unit[s]] = mem[unit[s]]
          BY <3>1, <3>2, <3>4, <4>2
        <5> QED BY <3>3, <4>2, <5>1 DEF Owned, Filling
      <4> QED BY <4>1, <4>2
    <3> QED BY <3>5, <3>6, <3>7 DEF Owned
  <2>4. Pinned'
    BY DEF Pinned, Using, Placed, Threads, TypeOK
  <2>5. Kept' /\ ~errors'
    <3>1. ~errors' /\ \A u \in Units : Expected(u)' = Expected(u)
      BY DEF Expected, Threads, TypeOK, Using
    <3>2. pc["main"]' # "ended" => pc["main"] # "ended"
      BY DEF Threads, TypeOK
    <3>3. unit[t] \in Units /\ state[unit[t]] # "resident"
      BY DEF Owned, Filling, Placed, Threads
    <3> QED BY <3>1, <3>2, <3>3 DEF Kept, Rebuilt, TypeOK
  <2>6. CountsAreExact' /\ Heaped'
    BY DEF CountsAreExact, Heaped, Resident, Materializing, Listed
  <2>7. Granted' /\ BudgetIsKept'
    BY DEF Granted, BudgetIsKept, WithinBudget, PeakIsBounded, RoomIsFound, TypeOK
  <2> QED BY <2>1, <2>2, <2>3, <2>4, <2>5, <2>6, <2>7
<1>6. ASSUME NEW t \in Threads, Apply(t) PROVE ArenaInv'
  <2> USE <1>6 DEF Apply, Succeed
  <2>a. /\ lru' \in Seq(Units)
        /\ Listed \cup {unit[t]} \subseteq Listed'
    <3>1. unit[t] \in Units /\ lru \in Seq(Units)
      BY DEF Placed, TypeOK, Threads
    <3>2. /\ Pushed(unit[t]) \in Seq(Units)
          /\ Listed \cup {unit[t]}
               \subseteq {Pushed(unit[t])[i] : i \in 1 .. Len(Pushed(unit[t]))}
      BY <3>1, PushedLists
    <3> QED BY <3>2 DEF Listed
  <2>b. /\ unit[t] \in Units /\ state[unit[t]] = "materializing"
        /\ pending' \in Nat /\ pending' = pending - 1 /\ committed' \in Nat
        /\ committed' + pending' = committed + pending
    <3>1. pc[t] = "apply"
      OBVIOUS
    <3>2. Filling(t)
      <4> HIDE DEF ArenaInv, Apply, Succeed
      <4> QED BY <3>1 DEF Filling
    <3>3. /\ unit[t] \in Units /\ state[unit[t]] = "materializing"
          /\ pending \in Nat /\ pending - 1 \in Nat
      <4> HIDE DEF ArenaInv, Apply, Succeed
      <4> QED BY <3>2, FillingIsPending
    <3> QED BY <3>3 DEF TypeOK
  <2>c. Resident' = Resident \cup {unit[t]} /\ Materializing' = Materializing \ {unit[t]}
    BY <2>b DEF Resident, Materializing, TypeOK
  <2>1. Placed'
    BY <2>a, <2>b, <2>c, NothingType DEF Placed, Threads, TypeOK
  <2>2. TypeOK'
    <3>1. /\ state' \in [Units -> {"reserved", "materializing", "resident"}]
          /\ dirty' \in [Units -> BOOLEAN] /\ delta' \in [Units -> BOOLEAN \cup {Nothing}]
          /\ canary' \in [Units -> BOOLEAN]
      BY DEF TypeOK
    <3>2. mem' \in [Units -> BOOLEAN \cup {Nothing, Blank}] /\ pins' \in [Units -> Nat]
      <4>1. Rebuilt(unit[t]) \in BOOLEAN
        BY <2>b DEF Rebuilt, TypeOK
      <4> QED BY <2>b, <4>1 DEF TypeOK
    <3>3. lru' \in Seq(Units) /\ queue' \in Seq(Units) /\ Len(queue') =< QueueCap
      BY <2>a DEF TypeOK
    <3>4. committed' \in Nat /\ pending' \in Nat /\ budget' \in Nat
      BY <2>b DEF TypeOK
    <3>5. pc' \in [Threads -> Labels] /\ unit' \in [Threads -> Units \cup {NoUnit}]
      BY DEF TypeOK, Threads, Labels
    <3>6. /\ failed' \in {"no", "room", "commit", "taken"} /\ prefetching' \in BOOLEAN
          /\ stopping' \in BOOLEAN /\ writing' \in BOOLEAN /\ errors' \in BOOLEAN
          /\ spoiled' \in BOOLEAN
      BY DEF TypeOK
    <3> QED BY <3>1, <3>2, <3>3, <3>4, <3>5, <3>6 DEF TypeOK, Labels
  <2>3. Owned'
    BY <2>a, <2>b, <2>c, NothingType DEF Owned, Filling, Using, Placed, Threads, TypeOK, Pinned
  <2>4. Pinned'
    BY <2>a, <2>b, <2>c DEF Pinned, Using, Placed, Threads, TypeOK
  <2>5. Kept' /\ ~errors'
    <3>1. ~errors' /\ \A u \in Units : Expected(u)' = Expected(u)
      BY DEF Expected, Threads, TypeOK, Using
    <3>2. pc["main"]' # "ended" => pc["main"] # "ended"
      BY DEF Threads, TypeOK
    <3>3. mem'[unit[t]] = Rebuilt(unit[t]) /\ \A u \in Units : u # unit[t] => mem'[u] = mem[u]
      BY <2>b DEF TypeOK
    <3>4. \A u \in Units : u # unit[t] => state'[u] = state[u]
      BY <2>b DEF TypeOK
    <3>5. \A u \in Units : Rebuilt(u)' = Rebuilt(u)
      BY DEF Rebuilt
    <3>6. state'[unit[t]] = "resident" /\ state[unit[t]] # "resident"
      BY <2>b DEF TypeOK
    <3> QED BY <2>b, <3>1, <3>2, <3>3, <3>4, <3>5, <3>6 DEF Kept
  <2>6. CountsAreExact' /\ Heaped'
    BY <2>a, <2>b, <2>c, FillingIsPending DEF CountsAreExact, Heaped, Filling
  <2>7. Granted' /\ BudgetIsKept'
    BY <2>a, <2>b, <2>c DEF Granted, BudgetIsKept, WithinBudget, PeakIsBounded, RoomIsFound,
       TypeOK
  <2> QED BY <2>1, <2>2, <2>3, <2>4, <2>5, <2>6, <2>7
<1>7. ASSUME Pin PROVE ArenaInv'
  <2> USE <1>7 DEF Pin, Fail
  <2>a. lru' \in Seq(Units) /\ Listed \subseteq Listed'
    <3>1. unit["main"] \in Units /\ lru \in Seq(Units)
      BY DEF Placed, TypeOK, Threads
    <3>2. \A u \in Units : /\ Pushed(u) \in Seq(Units)
                           /\ Listed \subseteq {Pushed(u)[i] : i \in 1 .. Len(Pushed(u))}
      BY <3>1, PushedLists
    <3>3. lru' = lru \/ lru' = Pushed(unit["main"])
      OBVIOUS
    <3> QED BY ONLY <3>1, <3>2, <3>3 DEF Listed
  <2>1. Placed'
    BY <2>a, NothingType DEF Placed, Threads, TypeOK
  <2>2. TypeOK'
    <3>1. /\ state' \in [Units -> {"reserved", "materializing", "resident"}]
          /\ dirty' \in [Units -> BOOLEAN] /\ delta' \in [Units -> BOOLEAN \cup {Nothing}]
          /\ canary' \in [Units -> BOOLEAN]
      BY DEF TypeOK
    <3>2. mem' \in [Units -> BOOLEAN \cup {Nothing, Blank}] /\ pins' \in [Units -> Nat]
      BY DEF TypeOK
    <3>3. lru' \in Seq(Units) /\ queue' \in Seq(Units) /\ Len(queue') =< QueueCap
      BY <2>a DEF TypeOK
    <3>4. committed' \in Nat /\ pending' \in Nat /\ budget' \in Nat
      BY DEF TypeOK
    <3>5. pc' \in [Threads -> Labels] /\ unit' \in [Threads -> Units \cup {NoUnit}]
      BY DEF TypeOK, Threads, Labels
    <3>6. /\ failed' \in {"no", "room", "commit", "taken"} /\ prefetching' \in BOOLEAN
          /\ stopping' \in BOOLEAN /\ writing' \in BOOLEAN /\ errors' \in BOOLEAN
          /\ spoiled' \in BOOLEAN
      BY DEF TypeOK
    <3> QED BY <3>1, <3>2, <3>3, <3>4, <3>5, <3>6 DEF TypeOK, Labels
  <2>3. Owned'
    BY <2>a, NothingType DEF Owned, Filling, Using, Placed, Threads, TypeOK, Pinned
  <2>4. Pinned'
    BY <2>a DEF Pinned, Using, Placed, Threads, TypeOK
  <2>5. Kept' /\ ~errors'
    BY <2>a, NothingType DEF Kept, Expected, Rebuilt, Pinned, Using, Owned, Filling, Placed,
       Threads, TypeOK
  <2>6. CountsAreExact' /\ Heaped'
    BY <2>a DEF CountsAreExact, Heaped, Resident, Materializing, Listed
  <2>7. Granted' /\ BudgetIsKept'
    BY <2>a DEF Granted, BudgetIsKept, WithinBudget, PeakIsBounded, RoomIsFound, TypeOK
  <2> QED BY <2>1, <2>2, <2>3, <2>4, <2>5, <2>6, <2>7
<1>8. ASSUME Check PROVE ArenaInv'
  <2> USE <1>8 DEF Check
  <2>1. Placed'
    BY NothingType DEF Placed, Threads, TypeOK
  <2>2. TypeOK'
    <3>1. /\ state' \in [Units -> {"reserved", "materializing", "resident"}]
          /\ dirty' \in [Units -> BOOLEAN] /\ delta' \in [Units -> BOOLEAN \cup {Nothing}]
          /\ canary' \in [Units -> BOOLEAN]
      BY DEF TypeOK
    <3>2. mem' \in [Units -> BOOLEAN \cup {Nothing, Blank}] /\ pins' \in [Units -> Nat]
      BY DEF TypeOK
    <3>3. lru' \in Seq(Units) /\ queue' \in Seq(Units) /\ Len(queue') =< QueueCap
      BY DEF TypeOK
    <3>4. committed' \in Nat /\ pending' \in Nat /\ budget' \in Nat
      BY DEF TypeOK
    <3>5. pc' \in [Threads -> Labels] /\ unit' \in [Threads -> Units \cup {NoUnit}]
      BY DEF TypeOK, Threads, Labels
    <3>6. /\ failed' \in {"no", "room", "commit", "taken"} /\ prefetching' \in BOOLEAN
          /\ stopping' \in BOOLEAN /\ writing' \in BOOLEAN /\ errors' \in BOOLEAN
          /\ spoiled' \in BOOLEAN
      BY DEF TypeOK
    <3> QED BY <3>1, <3>2, <3>3, <3>4, <3>5, <3>6 DEF TypeOK, Labels
  <2>3. Owned'
    BY NothingType DEF Owned, Filling, Using, Placed, Threads, TypeOK, Pinned
  <2>4. Pinned'
    BY DEF Pinned, Using, Placed, Threads, TypeOK
  <2>5. Kept' /\ ~errors'
    BY NothingType DEF Kept, Expected, Rebuilt, Pinned, Using, Owned, Filling, Placed,
       Threads, TypeOK
  <2>6. CountsAreExact' /\ Heaped'
    BY DEF CountsAreExact, Heaped, Resident, Materializing, Listed
  <2>7. Granted' /\ BudgetIsKept'
    BY DEF Granted, BudgetIsKept, WithinBudget, PeakIsBounded, RoomIsFound, TypeOK
  <2> QED BY <2>1, <2>2, <2>3, <2>4, <2>5, <2>6, <2>7
<1>9. ASSUME Mark PROVE ArenaInv'
  <2> USE <1>9 DEF Mark
  <2>1. Placed'
    BY NothingType DEF Placed, Threads, TypeOK
  <2>2. TypeOK'
    <3>1. /\ state' \in [Units -> {"reserved", "materializing", "resident"}]
          /\ dirty' \in [Units -> BOOLEAN] /\ delta' \in [Units -> BOOLEAN \cup {Nothing}]
          /\ canary' \in [Units -> BOOLEAN]
      BY DEF TypeOK
    <3>2. mem' \in [Units -> BOOLEAN \cup {Nothing, Blank}] /\ pins' \in [Units -> Nat]
      BY DEF TypeOK
    <3>3. lru' \in Seq(Units) /\ queue' \in Seq(Units) /\ Len(queue') =< QueueCap
      BY DEF TypeOK
    <3>4. committed' \in Nat /\ pending' \in Nat /\ budget' \in Nat
      BY DEF TypeOK
    <3>5. pc' \in [Threads -> Labels] /\ unit' \in [Threads -> Units \cup {NoUnit}]
      BY DEF TypeOK, Threads, Labels
    <3>6. /\ failed' \in {"no", "room", "commit", "taken"} /\ prefetching' \in BOOLEAN
          /\ stopping' \in BOOLEAN /\ writing' \in BOOLEAN /\ errors' \in BOOLEAN
          /\ spoiled' \in BOOLEAN
      BY DEF TypeOK
    <3> QED BY <3>1, <3>2, <3>3, <3>4, <3>5, <3>6 DEF TypeOK, Labels
  <2>3. Owned'
    BY NothingType DEF Owned, Filling, Using, Placed, Threads, TypeOK, Pinned
  <2>4. Pinned'
    BY DEF Pinned, Using, Placed, Threads, TypeOK
  <2>5. Kept' /\ ~errors'
    BY NothingType DEF Kept, Expected, Rebuilt, Pinned, Using, Owned, Filling, Placed,
       Threads, TypeOK
  <2>6. CountsAreExact' /\ Heaped'
    BY DEF CountsAreExact, Heaped, Resident, Materializing, Listed
  <2>7. Granted' /\ BudgetIsKept'
    BY DEF Granted, BudgetIsKept, WithinBudget, PeakIsBounded, RoomIsFound, TypeOK
  <2> QED BY <2>1, <2>2, <2>3, <2>4, <2>5, <2>6, <2>7
<1>10. ASSUME Write PROVE ArenaInv'
  <2> USE <1>10 DEF Write
  <2>1. Placed'
    BY NothingType DEF Placed, Threads, TypeOK
  <2>2. TypeOK'
    <3>1. /\ state' \in [Units -> {"reserved", "materializing", "resident"}]
          /\ dirty' \in [Units -> BOOLEAN] /\ delta' \in [Units -> BOOLEAN \cup {Nothing}]
          /\ canary' \in [Units -> BOOLEAN]
      BY DEF TypeOK
    <3>2. mem' \in [Units -> BOOLEAN \cup {Nothing, Blank}] /\ pins' \in [Units -> Nat]
      BY DEF TypeOK
    <3>3. lru' \in Seq(Units) /\ queue' \in Seq(Units) /\ Len(queue') =< QueueCap
      BY DEF TypeOK
    <3>4. committed' \in Nat /\ pending' \in Nat /\ budget' \in Nat
      BY DEF TypeOK
    <3>5. pc' \in [Threads -> Labels] /\ unit' \in [Threads -> Units \cup {NoUnit}]
      BY DEF TypeOK, Threads, Labels
    <3>6. /\ failed' \in {"no", "room", "commit", "taken"} /\ prefetching' \in BOOLEAN
          /\ stopping' \in BOOLEAN /\ writing' \in BOOLEAN /\ errors' \in BOOLEAN
          /\ spoiled' \in BOOLEAN
      BY DEF TypeOK
    <3> QED BY <3>1, <3>2, <3>3, <3>4, <3>5, <3>6 DEF TypeOK, Labels
  <2>3. Owned'
    BY NothingType DEF Owned, Filling, Using, Placed, Threads, TypeOK, Pinned
  <2>4. Pinned'
    BY DEF Pinned, Using, Placed, Threads, TypeOK
  <2>5. Kept' /\ ~errors'
    BY NothingType DEF Kept, Expected, Rebuilt, Pinned, Using, Owned, Filling, Placed,
       Threads, TypeOK
  <2>6. CountsAreExact' /\ Heaped'
    BY DEF CountsAreExact, Heaped, Resident, Materializing, Listed
  <2>7. Granted' /\ BudgetIsKept'
    BY DEF Granted, BudgetIsKept, WithinBudget, PeakIsBounded, RoomIsFound, TypeOK
  <2> QED BY <2>1, <2>2, <2>3, <2>4, <2>5, <2>6, <2>7
<1>11. ASSUME Unpin PROVE ArenaInv'
  <2> USE <1>11 DEF Unpin
  <2>1. Placed'
    BY NothingType DEF Placed, Threads, TypeOK
  <2>2. TypeOK'
    <3>1. /\ state' \in [Units -> {"reserved", "materializing", "resident"}]
          /\ dirty' \in [Units -> BOOLEAN] /\ delta' \in [Units -> BOOLEAN \cup {Nothing}]
          /\ canary' \in [Units -> BOOLEAN]
      BY DEF TypeOK
    <3>2. mem' \in [Units -> BOOLEAN \cup {Nothing, Blank}] /\ pins' \in [Units -> Nat]
      <4>1. unit["main"] \in Units /\ pins[unit["main"]] = 1
        BY DEF Pinned, Using, Placed, Threads
      <4> QED BY <4>1 DEF TypeOK
    <3>3. lru' \in Seq(Units) /\ queue' \in Seq(Units) /\ Len(queue') =< QueueCap
      BY DEF TypeOK
    <3>4. committed' \in Nat /\ pending' \in Nat /\ budget' \in Nat
      BY DEF TypeOK
    <3>5. pc' \in [Threads -> Labels] /\ unit' \in [Threads -> Units \cup {NoUnit}]
      BY DEF TypeOK, Threads, Labels
    <3>6. /\ failed' \in {"no", "room", "commit", "taken"} /\ prefetching' \in BOOLEAN
          /\ stopping' \in BOOLEAN /\ writing' \in BOOLEAN /\ errors' \in BOOLEAN
          /\ spoiled' \in BOOLEAN
      BY DEF TypeOK
    <3> QED BY <3>1, <3>2, <3>3, <3>4, <3>5, <3>6 DEF TypeOK, Labels
  <2>3. Owned'
    BY NothingType DEF Owned, Filling, Using, Placed, Threads, TypeOK, Pinned
  <2>4. Pinned'
    BY DEF Pinned, Using, Placed, Threads, TypeOK
  <2>5. Kept' /\ ~errors'
    <3>1. unit["main"] \in Units /\ canary' = [canary EXCEPT ![unit["main"]] = (@ # writing)]
      BY DEF Placed, Threads
    <3>2. \A u \in Units : canary[u] \in BOOLEAN /\ writing \in BOOLEAN
      BY DEF TypeOK
    <3>3. \A u \in Units : Expected(u)' = canary'[u]
      BY DEF Expected, TypeOK, Threads
    <3>4. ASSUME NEW u \in Units PROVE canary'[u] = Expected(u)
      BY <3>1, <3>2 DEF Expected, TypeOK
    <3>5. ~errors'
      OBVIOUS
    <3>6. \A u \in Units : Rebuilt(u)' = Rebuilt(u)
      BY DEF Rebuilt
    <3> QED BY <3>3, <3>4, <3>5, <3>6 DEF Kept
  <2>6. CountsAreExact' /\ Heaped'
    BY DEF CountsAreExact, Heaped, Resident, Materializing, Listed
  <2>7. Granted' /\ BudgetIsKept'
    BY DEF Granted, BudgetIsKept, WithinBudget, PeakIsBounded, RoomIsFound, TypeOK
  <2> QED BY <2>1, <2>2, <2>3, <2>4, <2>5, <2>6, <2>7
<1>12. ASSUME NEW u \in Units, Enqueue(u) PROVE ArenaInv'
  <2> USE <1>12 DEF Enqueue
  <2>1. Placed'
    BY NothingType DEF Placed, Threads, TypeOK
  <2>2. TypeOK'
    <3>1. /\ state' \in [Units -> {"reserved", "materializing", "resident"}]
          /\ dirty' \in [Units -> BOOLEAN] /\ delta' \in [Units -> BOOLEAN \cup {Nothing}]
          /\ canary' \in [Units -> BOOLEAN]
      BY DEF TypeOK
    <3>2. mem' \in [Units -> BOOLEAN \cup {Nothing, Blank}] /\ pins' \in [Units -> Nat]
      BY DEF TypeOK
    <3>3. lru' \in Seq(Units) /\ queue' \in Seq(Units) /\ Len(queue') =< QueueCap
      <4>1. /\ queue \in Seq(Units) /\ Len(queue) \in Nat /\ Len(queue) < QueueCap
            /\ queue' = Append(queue, u)
        BY DEF TypeOK
      <4>2. queue' \in Seq(Units) /\ Len(queue') = Len(queue) + 1
        BY <4>1, AppendProperties
      <4> QED BY <4>1, <4>2, QueueAssumption DEF TypeOK
    <3>4. committed' \in Nat /\ pending' \in Nat /\ budget' \in Nat
      BY DEF TypeOK
    <3>5. pc' \in [Threads -> Labels] /\ unit' \in [Threads -> Units \cup {NoUnit}]
      BY DEF TypeOK, Threads, Labels
    <3>6. /\ failed' \in {"no", "room", "commit", "taken"} /\ prefetching' \in BOOLEAN
          /\ stopping' \in BOOLEAN /\ writing' \in BOOLEAN /\ errors' \in BOOLEAN
          /\ spoiled' \in BOOLEAN
      BY DEF TypeOK
    <3> QED BY <3>1, <3>2, <3>3, <3>4, <3>5, <3>6 DEF TypeOK, Labels
  <2>3. Owned'
    BY NothingType DEF Owned, Filling, Using, Placed, Threads, TypeOK, Pinned
  <2>4. Pinned'
    BY DEF Pinned, Using, Placed, Threads, TypeOK
  <2>5. Kept' /\ ~errors'
    BY NothingType DEF Kept, Expected, Rebuilt, Pinned, Using, Owned, Filling, Placed,
       Threads, TypeOK
  <2>6. CountsAreExact' /\ Heaped'
    BY DEF CountsAreExact, Heaped, Resident, Materializing, Listed
  <2>7. Granted' /\ BudgetIsKept'
    BY DEF Granted, BudgetIsKept, WithinBudget, PeakIsBounded, RoomIsFound, TypeOK
  <2> QED BY <2>1, <2>2, <2>3, <2>4, <2>5, <2>6, <2>7
<1>13. ASSUME EndHints PROVE ArenaInv'
  <2> USE <1>13 DEF EndHints
  <2>1. Placed'
    BY NothingType DEF Placed, Threads, TypeOK
  <2>2. TypeOK'
    <3>1. /\ state' \in [Units -> {"reserved", "materializing", "resident"}]
          /\ dirty' \in [Units -> BOOLEAN] /\ delta' \in [Units -> BOOLEAN \cup {Nothing}]
          /\ canary' \in [Units -> BOOLEAN]
      BY DEF TypeOK
    <3>2. mem' \in [Units -> BOOLEAN \cup {Nothing, Blank}] /\ pins' \in [Units -> Nat]
      BY DEF TypeOK
    <3>3. lru' \in Seq(Units) /\ queue' \in Seq(Units) /\ Len(queue') =< QueueCap
      BY DEF TypeOK
    <3>4. committed' \in Nat /\ pending' \in Nat /\ budget' \in Nat
      BY DEF TypeOK
    <3>5. pc' \in [Threads -> Labels] /\ unit' \in [Threads -> Units \cup {NoUnit}]
      BY DEF TypeOK, Threads, Labels
    <3>6. /\ failed' \in {"no", "room", "commit", "taken"} /\ prefetching' \in BOOLEAN
          /\ stopping' \in BOOLEAN /\ writing' \in BOOLEAN /\ errors' \in BOOLEAN
          /\ spoiled' \in BOOLEAN
      BY DEF TypeOK
    <3> QED BY <3>1, <3>2, <3>3, <3>4, <3>5, <3>6 DEF TypeOK, Labels
  <2>3. Owned'
    BY NothingType DEF Owned, Filling, Using, Placed, Threads, TypeOK, Pinned
  <2>4. Pinned'
    BY DEF Pinned, Using, Placed, Threads, TypeOK
  <2>5. Kept' /\ ~errors'
    BY NothingType DEF Kept, Expected, Rebuilt, Pinned, Using, Owned, Filling, Placed,
       Threads, TypeOK
  <2>6. CountsAreExact' /\ Heaped'
    BY DEF CountsAreExact, Heaped, Resident, Materializing, Listed
  <2>7. Granted' /\ BudgetIsKept'
    BY DEF Granted, BudgetIsKept, WithinBudget, PeakIsBounded, RoomIsFound, TypeOK
  <2> QED BY <2>1, <2>2, <2>3, <2>4, <2>5, <2>6, <2>7
<1>14. ASSUME NEW danger \in BOOLEAN, Govern(danger) PROVE ArenaInv'
  <2> USE <1>14 DEF Govern
  <2>1. Placed'
    BY NothingType DEF Placed, Threads, TypeOK
  <2>2. TypeOK'
    <3>1. /\ state' \in [Units -> {"reserved", "materializing", "resident"}]
          /\ dirty' \in [Units -> BOOLEAN] /\ delta' \in [Units -> BOOLEAN \cup {Nothing}]
          /\ canary' \in [Units -> BOOLEAN]
      BY DEF TypeOK
    <3>2. mem' \in [Units -> BOOLEAN \cup {Nothing, Blank}] /\ pins' \in [Units -> Nat]
      BY DEF TypeOK
    <3>3. lru' \in Seq(Units) /\ queue' \in Seq(Units) /\ Len(queue') =< QueueCap
      BY DEF TypeOK
    <3>4. committed' \in Nat /\ pending' \in Nat /\ budget' \in Nat
      BY DEF TypeOK
    <3>5. pc' \in [Threads -> Labels] /\ unit' \in [Threads -> Units \cup {NoUnit}]
      BY DEF TypeOK, Threads, Labels
    <3>6. /\ failed' \in {"no", "room", "commit", "taken"} /\ prefetching' \in BOOLEAN
          /\ stopping' \in BOOLEAN /\ writing' \in BOOLEAN /\ errors' \in BOOLEAN
          /\ spoiled' \in BOOLEAN
      BY DEF TypeOK
    <3> QED BY <3>1, <3>2, <3>3, <3>4, <3>5, <3>6 DEF TypeOK, Labels
  <2>3. Owned'
    BY NothingType DEF Owned, Filling, Using, Placed, Threads, TypeOK, Pinned
  <2>4. Pinned'
    BY DEF Pinned, Using, Placed, Threads, TypeOK
  <2>5. Kept' /\ ~errors'
    BY NothingType DEF Kept, Expected, Rebuilt, Pinned, Using, Owned, Filling, Placed,
       Threads, TypeOK
  <2>6. CountsAreExact' /\ Heaped'
    BY DEF CountsAreExact, Heaped, Resident, Materializing, Listed
  <2>7. Granted' /\ BudgetIsKept'
    BY DEF Granted, BudgetIsKept, WithinBudget, PeakIsBounded, RoomIsFound, TypeOK
  <2> QED BY <2>1, <2>2, <2>3, <2>4, <2>5, <2>6, <2>7
<1>15. ASSUME Clear PROVE ArenaInv'
  <2> USE <1>15 DEF Clear
  <2>1. Placed'
    BY NothingType DEF Placed, Threads, TypeOK
  <2>2. TypeOK'
    <3>1. /\ state' \in [Units -> {"reserved", "materializing", "resident"}]
          /\ dirty' \in [Units -> BOOLEAN] /\ delta' \in [Units -> BOOLEAN \cup {Nothing}]
          /\ canary' \in [Units -> BOOLEAN]
      BY DEF TypeOK
    <3>2. mem' \in [Units -> BOOLEAN \cup {Nothing, Blank}] /\ pins' \in [Units -> Nat]
      BY DEF TypeOK
    <3>3. lru' \in Seq(Units) /\ queue' \in Seq(Units) /\ Len(queue') =< QueueCap
      BY EmptySeq, QueueAssumption DEF TypeOK
    <3>4. committed' \in Nat /\ pending' \in Nat /\ budget' \in Nat
      BY DEF TypeOK
    <3>5. pc' \in [Threads -> Labels] /\ unit' \in [Threads -> Units \cup {NoUnit}]
      BY DEF TypeOK, Threads, Labels
    <3>6. /\ failed' \in {"no", "room", "commit", "taken"} /\ prefetching' \in BOOLEAN
          /\ stopping' \in BOOLEAN /\ writing' \in BOOLEAN /\ errors' \in BOOLEAN
          /\ spoiled' \in BOOLEAN
      BY DEF TypeOK
    <3> QED BY <3>1, <3>2, <3>3, <3>4, <3>5, <3>6 DEF TypeOK, Labels
  <2>3. Owned'
    BY NothingType DEF Owned, Filling, Using, Placed, Threads, TypeOK, Pinned
  <2>4. Pinned'
    BY DEF Pinned, Using, Placed, Threads, TypeOK
  <2>5. Kept' /\ ~errors'
    BY NothingType DEF Kept, Expected, Rebuilt, Pinned, Using, Owned, Filling, Placed,
       Threads, TypeOK
  <2>6. CountsAreExact' /\ Heaped'
    BY DEF CountsAreExact, Heaped, Resident, Materializing, Listed
  <2>7. Granted' /\ BudgetIsKept'
    BY DEF Granted, BudgetIsKept, WithinBudget, PeakIsBounded, RoomIsFound, TypeOK
  <2> QED BY <2>1, <2>2, <2>3, <2>4, <2>5, <2>6, <2>7
<1>16. ASSUME Finish PROVE ArenaInv'
  <2> USE <1>16 DEF Finish
  <2>1. Placed'
    BY NothingType DEF Placed, Threads, TypeOK
  <2>2. TypeOK'
    <3>1. /\ state' \in [Units -> {"reserved", "materializing", "resident"}]
          /\ dirty' \in [Units -> BOOLEAN] /\ delta' \in [Units -> BOOLEAN \cup {Nothing}]
          /\ canary' \in [Units -> BOOLEAN]
      BY DEF TypeOK
    <3>2. mem' \in [Units -> BOOLEAN \cup {Nothing, Blank}] /\ pins' \in [Units -> Nat]
      BY DEF TypeOK
    <3>3. lru' \in Seq(Units) /\ queue' \in Seq(Units) /\ Len(queue') =< QueueCap
      BY DEF TypeOK
    <3>4. committed' \in Nat /\ pending' \in Nat /\ budget' \in Nat
      BY DEF TypeOK
    <3>5. pc' \in [Threads -> Labels] /\ unit' \in [Threads -> Units \cup {NoUnit}]
      BY DEF TypeOK, Threads, Labels
    <3>6. /\ failed' \in {"no", "room", "commit", "taken"} /\ prefetching' \in BOOLEAN
          /\ stopping' \in BOOLEAN /\ writing' \in BOOLEAN /\ errors' \in BOOLEAN
          /\ spoiled' \in BOOLEAN
      BY DEF TypeOK
    <3> QED BY <3>1, <3>2, <3>3, <3>4, <3>5, <3>6 DEF TypeOK, Labels
  <2>3. Owned'
    BY NothingType DEF Owned, Filling, Using, Placed, Threads, TypeOK, Pinned
  <2>4. Pinned'
    BY DEF Pinned, Using, Placed, Threads, TypeOK
  <2>5. Kept' /\ ~errors'
    BY NothingType DEF Kept, Expected, Rebuilt, Pinned, Using, Owned, Filling, Placed,
       Threads, TypeOK
  <2>6. CountsAreExact' /\ Heaped'
    BY DEF CountsAreExact, Heaped, Resident, Materializing, Listed
  <2>7. Granted' /\ BudgetIsKept'
    BY DEF Granted, BudgetIsKept, WithinBudget, PeakIsBounded, RoomIsFound, TypeOK
  <2> QED BY <2>1, <2>2, <2>3, <2>4, <2>5, <2>6, <2>7
<1>17. ASSUME Stop PROVE ArenaInv'
  <2> USE <1>17 DEF Stop
  <2>1. Placed'
    BY NothingType DEF Placed, Threads, TypeOK
  <2>2. TypeOK'
    <3>1. /\ state' \in [Units -> {"reserved", "materializing", "resident"}]
          /\ dirty' \in [Units -> BOOLEAN] /\ delta' \in [Units -> BOOLEAN \cup {Nothing}]
          /\ canary' \in [Units -> BOOLEAN]
      BY DEF TypeOK
    <3>2. mem' \in [Units -> BOOLEAN \cup {Nothing, Blank}] /\ pins' \in [Units -> Nat]
      BY DEF TypeOK
    <3>3. lru' \in Seq(Units) /\ queue' \in Seq(Units) /\ Len(queue') =< QueueCap
      BY DEF TypeOK
    <3>4. committed' \in Nat /\ pending' \in Nat /\ budget' \in Nat
      BY DEF TypeOK
    <3>5. pc' \in [Threads -> Labels] /\ unit' \in [Threads -> Units \cup {NoUnit}]
      BY DEF TypeOK, Threads, Labels
    <3>6. /\ failed' \in {"no", "room", "commit", "taken"} /\ prefetching' \in BOOLEAN
          /\ stopping' \in BOOLEAN /\ writing' \in BOOLEAN /\ errors' \in BOOLEAN
          /\ spoiled' \in BOOLEAN
      BY DEF TypeOK
    <3> QED BY <3>1, <3>2, <3>3, <3>4, <3>5, <3>6 DEF TypeOK, Labels
  <2>3. Owned'
    BY NothingType DEF Owned, Filling, Using, Placed, Threads, TypeOK, Pinned
  <2>4. Pinned'
    BY DEF Pinned, Using, Placed, Threads, TypeOK
  <2>5. Kept' /\ ~errors'
    BY NothingType DEF Kept, Expected, Rebuilt, Pinned, Using, Owned, Filling, Placed,
       Threads, TypeOK
  <2>6. CountsAreExact' /\ Heaped'
    BY DEF CountsAreExact, Heaped, Resident, Materializing, Listed
  <2>7. Granted' /\ BudgetIsKept'
    BY DEF Granted, BudgetIsKept, WithinBudget, PeakIsBounded, RoomIsFound, TypeOK
  <2> QED BY <2>1, <2>2, <2>3, <2>4, <2>5, <2>6, <2>7
<1>18. ASSUME Release PROVE ArenaInv'
  <2> USE <1>18 DEF Release
  <2>1. Placed'
    BY NothingType DEF Placed, Threads, TypeOK
  <2>2. TypeOK'
    <3>1. /\ state' \in [Units -> {"reserved", "materializing", "resident"}]
          /\ dirty' \in [Units -> BOOLEAN] /\ delta' \in [Units -> BOOLEAN \cup {Nothing}]
          /\ canary' \in [Units -> BOOLEAN]
      BY DEF TypeOK
    <3>2. mem' \in [Units -> BOOLEAN \cup {Nothing, Blank}] /\ pins' \in [Units -> Nat]
      BY DEF TypeOK
    <3>3. lru' \in Seq(Units) /\ queue' \in Seq(Units) /\ Len(queue') =< QueueCap
      BY DEF TypeOK
    <3>4. committed' \in Nat /\ pending' \in Nat /\ budget' \in Nat
      BY DEF TypeOK
    <3>5. pc' \in [Threads -> Labels] /\ unit' \in [Threads -> Units \cup {NoUnit}]
      BY DEF TypeOK, Threads, Labels
    <3>6. /\ failed' \in {"no", "room", "commit", "taken"} /\ prefetching' \in BOOLEAN
          /\ stopping' \in BOOLEAN /\ writing' \in BOOLEAN /\ errors' \in BOOLEAN
          /\ spoiled' \in BOOLEAN
      BY DEF TypeOK
    <3> QED BY <3>1, <3>2, <3>3, <3>4, <3>5, <3>6 DEF TypeOK, Labels
  <2>3. Owned'
    BY NothingType DEF Owned, Filling, Using, Placed, Threads, TypeOK, Pinned
  <2>4. Pinned'
    BY DEF Pinned, Using, Placed, Threads, TypeOK
  <2>5. Kept' /\ ~errors'
    BY NothingType DEF Kept, Expected, Rebuilt, Pinned, Using, Owned, Filling, Placed,
       Threads, TypeOK
  <2>6. CountsAreExact' /\ Heaped'
    BY DEF CountsAreExact, Heaped, Resident, Materializing, Listed
  <2>7. Granted' /\ BudgetIsKept'
    BY DEF Granted, BudgetIsKept, WithinBudget, PeakIsBounded, RoomIsFound, TypeOK
  <2> QED BY <2>1, <2>2, <2>3, <2>4, <2>5, <2>6, <2>7
<1>19. ASSUME Take PROVE ArenaInv'
  <2> USE <1>19 DEF Take
  <2>1. Placed'
    BY NothingType DEF Placed, Threads, TypeOK
  <2>2. TypeOK'
    <3>1. /\ state' \in [Units -> {"reserved", "materializing", "resident"}]
          /\ dirty' \in [Units -> BOOLEAN] /\ delta' \in [Units -> BOOLEAN \cup {Nothing}]
          /\ canary' \in [Units -> BOOLEAN]
      BY DEF TypeOK
    <3>2. mem' \in [Units -> BOOLEAN \cup {Nothing, Blank}] /\ pins' \in [Units -> Nat]
      BY DEF TypeOK
    <3>3. lru' \in Seq(Units) /\ queue' \in Seq(Units) /\ Len(queue') =< QueueCap
      <4>1. queue \in Seq(Units) /\ Len(queue) =< QueueCap /\ queue # <<>> /\ queue' =
         Tail(queue)
        BY DEF TypeOK
      <4>2. queue' \in Seq(Units) /\ Len(queue') = Len(queue) - 1 /\ Len(queue) \in Nat
        BY <4>1, HeadTailProperties
      <4> QED BY <4>1, <4>2, QueueAssumption DEF TypeOK
    <3>4. committed' \in Nat /\ pending' \in Nat /\ budget' \in Nat
      BY DEF TypeOK
    <3>5. pc' \in [Threads -> Labels] /\ unit' \in [Threads -> Units \cup {NoUnit}]
      BY DEF TypeOK, Threads, Labels
    <3>6. /\ failed' \in {"no", "room", "commit", "taken"} /\ prefetching' \in BOOLEAN
          /\ stopping' \in BOOLEAN /\ writing' \in BOOLEAN /\ errors' \in BOOLEAN
          /\ spoiled' \in BOOLEAN
      BY DEF TypeOK
    <3> QED BY <3>1, <3>2, <3>3, <3>4, <3>5, <3>6 DEF TypeOK, Labels
  <2>3. Owned'
    BY NothingType DEF Owned, Filling, Using, Placed, Threads, TypeOK, Pinned
  <2>4. Pinned'
    BY DEF Pinned, Using, Placed, Threads, TypeOK
  <2>5. Kept' /\ ~errors'
    <3>1. ~errors' /\ pc'["main"] = pc["main"] /\ unit'["main"] = unit["main"]
      BY DEF TypeOK, Threads
    <3>2. \A u \in Units : Expected(u)' = Expected(u) /\ Rebuilt(u)' = Rebuilt(u)
      BY <3>1 DEF Expected, Rebuilt
    <3> QED BY <3>1, <3>2 DEF Kept
  <2>6. CountsAreExact' /\ Heaped'
    BY DEF CountsAreExact, Heaped, Resident, Materializing, Listed
  <2>7. Granted' /\ BudgetIsKept'
    BY DEF Granted, BudgetIsKept, WithinBudget, PeakIsBounded, RoomIsFound, TypeOK
  <2> QED BY <2>1, <2>2, <2>3, <2>4, <2>5, <2>6, <2>7
<1>20. ASSUME Leave PROVE ArenaInv'
  <2> USE <1>20 DEF Leave
  <2>1. Placed'
    BY NothingType DEF Placed, Threads, TypeOK
  <2>2. TypeOK'
    <3>1. /\ state' \in [Units -> {"reserved", "materializing", "resident"}]
          /\ dirty' \in [Units -> BOOLEAN] /\ delta' \in [Units -> BOOLEAN \cup {Nothing}]
          /\ canary' \in [Units -> BOOLEAN]
      BY DEF TypeOK
    <3>2. mem' \in [Units -> BOOLEAN \cup {Nothing, Blank}] /\ pins' \in [Units -> Nat]
      BY DEF TypeOK
    <3>3. lru' \in Seq(Units) /\ queue' \in Seq(Units) /\ Len(queue') =< QueueCap
      BY DEF TypeOK
    <3>4. committed' \in Nat /\ pending' \in Nat /\ budget' \in Nat
      BY DEF TypeOK
    <3>5. pc' \in [Threads -> Labels] /\ unit' \in [Threads -> Units \cup {NoUnit}]
      BY DEF TypeOK, Threads, Labels
    <3>6. /\ failed' \in {"no", "room", "commit", "taken"} /\ prefetching' \in BOOLEAN
          /\ stopping' \in BOOLEAN /\ writing' \in BOOLEAN /\ errors' \in BOOLEAN
          /\ spoiled' \in BOOLEAN
      BY DEF TypeOK
    <3> QED BY <3>1, <3>2, <3>3, <3>4, <3>5, <3>6 DEF TypeOK, Labels
  <2>3. Owned'
    BY NothingType DEF Owned, Filling, Using, Placed, Threads, TypeOK, Pinned
  <2>4. Pinned'
    BY DEF Pinned, Using, Placed, Threads, TypeOK
  <2>5. Kept' /\ ~errors'
    BY NothingType DEF Kept, Expected, Rebuilt, Pinned, Using, Owned, Filling, Placed,
       Threads, TypeOK
  <2>6. CountsAreExact' /\ Heaped'
    BY DEF CountsAreExact, Heaped, Resident, Materializing, Listed
  <2>7. Granted' /\ BudgetIsKept'
    BY DEF Granted, BudgetIsKept, WithinBudget, PeakIsBounded, RoomIsFound, TypeOK
  <2> QED BY <2>1, <2>2, <2>3, <2>4, <2>5, <2>6, <2>7
<1>21. ASSUME UNCHANGED vars PROVE ArenaInv'
  <2> USE <1>21 DEF vars
  <2>1. Placed'
    BY NothingType DEF Placed, Threads, TypeOK
  <2>2. TypeOK'
    <3>1. /\ state' \in [Units -> {"reserved", "materializing", "resident"}]
          /\ dirty' \in [Units -> BOOLEAN] /\ delta' \in [Units -> BOOLEAN \cup {Nothing}]
          /\ canary' \in [Units -> BOOLEAN]
      BY DEF TypeOK
    <3>2. mem' \in [Units -> BOOLEAN \cup {Nothing, Blank}] /\ pins' \in [Units -> Nat]
      BY DEF TypeOK
    <3>3. lru' \in Seq(Units) /\ queue' \in Seq(Units) /\ Len(queue') =< QueueCap
      BY DEF TypeOK
    <3>4. committed' \in Nat /\ pending' \in Nat /\ budget' \in Nat
      BY DEF TypeOK
    <3>5. pc' \in [Threads -> Labels] /\ unit' \in [Threads -> Units \cup {NoUnit}]
      BY DEF TypeOK, Threads, Labels
    <3>6. /\ failed' \in {"no", "room", "commit", "taken"} /\ prefetching' \in BOOLEAN
          /\ stopping' \in BOOLEAN /\ writing' \in BOOLEAN /\ errors' \in BOOLEAN
          /\ spoiled' \in BOOLEAN
      BY DEF TypeOK
    <3> QED BY <3>1, <3>2, <3>3, <3>4, <3>5, <3>6 DEF TypeOK, Labels
  <2>3. Owned'
    BY NothingType DEF Owned, Filling, Using, Placed, Threads, TypeOK, Pinned
  <2>4. Pinned'
    BY DEF Pinned, Using, Placed, Threads, TypeOK
  <2>5. Kept' /\ ~errors'
    BY NothingType DEF Kept, Expected, Rebuilt, Pinned, Using, Owned, Filling, Placed,
       Threads, TypeOK
  <2>6. CountsAreExact' /\ Heaped'
    BY DEF CountsAreExact, Heaped, Resident, Materializing, Listed
  <2>7. Granted' /\ BudgetIsKept'
    BY DEF Granted, BudgetIsKept, WithinBudget, PeakIsBounded, RoomIsFound, TypeOK
  <2> QED BY <2>1, <2>2, <2>3, <2>4, <2>5, <2>6, <2>7
<1>22. ASSUME NEW t \in Threads, Admit(t) PROVE ArenaInv'
  <2>1. PICK n \in 0 .. Len(lru), victims \in SUBSET Evictable(unit[t]) :
           /\ Sweep(1, budget, unit[t], n, victims)
           /\ Evict(unit[t], n, victims)
           /\ IF Room(1, budget, victims)
              THEN /\ state' = [StateWithout(victims) EXCEPT ![unit[t]] = "materializing"]
                   /\ pending' = pending + 1
                   /\ Go(t, "commit") /\ UNCHANGED <<unit, failed>>
              ELSE /\ state' = StateWithout(victims)
                   /\ Fail(t, "room") /\ UNCHANGED pending
    BY <1>22 DEF Admit
  <2>2. /\ pc[t] = "ensure" /\ state[unit[t]] = "reserved"
        /\ UNCHANGED <<dirty, pins, budget, queue, prefetching, stopping, writing, canary,
           errors>>
    BY <1>22 DEF Admit
  <2>3. unit[t] \in Units /\ pc["main"] # "ended"
    BY <2>2 DEF Placed, Threads
  <2>4. /\ victims \subseteq Resident /\ \A u \in victims : pins[u] = 0
        /\ IsFiniteSet(victims) /\ Cardinality(victims) \in Nat
        /\ committed' \in Nat /\ committed' = committed - Cardinality(victims)
        /\ committed' = Cardinality(Resident \ victims)
        /\ lru' \in Seq(Units)
        /\ Listed \ Popped(n) \subseteq Listed'
        /\ mem' \in [Units -> BOOLEAN \cup {Nothing, Blank}]
        /\ \A u \in Units \ victims : mem'[u] = mem[u]
        /\ delta' \in [Units -> BOOLEAN \cup {Nothing}]
        /\ \A u \in Units :
              (IF u \in Resident \ victims THEN mem'[u]
               ELSE IF dirty[u] /\ delta'[u] # Nothing THEN delta'[u] ELSE FALSE) = Expected(u)
        /\ spoiled' = (spoiled \/ Popped(n) # victims)
    BY <2>1, <2>3, EvictFacts
  <2>5. /\ Room(1, budget, victims) =>
              committed - Cardinality(victims) + pending + 1 =< budget
        /\ ~Room(1, budget, victims) /\ Popped(n) = victims =>
              /\ Listed \cap Evictable(unit[t]) \subseteq victims
              /\ Cardinality(victims) < committed + pending + 1 - budget
    <3>1. budget \in Nat
      BY DEF TypeOK
    <3> QED BY <2>1, <2>4, <3>1, SweepRoom
  <2>6. /\ unit[t] \notin victims
        /\ \A v \in Units : v # unit[t] =>
              state'[v] = IF v \in victims THEN "reserved" ELSE state[v]
        /\ state'[unit[t]] = IF Room(1, budget, victims) THEN "materializing" ELSE "reserved"
        /\ state' \in [Units -> {"reserved", "materializing", "resident"}]
    <3>1. unit[t] \notin victims
      BY <2>2, <2>4 DEF Resident
    <3> QED BY <2>1, <2>2, <2>3, <3>1 DEF StateWithout, TypeOK
  <2>7. /\ Resident' = Resident \ victims
        /\ Room(1, budget, victims) => Materializing' = Materializing \cup {unit[t]}
        /\ ~Room(1, budget, victims) => Materializing' = Materializing
        /\ unit[t] \notin Materializing
    BY <2>2, <2>3, <2>4, <2>6 DEF Resident, Materializing
  <2>8. /\ pc' = [pc EXCEPT ![t] = IF Room(1, budget, victims) THEN "commit"
                                   ELSE IF t = "main" THEN "stop" ELSE "wait"]
        /\ unit' = IF Room(1, budget, victims) THEN unit ELSE [unit EXCEPT ![t] = NoUnit]
        /\ failed' = IF Room(1, budget, victims) \/ t # "main" THEN failed ELSE "room"
        /\ pending' = IF Room(1, budget, victims) THEN pending + 1 ELSE pending
    BY <2>1 DEF Fail
  <2>9. Placed'
    BY <2>2, <2>3, <2>8 DEF Placed, Threads, TypeOK
  <2>10. TypeOK'
    <3>1. pc' \in [Threads -> Labels] /\ unit' \in [Threads -> Units \cup {NoUnit}]
      BY <2>8 DEF TypeOK, Threads, Labels
    <3>2. /\ failed' \in {"no", "room", "commit", "taken"} /\ pending' \in Nat
          /\ spoiled' \in BOOLEAN
      BY <2>4, <2>8 DEF TypeOK
    <3> QED BY <2>2, <2>4, <2>6, <3>1, <3>2 DEF TypeOK, Labels
  <2>11. Owned'
    <3>1. /\ \A s \in Threads \ {t} : pc'[s] = pc[s] /\ unit'[s] = unit[s]
          /\ ~Filling(t) /\ pc'[t] \notin {"fill", "apply"}
          /\ Filling(t)' <=> Room(1, budget, victims)
          /\ Room(1, budget, victims) => unit'[t] = unit[t]
      BY <2>2, <2>8 DEF Filling, TypeOK, Threads
    <3>2. ASSUME NEW s \in Threads, Filling(s)
          PROVE  unit[s] \in Units \ victims /\ unit[s] # unit[t] /\ mem'[unit[s]] =
             mem[unit[s]]
      BY <2>2, <2>4, <3>2, FillingIsPending DEF Resident
    <3>3. ASSUME NEW v \in Units
          PROVE  state'[v] = "materializing" <=>
                    state[v] = "materializing" \/ (Room(1, budget, victims) /\ v = unit[t])
      <4>1. CASE Room(1, budget, victims)
        <5>1. v \in Materializing' <=> v \in Materializing \/ v = unit[t]
          BY <2>7, <4>1
        <5> QED BY <4>1, <5>1 DEF Materializing
      <4>2. CASE ~Room(1, budget, victims)
        <5>1. v \in Materializing' <=> v \in Materializing
          BY <2>7, <4>2
        <5> QED BY <4>2, <5>1 DEF Materializing
      <4> QED BY <4>1, <4>2
    <3>4. \A s \in Threads \ {t} : Filling(s)' <=> Filling(s)
      BY <3>1 DEF Filling
    <3>5. ASSUME NEW v \in Units
          PROVE  state'[v] = "materializing" <=> \E s \in Threads : Filling(s)' /\ unit'[s] = v
      <4>1. state[v] = "materializing" <=> \E s \in Threads \ {t} : Filling(s) /\ unit[s] = v
        BY <3>1 DEF Owned
      <4>2. (\E s \in Threads \ {t} : Filling(s) /\ unit[s] = v)
              <=> \E s \in Threads \ {t} : Filling(s)' /\ unit'[s] = v
        BY <3>1, <3>4
      <4>3. Filling(t)' /\ unit'[t] = v <=> Room(1, budget, victims) /\ v = unit[t]
        BY <3>1
      <4>4. (\E s \in Threads : Filling(s)' /\ unit'[s] = v)
              <=> \/ \E s \in Threads \ {t} : Filling(s)' /\ unit'[s] = v
                  \/ Filling(t)' /\ unit'[t] = v
        BY DEF Filling
      <4> QED BY <3>3, <4>1, <4>2, <4>3, <4>4
    <3>6. Filling("main")' /\ Filling("worker")' => unit'["main"] # unit'["worker"]
      BY <3>1, <3>2, <3>4 DEF Threads
    <3>7. \A s \in Threads : /\ pc'[s] = "fill" => mem'[unit'[s]] = Blank
                             /\ pc'[s] = "apply" => mem'[unit'[s]] = FALSE
      BY <3>1, <3>2 DEF Owned, Filling
    <3> QED BY <3>5, <3>6, <3>7 DEF Owned
  <2>12. Pinned'
    <3>1. /\ Using' <=> Using
          /\ Using => unit'["main"] = unit["main"]
      BY <2>2, <2>8 DEF Using, TypeOK, Threads
    <3>2. Using => unit["main"] \in Units \ victims /\ unit["main"] # unit[t]
      BY <2>2, <2>4 DEF Pinned, Using, Placed, Threads
    <3> QED BY <2>2, <2>3, <2>6, <3>1, <3>2 DEF Pinned
  <2>13. Kept' /\ ~errors'
    <3>1. \A v \in Units : Expected(v)' = Expected(v)
      BY <2>2, <2>8 DEF Expected, TypeOK, Threads
    <3>2. ASSUME NEW v \in Units PROVE state'[v] = "resident" <=> v \in Resident \ victims
      <4>1. v \in Resident' <=> v \in Resident \ victims
        BY <2>7
      <4> QED BY <4>1 DEF Resident
    <3>3. ASSUME NEW v \in Units
          PROVE  (IF state'[v] = "resident" THEN mem'[v] ELSE Rebuilt(v)') = Expected(v)'
      BY <2>2, <2>4, <3>1, <3>2 DEF Rebuilt
    <3>4. \A v \in Units : ~dirty'[v] => Expected(v)' = FALSE
      BY <2>2, <2>3, <3>1 DEF Kept
    <3> QED BY <2>2, <3>3, <3>4 DEF Kept
  <2>14. CountsAreExact'
    <3>1. Room(1, budget, victims) => Cardinality(Materializing \cup {unit[t]}) = pending + 1
      BY <2>7, ResidentIsFinite, FS_AddElement DEF CountsAreExact
    <3> QED BY <2>4, <2>7, <2>8, <3>1 DEF CountsAreExact
  <2>15. Heaped'
    BY <2>4, <2>7 DEF Heaped
  <2>16. Granted' /\ WithinBudget' /\ PeakIsBounded'
    BY <2>2, <2>4, <2>5, <2>8, BudgetAssumption
    DEF Granted, BudgetIsKept, WithinBudget, PeakIsBounded, TypeOK
  <2>17. RoomIsFound'
    <3> SUFFICES ASSUME t = "main", ~Room(1, budget, victims), ~spoiled' PROVE FALSE
      BY <2>4, <2>8 DEF BudgetIsKept, RoomIsFound
    <3>1. ~spoiled /\ Popped(n) = victims
      BY <2>4
    <3>2. Resident \subseteq Evictable(unit[t])
      BY <2>2, <2>3 DEF Pinned, Using, Resident, Evictable
    <3>3. Resident \subseteq victims
      BY <2>5, <3>1, <3>2 DEF Heaped
    <3>4. Cardinality(victims) = committed
      BY <2>4, <3>3 DEF CountsAreExact
    <3>6. pending =< 1
      BY <2>2, OneFilling
    <3> QED BY <2>5, <3>1, <3>4, <3>6, BudgetAssumption DEF Granted, TypeOK, Floor
  <2> QED BY <2>9, <2>10, <2>11, <2>12, <2>13, <2>14, <2>15, <2>16, <2>17 DEF BudgetIsKept
<1>23. ASSUME SetBudget PROVE ArenaInv'
  <2>1. PICK target \in MinBudget .. MaxBudget :
           /\ budget' = Grant(target)
           /\ \E n \in 0 .. Len(lru), victims \in SUBSET Evictable(NoUnit) :
                /\ Sweep(0, Grant(target), NoUnit, n, victims)
                /\ Evict(NoUnit, n, victims)
                /\ state' = StateWithout(victims)
    BY <1>23, BudgetAssumption DEF SetBudget
  <2>2. PICK n \in 0 .. Len(lru), victims \in SUBSET Evictable(NoUnit) :
           /\ Sweep(0, Grant(target), NoUnit, n, victims)
           /\ Evict(NoUnit, n, victims)
           /\ state' = StateWithout(victims)
    BY <2>1
  <2>3. /\ pc["main"] = "budget" /\ pc' = [pc EXCEPT !["main"] = "loop"]
        /\ UNCHANGED <<dirty, pins, pending, queue, prefetching, stopping, unit, writing,
           canary,
                       errors, failed>>
    BY <1>23 DEF SetBudget
  <2>4. Grant(target) \in Nat /\ Floor =< Grant(target) /\ Grant(target) =< MaxBudget
    BY BudgetAssumption DEF Grant, Floor
  <2>5. /\ victims \subseteq Resident /\ \A u \in victims : pins[u] = 0
        /\ IsFiniteSet(victims) /\ Cardinality(victims) \in Nat
        /\ committed' \in Nat /\ committed' = committed - Cardinality(victims)
        /\ committed' = Cardinality(Resident \ victims)
        /\ lru' \in Seq(Units)
        /\ Listed \ Popped(n) \subseteq Listed'
        /\ mem' \in [Units -> BOOLEAN \cup {Nothing, Blank}]
        /\ \A u \in Units \ victims : mem'[u] = mem[u]
        /\ delta' \in [Units -> BOOLEAN \cup {Nothing}]
        /\ \A u \in Units :
              (IF u \in Resident \ victims THEN mem'[u]
               ELSE IF dirty[u] /\ delta'[u] # Nothing THEN delta'[u] ELSE FALSE) = Expected(u)
        /\ spoiled' = (spoiled \/ Popped(n) # victims)
    BY <2>2, <2>3, EvictFacts
  <2>6. /\ Room(0, Grant(target), victims) =>
              committed - Cardinality(victims) + pending + 0 =< Grant(target)
        /\ ~Room(0, Grant(target), victims) /\ Popped(n) = victims =>
              /\ Listed \cap Evictable(NoUnit) \subseteq victims
              /\ Cardinality(victims) < committed + pending + 0 - Grant(target)
    BY <2>2, <2>4, <2>5, SweepRoom
  <2>7. /\ \A v \in Units : state'[v] = IF v \in victims THEN "reserved" ELSE state[v]
        /\ state' \in [Units -> {"reserved", "materializing", "resident"}]
    BY <2>2 DEF StateWithout, TypeOK
  <2>8. Resident' = Resident \ victims /\ Materializing' = Materializing
    BY <2>5, <2>7 DEF Resident, Materializing
  <2>9. Placed' /\ ~errors'
    BY <2>3 DEF Placed, Threads, TypeOK
  <2>10. TypeOK'
    <3>1. pc' \in [Threads -> Labels]
      BY <2>3 DEF TypeOK, Threads, Labels
    <3>2. budget' \in Nat /\ spoiled' \in BOOLEAN
      BY <2>1, <2>4, <2>5 DEF TypeOK
    <3> QED BY <2>3, <2>5, <2>7, <3>1, <3>2 DEF TypeOK, Labels
  <2>11. Owned'
    <3>1. \A s \in Threads : /\ Filling(s)' <=> Filling(s)
                             /\ pc'[s] \in {"fill", "apply"} => pc'[s] = pc[s]
      BY <2>3 DEF Filling, TypeOK, Threads
    <3>2. ASSUME NEW s \in Threads, Filling(s)
          PROVE  unit[s] \in Units \ victims /\ mem'[unit[s]] = mem[unit[s]]
      BY <2>5, <3>2, FillingIsPending DEF Resident
    <3>3. \A v \in Units : state'[v] = "materializing" <=> state[v] = "materializing"
      BY <2>5, <2>7 DEF Resident
    <3>4. ASSUME NEW s \in Threads, pc'[s] \in {"fill", "apply"}
          PROVE  pc'[s] = pc[s] /\ mem'[unit'[s]] = mem[unit[s]]
      <4>1. pc'[s] = pc[s]
        BY <3>1, <3>4
      <4>2. Filling(s)
        BY <3>4, <4>1 DEF Filling
      <4> QED BY <2>3, <3>2, <4>1, <4>2
    <3>5. ASSUME NEW s \in Threads
          PROVE  /\ pc'[s] = "fill" => mem'[unit'[s]] = Blank
                 /\ pc'[s] = "apply" => mem'[unit'[s]] = FALSE
      <4>1. /\ pc[s] = "fill" => mem[unit[s]] = Blank
            /\ pc[s] = "apply" => mem[unit[s]] = FALSE
        BY DEF Owned
      <4>2. CASE pc'[s] = "fill"
        <5>1. pc'[s] \in {"fill", "apply"}
          BY <4>2
        <5> QED BY <3>4, <4>1, <4>2, <5>1
      <4>3. CASE pc'[s] = "apply"
        <5>1. pc'[s] \in {"fill", "apply"}
          BY <4>3
        <5> QED BY <3>4, <4>1, <4>3, <5>1
      <4> QED BY <4>2, <4>3
    <3>6. \A v \in Units : state'[v] = "materializing"
             <=> \E s \in Threads : Filling(s)' /\ unit'[s] = v
      BY <2>3, <3>1, <3>3 DEF Owned
    <3>7. Filling("main")' /\ Filling("worker")' => unit'["main"] # unit'["worker"]
      BY <2>3, <3>1 DEF Owned, Threads
    <3> QED BY <3>5, <3>6, <3>7 DEF Owned
  <2>12. Pinned'
    BY <2>3 DEF Pinned, Using, TypeOK, Threads
  <2>13. Kept'
    <3>1. \A v \in Units : Expected(v)' = Expected(v)
      BY <2>3 DEF Expected, TypeOK, Threads
    <3>2. ASSUME NEW v \in Units PROVE state'[v] = "resident" <=> v \in Resident \ victims
      <4>1. v \in Resident' <=> v \in Resident \ victims
        BY <2>8
      <4> QED BY <4>1 DEF Resident
    <3> QED BY <2>3, <2>5, <3>1, <3>2 DEF Kept, Rebuilt
  <2>14. CountsAreExact' /\ Heaped'
    BY <2>3, <2>5, <2>8 DEF CountsAreExact, Heaped
  <2>15. Granted' /\ PeakIsBounded' /\ RoomIsFound'
    <3>1. Granted' /\ RoomIsFound'
      BY <2>1, <2>3, <2>4, <2>5 DEF Granted, BudgetIsKept, RoomIsFound
    <3>2. committed \in Nat /\ pending \in Nat /\ committed + pending =< MaxBudget
      BY DEF TypeOK, BudgetIsKept, PeakIsBounded
    <3>3. committed' + pending' =< MaxBudget
      BY <2>3, <2>5, <3>2, BudgetAssumption
    <3> QED BY <3>1, <3>3 DEF PeakIsBounded
  <2>16. WithinBudget'
    <3> SUFFICES ASSUME ~spoiled' PROVE committed' + pending =< Grant(target)
      BY <2>1, <2>3 DEF WithinBudget
    <3>1. CASE Room(0, Grant(target), victims)
      <4>1. committed - Cardinality(victims) + pending + 0 =< Grant(target)
        BY <2>6, <3>1
      <4>2. pending \in Nat /\ committed \in Nat /\ Cardinality(victims) \in Nat
        BY <2>5 DEF TypeOK
      <4> QED BY <2>4, <2>5, <4>1, <4>2
    <3>2. CASE ~Room(0, Grant(target), victims)
      <4>1. ~spoiled /\ Popped(n) = victims
        BY <2>5
      <4>2. Resident \subseteq Evictable(NoUnit)
        BY <2>3, UnitAssumption DEF Pinned, Using, Resident, Evictable
      <4>3. Resident \subseteq victims
        BY <2>6, <3>2, <4>1, <4>2 DEF Heaped
      <4>4. Cardinality(victims) = committed
        BY <2>5, <4>3 DEF CountsAreExact
      <4>6. pending =< 1
        BY <2>3, OneFilling
      <4> QED BY <2>4, <2>5, <4>4, <4>6 DEF Floor, TypeOK
    <3> QED BY <3>1, <3>2
  <2> QED BY <2>9, <2>10, <2>11, <2>12, <2>13, <2>14, <2>15, <2>16 DEF BudgetIsKept
<1> QED BY <1>1, <1>2, <1>3, <1>4, <1>5, <1>6, <1>7, <1>8, <1>9, <1>10, <1>11, <1>12, <1>13,
   <1>14, <1>15, <1>16, <1>17, <1>18, <1>19, <1>20, <1>21, <1>22, <1>23 DEF Next, Touching,
   Ensuring, Governing, Threads


\* ContentIsKept follows from Kept, Owned and Pinned.
LEMMA ContentFollows == ArenaInv => ContentIsKept
<1> SUFFICES ASSUME ArenaInv PROVE ContentIsKept
  OBVIOUS
<1> USE DEF ArenaInv
<1>1. NoWriteIsLost /\ IntegrityHolds
  BY DEF NoWriteIsLost, Kept, IntegrityHolds
<1>2. ASSUME Using PROVE state[unit["main"]] = "resident" /\ mem[unit["main"]] \in BOOLEAN
  <2>1. unit["main"] \in Units /\ pc["main"] # "ended" /\ state[unit["main"]] = "resident"
    BY <1>2 DEF Using, Placed, Pinned, Threads
  <2>2. mem[unit["main"]] = Expected(unit["main"])
    BY <2>1 DEF Kept
  <2>3. Expected(unit["main"]) \in BOOLEAN
    BY <2>1 DEF Expected, TypeOK
  <2> QED BY <2>1, <2>2, <2>3
<1>3. ASSUME NEW t \in Threads, pc[t] \in {"fill", "apply"}
      PROVE  /\ mem[unit[t]] \notin {Nothing, TRUE}
             /\ \A s \in Threads \ {t} : Filling(s) => unit[s] # unit[t]
  <2>1. mem[unit[t]] \in {Blank, FALSE}
    BY <1>3 DEF Owned
  <2>2. Filling(t)
    BY <1>3 DEF Filling
  <2>3. \A s \in Threads \ {t} : Filling(s) => unit[s] # unit[t]
    BY <2>2 DEF Owned, Threads
  <2> QED BY <2>1, <2>3, NothingType
<1> QED BY <1>1, <1>2, <1>3 DEF ContentIsKept, UsesWhatIsThere

-----------------------------------------------------------------------------
(***************************************************************************)
(* The theorems.                                                           *)
(***************************************************************************)
\* The invariant that the others follow from: who materializes, who pins, what
\* the heap lists and where the content of a unit is, at every moment of the
\* two threads.
THEOREM ArenaInvariant == Spec => []ArenaInv
<1>1. ArenaInv /\ [Next]_vars => ArenaInv'
  BY NextArenaInv
<1> QED BY InitArenaInv, <1>1, PTL DEF Spec

\* The type invariant holds; the queue never exceeds its capacity.
THEOREM TypeCorrect == Spec => []TypeOK
<1>1. ArenaInv => TypeOK
  BY DEF ArenaInv
<1> QED BY ArenaInvariant, <1>1, PTL

\* committed_bytes_ and pending_bytes_ are what is committed and pending,
\* whatever is evicted, refused or materialized in between.
THEOREM CountsStayExact == Spec => []CountsAreExact
<1>1. ArenaInv => CountsAreExact
  BY DEF ArenaInv
<1> QED BY ArenaInvariant, <1>1, PTL

\* The budget in force and --max-budget-mb are kept with what is pending, and a
\* touch finds room under any budget that set_budget grants, as long as every
\* resident unit has kept its entry in the heap.
THEOREM BudgetStaysKept == Spec => []BudgetIsKept
<1>1. ArenaInv => BudgetIsKept
  BY DEF ArenaInv
<1> QED BY ArenaInvariant, <1>1, PTL

\* What main wrote survives any number of evictions, and the memory a thread
\* uses is there and its own.
THEOREM ContentStaysKept == Spec => []ContentIsKept
<1> QED BY ArenaInvariant, ContentFollows, PTL
=============================================================================
