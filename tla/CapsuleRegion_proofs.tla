----------------------- MODULE CapsuleRegion_proofs -----------------------
(***************************************************************************)
(* Theorems about CapsuleRegion, for every region, every core, every pack  *)
(* and every set of values, with their proofs.                             *)
(*                                                                         *)
(* The safety of the data rests on four facts.  Where memory is committed  *)
(* it holds what the application wrote (Resident).  A page the watch does  *)
(* not name is in the capsule as the application left it, while the        *)
(* capsule is built and once it is armed (Watched).  While the region      *)
(* sleeps the whole capsule is current, and while it resumes the part the  *)
(* application may not touch yet still is, or all of it if the application *)
(* has not written (Asleep).  And only states with a whole capsule let     *)
(* memory go (Whole).                                                      *)
(***************************************************************************)
EXTENDS CapsuleRegion, FiniteSetTheorems, TLAPS

\* Which thread may exist in which state, and what its progress means.
ThreadInv ==
    /\ (builder = "running") <=> (state = "building")
    /\ builder # "none" => state \in {"active", "building", "baseline"}
    /\ deep # "none" => state \in {"deep", "capsule"}
    /\ deep = "running" => state = "deep" /\ restored >= CoreCount /\ ~deepOk
    /\ deep = "ended" /\ deepOk => state = "capsule"

\* Which pages are committed.
CommitInv ==
    /\ state \in {"active", "building", "baseline", "capsule"} =>
         \A p \in Pages : arena[p] # Gone
    /\ state \in {"core", "deep"} =>
         \A p \in Pages : UnitOf(p) \in CoreUnits => arena[p] # Gone
    /\ deep = "running" =>
         \A p \in Pages : UnitOf(p) <= restored => arena[p] # Gone

\* The capsule has a value for every page.
Whole ==
    /\ state # "active" => packed
    /\ state \in {"baseline", "dormant", "core", "deep", "capsule"} =>
         \A p \in Pages : base[p] # Missing
    /\ state = "building" =>
         \A p \in Pages : delta[p] = Missing /\ (UnitOf(p) <= built => base[p] # Missing)

Resident == \A p \in Pages : arena[p] # Gone => arena[p] = wrote[p]

Watched ==
    /\ state = "baseline" /\ ~spent => \A p \in Pages \ touched : Rebuilt(p) = wrote[p]
    /\ state = "building" =>
         \A p \in Pages \ touched : UnitOf(p) <= built => base[p] = wrote[p]

Asleep ==
    /\ state = "dormant" => \A p \in Pages : Rebuilt(p) = wrote[p]
    /\ state \in {"core", "deep"} =>
         \A p \in Pages : UnitOf(p) \notin CoreUnits => Rebuilt(p) = wrote[p]
    /\ state \in {"core", "deep", "capsule"} /\ ~mutated =>
         \A p \in Pages : Rebuilt(p) = wrote[p]

\* sr_destroy is final, and no thread survives it.
FreedInv == freed => call = "none" /\ builder = "none" /\ deep = "none"

RegionInv ==
    /\ TypeOK /\ ThreadInv /\ FreedInv
    /\ ~freed => CommitInv /\ Whole /\ Resident /\ Watched /\ Asleep
-----------------------------------------------------------------------------
(***************************************************************************)
(* Pages and units                                                         *)
(***************************************************************************)
\* A page is named by its unit and its place in it, so the unit of a page is
\* a unit of the region.
LEMMA PageOfUnit ==
    ASSUME NEW p \in Pages
    PROVE  /\ UnitOf(p) \in Units /\ UnitOf(p) \in Nat /\ UnitOf(p) <= UnitCount
           /\ p = <<UnitOf(p), p[2]>> /\ p[2] \in 1 .. PagesPerUnit
BY RegionAssumption DEF Pages, Units, UnitOf

\* The watch names finitely many pages.
LEMMA PagesAreFinite ==
    ASSUME NEW S \in SUBSET Pages
    PROVE  Cardinality(S) \in Nat
<1>1. IsFiniteSet(Units) /\ IsFiniteSet(1 .. PagesPerUnit)
  BY FS_Interval, RegionAssumption DEF Units
<1>2. IsFiniteSet(Pages)
  BY <1>1, FS_Product DEF Pages
<1> QED BY <1>2, FS_Subset, FS_CardinalityType

LEMMA PackIsBounded == PackPages \in Nat
<1>1. UnitCount * PagesPerUnit \in Nat
  BY RegionAssumption
<1> QED BY <1>1, RegionAssumption DEF PackPages

-----------------------------------------------------------------------------
(***************************************************************************)
(* The invariant                                                           *)
(***************************************************************************)
LEMMA InitRegionInv == Init => RegionInv
<1> SUFFICES ASSUME Init PROVE RegionInv
  OBVIOUS
<1> USE RegionAssumption DEF Init
<1>1. /\ used \in 0 .. PackPages /\ built \in 0 .. UnitCount /\ restored \in 0 .. UnitCount
      /\ arena \in [Pages -> Values]
  BY PackIsBounded
<1>2. TypeOK
  BY <1>1 DEF TypeOK, States, Threads
<1>3. ThreadInv /\ FreedInv
  BY DEF ThreadInv, FreedInv
<1>4. CommitInv /\ Whole /\ Resident /\ Watched /\ Asleep
  BY DEF CommitInv, Whole, Resident, Watched, Asleep
<1> QED BY <1>2, <1>3, <1>4 DEF RegionInv

\* build_unit finds something for every page of a region that has slept.
LEMMA RebuiltIsValue ==
    ASSUME TypeOK, Whole, NEW p \in Pages,
           state \in {"baseline", "dormant", "core", "deep", "capsule"}
    PROVE  Rebuilt(p) \in Values /\ Rebuilt(p) # Gone
BY RegionAssumption DEF TypeOK, Whole, Rebuilt

LEMMA NextRegionInv ==
    ASSUME Retries = FALSE, RegionInv, [Next]_vars
    PROVE  RegionInv'
<1> USE RegionAssumption DEF RegionInv
<1>1. ASSUME NEW p \in Pages, NEW v \in Values, Write(p, v) PROVE RegionInv'
  <2> USE <1>1 DEF Write, Idle, capsuleVars, builderVars, deepVars, appVars, Writable
  <2>1. TypeOK'
    BY PackIsBounded DEF TypeOK, States, Threads
  <2>2. ThreadInv' /\ FreedInv'
    BY DEF ThreadInv, FreedInv, TypeOK, Threads
  <2>3. ~freed' => CommitInv'
    BY DEF CommitInv, CoreUnits, Units, ThreadInv, FreedInv, TypeOK
  <2>4. ~freed' => Whole'
    BY DEF Whole, Units, ThreadInv, FreedInv, TypeOK
  <2>5. ~freed' => Resident'
    BY DEF Resident, Asleep, CoreUnits, CommitInv, ThreadInv, FreedInv, TypeOK
  <2>6. ~freed' => Watched'
    BY DEF Watched, Rebuilt, Asleep, Whole, Units, Resident, CommitInv, ThreadInv, FreedInv,
       TypeOK
  <2>7. ~freed' => Asleep'
    BY DEF Asleep, Watched, Rebuilt, Resident, CommitInv, ThreadInv, FreedInv, TypeOK
  <2> QED BY <2>1, <2>2, <2>3, <2>4, <2>5, <2>6, <2>7
<1>2. ASSUME BeginBaseline PROVE RegionInv'
  <2> USE <1>2 DEF BeginBaseline, Idle, NoThreads, capsuleVars, builderVars, deepVars, appVars
  <2>1. TypeOK'
    <3>1. used' \in 0 .. PackPages /\ built' \in 0 .. UnitCount
      BY PackIsBounded
    <3> QED BY <3>1 DEF TypeOK, States, Threads
  <2>2. ThreadInv' /\ FreedInv'
    BY DEF ThreadInv, FreedInv, TypeOK, Threads
  <2>3. ~freed' => CommitInv'
    BY PageOfUnit DEF CommitInv, CoreUnits, Units, ThreadInv, FreedInv, TypeOK
  <2>4. ~freed' => Whole'
    BY PageOfUnit DEF Whole, Units, ThreadInv, FreedInv, TypeOK
  <2>5. ~freed' => Resident'
    BY PageOfUnit DEF Resident, Asleep, CoreUnits, CommitInv, ThreadInv, FreedInv, TypeOK
  <2>6. ~freed' => Watched'
    BY PageOfUnit DEF Watched, Rebuilt, Asleep, Whole, Units, Resident, CommitInv, ThreadInv,
       FreedInv, TypeOK
  <2>7. ~freed' => Asleep'
    BY PageOfUnit DEF Asleep, Watched, Rebuilt, Resident, CommitInv, ThreadInv, FreedInv, TypeOK
  <2> QED BY <2>1, <2>2, <2>3, <2>4, <2>5, <2>6, <2>7
<1>3. ASSUME BeginFails PROVE RegionInv'
  <2> USE <1>3 DEF BeginFails, Idle, NoThreads, capsuleVars, builderVars, deepVars, appVars,
     ClearCapsule
  <2>1. TypeOK'
    <3>1. used' \in 0 .. PackPages
      BY PackIsBounded
    <3> QED BY <3>1 DEF TypeOK, States, Threads
  <2>2. ThreadInv' /\ FreedInv'
    BY DEF ThreadInv, FreedInv, TypeOK, Threads
  <2>3. ~freed' => CommitInv' /\ Whole' /\ Resident' /\ Watched' /\ Asleep'
    BY DEF ThreadInv, FreedInv, CommitInv, Whole, Resident, Watched, Asleep, Rebuilt
  <2> QED BY <2>1, <2>2, <2>3
<1>4. ASSUME WaitBaseline PROVE RegionInv'
  <2> USE <1>4 DEF WaitBaseline, Idle, capsuleVars, builderVars, deepVars, appVars
  <2>1. TypeOK'
    BY PackIsBounded DEF TypeOK, States, Threads
  <2>2. ThreadInv' /\ FreedInv'
    BY DEF ThreadInv, FreedInv, TypeOK, Threads
  <2>3. ~freed' => CommitInv' /\ Whole' /\ Resident' /\ Watched' /\ Asleep'
    BY DEF ThreadInv, FreedInv, CommitInv, Whole, Resident, Watched, Asleep, Rebuilt
  <2> QED BY <2>1, <2>2, <2>3
<1>5. ASSUME Cancel PROVE RegionInv'
  <2> USE <1>5 DEF Cancel, Idle, capsuleVars, builderVars, deepVars, appVars
  <2>1. TypeOK'
    BY PackIsBounded DEF TypeOK, States, Threads
  <2>2. ThreadInv' /\ FreedInv'
    BY DEF ThreadInv, FreedInv, TypeOK, Threads
  <2>3. ~freed' => CommitInv' /\ Whole' /\ Resident' /\ Watched' /\ Asleep'
    BY DEF ThreadInv, FreedInv, CommitInv, Whole, Resident, Watched, Asleep, Rebuilt
  <2> QED BY <2>1, <2>2, <2>3
<1>6. ASSUME CancelTimesOut PROVE RegionInv'
  <2> USE <1>6 DEF CancelTimesOut, capsuleVars, builderVars, deepVars, appVars
  <2>1. TypeOK'
    BY PackIsBounded DEF TypeOK, States, Threads
  <2>2. ThreadInv' /\ FreedInv'
    BY DEF ThreadInv, FreedInv, TypeOK, Threads
  <2>3. ~freed' => CommitInv' /\ Whole' /\ Resident' /\ Watched' /\ Asleep'
    BY DEF ThreadInv, FreedInv, CommitInv, Whole, Resident, Watched, Asleep, Rebuilt
  <2> QED BY <2>1, <2>2, <2>3
<1>7. ASSUME EnterDormant PROVE RegionInv'
  <2> USE <1>7 DEF EnterDormant, Idle, NoThreads, capsuleVars, builderVars, deepVars, appVars,
     MayEnterDormant, Capture, Fits
  <2>1. TypeOK'
    <3>1. used' \in 0 .. PackPages /\ delta' \in [Pages -> Values \cup {Missing}]
      BY PackIsBounded, PagesAreFinite DEF CommitInv, TypeOK
    <3> QED BY <3>1 DEF TypeOK, States, Threads
  <2>2. ThreadInv' /\ FreedInv'
    BY DEF ThreadInv, FreedInv, TypeOK, Threads
  <2>3. ~freed' => CommitInv'
    BY PagesAreFinite DEF CommitInv, CoreUnits, Units, ThreadInv, FreedInv, TypeOK
  <2>4. ~freed' => Whole'
    BY PagesAreFinite DEF Whole, Units, ThreadInv, FreedInv, TypeOK
  <2>5. ~freed' => Resident'
    BY PagesAreFinite DEF Resident, Asleep, CoreUnits, CommitInv, ThreadInv, FreedInv, TypeOK
  <2>6. ~freed' => Watched'
    BY PagesAreFinite DEF Watched, Rebuilt, Asleep, Whole, Units, Resident, CommitInv,
       ThreadInv, FreedInv, TypeOK
  <2>7. ~freed' => Asleep'
    BY PagesAreFinite DEF Asleep, Watched, Rebuilt, Resident, CommitInv, ThreadInv, FreedInv,
       TypeOK
  <2> QED BY <2>1, <2>2, <2>3, <2>4, <2>5, <2>6, <2>7
<1>8. ASSUME EnterDormantFails PROVE RegionInv'
  <2> USE <1>8 DEF EnterDormantFails, Idle, NoThreads, capsuleVars, builderVars, deepVars,
     appVars, MayEnterDormant, Capture, Fits
  <2>1. TypeOK'
    <3>1. used' \in 0 .. PackPages /\ delta' \in [Pages -> Values \cup {Missing}]
      BY PackIsBounded, PagesAreFinite DEF CommitInv, TypeOK
    <3> QED BY <3>1 DEF TypeOK, States, Threads
  <2>2. ThreadInv' /\ FreedInv'
    BY DEF ThreadInv, FreedInv, TypeOK, Threads
  <2>3. ~freed' => CommitInv'
    BY PagesAreFinite DEF CommitInv, CoreUnits, Units, ThreadInv, FreedInv, TypeOK
  <2>4. ~freed' => Whole'
    BY PagesAreFinite DEF Whole, Units, ThreadInv, FreedInv, TypeOK
  <2>5. ~freed' => Resident'
    BY PagesAreFinite DEF Resident, Asleep, CoreUnits, CommitInv, ThreadInv, FreedInv, TypeOK
  <2>6. ~freed' => Watched'
    <3> SUFFICES ASSUME ~spent', NEW p \in Pages PROVE Rebuilt(p)' = wrote[p]
      BY DEF Watched, TypeOK
    <3>1. PICK pages \in SUBSET touched : Capture(pages) /\ pages = touched
      BY DEF TypeOK
    <3>2. CASE p \in touched
      BY <3>1, <3>2 DEF Rebuilt, Resident, CommitInv, TypeOK
    <3>3. CASE p \notin touched
      BY <3>1, <3>3 DEF Rebuilt, Watched, TypeOK
    <3> QED BY <3>2, <3>3
  <2>7. ~freed' => Asleep'
    BY PagesAreFinite DEF Asleep, Watched, Rebuilt, Resident, CommitInv, ThreadInv, FreedInv,
       TypeOK
  <2> QED BY <2>1, <2>2, <2>3, <2>4, <2>5, <2>6, <2>7
<1>9. ASSUME ResumeCore PROVE RegionInv'
  <2> USE <1>9 DEF ResumeCore, Idle, capsuleVars, builderVars, deepVars, appVars, Restore
  <2>1. TypeOK'
    <3>1. arena' \in [Pages -> Values \cup {Gone}]
      BY RebuiltIsValue DEF TypeOK
    <3> QED BY <3>1 DEF TypeOK, States, Threads
  <2>2. ThreadInv' /\ FreedInv'
    BY DEF ThreadInv, FreedInv, TypeOK, Threads
  <2>3. ~freed' => CommitInv'
    BY RebuiltIsValue DEF CommitInv, CoreUnits, Units, ThreadInv, FreedInv, TypeOK
  <2>4. ~freed' => Whole'
    BY RebuiltIsValue DEF Whole, Units, ThreadInv, FreedInv, TypeOK
  <2>5. ~freed' => Resident'
    BY RebuiltIsValue DEF Resident, Asleep, CoreUnits, CommitInv, ThreadInv, FreedInv, TypeOK
  <2>6. ~freed' => Watched'
    BY RebuiltIsValue DEF Watched, Rebuilt, Asleep, Whole, Units, Resident, CommitInv,
       ThreadInv, FreedInv, TypeOK
  <2>7. ~freed' => Asleep'
    BY RebuiltIsValue DEF Asleep, Watched, Rebuilt, Resident, CommitInv, ThreadInv, FreedInv,
       TypeOK
  <2> QED BY <2>1, <2>2, <2>3, <2>4, <2>5, <2>6, <2>7
<1>10. ASSUME ResumeCoreFails PROVE RegionInv'
  <2> USE <1>10 DEF ResumeCoreFails, Idle, capsuleVars, builderVars, deepVars, appVars, Restore
  <2>1. TypeOK'
    <3>1. arena' \in [Pages -> Values \cup {Gone}]
      BY RebuiltIsValue DEF TypeOK
    <3> QED BY <3>1 DEF TypeOK, States, Threads
  <2>2. ThreadInv' /\ FreedInv'
    BY DEF ThreadInv, FreedInv, TypeOK, Threads
  <2>3. ~freed' => CommitInv' /\ Whole' /\ Resident' /\ Watched' /\ Asleep'
    BY DEF ThreadInv, FreedInv, CommitInv, Whole, Resident, Watched, Asleep, Rebuilt
  <2> QED BY <2>1, <2>2, <2>3
<1>11. ASSUME StartDeep PROVE RegionInv'
  <2> USE <1>11 DEF StartDeep, Idle, capsuleVars, builderVars, deepVars, appVars
  <2>1. TypeOK'
    <3>1. restored' \in 0 .. UnitCount
      BY RegionAssumption
    <3> QED BY <3>1 DEF TypeOK, States, Threads
  <2>2. ThreadInv' /\ FreedInv'
    BY DEF ThreadInv, FreedInv, TypeOK, Threads
  <2>3. ~freed' => CommitInv'
    BY PageOfUnit DEF CommitInv, CoreUnits, Units, ThreadInv, FreedInv, TypeOK
  <2>4. ~freed' => Whole'
    BY PageOfUnit DEF Whole, Units, ThreadInv, FreedInv, TypeOK
  <2>5. ~freed' => Resident'
    BY PageOfUnit DEF Resident, Asleep, CoreUnits, CommitInv, ThreadInv, FreedInv, TypeOK
  <2>6. ~freed' => Watched'
    BY PageOfUnit DEF Watched, Rebuilt, Asleep, Whole, Units, Resident, CommitInv, ThreadInv,
       FreedInv, TypeOK
  <2>7. ~freed' => Asleep'
    BY PageOfUnit DEF Asleep, Watched, Rebuilt, Resident, CommitInv, ThreadInv, FreedInv, TypeOK
  <2> QED BY <2>1, <2>2, <2>3, <2>4, <2>5, <2>6, <2>7
<1>12. ASSUME WaitDeep PROVE RegionInv'
  <2> USE <1>12 DEF WaitDeep, Idle, capsuleVars, builderVars, deepVars, appVars
  <2>1. TypeOK'
    BY PackIsBounded DEF TypeOK, States, Threads
  <2>2. ThreadInv' /\ FreedInv'
    BY DEF ThreadInv, FreedInv, TypeOK, Threads
  <2>3. ~freed' => CommitInv' /\ Whole' /\ Resident' /\ Watched' /\ Asleep'
    BY DEF ThreadInv, FreedInv, CommitInv, Whole, Resident, Watched, Asleep, Rebuilt
  <2> QED BY <2>1, <2>2, <2>3
<1>13. ASSUME Rearm PROVE RegionInv'
  <2> USE <1>13 DEF Rearm, Idle, NoThreads, capsuleVars, builderVars, deepVars, appVars
  <2>1. TypeOK'
    BY PackIsBounded DEF TypeOK, States, Threads
  <2>2. ThreadInv' /\ FreedInv'
    BY DEF ThreadInv, FreedInv, TypeOK, Threads
  <2>3. ~freed' => CommitInv' /\ Whole' /\ Resident' /\ Watched' /\ Asleep'
    BY DEF ThreadInv, FreedInv, CommitInv, Whole, Resident, Watched, Asleep, Rebuilt
  <2> QED BY <2>1, <2>2, <2>3
<1>14. ASSUME ReleaseCapsule PROVE RegionInv'
  <2> USE <1>14 DEF ReleaseCapsule, Idle, NoThreads, capsuleVars, builderVars, deepVars,
     appVars, ClearCapsule, MayRelease
  <2>1. TypeOK'
    <3>1. used' \in 0 .. PackPages
      BY PackIsBounded
    <3> QED BY <3>1 DEF TypeOK, States, Threads
  <2>2. ThreadInv' /\ FreedInv'
    BY DEF ThreadInv, FreedInv, TypeOK, Threads
  <2>3. ~freed' => CommitInv' /\ Whole' /\ Resident' /\ Watched' /\ Asleep'
    BY DEF ThreadInv, FreedInv, CommitInv, Whole, Resident, Watched, Asleep, Rebuilt
  <2> QED BY <2>1, <2>2, <2>3
<1>15. ASSUME Destroy PROVE RegionInv'
  <2> USE <1>15 DEF Destroy, Idle, capsuleVars, builderVars, deepVars, appVars
  <2>1. TypeOK'
    BY PackIsBounded DEF TypeOK, States, Threads
  <2>2. ThreadInv' /\ FreedInv'
    BY DEF ThreadInv, FreedInv, TypeOK, Threads
  <2>3. ~freed' => CommitInv' /\ Whole' /\ Resident' /\ Watched' /\ Asleep'
    BY DEF ThreadInv, FreedInv, CommitInv, Whole, Resident, Watched, Asleep, Rebuilt
  <2> QED BY <2>1, <2>2, <2>3
<1>16. ASSUME BuildUnit PROVE RegionInv'
  <2> USE <1>16 DEF BuildUnit, capsuleVars, builderVars, deepVars, appVars, Fits, Read
  <2>1. TypeOK'
    <3>1. used' \in 0 .. PackPages /\ base' \in [Pages -> Values \cup {Missing}] /\ built' \in
       0 .. UnitCount
      BY PackIsBounded, PageOfUnit DEF TypeOK
    <3> QED BY <3>1 DEF TypeOK, States, Threads
  <2>2. ThreadInv' /\ FreedInv'
    BY DEF ThreadInv, FreedInv, TypeOK, Threads
  <2>3. ~freed' => CommitInv'
    BY PageOfUnit DEF CommitInv, CoreUnits, Units, ThreadInv, FreedInv, TypeOK
  <2>4. ~freed' => Whole'
    BY PageOfUnit DEF Whole, Units, ThreadInv, FreedInv, TypeOK
  <2>5. ~freed' => Resident'
    BY PageOfUnit DEF Resident, Asleep, CoreUnits, CommitInv, ThreadInv, FreedInv, TypeOK
  <2>6. ~freed' => Watched'
    <3> SUFFICES ASSUME NEW p \in Pages \ touched, UnitOf(p) <= built + 1, state = "building"
                 PROVE  base'[p] = wrote[p]
      BY DEF Watched, ThreadInv, TypeOK
    <3>1. PICK image \in [1 .. PagesPerUnit -> Values] :
            /\ \A i \in 1 .. PagesPerUnit : image[i] \in Read(<<built + 1, i>>)
            /\ base' = [q \in Pages |-> IF UnitOf(q) = built + 1 THEN image[q[2]] ELSE base[q]]
      OBVIOUS
    <3>2. CASE UnitOf(p) = built + 1
      <4>1. p = <<built + 1, p[2]>> /\ p[2] \in 1 .. PagesPerUnit
        BY <3>2, PageOfUnit
      <4>2. image[p[2]] = arena[p]
        BY <3>1, <4>1
      <4> QED BY <3>1, <3>2, <4>2 DEF Resident, CommitInv, ThreadInv, FreedInv
    <3>3. CASE UnitOf(p) # built + 1
      <4>1. UnitOf(p) <= built
        BY <3>3, PageOfUnit DEF TypeOK
      <4>2. base[p] = wrote[p]
        BY <4>1 DEF Watched, ThreadInv, FreedInv
      <4>3. base'[p] = base[p]
        BY <3>1, <3>3
      <4> QED BY <4>2, <4>3
    <3> QED BY <3>2, <3>3
  <2>7. ~freed' => Asleep'
    BY PageOfUnit DEF Asleep, Watched, Rebuilt, Resident, CommitInv, ThreadInv, FreedInv, TypeOK
  <2> QED BY <2>1, <2>2, <2>3, <2>4, <2>5, <2>6, <2>7
<1>17. ASSUME AbandonBaseline PROVE RegionInv'
  <2> USE <1>17 DEF AbandonBaseline, capsuleVars, builderVars, deepVars, appVars,
     ClearCapsule, MayAbandon
  <2>1. TypeOK'
    <3>1. used' \in 0 .. PackPages
      BY PackIsBounded
    <3> QED BY <3>1 DEF TypeOK, States, Threads
  <2>2. ThreadInv' /\ FreedInv'
    BY DEF ThreadInv, FreedInv, TypeOK, Threads
  <2>3. ~freed' => CommitInv' /\ Whole' /\ Resident' /\ Watched' /\ Asleep'
    BY DEF ThreadInv, FreedInv, CommitInv, Whole, Resident, Watched, Asleep, Rebuilt
  <2> QED BY <2>1, <2>2, <2>3
<1>18. ASSUME CompleteBaseline PROVE RegionInv'
  <2> USE <1>18 DEF CompleteBaseline, capsuleVars, builderVars, deepVars, appVars
  <2>1. TypeOK'
    BY PackIsBounded DEF TypeOK, States, Threads
  <2>2. ThreadInv' /\ FreedInv'
    BY DEF ThreadInv, FreedInv, TypeOK, Threads
  <2>3. ~freed' => CommitInv'
    BY PageOfUnit DEF CommitInv, CoreUnits, Units, ThreadInv, FreedInv, TypeOK
  <2>4. ~freed' => Whole'
    BY PageOfUnit DEF Whole, Units, ThreadInv, FreedInv, TypeOK
  <2>5. ~freed' => Resident'
    BY PageOfUnit DEF Resident, Asleep, CoreUnits, CommitInv, ThreadInv, FreedInv, TypeOK
  <2>6. ~freed' => Watched'
    BY PageOfUnit DEF Watched, Rebuilt, Asleep, Whole, Units, Resident, CommitInv, ThreadInv,
       FreedInv, TypeOK
  <2>7. ~freed' => Asleep'
    BY PageOfUnit DEF Asleep, Watched, Rebuilt, Resident, CommitInv, ThreadInv, FreedInv, TypeOK
  <2> QED BY <2>1, <2>2, <2>3, <2>4, <2>5, <2>6, <2>7
<1>19. ASSUME DeepUnit PROVE RegionInv'
  <2> USE <1>19 DEF DeepUnit, capsuleVars, builderVars, deepVars, appVars, Restore
  <2>1. TypeOK'
    <3>1. restored' \in 0 .. UnitCount /\ arena' \in [Pages -> Values \cup {Gone}]
      BY RebuiltIsValue, PageOfUnit DEF ThreadInv, FreedInv, TypeOK
    <3> QED BY <3>1 DEF TypeOK, States, Threads
  <2>2. ThreadInv' /\ FreedInv'
    BY DEF ThreadInv, FreedInv, TypeOK, Threads
  <2>3. ~freed' => CommitInv'
    <3> SUFFICES ASSUME ~freed, NEW p \in Pages, arena'[p] = Gone
                 PROVE  UnitOf(p) \notin CoreUnits /\ ~(UnitOf(p) <= restored + 1)
      BY DEF CommitInv, ThreadInv, TypeOK
    <3>1. Rebuilt(p) # Gone
      BY RebuiltIsValue DEF ThreadInv
    <3>2. UnitOf(p) # restored + 1 /\ arena[p] = Gone
      BY <3>1
    <3>3. UnitOf(p) \notin CoreUnits /\ ~(UnitOf(p) <= restored)
      BY <3>2 DEF CommitInv, ThreadInv
    <3>4. UnitOf(p) \in Nat /\ restored \in Nat
      BY PageOfUnit DEF TypeOK
    <3> QED BY <3>2, <3>3, <3>4
  <2>4. ~freed' => Whole'
    BY RebuiltIsValue, PageOfUnit DEF Whole, Units, ThreadInv, FreedInv, TypeOK
  <2>5. ~freed' => Resident'
    BY RebuiltIsValue, PageOfUnit DEF Resident, Asleep, CoreUnits, CommitInv, ThreadInv,
       FreedInv, TypeOK
  <2>6. ~freed' => Watched'
    BY RebuiltIsValue, PageOfUnit DEF Watched, Rebuilt, Asleep, Whole, Units, Resident,
       CommitInv, ThreadInv, FreedInv, TypeOK
  <2>7. ~freed' => Asleep'
    BY RebuiltIsValue, PageOfUnit DEF Asleep, Watched, Rebuilt, Resident, CommitInv,
       ThreadInv, FreedInv, TypeOK
  <2> QED BY <2>1, <2>2, <2>3, <2>4, <2>5, <2>6, <2>7
<1>20. ASSUME DeepFails PROVE RegionInv'
  <2> USE <1>20 DEF DeepFails, capsuleVars, builderVars, deepVars, appVars
  <2>1. TypeOK'
    BY PackIsBounded DEF TypeOK, States, Threads
  <2>2. ThreadInv' /\ FreedInv'
    BY DEF ThreadInv, FreedInv, TypeOK, Threads
  <2>3. ~freed' => CommitInv' /\ Whole' /\ Resident' /\ Watched' /\ Asleep'
    BY DEF ThreadInv, FreedInv, CommitInv, Whole, Resident, Watched, Asleep, Rebuilt
  <2> QED BY <2>1, <2>2, <2>3
<1>21. ASSUME DeepCompletes PROVE RegionInv'
  <2> USE <1>21 DEF DeepCompletes, capsuleVars, builderVars, deepVars, appVars
  <2>1. TypeOK'
    BY PackIsBounded DEF TypeOK, States, Threads
  <2>2. ThreadInv' /\ FreedInv'
    BY DEF ThreadInv, FreedInv, TypeOK, Threads
  <2>3. ~freed' => CommitInv'
    BY PageOfUnit DEF CommitInv, CoreUnits, Units, ThreadInv, FreedInv, TypeOK
  <2>4. ~freed' => Whole'
    BY PageOfUnit DEF Whole, Units, ThreadInv, FreedInv, TypeOK
  <2>5. ~freed' => Resident'
    BY PageOfUnit DEF Resident, Asleep, CoreUnits, CommitInv, ThreadInv, FreedInv, TypeOK
  <2>6. ~freed' => Watched'
    BY PageOfUnit DEF Watched, Rebuilt, Asleep, Whole, Units, Resident, CommitInv, ThreadInv,
       FreedInv, TypeOK
  <2>7. ~freed' => Asleep'
    BY PageOfUnit DEF Asleep, Watched, Rebuilt, Resident, CommitInv, ThreadInv, FreedInv, TypeOK
  <2> QED BY <2>1, <2>2, <2>3, <2>4, <2>5, <2>6, <2>7
<1>22. ASSUME CancelJoins PROVE RegionInv'
  <2> USE <1>22 DEF CancelJoins, capsuleVars, builderVars, deepVars, appVars
  <2>1. TypeOK'
    BY PackIsBounded DEF TypeOK, States, Threads
  <2>2. ThreadInv' /\ FreedInv'
    BY DEF ThreadInv, FreedInv, TypeOK, Threads
  <2>3. ~freed' => CommitInv' /\ Whole' /\ Resident' /\ Watched' /\ Asleep'
    BY DEF ThreadInv, FreedInv, CommitInv, Whole, Resident, Watched, Asleep, Rebuilt
  <2> QED BY <2>1, <2>2, <2>3
<1>23. ASSUME Destroyed PROVE RegionInv'
  <2> USE <1>23 DEF Destroyed, capsuleVars, builderVars, deepVars, appVars, Joined
  <2>1. TypeOK'
    BY PackIsBounded DEF TypeOK, States, Threads
  <2>2. ThreadInv' /\ FreedInv'
    BY DEF ThreadInv, FreedInv, TypeOK, Threads
  <2>3. ~freed' => CommitInv' /\ Whole' /\ Resident' /\ Watched' /\ Asleep'
    BY DEF ThreadInv, FreedInv, CommitInv, Whole, Resident, Watched, Asleep, Rebuilt
  <2> QED BY <2>1, <2>2, <2>3
<1>24. ASSUME UNCHANGED vars PROVE RegionInv'
  BY <1>24 DEF vars, TypeOK, ThreadInv, FreedInv, CommitInv, Whole, Resident, Watched,
     Asleep, Rebuilt, capsuleVars, builderVars, deepVars, appVars
<1> QED
  BY <1>1, <1>2, <1>3, <1>4, <1>5, <1>6, <1>7, <1>8, <1>9, <1>10, <1>11, <1>12, <1>13, <1>14,
     <1>15, <1>16, <1>17, <1>18, <1>19, <1>20, <1>21, <1>22, <1>23, <1>24 DEF Next,
     Application,
     BuilderThread, DeepThread, Join
-----------------------------------------------------------------------------
(***************************************************************************)
(* The theorems                                                            *)
(***************************************************************************)
\* RegionInv holds of every behaviour in which an application does not call
\* sr_enter_dormant again on a baseline whose dirty pages a failed call has
\* already consumed.
THEOREM RegionInvariant ==
    ASSUME Retries = FALSE
    PROVE  Spec => []RegionInv
<1>1. Init => RegionInv
  BY InitRegionInv
<1>2. RegionInv /\ [Next]_vars => RegionInv'
  BY NextRegionInv
<1> QED BY <1>1, <1>2, PTL DEF Spec

\* Whatever the sizes of the region and of its pack, the variables keep their
\* types; in particular the pack is never filled beyond what it reserved.
THEOREM TypeCorrect ==
    ASSUME Retries = FALSE
    PROVE  Spec => []TypeOK
<1>1. RegionInv => TypeOK
  BY DEF RegionInv
<1> QED BY <1>1, RegionInvariant, PTL

\* No write of the application is lost by building a baseline, sleeping and
\* waking up: every page holds what was last written to it, or the capsule
\* rebuilds that.
THEOREM NoWriteIsLost ==
    ASSUME Retries = FALSE
    PROVE  Spec => []NothingIsLost
<1>1. RegionInv => NothingIsLost
  <2> SUFFICES ASSUME RegionInv, ~freed, NEW p \in Pages
               PROVE  wrote[p] = IF arena[p] = Gone THEN Rebuilt(p) ELSE arena[p]
    BY DEF NothingIsLost
  <2>1. CASE arena[p] # Gone
    BY <2>1 DEF RegionInv, Resident
  <2>2. CASE arena[p] = Gone
    <3>1. \/ state = "dormant"
          \/ state \in {"core", "deep"} /\ UnitOf(p) \notin CoreUnits
      BY <2>2 DEF RegionInv, CommitInv, TypeOK, States
    <3> QED BY <2>2, <3>1 DEF RegionInv, Asleep
  <2> QED BY <2>1, <2>2
<1> QED BY <1>1, RegionInvariant, PTL

\* sr_enter_dormant may trust the write watch: a page it does not name is in
\* the capsule as the application left it.
THEOREM WatchIsSound ==
    ASSUME Retries = FALSE
    PROVE  Spec => []WatchCoversCapsule
<1>1. RegionInv => WatchCoversCapsule
  BY DEF RegionInv, WatchCoversCapsule, Watched, ThreadInv, FreedInv
<1> QED BY <1>1, RegionInvariant, PTL

\* Memory is given back only by a region whose capsule covers every page, and
\* the capsule stays until the memory is back.
THEOREM SleeperIsWhole ==
    ASSUME Retries = FALSE
    PROVE  Spec => []SleeperKeepsCapsule
<1>1. RegionInv => SleeperKeepsCapsule
  <2> SUFFICES ASSUME RegionInv, ~freed, NEW p \in Pages, arena[p] = Gone
               PROVE  packed /\ \A q \in Pages : base[q] # Missing
    BY DEF SleeperKeepsCapsule
  <2>1. state \in {"dormant", "core", "deep"}
    BY DEF RegionInv, CommitInv, TypeOK, States
  <2> QED BY <2>1 DEF RegionInv, Whole
<1> QED BY <1>1, RegionInvariant, PTL

\* The two background threads never run together, and none runs on a region
\* that sr_destroy has freed.
THEOREM ThreadsNeverMeet ==
    ASSUME Retries = FALSE
    PROVE  Spec => []ThreadsAreJoined
<1>1. RegionInv => ThreadsAreJoined
  BY DEF RegionInv, ThreadsAreJoined, ThreadInv, FreedInv
<1> QED BY <1>1, RegionInvariant, PTL

\* The deep thread reads the capsule without holding the region's lock, and
\* nothing moves the capsule under it: the other calls are refused in its
\* state, and the builder is not running.
THEOREM CapsuleStaysStill ==
    ASSUME Retries = FALSE
    PROVE  Spec => CapsuleIsStable
<1>1. RegionInv /\ [Next]_vars => [deep = "running" => UNCHANGED capsuleVars]_vars
  <2> SUFFICES ASSUME RegionInv, Next, deep = "running"
               PROVE  UNCHANGED capsuleVars
    BY DEF vars, capsuleVars
  <2>1. /\ state = "deep" /\ builder = "none" /\ ~freed /\ deep # "none" /\ deep # "ended"
    BY DEF RegionInv, ThreadInv, FreedInv, TypeOK, Threads
  <2>2. ASSUME Application PROVE UNCHANGED capsuleVars
    BY <2>1, <2>2 DEF Application, Write, BeginBaseline, BeginFails, WaitBaseline, Cancel,
       CancelTimesOut, EnterDormant, EnterDormantFails, MayEnterDormant, NoThreads, Idle,
       ResumeCore, ResumeCoreFails, StartDeep, WaitDeep, Rearm, ReleaseCapsule, MayRelease,
       Destroy, capsuleVars
  <2>3. ASSUME BuilderThread PROVE UNCHANGED capsuleVars
    BY <2>1, <2>3 DEF BuilderThread, BuildUnit, AbandonBaseline, CompleteBaseline
  <2>4. ASSUME DeepThread \/ Join PROVE UNCHANGED capsuleVars
    BY <2>1, <2>4 DEF DeepThread, DeepUnit, DeepFails, DeepCompletes, Join, CancelJoins,
       Destroyed, Joined, capsuleVars
  <2> QED BY <2>2, <2>3, <2>4 DEF Next
<1> QED BY <1>1, RegionInvariant, PTL DEF Spec, CapsuleIsStable

\* The capsule is sound, as long as a failed sr_enter_dormant is not tried again.
THEOREM CapsuleStaysSound ==
    ASSUME Retries = FALSE
    PROVE  Spec => []CapsuleIsSound
<1>1. NothingIsLost /\ WatchCoversCapsule /\ SleeperKeepsCapsule /\ ThreadsAreJoined
        => CapsuleIsSound
  BY DEF CapsuleIsSound
<1> QED BY <1>1, NoWriteIsLost, WatchIsSound, SleeperIsWhole, ThreadsNeverMeet, PTL

-----------------------------------------------------------------------------
(***************************************************************************)
(* The capsule SDK implements RegionContract, for every region, every core *)
(* and every set of values: what CapsuleHosts assumes of it.               *)
(*                                                                         *)
(* The invariant above says that the content of a region is what the       *)
(* application wrote last.  So the content changes only when the           *)
(* application writes, and what remains is that each step of the SDK is a  *)
(* call's outcome in the contract, or does not show.                       *)
(***************************************************************************)

LEMMA ContentIsWrote ==
    ASSUME RegionInv, ~freed
    PROVE  Content = wrote
<1>1. \A p \in Pages : (IF arena[p] = Gone THEN Rebuilt(p) ELSE arena[p]) = wrote[p]
  <2> SUFFICES ASSUME NEW p \in Pages, arena[p] = Gone PROVE Rebuilt(p) = wrote[p]
    BY DEF RegionInv, Resident
  <2>1. state \in {"dormant", "core", "deep"}
    BY DEF RegionInv, CommitInv, TypeOK, States
  <2>2. CASE state = "dormant"
    BY <2>2 DEF RegionInv, Asleep
  <2>3. CASE state \in {"core", "deep"}
    BY <2>3 DEF RegionInv, Asleep, CommitInv
  <2> QED BY <2>1, <2>2, <2>3
<1> QED BY <1>1 DEF Content, RegionInv, TypeOK

LEMMA InitRefines == Init => Contract!Init
<1> SUFFICES ASSUME Init PROVE Contract!Init
  OBVIOUS
<1>1. PICK zero \in Values : arena = [p \in Pages |-> zero]
  BY DEF Init
<1>2. Content = [p \in Pages |-> zero]
  BY <1>1, RegionAssumption DEF Content
<1>3. View = Contract!Fresh([p \in Pages |-> zero])
  BY <1>2 DEF View, Init, Contract!Fresh
<1> QED BY <1>3 DEF Contract!Init

\* A step that writes to no page leaves the content as it is.
LEMMA ContentStays ==
    ASSUME RegionInv, RegionInv', ~freed, ~freed', UNCHANGED wrote
    PROVE  Content' = Content
<1>1. Content = wrote
  BY ContentIsWrote
<1>2. (RegionInv /\ ~freed => Content = wrote)'
  BY ContentIsWrote, PTL
<1> QED BY <1>1, <1>2

\* A region's record, and what a change of one field makes of it
Rec(s, b, d, c, l, w) ==
    [state |-> s, builder |-> b, deep |-> d, content |-> c, clean |-> l, whole |-> w]

LEMMA FieldsOfRec ==
    ASSUME NEW s, NEW b, NEW d, NEW c, NEW l, NEW w
    PROVE  LET r == Rec(s, b, d, c, l, w) IN
           /\ r.state = s /\ r.builder = b /\ r.deep = d /\ r.content = c
           /\ r.clean = l /\ r.whole = w
BY DEF Rec

LEMMA ChangesOfRec ==
    ASSUME NEW s, NEW b, NEW d, NEW c, NEW l, NEW w, NEW x
    PROVE  LET r == Rec(s, b, d, c, l, w) IN
           /\ Contract!To(x, r) = Rec(x, b, d, c, l, w)
           /\ Contract!Builder(x, r) = Rec(s, x, d, c, l, w)
           /\ Contract!Deep(x, r) = Rec(s, b, x, c, l, w)
           /\ Contract!Holding(x, r) = Rec(s, b, d, x, l, w)
           /\ Contract!Clean(x, r) = Rec(s, b, d, c, x, w)
           /\ Contract!Whole(x, r) = Rec(s, b, d, c, l, x)
<1> DEFINE r == Rec(s, b, d, c, l, w)
<1>1. PICK q : q = r
  OBVIOUS
<1>2. q = [state |-> s, builder |-> b, deep |-> d, content |-> c, clean |-> l, whole |-> w]
  BY <1>1 DEF Rec
<1> HIDE DEF r
<1>3. /\ [q EXCEPT !.state = x] = Rec(x, b, d, c, l, w)
      /\ [q EXCEPT !.builder = x] = Rec(s, x, d, c, l, w)
      /\ [q EXCEPT !.deep = x] = Rec(s, b, x, c, l, w)
      /\ [q EXCEPT !.content = x] = Rec(s, b, d, x, l, w)
      /\ [q EXCEPT !.clean = x] = Rec(s, b, d, c, x, w)
      /\ [q EXCEPT !.whole = x] = Rec(s, b, d, c, l, x)
  BY <1>2 DEF Rec
<1>4. /\ Contract!To(x, q) = Rec(x, b, d, c, l, w)
      /\ Contract!Builder(x, q) = Rec(s, x, d, c, l, w)
      /\ Contract!Deep(x, q) = Rec(s, b, x, c, l, w)
      /\ Contract!Holding(x, q) = Rec(s, b, d, x, l, w)
      /\ Contract!Clean(x, q) = Rec(s, b, d, c, x, w)
      /\ Contract!Whole(x, q) = Rec(s, b, d, c, l, x)
  BY <1>3 DEF Contract!To, Contract!Builder, Contract!Deep, Contract!Holding, Contract!Clean,
              Contract!Whole
<1> QED BY <1>1, <1>4 DEF r

LEMMA ViewIsRec ==
    ASSUME ~freed
    PROVE  /\ View = Rec(state, builder, deep, Content, ~mutated, ~spent)
           /\ View.state = state /\ View.builder = builder /\ View.deep = deep
           /\ View.content = Content /\ View.clean = (~mutated) /\ View.whole = (~spent)
BY DEF View, Rec

LEMMA NextViewIsRec ==
    ASSUME ~freed'
    PROVE  View' = Rec(state', builder', deep', Content', ~mutated', ~spent')
BY DEF View, Rec

LEMMA WriteRefines ==
    ASSUME RegionInv, RegionInv', NEW p \in Pages, NEW v \in Values, Write(p, v)
    PROVE  Contract!Write
<1>1. ~freed /\ ~freed' /\ Content = wrote /\ p \in Contract!Usable(View)
  BY ContentIsWrote DEF Write, Idle, Writable, View, Contract!Usable, RegionInv, TypeOK, States, appVars
<1>2. (RegionInv /\ ~freed => Content = wrote)'
  BY ContentIsWrote, PTL
<1>3. Content' = [Content EXCEPT ![p] = v]
  BY <1>1, <1>2 DEF Write
<1>4. View' = Rec(state, builder, deep, Content', ~mutated', ~spent)
  BY <1>1, NextViewIsRec DEF Write, builderVars, deepVars
<1>5. (View.clean /\ View.state \notin {"core", "deep", "capsule"}) = (~mutated')
  BY <1>1, ViewIsRec DEF Write
<1>6. Contract!Written(View, Content') = Contract!Clean(~mutated', Contract!Holding(Content', View))
  BY <1>5 DEF Contract!Written
<1>7. Contract!Holding(Content', View) = Rec(state, builder, deep, Content', ~mutated, ~spent)
  BY <1>1, ViewIsRec, ChangesOfRec
<1>8. Contract!Clean(~mutated', Contract!Holding(Content', View)) =
        Rec(state, builder, deep, Content', ~mutated', ~spent)
  BY <1>7, ChangesOfRec
<1>9. View' = Contract!Written(View, Content') /\ View.content = Content
  BY <1>1, <1>4, <1>6, <1>8, ViewIsRec
<1> QED BY <1>1, <1>3, <1>9 DEF Contract!Write
-----------------------------------------------------------------------------
(***************************************************************************)
(* The calls                                                               *)
(***************************************************************************)
LEMMA CallRefines ==
    ASSUME NEW c \in Contract!Calls, Contract!Accepted(c, View),
           View' \in Contract!Successes(c, View) \cup Contract!Failures(c, View)
    PROVE  Contract!Call
BY DEF Contract!Call

LEMMA BeginRefines ==
    ASSUME RegionInv, RegionInv', BeginBaseline
    PROVE  Contract!Call
<1>1. ~freed /\ ~freed' /\ Content' = Content
  BY ContentStays DEF BeginBaseline, Idle, appVars
<1>2. View' = Rec("building", "running", deep, Content, ~mutated, ~spent)
  BY <1>1, NextViewIsRec DEF BeginBaseline, deepVars, appVars
<1>3. Contract!Builder("running", Contract!To("building", View)) =
        Rec("building", "running", deep, Content, ~mutated, ~spent)
  BY <1>1, ViewIsRec, ChangesOfRec
<1>4. Contract!Accepted("begin", View)
  BY <1>1, ViewIsRec DEF Contract!Accepted, Contract!NoThread, BeginBaseline, NoThreads
<1>5. View' \in Contract!Successes("begin", View)
  BY <1>2, <1>3 DEF Contract!Successes
<1> QED BY <1>4, <1>5, CallRefines DEF Contract!Calls

LEMMA ResumeRefines ==
    ASSUME RegionInv, RegionInv', ResumeCore
    PROVE  Contract!Call
<1>1. ~freed /\ ~freed' /\ Content' = Content
  BY ContentStays DEF ResumeCore, Idle, appVars
<1>2. View' = Rec("core", builder, deep, Content, TRUE, ~spent)
  BY <1>1, NextViewIsRec DEF ResumeCore, builderVars, deepVars
<1>3. Contract!Clean(TRUE, Contract!To("core", View)) =
        Rec("core", builder, deep, Content, TRUE, ~spent)
  <2>1. Contract!To("core", View) = Rec("core", builder, deep, Content, ~mutated, ~spent)
    BY <1>1, ViewIsRec, ChangesOfRec
  <2>2. ASSUME NEW yes
        PROVE  Contract!Clean(yes, Contract!To("core", View)) =
                 Rec("core", builder, deep, Content, yes, ~spent)
    BY <2>1, ChangesOfRec
  <2> QED BY <2>2, Zenon
<1>4. Contract!Accepted("resume", View)
  BY <1>1, ViewIsRec DEF Contract!Accepted, Contract!NoThread, ResumeCore, Idle
<1>5. View' \in Contract!Successes("resume", View)
  BY <1>2, <1>3 DEF Contract!Successes
<1> QED BY <1>4, <1>5, CallRefines DEF Contract!Calls

LEMMA DeepRefines ==
    ASSUME RegionInv, RegionInv', StartDeep
    PROVE  Contract!Call
<1>1. ~freed /\ ~freed' /\ Content' = Content
  BY ContentStays DEF StartDeep, Idle, appVars
<1>2. View' = Rec("deep", builder, "running", Content, ~mutated, ~spent)
  BY <1>1, NextViewIsRec DEF StartDeep, builderVars, appVars
<1>3. Contract!Deep("running", Contract!To("deep", View)) =
        Rec("deep", builder, "running", Content, ~mutated, ~spent)
  BY <1>1, ViewIsRec, ChangesOfRec
<1>4. Contract!Accepted("deep", View)
  BY <1>1, ViewIsRec DEF Contract!Accepted, Contract!NoThread, StartDeep, Idle
<1>5. View' \in Contract!Successes("deep", View)
  BY <1>2, <1>3 DEF Contract!Successes
<1> QED BY <1>4, <1>5, CallRefines DEF Contract!Calls

LEMMA ReleaseRefines ==
    ASSUME RegionInv, RegionInv', ReleaseCapsule
    PROVE  Contract!Call
<1>1. ~freed /\ ~freed' /\ Content' = Content
  BY ContentStays DEF ReleaseCapsule, MayRelease, Idle
<1>2. View' = Rec("active", builder, deep, Content, ~mutated, TRUE)
  BY <1>1, NextViewIsRec DEF ReleaseCapsule, MayRelease, builderVars, deepVars
<1>3. Contract!Whole(TRUE, Contract!To("active", View)) =
        Rec("active", builder, deep, Content, ~mutated, TRUE)
  <2>1. Contract!To("active", View) = Rec("active", builder, deep, Content, ~mutated, ~spent)
    BY <1>1, ViewIsRec, ChangesOfRec
  <2>2. ASSUME NEW yes
        PROVE  Contract!Whole(yes, Contract!To("active", View)) =
                 Rec("active", builder, deep, Content, ~mutated, yes)
    BY <2>1, ChangesOfRec
  <2> QED BY <2>2, Zenon
<1>4. Contract!Accepted("release", View)
  BY <1>1, ViewIsRec DEF Contract!Accepted, Contract!NoThread, ReleaseCapsule, MayRelease, NoThreads
<1>5. View' \in Contract!Successes("release", View)
  BY <1>2, <1>3 DEF Contract!Successes
<1> QED BY <1>4, <1>5, CallRefines DEF Contract!Calls

LEMMA RearmRefines ==
    ASSUME RegionInv, RegionInv', Rearm
    PROVE  Contract!Call
<1>1. ~freed /\ ~freed' /\ Content' = Content
  BY ContentStays DEF Rearm, Idle, appVars
<1>2. View' = Rec("baseline", builder, deep, Content, ~mutated, ~spent)
  BY <1>1, NextViewIsRec DEF Rearm, builderVars, deepVars, appVars
<1>3. (View.whole /\ View.clean) = (~spent)
  BY <1>1, ViewIsRec DEF Rearm
<1>4. Contract!Whole(~spent, Contract!To("baseline", View)) =
        Rec("baseline", builder, deep, Content, ~mutated, ~spent)
  BY <1>1, ViewIsRec, ChangesOfRec
<1>5. Contract!Accepted("rearm", View)
  BY <1>1, ViewIsRec DEF Contract!Accepted, Contract!NoThread, Rearm, NoThreads
<1>6. View' \in {Contract!Whole(View.whole /\ View.clean, Contract!To("baseline", View))}
  BY <1>2, <1>3, <1>4
<1>7. View' \in Contract!Successes("rearm", View)
  BY <1>6 DEF Contract!Successes
<1> QED BY <1>5, <1>7, CallRefines DEF Contract!Calls

\* A wait that joins the builder, of sr_wait_baseline or of a cancellation
LEMMA JoinRefines ==
    ASSUME RegionInv, RegionInv', WaitBaseline \/ CancelJoins
    PROVE  Contract!Call
<1>1. /\ ~freed /\ ~freed' /\ Content' = Content /\ builder = "ended"
      /\ state' = state /\ builder' = "none" /\ deep' = deep
      /\ UNCHANGED <<mutated, spent>>
  BY ContentStays DEF WaitBaseline, CancelJoins, Idle, appVars, deepVars, RegionInv, FreedInv
<1>2. View' = Rec(state, "none", deep, Content, ~mutated, ~spent)
  BY <1>1, NextViewIsRec
<1>3. Contract!Builder("none", View) = Rec(state, "none", deep, Content, ~mutated, ~spent)
  BY <1>1, ViewIsRec, ChangesOfRec
<1>4. View' \in {Contract!Builder("none", View)} /\ View.builder = "ended"
  BY <1>1, <1>2, <1>3, ViewIsRec
<1>5. /\ Contract!Accepted("wait_baseline", View)
      /\ View' \in Contract!Successes("wait_baseline", View) \cup
                   Contract!Failures("wait_baseline", View)
  <2>1. Contract!Accepted("wait_baseline", View)
    BY <1>4 DEF Contract!Accepted
  <2>2. CASE View.state = "baseline"
    <3>1. View' \in Contract!Successes("wait_baseline", View)
      BY <1>4, <2>2 DEF Contract!Successes
    <3> QED BY <2>1, <3>1
  <2>3. CASE View.state # "baseline"
    <3>1. Contract!Failures("wait_baseline", View) = {Contract!Builder("none", View)}
      BY <1>4, <2>3 DEF Contract!Failures
    <3> QED BY <1>4, <2>1, <3>1
  <2> QED BY <2>2, <2>3
<1> QED BY <1>5, CallRefines DEF Contract!Calls

LEMMA WaitDeepRefines ==
    ASSUME RegionInv, RegionInv', WaitDeep
    PROVE  Contract!Call
<1>1. /\ ~freed /\ ~freed' /\ Content' = Content /\ deep = "ended"
      /\ state' = state /\ deep' = "none" /\ builder' = builder
      /\ UNCHANGED <<mutated, spent>>
  BY ContentStays DEF WaitDeep, Idle, appVars, builderVars, RegionInv, ThreadInv
<1>2. View' = Rec(state, builder, "none", Content, ~mutated, ~spent)
  BY <1>1, NextViewIsRec
<1>3. Contract!Deep("none", View) = Rec(state, builder, "none", Content, ~mutated, ~spent)
  BY <1>1, ViewIsRec, ChangesOfRec
<1>4. View' \in {Contract!Deep("none", View)} /\ View.deep = "ended"
  BY <1>1, <1>2, <1>3, ViewIsRec
<1>5. Contract!Accepted("wait_deep", View)
  BY <1>4 DEF Contract!Accepted
<1>6. CASE View.state # "deep"
  <2>1. View' \in Contract!Successes("wait_deep", View)
    BY <1>4, <1>6 DEF Contract!Successes
  <2> QED BY <1>5, <2>1, CallRefines DEF Contract!Calls
<1>7. CASE View.state = "deep"
  <2>1. Contract!Failures("wait_deep", View) = {Contract!Deep("none", View)}
    BY <1>4, <1>7 DEF Contract!Failures
  <2> QED BY <1>4, <1>5, <2>1, CallRefines DEF Contract!Calls
<1> QED BY <1>6, <1>7

\* Only an application that calls again after a failure that left pages behind
\* can put a region to sleep whose capsule is not whole.
LEMMA SleepRefines ==
    ASSUME RegionInv, RegionInv', EnterDormant \/ EnterDormantFails, Retries = FALSE
    PROVE  Contract!Call
<1>1. ~freed /\ ~freed' /\ Content' = Content /\ ~spent
  BY ContentStays DEF EnterDormant, EnterDormantFails, MayEnterDormant, Idle, appVars
<1>2. Contract!Accepted("sleep", View)
  BY <1>1, ViewIsRec DEF Contract!Accepted, Contract!NoThread, EnterDormant, EnterDormantFails,
     MayEnterDormant, NoThreads
<1>3. CASE EnterDormant
  <2>1. View' = Rec("dormant", builder, deep, Content, ~mutated, ~spent)
    BY <1>1, <1>3, NextViewIsRec DEF EnterDormant, builderVars, deepVars, appVars
  <2>2. Contract!To("dormant", View) = Rec("dormant", builder, deep, Content, ~mutated, ~spent)
    BY <1>1, ViewIsRec, ChangesOfRec
  <2>3. Contract!Holding(Content, Contract!To("dormant", View)) = View'
    BY <2>1, <2>2, ChangesOfRec
  <2>4. View.whole /\ View.content = Content
    BY <1>1, ViewIsRec
  <2>5. View' \in Contract!Slept(View)
    BY <2>3, <2>4 DEF Contract!Slept
  <2>6. View' \in Contract!Successes("sleep", View)
    BY <2>5 DEF Contract!Successes
  <2> QED BY <1>2, <2>6, CallRefines DEF Contract!Calls
<1>4. CASE EnterDormantFails
  <2>1. View' = Rec(state, builder, deep, Content, ~mutated, ~spent')
    BY <1>1, <1>4, NextViewIsRec DEF EnterDormantFails, builderVars, deepVars
  <2>2. View = Rec(state, builder, deep, Content, ~mutated, ~spent)
    BY <1>1, ViewIsRec
  <2>3. Contract!Whole(FALSE, View) = Rec(state, builder, deep, Content, ~mutated, FALSE)
    <3>1. ASSUME NEW yes
          PROVE  Contract!Whole(yes, View) = Rec(state, builder, deep, Content, ~mutated, yes)
      BY <2>2, ChangesOfRec
    <3> QED BY <3>1, Zenon
  <2>4. View' \in {View, Contract!Whole(FALSE, View)}
    <3>1. CASE spent'
      BY <2>1, <2>3, <3>1, Zenon
    <3>2. CASE ~spent'
      <4>1. (~spent') = (~spent)
        BY <1>1, <3>2
      <4> QED BY <2>1, <2>2, <4>1
    <3> QED BY <3>1, <3>2
  <2>5. View' \in Contract!Failures("sleep", View)
    BY <2>4 DEF Contract!Failures
  <2> QED BY <1>2, <2>5, CallRefines DEF Contract!Calls
<1> QED BY <1>3, <1>4
-----------------------------------------------------------------------------
(***************************************************************************)
(* The threads, and sr_destroy                                             *)
(***************************************************************************)
LEMMA BuiltRefines ==
    ASSUME RegionInv, RegionInv', AbandonBaseline \/ CompleteBaseline
    PROVE  Contract!ThreadEnds
<1>1. /\ ~freed /\ ~freed' /\ Content' = Content /\ builder = "running"
      /\ state' \in {"baseline", "active"} /\ builder' = "ended" /\ deep' = deep
      /\ UNCHANGED <<mutated, spent>>
  BY ContentStays DEF AbandonBaseline, CompleteBaseline, appVars, deepVars, RegionInv, FreedInv
<1>2. View' = Rec(state', "ended", deep, Content, ~mutated, ~spent)
  BY <1>1, NextViewIsRec
<1>3. Contract!To(state', View) = Rec(state', builder, deep, Content, ~mutated, ~spent)
  BY <1>1, ViewIsRec, ChangesOfRec
<1>4. Contract!Builder("ended", Contract!To(state', View)) = View' /\ View.builder = "running"
  BY <1>1, <1>2, <1>3, ViewIsRec, ChangesOfRec
<1> QED BY <1>1, <1>4 DEF Contract!ThreadEnds, Contract!Built

LEMMA RestoredRefines ==
    ASSUME RegionInv, RegionInv', DeepFails \/ DeepCompletes
    PROVE  Contract!ThreadEnds
<1>1. /\ ~freed /\ ~freed' /\ Content' = Content /\ deep = "running"
      /\ state' \in {"capsule", "deep"} /\ deep' = "ended" /\ builder' = builder
      /\ UNCHANGED <<mutated, spent>>
  BY ContentStays DEF DeepFails, DeepCompletes, appVars, builderVars, RegionInv, FreedInv, ThreadInv
<1>2. View' = Rec(state', builder, "ended", Content, ~mutated, ~spent)
  BY <1>1, NextViewIsRec
<1>3. Contract!To(state', View) = Rec(state', builder, deep, Content, ~mutated, ~spent)
  BY <1>1, ViewIsRec, ChangesOfRec
<1>4. Contract!Deep("ended", Contract!To(state', View)) = View' /\ View.deep = "running"
  BY <1>1, <1>2, <1>3, ViewIsRec, ChangesOfRec
<1> QED BY <1>1, <1>4 DEF Contract!ThreadEnds, Contract!Restored

LEMMA DestroyRefines ==
    ASSUME RegionInv, RegionInv', Destroyed
    PROVE  Contract!Destroy
<1>1. /\ ~freed /\ freed' /\ builder # "running" /\ deep # "running"
      /\ builder' = "none" /\ deep' = "none" /\ Content' = Content
      /\ UNCHANGED <<mutated, spent>>
  BY DEF Destroyed, Joined, RegionInv, FreedInv, TypeOK, Threads, Content, Rebuilt
<1>2. View' = Rec("none", "none", "none", Content, ~mutated, ~spent)
  BY <1>1 DEF View, Rec
<1>3. Contract!Builder("none", Contract!To("none", View)) =
        Rec("none", "none", deep, Content, ~mutated, ~spent)
  BY <1>1, ViewIsRec, ChangesOfRec
<1>4. View' = Contract!Destroyed(View)
  BY <1>2, <1>3, ChangesOfRec DEF Contract!Destroyed
<1>5. View.state # "none" /\ Contract!Quiet(View)
  BY <1>1, ViewIsRec DEF Contract!Quiet, RegionInv, TypeOK, States
<1> QED BY <1>4, <1>5 DEF Contract!Destroy

\* What the application does not see: a unit built or restored, a call that
\* begins to wait or fails without a trace
LEMMA StutterRefines ==
    ASSUME RegionInv, RegionInv',
           \/ BeginFails \/ Cancel \/ CancelTimesOut \/ ResumeCoreFails \/ Destroy
           \/ BuildUnit \/ DeepUnit \/ UNCHANGED vars
    PROVE  View' = View
<1>1. CASE UNCHANGED vars
  BY <1>1 DEF vars, capsuleVars, builderVars, deepVars, appVars, View, Content, Rebuilt
<1>2. CASE ~UNCHANGED vars
  <2>1. ~freed /\ ~freed'
    BY <1>2 DEF BeginFails, Cancel, CancelTimesOut, ResumeCoreFails, Destroy, BuildUnit, DeepUnit,
       Idle, appVars, RegionInv, FreedInv
  <2>2. UNCHANGED <<state, builder, deep, wrote, mutated, spent>>
    BY <1>2 DEF BeginFails, Cancel, CancelTimesOut, ResumeCoreFails, Destroy, BuildUnit, DeepUnit,
       builderVars, deepVars, appVars
  <2>3. Content' = Content
    BY <2>1, <2>2, ContentStays
  <2> QED BY <2>1, <2>2, <2>3 DEF View
<1> QED BY <1>1, <1>2

LEMMA StepRefines ==
    ASSUME RegionInv, RegionInv', [Next]_vars, Retries = FALSE
    PROVE  [Contract!Next]_View
<1>1. CASE \E p \in Pages, v \in Values : Write(p, v)
  BY <1>1, WriteRefines DEF Contract!Next
<1>2. CASE BeginBaseline \/ ResumeCore \/ StartDeep \/ ReleaseCapsule \/ Rearm
  BY <1>2, BeginRefines, ResumeRefines, DeepRefines, ReleaseRefines, RearmRefines DEF Contract!Next
<1>3. CASE WaitBaseline \/ CancelJoins \/ WaitDeep \/ EnterDormant \/ EnterDormantFails
  BY <1>3, JoinRefines, WaitDeepRefines, SleepRefines DEF Contract!Next
<1>4. CASE AbandonBaseline \/ CompleteBaseline \/ DeepFails \/ DeepCompletes
  BY <1>4, BuiltRefines, RestoredRefines DEF Contract!Next
<1>5. CASE Destroyed
  BY <1>5, DestroyRefines DEF Contract!Next
<1>6. CASE \/ BeginFails \/ Cancel \/ CancelTimesOut \/ ResumeCoreFails \/ Destroy
           \/ BuildUnit \/ DeepUnit \/ UNCHANGED vars
  BY <1>6, StutterRefines
<1> QED BY <1>1, <1>2, <1>3, <1>4, <1>5, <1>6
        DEF Next, Application, BuilderThread, DeepThread, Join

\* The capsule SDK keeps its contract: an application that does not repeat an
\* sr_enter_dormant that has failed (no host of the repository does) sees a
\* region whose content changes by its own writes alone, and calls with the
\* outcomes of RegionCalls.
THEOREM SdkKeepsContract == ASSUME Retries = FALSE PROVE Spec => KeepsContract
<1>1. Init => Contract!Init
  BY InitRefines
<1>2. RegionInv /\ RegionInv' /\ [Next]_vars => [Contract!Next]_View
  BY StepRefines
<1>3. Spec => []RegionInv
  BY RegionInvariant
<1> QED BY <1>1, <1>2, <1>3, PTL DEF Spec, KeepsContract, Contract!Spec
=============================================================================
