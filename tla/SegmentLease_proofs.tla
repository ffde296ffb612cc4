------------------------ MODULE SegmentLease_proofs ------------------------
(***************************************************************************)
(* Theorems about SegmentLease, for every set of threads and every size of *)
(* the object, with their proofs.                                          *)
(***************************************************************************)
EXTENDS SegmentLease, FiniteSetTheorems, TLAPS

-----------------------------------------------------------------------------
(***************************************************************************)
(* Arithmetic of ranges                                                    *)
(***************************************************************************)

\* The segment of a page of the object is a segment of the object.
LEMMA SegmentOfPage ==
    ASSUME NEW page \in AllPages
    PROVE  SegmentOf(page) \in Segments
<1> USE DEF Segments, AllPages
<1>1. /\ page = PageCount * (page \div PageCount) + (page % PageCount)
      /\ page % PageCount \in 0 .. PageCount - 1
      /\ page \div PageCount \in Int
  BY ConstantsAssumption, SMT
<1>2. page \div PageCount >= 0
  BY ConstantsAssumption, SMT
<1>3. page \div PageCount < SegmentCount
  <2>1. SUFFICES ASSUME page \div PageCount >= SegmentCount PROVE FALSE
    BY <1>1, ConstantsAssumption
  <2>2. PageCount * (page \div PageCount) >= PageCount * SegmentCount
    BY <2>1, <1>1, ConstantsAssumption
  <2>3. PageCount * SegmentCount = SegmentCount * PageCount
    BY ConstantsAssumption
  <2> QED BY <2>2, <2>3, <1>1, ConstantsAssumption
<1> QED BY <1>1, <1>2, <1>3, ConstantsAssumption DEF SegmentOf

\* The first and the last page of a segment are pages of the object.
LEMMA SegmentEnds ==
    ASSUME NEW s \in Segments
    PROVE  /\ s * PageCount \in AllPages
           /\ s * PageCount + PageCount - 1 \in AllPages
<1> USE DEF Segments, AllPages
<1>1. (s + 1) * PageCount <= SegmentCount * PageCount
  BY ConstantsAssumption
<1>2. (s + 1) * PageCount = s * PageCount + PageCount /\ s * PageCount >= 0
  BY ConstantsAssumption
<1> QED BY <1>1, <1>2, ConstantsAssumption

\* overlapping_pages_bitmap returns exactly the pages of the range: nothing
\* the application may have written is left out of the journal, and nothing
\* else is journaled.
LEMMA OverlappingPagesIsLeasedPages ==
    ASSUME NEW t \in Threads, NEW s \in Segments,
           lease[t].lo \in Nat, lease[t].hi \in Nat
    PROVE  OverlappingPages(s, lease[t].lo, lease[t].hi) = LeasedPages(t, s)
<1> USE DEF Segments, Pages
<1> DEFINE origin == s * PageCount
           lo == lease[t].lo
           hi == lease[t].hi
<1>1. origin \in Int /\ PageCount \in Nat \ {0}
  BY ConstantsAssumption
<1>2. ASSUME NEW p \in Pages
      PROVE  (/\ Higher(origin, lo) < Lower(origin + PageCount, hi + 1)
              /\ Higher(origin, lo) - origin <= p
              /\ p <= Lower(origin + PageCount, hi + 1) - 1 - origin)
             <=> (lo <= origin + p /\ origin + p <= hi)
  <2> HIDE DEF origin
  <2> QED BY <1>1 DEF Higher, Lower
<1> QED BY <1>2 DEF OverlappingPages, LeasedPages

-----------------------------------------------------------------------------
(***************************************************************************)
(* Types                                                                   *)
(***************************************************************************)
LEMMA BlankType == Blank \in Content
  BY ConstantsAssumption DEF Blank, Content

LEMMA ComposeType ==
    ASSUME NEW d \in Content, NEW b, NEW ov \in Content
    PROVE  Compose(d, b, ov) \in Content
  BY DEF Compose, Content

LEMMA ConstantTypes ==
    /\ 0 \in Segments /\ 0 \in AllPages
    /\ NoBase \in BaseType /\ BackingBase \in BaseType
    /\ NoLease \in [mode : Modes, first : Segments, last : Segments,
                    lo : AllPages, hi : AllPages]
    /\ NoJob \in [base : BaseType, bitmap : SUBSET Pages, overlay : Content,
                  hash : Content, hashValid : BOOLEAN]
    /\ NoSnap \in [generation : Nat, data : Content]
<1> USE BlankType, ConstantsAssumption
<1>1. 0 \in Segments /\ 0 \in AllPages
  <2>1. SegmentCount * PageCount >= 1 BY SMT
  <2> QED BY <2>1 DEF Segments, AllPages
<1>2. NoBase \in BaseType /\ BackingBase \in BaseType
  BY DEF NoBase, BackingBase, BaseType, BaseKinds
<1> QED BY <1>1, <1>2 DEF NoLease, NoJob, NoSnap, Modes

LEMMA InitTypeOK == Init => TypeOK
<1> SUFFICES ASSUME Init PROVE TypeOK OBVIOUS
<1> USE BlankType, ConstantTypes, ConstantsAssumption
<1>1. /\ raw \in [Segments -> Content] /\ hash \in [Segments -> Content]
      /\ committed \in [Segments -> BOOLEAN] /\ hashValid \in [Segments -> BOOLEAN]
      /\ base \in [Segments -> BaseType]
  <2>1. CASE RegisteredWithData
    BY <2>1 DEF RegisteredWithData, Loaded
  <2>2. CASE RegisteredTrusted
    BY <2>2 DEF RegisteredTrusted, Loaded
  <2>3. CASE RegisteredByBacking
    BY <2>3 DEF RegisteredByBacking
  <2> QED BY <2>1, <2>2, <2>3 DEF Init
<1>2. StoreTypeOK /\ LockTypeOK
  BY <1>1 DEF Init, StoreTypeOK, LockTypeOK
<1>3. CallTypeOK /\ RestoreTypeOK /\ CompactTypeOK
  BY DEF Init, CallTypeOK, RestoreTypeOK, CompactTypeOK, CallPcs, CompactPcs
<1> QED BY <1>2, <1>3 DEF TypeOK

LEMMA NextTypeOK == TypeOK /\ [Next]_vars => TypeOK'
<1> SUFFICES ASSUME TypeOK, [Next]_vars PROVE TypeOK' OBVIOUS
<1> USE BlankType, ConstantTypes, ConstantsAssumption
<1>1. StoreTypeOK /\ LockTypeOK /\ CallTypeOK /\ RestoreTypeOK /\ CompactTypeOK
  BY DEF TypeOK
<1>2. CASE UNCHANGED vars
  BY <1>2 DEF vars, storeVars, callVars, restoreVars, compactVars, TypeOK, StoreTypeOK,
     LockTypeOK, CallTypeOK, RestoreTypeOK, CompactTypeOK
<1>3. ASSUME NEW t \in Threads, NEW mode \in Modes, NEW lo \in AllPages, NEW hi \in AllPages,
             Request(t, mode, lo, hi)
      PROVE  TypeOK'
  <2>1. SegmentOf(lo) \in Segments /\ SegmentOf(hi) \in Segments
    BY SegmentOfPage
  <2>2. CallTypeOK'
    BY <1>1, <1>3, <2>1 DEF Request, CallTypeOK, CallPcs
  <2>3. StoreTypeOK' /\ LockTypeOK' /\ RestoreTypeOK' /\ CompactTypeOK'
    BY <1>1, <1>3 DEF Request, StoreTypeOK, LockTypeOK, RestoreTypeOK, CompactTypeOK,
       storeVars, restoreVars, compactVars
  <2> QED BY <2>2, <2>3 DEF TypeOK
<1>4. ASSUME NEW t \in Threads, Acquire(t) \/ Prewarm(t) PROVE TypeOK'
  <2>1. CASE Acquire(t)
    BY <1>3, <2>1 DEF Acquire, Modes
  <2>2. CASE Prewarm(t)
    BY <1>3, <2>2, SegmentEnds DEF Prewarm, Modes
  <2> QED BY <1>4, <2>1, <2>2
<1>5. ASSUME NEW t \in Threads PROVE NextAt(t) \in Segments
  BY <1>1 DEF NextAt, CallTypeOK, Segments
<1>6. ASSUME NEW t \in Threads, PinResident(t) PROVE TypeOK'
  <2>1. LockTypeOK'
    BY <1>1, <1>6, <1>5 DEF PinResident, LockTypeOK, Pin, CallTypeOK
  <2>2. CallTypeOK'
    BY <1>1, <1>6, <1>5 DEF PinResident, CallTypeOK, Pin, NextPc, CallPcs
  <2>3. StoreTypeOK' /\ RestoreTypeOK' /\ CompactTypeOK'
    BY <1>1, <1>6 DEF PinResident, StoreTypeOK, RestoreTypeOK, CompactTypeOK, storeVars, restoreVars, compactVars
  <2> QED BY <2>1, <2>2, <2>3 DEF TypeOK
<1>7. ASSUME NEW t \in Threads, Wait(t) PROVE TypeOK'
  <2>1. CallTypeOK'
    BY <1>1, <1>7 DEF Wait, CallTypeOK, CallPcs
  <2>2. StoreTypeOK' /\ LockTypeOK' /\ RestoreTypeOK' /\ CompactTypeOK'
    BY <1>1, <1>7 DEF Wait, StoreTypeOK, LockTypeOK, RestoreTypeOK, CompactTypeOK, storeVars, restoreVars, compactVars
  <2> QED BY <2>1, <2>2 DEF TypeOK
<1>8. ASSUME NEW t \in Threads, BeginRestore(t) PROVE TypeOK'
  <2>1. LockTypeOK'
    BY <1>1, <1>8 DEF BeginRestore, LockTypeOK, CallTypeOK
  <2>2. CallTypeOK'
    BY <1>1, <1>8 DEF BeginRestore, CallTypeOK, CallPcs, RestorePcs
  <2>3. StoreTypeOK' /\ RestoreTypeOK' /\ CompactTypeOK'
    BY <1>1, <1>8 DEF BeginRestore, StoreTypeOK, RestoreTypeOK, CompactTypeOK, storeVars, restoreVars, compactVars
  <2> QED BY <2>1, <2>2, <2>3 DEF TypeOK
<1>9. ASSUME NEW t \in Threads, GatePass(t) PROVE TypeOK'
  <2>1. CallTypeOK'
    BY <1>1, <1>9 DEF GatePass, CallTypeOK, CallPcs, RestorePcs
  <2>2. StoreTypeOK' /\ LockTypeOK' /\ RestoreTypeOK' /\ CompactTypeOK'
    BY <1>1, <1>9 DEF GatePass, StoreTypeOK, LockTypeOK, RestoreTypeOK, CompactTypeOK, storeVars, restoreVars, compactVars
  <2> QED BY <2>1, <2>2 DEF TypeOK
<1>10. ASSUME NEW t \in Threads, GateRefuse(t) PROVE TypeOK'
  <2>1. LockTypeOK'
    BY <1>1, <1>10 DEF GateRefuse, LockTypeOK, EndRestore, CallTypeOK
  <2>2. CallTypeOK'
    BY <1>1, <1>10 DEF GateRefuse, CallTypeOK, Notify, FailPc, CallPcs
  <2>3. StoreTypeOK' /\ RestoreTypeOK' /\ CompactTypeOK'
    BY <1>1, <1>10 DEF GateRefuse, StoreTypeOK, RestoreTypeOK, CompactTypeOK, storeVars, restoreVars, compactVars
  <2> QED BY <2>1, <2>2, <2>3 DEF TypeOK
<1>11. ASSUME NEW t \in Threads, CopySegment(t) PROVE TypeOK'
  <2>1. CallTypeOK'
    BY <1>1, <1>11 DEF CopySegment, CallTypeOK, CallPcs, RestorePcs
  <2>2. RestoreTypeOK'
    BY <1>1, <1>11 DEF CopySegment, RestoreTypeOK, StoreTypeOK, CallTypeOK
  <2>3. StoreTypeOK' /\ LockTypeOK' /\ CompactTypeOK'
    BY <1>1, <1>11 DEF CopySegment, StoreTypeOK, LockTypeOK, CompactTypeOK, storeVars, compactVars
  <2> QED BY <2>1, <2>2, <2>3 DEF TypeOK
<1>12. ASSUME NEW t \in Threads, Rebuild(t) PROVE TypeOK'
  <2>1. CallTypeOK'
    BY <1>1, <1>12 DEF Rebuild, CallTypeOK, CallPcs, RestorePcs
  <2>2. ASSUME NEW d \in BaseContents(job[t].base)
        PROVE  Compose(d, job[t].bitmap, job[t].overlay) \in Content
    <3>1. d \in Content
      BY <1>1 DEF BaseContents, RestoreTypeOK, BaseType
    <3> QED BY <1>1, <3>1, ComposeType DEF RestoreTypeOK
  <2>3. RestoreTypeOK'
    BY <1>1, <1>12, <2>2 DEF Rebuild, RestoreTypeOK
  <2>4. StoreTypeOK' /\ LockTypeOK' /\ CompactTypeOK'
    BY <1>1, <1>12 DEF Rebuild, StoreTypeOK, LockTypeOK, CompactTypeOK, storeVars, compactVars
  <2> QED BY <2>1, <2>3, <2>4 DEF TypeOK
<1>13. ASSUME NEW t \in Threads, RebuildFails(t) PROVE TypeOK'
  <2>1. CallTypeOK'
    BY <1>1, <1>13 DEF RebuildFails, CallTypeOK, CallPcs, RestorePcs
  <2>2. RestoreTypeOK'
    BY <1>1, <1>13 DEF RebuildFails, RestoreTypeOK
  <2>3. StoreTypeOK' /\ LockTypeOK' /\ CompactTypeOK'
    BY <1>1, <1>13 DEF RebuildFails, StoreTypeOK, LockTypeOK, CompactTypeOK, storeVars, compactVars
  <2> QED BY <2>1, <2>2, <2>3 DEF TypeOK
<1>14. ASSUME NEW t \in Threads, Fill(t) PROVE TypeOK'
  <2>1. StoreTypeOK'
    BY <1>1, <1>14 DEF Fill, StoreTypeOK, RestoreTypeOK, CallTypeOK
  <2>2. CallTypeOK'
    BY <1>1, <1>14 DEF Fill, CallTypeOK, CallPcs, RestorePcs
  <2>3. RestoreTypeOK'
    BY <1>1, <1>14 DEF Fill, RestoreTypeOK, CallTypeOK
  <2>4. LockTypeOK' /\ CompactTypeOK'
    BY <1>1, <1>14 DEF Fill, LockTypeOK, CompactTypeOK, compactVars
  <2> QED BY <2>1, <2>2, <2>3, <2>4 DEF TypeOK
<1>15. ASSUME NEW t \in Threads, Publish(t) PROVE TypeOK'
  <2>1. StoreTypeOK'
    BY <1>1, <1>15, <1>5 DEF Publish, StoreTypeOK, FreshHash, CallTypeOK
  <2>2. LockTypeOK'
    BY <1>1, <1>15, <1>5 DEF Publish, LockTypeOK, Pin, EndRestore, CallTypeOK
  <2>3. CallTypeOK'
    BY <1>1, <1>15, <1>5 DEF Publish, CallTypeOK, Pin, Notify, NextPc, CallPcs
  <2>4. RestoreTypeOK'
    BY <1>1, <1>15, <1>5 DEF Publish, RestoreTypeOK, Forget, CallTypeOK
  <2>5. CompactTypeOK'
    BY <1>1, <1>15 DEF Publish, CompactTypeOK, compactVars
  <2> QED BY <2>1, <2>2, <2>3, <2>4, <2>5 DEF TypeOK
<1>16. ASSUME NEW t \in Threads, PublishFailure(t) PROVE TypeOK'
  <2>1. LockTypeOK'
    BY <1>1, <1>16 DEF PublishFailure, LockTypeOK, EndRestore, CallTypeOK
  <2>2. CallTypeOK'
    BY <1>1, <1>16 DEF PublishFailure, CallTypeOK, Notify, FailPc, CallPcs
  <2>3. RestoreTypeOK'
    BY <1>1, <1>16 DEF PublishFailure, RestoreTypeOK, Forget, CallTypeOK
  <2>4. StoreTypeOK' /\ CompactTypeOK'
    BY <1>1, <1>16 DEF PublishFailure, StoreTypeOK, CompactTypeOK, storeVars, compactVars
  <2> QED BY <2>1, <2>2, <2>3, <2>4 DEF TypeOK
<1>17. ASSUME NEW t \in Threads, Write(t) PROVE TypeOK'
  <2>1. StoreTypeOK'
    BY <1>1, <1>17 DEF Write, StoreTypeOK, LeasedPages, Content, CallTypeOK
  <2>2. CallTypeOK'
    BY <1>1, <1>17 DEF Write, CallTypeOK, callVars
  <2>3. LockTypeOK' /\ RestoreTypeOK' /\ CompactTypeOK'
    BY <1>1, <1>17 DEF Write, LockTypeOK, RestoreTypeOK, CompactTypeOK, restoreVars, compactVars
  <2> QED BY <2>1, <2>2, <2>3 DEF TypeOK
<1>18. ASSUME NEW t \in Threads, BeginRelease(t) PROVE TypeOK'
  <2>1. CallTypeOK'
    BY <1>1, <1>18 DEF BeginRelease, CallTypeOK, CallPcs
  <2>2. StoreTypeOK' /\ LockTypeOK' /\ RestoreTypeOK' /\ CompactTypeOK'
    BY <1>1, <1>18 DEF BeginRelease, StoreTypeOK, LockTypeOK, RestoreTypeOK, CompactTypeOK, storeVars, restoreVars, compactVars
  <2> QED BY <2>1, <2>2 DEF TypeOK
<1>19. ASSUME NEW t \in Threads, Journal(t) PROVE TypeOK'
  <2>1. OverlappingPages(at[t], lease[t].lo, lease[t].hi) \subseteq Pages
    BY DEF OverlappingPages
  <2>2. StoreTypeOK'
    BY <1>1, <1>19, <2>1, ComposeType DEF Journal, StoreTypeOK, CallTypeOK, FreshHash
  <2>3. CallTypeOK'
    BY <1>1, <1>19, <1>5 DEF Journal, CallTypeOK, AfterJournal, CallPcs
  <2>4. LockTypeOK' /\ RestoreTypeOK' /\ CompactTypeOK'
    BY <1>1, <1>19 DEF Journal, LockTypeOK, RestoreTypeOK, CompactTypeOK, restoreVars, compactVars
  <2> QED BY <2>2, <2>3, <2>4 DEF TypeOK
<1>20. ASSUME NEW t \in Threads, Unpin(t) PROVE TypeOK'
  <2>1. LockTypeOK'
    BY <1>1, <1>20 DEF Unpin, LockTypeOK, CallTypeOK
  <2>2. CallTypeOK'
    BY <1>1, <1>20 DEF Unpin, CallTypeOK, CallPcs
  <2>3. StoreTypeOK' /\ RestoreTypeOK' /\ CompactTypeOK'
    BY <1>1, <1>20 DEF Unpin, StoreTypeOK, RestoreTypeOK, CompactTypeOK, storeVars, restoreVars, compactVars
  <2> QED BY <2>1, <2>2, <2>3 DEF TypeOK
<1>21. ASSUME NEW t \in Threads, Choose(t) PROVE TypeOK'
  <2>1. CompactTypeOK'
    BY <1>1, <1>21 DEF Choose, CompactTypeOK, ToCompactPc, CompactPcs
  <2>2. StoreTypeOK' /\ LockTypeOK' /\ CallTypeOK' /\ RestoreTypeOK'
    BY <1>1, <1>21 DEF Choose, StoreTypeOK, LockTypeOK, CallTypeOK, RestoreTypeOK, storeVars, callVars, restoreVars
  <2> QED BY <2>1, <2>2 DEF TypeOK
<1>22. ASSUME NEW t \in Threads, DirectDecommit(t) PROVE TypeOK'
  <2>1. StoreTypeOK'
    <3>1. victim[t] \in Segments
      BY <1>1 DEF CompactTypeOK
    <3>2. ASSUME NEW s \in Segments, Decommit(s) \/ DecommitFails(s)
          PROVE  raw' \in [Segments -> Content] /\ committed' \in [Segments -> BOOLEAN]
      <4>1. [raw EXCEPT ![s] = Blank] \in [Segments -> Content]
        BY <1>1 DEF StoreTypeOK
      <4>2. [committed EXCEPT ![s] = FALSE] \in [Segments -> BOOLEAN]
        BY <1>1 DEF StoreTypeOK
      <4> QED BY <1>1, <3>2, <4>1, <4>2 DEF Decommit, DecommitFails, StoreTypeOK
    <3> QED BY <1>1, <1>22, <3>1, <3>2 DEF DirectDecommit, StoreTypeOK
  <2>2. CompactTypeOK'
    BY <1>1, <1>22 DEF DirectDecommit, CompactTypeOK, ToCompactPc, CompactPcs, DropSnap
  <2>3. LockTypeOK' /\ CallTypeOK' /\ RestoreTypeOK'
    BY <1>1, <1>22 DEF DirectDecommit, LockTypeOK, CallTypeOK, RestoreTypeOK, callVars, restoreVars
  <2> QED BY <2>1, <2>2, <2>3 DEF TypeOK
<1>23. ASSUME NEW t \in Threads, DirectRefused(t) PROVE TypeOK'
  <2>1. CompactTypeOK'
    BY <1>1, <1>23 DEF DirectRefused, CompactTypeOK, ToCompactPc, CompactPcs
  <2>2. StoreTypeOK' /\ LockTypeOK' /\ CallTypeOK' /\ RestoreTypeOK'
    BY <1>1, <1>23 DEF DirectRefused, StoreTypeOK, LockTypeOK, CallTypeOK, RestoreTypeOK, storeVars, callVars, restoreVars
  <2> QED BY <2>1, <2>2 DEF TypeOK
<1>24. ASSUME NEW t \in Threads, Snapshot(t) PROVE TypeOK'
  <2>1. CompactTypeOK'
    BY <1>1, <1>24 DEF Snapshot, CompactTypeOK, ToCompactPc, CompactPcs, StoreTypeOK
  <2>2. StoreTypeOK' /\ LockTypeOK' /\ CallTypeOK' /\ RestoreTypeOK'
    BY <1>1, <1>24 DEF Snapshot, StoreTypeOK, LockTypeOK, CallTypeOK, RestoreTypeOK, storeVars, callVars, restoreVars
  <2> QED BY <2>1, <2>2 DEF TypeOK
<1>25. ASSUME NEW t \in Threads, GiveUp(t) PROVE TypeOK'
  <2>1. CompactTypeOK'
    BY <1>1, <1>25 DEF GiveUp, CompactTypeOK, ToCompactPc, CompactPcs, DropSnap
  <2>2. StoreTypeOK' /\ LockTypeOK' /\ CallTypeOK' /\ RestoreTypeOK'
    BY <1>1, <1>25 DEF GiveUp, StoreTypeOK, LockTypeOK, CallTypeOK, RestoreTypeOK, storeVars, callVars, restoreVars
  <2> QED BY <2>1, <2>2 DEF TypeOK
<1>26. ASSUME NEW t \in Threads, Swap(t) PROVE TypeOK'
  <2>1. StoreTypeOK'
    <3>1. /\ victim[t] \in Segments
          /\ [kind |-> "COMPRESSED", data |-> snap[t].data] \in BaseType
          /\ snap[t].data \in Content
      BY <1>1 DEF CompactTypeOK, BaseType, BaseKinds
    <3>2. ASSUME NEW s \in Segments, Decommit(s) \/ DecommitFails(s)
          PROVE  raw' \in [Segments -> Content] /\ committed' \in [Segments -> BOOLEAN]
      <4>1. [raw EXCEPT ![s] = Blank] \in [Segments -> Content]
        BY <1>1 DEF StoreTypeOK
      <4>2. [committed EXCEPT ![s] = FALSE] \in [Segments -> BOOLEAN]
        BY <1>1 DEF StoreTypeOK
      <4> QED BY <1>1, <3>2, <4>1, <4>2 DEF Decommit, DecommitFails, StoreTypeOK
    <3>3. raw' \in [Segments -> Content] /\ committed' \in [Segments -> BOOLEAN]
      BY <1>26, <3>1, <3>2 DEF Swap
    <3>4. /\ base' \in [Segments -> BaseType]
          /\ bitmap' \in [Segments -> SUBSET Pages] /\ overlay' \in [Segments -> Content]
          /\ hash' \in [Segments -> Content] /\ hashValid' \in [Segments -> BOOLEAN]
      <4> DEFINE s == victim[t]
      <4>1. [base EXCEPT ![s] = [kind |-> "COMPRESSED", data |-> snap[t].data]]
              \in [Segments -> BaseType]
        BY <1>1, <3>1 DEF StoreTypeOK
      <4>2. [bitmap EXCEPT ![s] = {}] \in [Segments -> SUBSET Pages]
        BY <1>1 DEF StoreTypeOK
      <4>3. /\ [overlay EXCEPT ![s] = Blank] \in [Segments -> Content]
            /\ [hash EXCEPT ![s] = snap[t].data] \in [Segments -> Content]
            /\ [hashValid EXCEPT ![s] = TRUE] \in [Segments -> BOOLEAN]
        BY <1>1, <3>1 DEF StoreTypeOK
      <4> QED BY <1>1, <1>26, <4>1, <4>2, <4>3 DEF Swap, StoreTypeOK
    <3> QED BY <1>1, <1>26, <3>3, <3>4 DEF Swap, StoreTypeOK
  <2>2. CompactTypeOK'
    BY <1>1, <1>26 DEF Swap, CompactTypeOK, ToCompactPc, CompactPcs, DropSnap
  <2>3. LockTypeOK' /\ CallTypeOK' /\ RestoreTypeOK'
    BY <1>1, <1>26 DEF Swap, LockTypeOK, CallTypeOK, RestoreTypeOK, callVars, restoreVars
  <2> QED BY <2>1, <2>2, <2>3 DEF TypeOK
<1>27. ASSUME NEW t \in Threads, SwapAborted(t) PROVE TypeOK'
  <2>1. CompactTypeOK'
    BY <1>1, <1>27 DEF SwapAborted, CompactTypeOK, ToCompactPc, CompactPcs, DropSnap
  <2>2. StoreTypeOK' /\ LockTypeOK' /\ CallTypeOK' /\ RestoreTypeOK'
    BY <1>1, <1>27 DEF SwapAborted, StoreTypeOK, LockTypeOK, CallTypeOK, RestoreTypeOK, storeVars, callVars, restoreVars
  <2> QED BY <2>1, <2>2 DEF TypeOK
<1> QED
  BY <1>2, <1>4, <1>6, <1>7, <1>8, <1>9, <1>10, <1>11, <1>12, <1>13, <1>14, <1>15, <1>16, <1>17, <1>18, <1>19, <1>20, <1>21, <1>22, <1>23, <1>24, <1>25, <1>26, <1>27
     DEF Next, Materialize, Release, CompactOne

(***************************************************************************)
(* Every variable keeps its type: in particular the segment loops of       *)
(* sr_acquire and sr_release never index past the last segment.            *)
(***************************************************************************)
THEOREM TypeCorrect == Spec => []TypeOK
  BY InitTypeOK, NextTypeOK, PTL DEF Spec

-----------------------------------------------------------------------------
(***************************************************************************)
(* What a call holds.  lease->segments is always the part of the request   *)
(* the loop of sr_acquire has gone through.                                *)
(***************************************************************************)
InSegmentLoop(t) == pc[t] \in {"pin", "wait"} \cup RestorePcs

HeldOK(t) ==
    /\ lease[t].first <= lease[t].last
    /\ pc[t] = "idle" => held[t] = {}
    /\ lease[t].mode = "PREWARM" =>
         held[t] = {} /\ pc[t] \notin {"leased", "journal", "unpin"}
    /\ InSegmentLoop(t) =>
         /\ lease[t].first <= at[t] /\ at[t] <= lease[t].last
         /\ lease[t].mode # "PREWARM" =>
              held[t] = {s \in Segments : lease[t].first <= s /\ s < at[t]}
    /\ pc[t] \in {"leased", "journal"} =>
         held[t] = {s \in Segments : lease[t].first <= s /\ s <= lease[t].last}
    /\ pc[t] = "journal" => lease[t].first <= at[t] /\ at[t] <= lease[t].last

HeldInv == \A t \in Threads : HeldOK(t)

\* A range lo <= hi of pages starts in a segment no later than it ends in.
LEMMA SegmentOfMonotone ==
    ASSUME NEW lo \in AllPages, NEW hi \in AllPages, lo <= hi
    PROVE  SegmentOf(lo) <= SegmentOf(hi)
<1> USE ConstantsAssumption DEF AllPages
<1> DEFINE a == lo \div PageCount
           b == hi \div PageCount
<1>1. /\ lo = PageCount * a + (lo % PageCount) /\ lo % PageCount \in 0 .. PageCount - 1
      /\ hi = PageCount * b + (hi % PageCount) /\ hi % PageCount \in 0 .. PageCount - 1
      /\ a \in Int /\ b \in Int
  BY SMT
<1> HIDE DEF a, b
<1>2. SUFFICES ASSUME a > b PROVE FALSE
  BY <1>1 DEF SegmentOf, a, b
<1>3. PageCount * a >= PageCount * (b + 1)
  BY <1>1, <1>2
<1>4. PageCount * (b + 1) = PageCount * b + PageCount
  BY <1>1
<1> QED BY <1>1, <1>3, <1>4

LEMMA InitHeld == Init => HeldInv
  BY ConstantsAssumption DEF Init, HeldInv, HeldOK, InSegmentLoop, NoLease, RestorePcs

LEMMA NextHeld == TypeOK /\ HeldInv /\ [Next]_vars => HeldInv'
<1> SUFFICES ASSUME TypeOK, HeldInv, [Next]_vars PROVE HeldInv' OBVIOUS
<1> USE DEF InSegmentLoop, RestorePcs
<1>1. CallTypeOK /\ \A t \in Threads : HeldOK(t)
  BY DEF TypeOK, HeldInv
<1>2. CASE UNCHANGED callVars
  BY <1>1, <1>2 DEF callVars, HeldInv, HeldOK
\* A step of t leaves every other thread where it is, or wakes it up.
<1>3. ASSUME NEW t \in Threads, NEW next,
             Notify(t, next), lease' = lease, HeldOK(t)',
             \A u \in Threads \ {t} : at'[u] = at[u] /\ held'[u] = held[u]
      PROVE  HeldInv'
  <2>1. ASSUME NEW u \in Threads \ {t} PROVE HeldOK(u)'
    BY <1>1, <1>3, <2>1 DEF HeldOK, Notify, CallTypeOK
  <2> QED BY <1>3, <2>1 DEF HeldInv
<1>4. ASSUME NEW t \in Threads, NEW next,
             pc' = [pc EXCEPT ![t] = next], HeldOK(t)',
             \A u \in Threads \ {t} : /\ at'[u] = at[u] /\ held'[u] = held[u]
                                      /\ lease'[u] = lease[u]
      PROVE  HeldInv'
  <2>1. ASSUME NEW u \in Threads \ {t} PROVE HeldOK(u)'
    BY <1>1, <1>4, <2>1 DEF HeldOK, CallTypeOK
  <2> QED BY <1>4, <2>1 DEF HeldInv
<1>5. ASSUME NEW t \in Threads, NEW mode \in Modes, NEW lo \in AllPages, NEW hi \in AllPages,
             lo <= hi, Request(t, mode, lo, hi)
      PROVE  HeldInv'
  <2>1. SegmentOf(lo) \in Segments /\ SegmentOf(hi) \in Segments /\ SegmentOf(lo) <= SegmentOf(hi)
    BY <1>5, SegmentOfPage, SegmentOfMonotone
  <2>2. held[t] = {}
    BY <1>1, <1>5 DEF Request, HeldOK
  <2>3. {s \in Segments : SegmentOf(lo) <= s /\ s < SegmentOf(lo)} = {}
    BY <2>1 DEF Segments
  <2>4. HeldOK(t)'
    BY <1>1, <1>5, <2>1, <2>2, <2>3 DEF Request, HeldOK, CallTypeOK, Segments
  <2> QED BY <1>1, <1>4, <1>5, <2>4 DEF Request, CallTypeOK
<1>6. ASSUME NEW t \in Threads, Acquire(t) PROVE HeldInv'
  BY <1>5, <1>6, ConstantsAssumption DEF Acquire, Modes
<1>7. ASSUME NEW t \in Threads, Prewarm(t) PROVE HeldInv'
  <2>1. PICK s \in Segments : Request(t, "PREWARM", s * PageCount, s * PageCount + PageCount - 1)
    BY <1>7 DEF Prewarm
  <2>2. s * PageCount <= s * PageCount + PageCount - 1
    BY ConstantsAssumption DEF Segments
  <2> QED BY <1>5, <2>1, <2>2, SegmentEnds DEF Modes
\* Pinning segment at[t] extends what is held by exactly that segment.
<1>8. ASSUME NEW t \in Threads, Pin(t), lease' = lease, pc[t] \in {"pin", "publish"},
             pc'[t] = NextPc(t)
      PROVE  /\ HeldOK(t)'
             /\ \A u \in Threads \ {t} : at'[u] = at[u] /\ held'[u] = held[u]
  <2> SUFFICES HeldOK(t)'
    BY <1>1, <1>8 DEF Pin, CallTypeOK
  <2>1. /\ lease[t].first \in Segments /\ lease[t].last \in Segments /\ at[t] \in Segments
        /\ lease[t].first <= at[t] /\ at[t] <= lease[t].last
        /\ lease[t].mode # "PREWARM" =>
             held[t] = {s \in Segments : lease[t].first <= s /\ s < at[t]}
        /\ lease[t].mode = "PREWARM" => held[t] = {}
    BY <1>1, <1>8 DEF HeldOK, CallTypeOK
  <2>2. at'[t] = NextAt(t) /\ lease'[t] = lease[t]
    BY <1>1, <1>8 DEF Pin, CallTypeOK
  <2>3. CASE lease[t].mode = "PREWARM"
    BY <1>1, <1>8, <2>1, <2>2, <2>3 DEF HeldOK, Pin, NextPc, NextAt, Segments
  <2>4. CASE lease[t].mode # "PREWARM"
    <3>1. held'[t] = {s \in Segments : lease[t].first <= s /\ s <= at[t]}
      <4>1. held'[t] = held[t] \cup {at[t]}
        BY <1>1, <1>8, <2>4 DEF Pin, CallTypeOK
      <4> QED BY <2>1, <2>4, <4>1 DEF Segments
    <3>2. CASE at[t] < lease[t].last
      <4>1. held'[t] = {s \in Segments : lease[t].first <= s /\ s < at[t] + 1}
        BY <2>1, <3>1 DEF Segments
      <4>2. pc'[t] = "pin" /\ at'[t] = at[t] + 1
        BY <1>8, <2>2, <3>2 DEF NextPc, NextAt
      <4>3. held'[t] = {s \in Segments : lease[t].first <= s /\ s < at'[t]}
        BY <4>1, <4>2
      <4>4. /\ lease[t].first <= lease[t].last
            /\ lease[t].first <= at'[t] /\ at'[t] <= lease[t].last
        BY <2>1, <3>2, <4>2 DEF Segments
      <4> QED BY <2>2, <2>4, <4>2, <4>3, <4>4 DEF HeldOK
    <3>3. CASE ~(at[t] < lease[t].last)
      <4>1. at[t] = lease[t].last
        BY <2>1, <3>3 DEF Segments
      <4>2. pc'[t] = "leased"
        BY <1>8, <2>4, <3>3 DEF NextPc
      <4>3. held'[t] = {s \in Segments : lease[t].first <= s /\ s <= lease[t].last}
        BY <3>1, <4>1
      <4>4. lease[t].first <= lease[t].last
        BY <2>1, <4>1
      <4> QED BY <2>2, <2>4, <4>2, <4>3, <4>4 DEF HeldOK
    <3> QED BY <3>2, <3>3
  <2> QED BY <2>3, <2>4
<1>9. ASSUME NEW t \in Threads, PinResident(t) PROVE HeldInv'
  BY <1>1, <1>4, <1>8, <1>9 DEF PinResident, CallTypeOK
<1>10. ASSUME NEW t \in Threads, Publish(t) PROVE HeldInv'
  <2>1. pc'[t] = NextPc(t)
    BY <1>10 DEF Publish, Notify
  <2> QED BY <1>3, <1>8, <1>10, <2>1 DEF Publish
<1>11. ASSUME NEW t \in Threads, GateRefuse(t) \/ PublishFailure(t) PROVE HeldInv'
  <2>1. Notify(t, FailPc(t)) /\ lease' = lease /\ at' = at /\ held' = held
    BY <1>11 DEF GateRefuse, PublishFailure
  <2>2. HeldOK(t)'
    BY <1>1, <1>11, <2>1 DEF HeldOK, Notify, FailPc, GateRefuse, PublishFailure
  <2> QED BY <1>3, <2>1, <2>2
<1>12. ASSUME NEW t \in Threads,
              \/ Wait(t) \/ BeginRestore(t) \/ GatePass(t) \/ CopySegment(t)
              \/ Rebuild(t) \/ RebuildFails(t) \/ Fill(t)
       PROVE  HeldInv'
  <2>1. /\ \E next \in {"wait"} \cup RestorePcs : pc' = [pc EXCEPT ![t] = next]
        /\ pc[t] \in {"pin"} \cup RestorePcs
        /\ lease' = lease /\ at' = at /\ held' = held
    BY <1>12 DEF Wait, BeginRestore, GatePass, CopySegment, Rebuild, RebuildFails, Fill
  <2>2. HeldOK(t)'
    BY <1>1, <2>1 DEF HeldOK, CallTypeOK
  <2> QED BY <1>4, <2>1, <2>2
<1>13. ASSUME NEW t \in Threads, BeginRelease(t) PROVE HeldInv'
  <2>1. HeldOK(t)'
    BY <1>1, <1>13 DEF BeginRelease, HeldOK, CallTypeOK, Segments
  <2> QED BY <1>1, <1>4, <1>13, <2>1 DEF BeginRelease, CallTypeOK
<1>14. ASSUME NEW t \in Threads, Journal(t) PROVE HeldInv'
  <2>1. HeldOK(t)'
    BY <1>1, <1>14 DEF Journal, AfterJournal, NextAt, HeldOK, CallTypeOK, Segments
  <2> QED BY <1>1, <1>4, <1>14, <2>1 DEF Journal, CallTypeOK
<1>15. ASSUME NEW t \in Threads, Unpin(t) PROVE HeldInv'
  <2>1. PICK s \in held[t] : /\ held' = [held EXCEPT ![t] = @ \ {s}]
                             /\ pc' = [pc EXCEPT ![t] = IF held[t] = {s} THEN "idle" ELSE "unpin"]
                             /\ lease' = lease /\ at' = at /\ pc[t] = "unpin"
    BY <1>15 DEF Unpin
  <2>2. HeldOK(t)'
    BY <1>1, <2>1 DEF HeldOK, CallTypeOK
  <2> QED BY <1>1, <1>4, <2>1, <2>2 DEF CallTypeOK
<1>16. ASSUME NEW t \in Threads, Write(t) \/ Choose(t) \/ CompactOne(t) PROVE UNCHANGED callVars
  BY <1>16 DEF Write, Choose, CompactOne, DirectDecommit, DirectRefused, Snapshot, GiveUp,
     Swap, SwapAborted
<1>17. UNCHANGED vars => UNCHANGED callVars
  BY DEF vars
<1> QED
  BY <1>2, <1>6, <1>7, <1>9, <1>10, <1>11, <1>12, <1>13, <1>14, <1>15, <1>16, <1>17
     DEF Next, Materialize, Release

-----------------------------------------------------------------------------
(***************************************************************************)
(* The restoring flag is a lock held by exactly one thread, and only over  *)
(* a segment that is not mapped.                                           *)
(***************************************************************************)
Restores(t, s) == pc[t] \in RestorePcs /\ at[t] = s

RestoreInv ==
    /\ \A t \in Threads, s \in Segments : Restores(t, s) => restoring[s]
    /\ \A t, u \in Threads, s \in Segments : Restores(t, s) /\ Restores(u, s) => t = u
    /\ \A s \in Segments : restoring[s] => ~committed[s] /\ \E t \in Threads : Restores(t, s)

LEMMA InitRestore == Init => RestoreInv
  BY DEF Init, RestoreInv, Restores, RestorePcs

LEMMA NextRestore == TypeOK /\ RestoreInv /\ [Next]_vars => RestoreInv'
<1> SUFFICES ASSUME TypeOK, RestoreInv, [Next]_vars PROVE RestoreInv' OBVIOUS
<1>1. CallTypeOK /\ LockTypeOK /\ StoreTypeOK /\ CompactTypeOK
  BY DEF TypeOK
\* Steps that neither begin nor end a restore.
<1>2. ASSUME restoring' = restoring,
             \A s \in Segments : restoring[s] /\ ~committed[s] => ~committed'[s],
             \A u \in Threads, s \in Segments : Restores(u, s)' <=> Restores(u, s)
      PROVE  RestoreInv'
  <2>1. \A s \in Segments : restoring'[s] => ~committed'[s]
    BY <1>2 DEF RestoreInv
  <2>2. \A s \in Segments : restoring'[s] => \E t \in Threads : Restores(t, s)'
    BY <1>2 DEF RestoreInv
  <2>3. \A t \in Threads, s \in Segments : Restores(t, s)' => restoring'[s]
    BY <1>2 DEF RestoreInv
  <2>4. \A t, u \in Threads, s \in Segments : Restores(t, s)' /\ Restores(u, s)' => t = u
    BY <1>2 DEF RestoreInv
  <2> QED BY <2>1, <2>2, <2>3, <2>4 DEF RestoreInv
\* t moves from one program counter to another of the same kind.
<1>3. ASSUME NEW t \in Threads, NEW next, pc' = [pc EXCEPT ![t] = next],
             pc[t] \in RestorePcs <=> next \in RestorePcs,
             restoring' = restoring, committed' = committed,
             \A u \in Threads : pc[u] \in RestorePcs => at'[u] = at[u]
      PROVE  RestoreInv'
  <2>1. ASSUME NEW u \in Threads, NEW s \in Segments
        PROVE  Restores(u, s)' <=> Restores(u, s)
    BY <1>1, <1>3 DEF Restores, CallTypeOK
  <2> QED BY <1>2, <1>3, <2>1
<1>4. ASSUME NEW t \in Threads, BeginRestore(t) PROVE RestoreInv'
  <2>1. /\ ~committed[at[t]] /\ ~restoring[at[t]] /\ at[t] \in Segments
        /\ restoring' = [restoring EXCEPT ![at[t]] = TRUE] /\ at' = at
        /\ pc' = [pc EXCEPT ![t] = "gate"] /\ committed' = committed
    BY <1>1, <1>4 DEF BeginRestore, MayRestore, CallTypeOK, storeVars
  <2>2. ASSUME NEW u \in Threads, NEW s \in Segments
        PROVE  Restores(u, s)' <=> IF u = t THEN s = at[t] ELSE Restores(u, s)
    BY <1>1, <2>1 DEF Restores, CallTypeOK, RestorePcs
  <2>3. \A u \in Threads : ~Restores(u, at[t])
    BY <2>1 DEF RestoreInv
  <2>4. \A u \in Threads, s \in Segments : Restores(u, s)' => restoring'[s]
    BY <1>1, <2>1, <2>2 DEF RestoreInv, LockTypeOK
  <2>5. \A u, v \in Threads, s \in Segments : Restores(u, s)' /\ Restores(v, s)' => u = v
    BY <2>2, <2>3 DEF RestoreInv
  <2>6. \A s \in Segments : restoring'[s] => ~committed'[s] /\ \E u \in Threads : Restores(u, s)'
    <3> SUFFICES ASSUME NEW s \in Segments, restoring'[s]
                 PROVE  ~committed'[s] /\ \E u \in Threads : Restores(u, s)'
      OBVIOUS
    <3>1. CASE s = at[t]
      BY <2>1, <2>2, <3>1
    <3>2. CASE s # at[t]
      <4>1. restoring[s]
        BY <1>1, <2>1, <3>2 DEF LockTypeOK
      <4>2. PICK u \in Threads : Restores(u, s)
        BY <4>1 DEF RestoreInv
      <4>3. Restores(u, s)'
        BY <1>4, <2>2, <3>2, <4>2 DEF BeginRestore, Restores, RestorePcs
      <4> QED BY <2>1, <4>1, <4>3 DEF RestoreInv
    <3> QED BY <3>1, <3>2
  <2> QED BY <2>4, <2>5, <2>6 DEF RestoreInv
\* t ends its restore of at[t], on a success or an error path.
<1>5. ASSUME NEW t \in Threads, NEW next,
             pc[t] \in RestorePcs, next \notin RestorePcs, Notify(t, next),
             EndRestore(at[t]), \A u \in Threads \ {t} : at'[u] = at[u],
             \A s \in Segments \ {at[t]} : committed'[s] = committed[s]
      PROVE  RestoreInv'
  <2>1. at[t] \in Segments /\ Restores(t, at[t])
    BY <1>1, <1>5 DEF CallTypeOK, Restores
  <2>2. restoring' = [restoring EXCEPT ![at[t]] = FALSE]
    BY <1>5 DEF EndRestore
  <2>3. ASSUME NEW u \in Threads, NEW s \in Segments
        PROVE  Restores(u, s)' <=> u # t /\ Restores(u, s)
    BY <1>1, <1>5 DEF Restores, CallTypeOK, Notify, RestorePcs
  <2>4. ASSUME NEW u \in Threads, NEW s \in Segments, Restores(u, s)'
        PROVE  restoring'[s]
    <3>1. s # at[t] /\ restoring[s]
      BY <2>1, <2>3, <2>4 DEF RestoreInv
    <3> QED BY <1>1, <2>2, <3>1 DEF LockTypeOK
  <2>5. \A u, v \in Threads, s \in Segments : Restores(u, s)' /\ Restores(v, s)' => u = v
    BY <2>3 DEF RestoreInv
  <2>6. ASSUME NEW s \in Segments, restoring'[s]
        PROVE  ~committed'[s] /\ \E u \in Threads : Restores(u, s)'
    <3>1. s # at[t] /\ restoring[s]
      BY <1>1, <2>1, <2>2, <2>6 DEF LockTypeOK
    <3>2. PICK u \in Threads : Restores(u, s)
      BY <3>1 DEF RestoreInv
    <3>3. u # t
      BY <3>1, <3>2 DEF Restores
    <3> QED BY <1>5, <2>3, <3>1, <3>2, <3>3 DEF RestoreInv
  <2> QED BY <2>4, <2>5, <2>6 DEF RestoreInv
<1>6. ASSUME NEW t \in Threads, Acquire(t) \/ Prewarm(t) PROVE RestoreInv'
  <2>1. /\ pc[t] = "idle" /\ pc' = [pc EXCEPT ![t] = "pin"]
        /\ restoring' = restoring /\ committed' = committed
        /\ \A u \in Threads : u # t => at'[u] = at[u]
    BY <1>1, <1>6 DEF Acquire, Prewarm, Request, storeVars, CallTypeOK
  <2> QED BY <1>3, <2>1 DEF RestorePcs
<1>7. ASSUME NEW t \in Threads, PinResident(t) PROVE RestoreInv'
  <2>1. /\ pc[t] = "pin" /\ pc' = [pc EXCEPT ![t] = NextPc(t)]
        /\ restoring' = restoring /\ committed' = committed
        /\ \A u \in Threads : u # t => at'[u] = at[u]
    BY <1>1, <1>7 DEF PinResident, Pin, storeVars, CallTypeOK
  <2>2. NextPc(t) \notin RestorePcs
    BY DEF NextPc, RestorePcs
  <2> QED BY <1>3, <2>1, <2>2 DEF RestorePcs
<1>8. ASSUME NEW t \in Threads,
             Wait(t) \/ GatePass(t) \/ CopySegment(t) \/ Rebuild(t) \/ RebuildFails(t) \/ Fill(t)
      PROVE  RestoreInv'
  <2>1. \E next \in CallPcs : /\ pc' = [pc EXCEPT ![t] = next]
                              /\ pc[t] \in RestorePcs <=> next \in RestorePcs
    BY <1>8 DEF Wait, GatePass, CopySegment, Rebuild, RebuildFails, Fill, RestorePcs, CallPcs
  <2>2. restoring' = restoring /\ committed' = committed /\ at' = at
    BY <1>8 DEF Wait, GatePass, CopySegment, Rebuild, RebuildFails, Fill, storeVars
  <2> QED BY <1>3, <2>1, <2>2
<1>9. ASSUME NEW t \in Threads, GateRefuse(t) \/ PublishFailure(t) PROVE RestoreInv'
  <2>1. /\ pc[t] \in RestorePcs /\ FailPc(t) \notin RestorePcs /\ Notify(t, FailPc(t))
        /\ EndRestore(at[t]) /\ at' = at /\ committed' = committed
    BY <1>9 DEF GateRefuse, PublishFailure, FailPc, RestorePcs, storeVars
  <2> QED BY <1>5, <2>1
<1>10. ASSUME NEW t \in Threads, Publish(t) PROVE RestoreInv'
  <2>1. /\ pc[t] \in RestorePcs /\ NextPc(t) \notin RestorePcs /\ Notify(t, NextPc(t))
        /\ EndRestore(at[t]) /\ committed' = [committed EXCEPT ![at[t]] = TRUE]
        /\ \A u \in Threads \ {t} : at'[u] = at[u]
    BY <1>1, <1>10 DEF Publish, Pin, NextPc, RestorePcs, CallTypeOK
  <2>2. \A s \in Segments \ {at[t]} : committed'[s] = committed[s]
    BY <1>1, <2>1 DEF StoreTypeOK
  <2> QED BY <1>5, <2>1, <2>2
<1>11. ASSUME NEW t \in Threads, BeginRelease(t) \/ Journal(t) \/ Unpin(t) PROVE RestoreInv'
  <2>1. \E next \in {"journal", "unpin", "idle"} : pc' = [pc EXCEPT ![t] = next]
    BY <1>11 DEF BeginRelease, Journal, AfterJournal, Unpin
  <2>2. /\ pc[t] \notin RestorePcs /\ restoring' = restoring /\ committed' = committed
        /\ \A u \in Threads : u # t => at'[u] = at[u]
    BY <1>1, <1>11 DEF BeginRelease, Journal, Unpin, storeVars, CallTypeOK, RestorePcs
  <2> QED BY <1>3, <2>1, <2>2 DEF RestorePcs
<1>12. ASSUME NEW t \in Threads, Write(t) \/ Choose(t) \/ CompactOne(t) PROVE RestoreInv'
  <2>1. restoring' = restoring /\ UNCHANGED callVars
    BY <1>12 DEF Write, Choose, CompactOne, DirectDecommit, DirectRefused, Snapshot, GiveUp,
       Swap, SwapAborted
  <2>2. \A s \in Segments : restoring[s] /\ ~committed[s] => ~committed'[s]
    <3>1. CASE committed' = committed
      BY <3>1
    <3>2. CASE DirectDecommit(t) \/ Swap(t)
      <4>1. committed' = committed \/ committed' = [committed EXCEPT ![victim[t]] = FALSE]
        BY <3>2 DEF DirectDecommit, Swap, Decommit, DecommitFails
      <4> QED BY <1>1, <4>1 DEF StoreTypeOK
    <3> QED BY <1>12, <3>1, <3>2 DEF Write, Choose, CompactOne, DirectRefused, Snapshot, GiveUp,
           SwapAborted, storeVars
  <2>3. \A u \in Threads, s \in Segments : Restores(u, s)' <=> Restores(u, s)
    BY <2>1 DEF callVars, Restores
  <2> QED BY <1>2, <2>1, <2>2, <2>3
<1>13. CASE UNCHANGED vars
  BY <1>2, <1>13 DEF vars, callVars, storeVars, Restores
<1> QED
  BY <1>4, <1>6, <1>7, <1>8, <1>9, <1>10, <1>11, <1>12, <1>13
     DEF Next, Materialize, Release

(***************************************************************************)
(* pin_count counts the leases, and a leased segment stays mapped: each    *)
(* needs the other, since eviction looks at pin_count only.                *)
(***************************************************************************)
PinInv == PinsCountHolders /\ LeasedIsResident

LEMMA HoldersFinite ==
    ASSUME NEW s \in Segments
    PROVE  IsFiniteSet(Holders(s)) /\ Cardinality(Holders(s)) \in Nat
<1>1. Holders(s) \subseteq Threads
  BY DEF Holders
<1> QED BY <1>1, ConstantsAssumption, FS_Subset, FS_CardinalityType

LEMMA InitPin == Init => PinInv
<1> SUFFICES ASSUME Init PROVE PinInv OBVIOUS
<1>1. \A s \in Segments : Holders(s) = {}
  BY DEF Init, Holders
<1> QED BY <1>1, FS_EmptySet DEF Init, PinInv, PinsCountHolders, LeasedIsResident

LEMMA NextPin ==
    TypeOK /\ HeldInv /\ RestoreInv /\ PinInv /\ [Next]_vars => PinInv'
<1> SUFFICES ASSUME TypeOK, HeldInv, RestoreInv, PinInv, [Next]_vars PROVE PinInv' OBVIOUS
<1>1. CallTypeOK /\ LockTypeOK /\ StoreTypeOK /\ CompactTypeOK
  BY DEF TypeOK
\* An evictable segment is leased by nobody.
<1>2. ASSUME NEW s \in Segments, pins[s] = 0 PROVE \A t \in Threads : s \notin held[t]
  <2>1. Cardinality(Holders(s)) = 0
    BY <1>2 DEF PinInv, PinsCountHolders
  <2>2. Holders(s) = {}
    BY <2>1, HoldersFinite, FS_EmptySet
  <2> QED BY <2>2 DEF Holders
\* Steps that pin and unpin nothing.
<1>3. ASSUME pins' = pins, held' = held,
             \A s \in Segments : (\E t \in Threads : s \in held[t]) /\ committed[s] /\ ~restoring[s]
                                   => committed'[s] /\ ~restoring'[s]
      PROVE  PinInv'
  <2>1. \A s \in Segments : Holders(s)' = Holders(s)
    BY <1>3 DEF Holders
  <2>2. PinsCountHolders'
    BY <1>3, <2>1 DEF PinInv, PinsCountHolders
  <2>3. LeasedIsResident'
    BY <1>1, <1>3 DEF PinInv, LeasedIsResident, CallTypeOK
  <2> QED BY <2>2, <2>3 DEF PinInv
\* materialize_and_pin pins the segment the loop is at, once.
<1>4. ASSUME NEW t \in Threads, Pin(t), pc[t] \in {"pin", "publish"},
             committed'[at[t]], ~restoring'[at[t]],
             \A s \in Segments \ {at[t]} : committed'[s] = committed[s] /\ restoring'[s] = restoring[s]
      PROVE  PinInv'
  <2>1. CASE lease[t].mode = "PREWARM"
    <3>1. pins' = pins /\ held' = held
      BY <1>4, <2>1 DEF Pin
    <3> QED BY <1>3, <1>4, <3>1
  <2>2. CASE lease[t].mode # "PREWARM"
    <3>1. /\ pins' = [pins EXCEPT ![at[t]] = @ + 1]
          /\ held' = [held EXCEPT ![t] = @ \cup {at[t]}]
          /\ at[t] \in Segments
      BY <1>1, <1>4, <2>2 DEF Pin, CallTypeOK
    <3>2. at[t] \notin held[t]
      <4>1. held[t] = {s \in Segments : lease[t].first <= s /\ s < at[t]}
        BY <1>4, <2>2 DEF HeldInv, HeldOK, InSegmentLoop, RestorePcs
      <4> QED BY <3>1, <4>1 DEF Segments
    <3>3. ASSUME NEW s \in Segments PROVE pins'[s] = Cardinality(Holders(s)')
      <4>1. CASE s = at[t]
        <5>1. Holders(s)' = Holders(s) \cup {t} /\ t \notin Holders(s)
          BY <1>1, <3>1, <3>2, <4>1 DEF Holders, CallTypeOK
        <5>2. Cardinality(Holders(s)') = Cardinality(Holders(s)) + 1
          BY <5>1, HoldersFinite, FS_AddElement
        <5> QED BY <1>1, <3>1, <4>1, <5>2 DEF PinInv, PinsCountHolders, LockTypeOK
      <4>2. CASE s # at[t]
        <5>1. Holders(s)' = Holders(s)
          BY <1>1, <3>1, <4>2 DEF Holders, CallTypeOK
        <5> QED BY <1>1, <3>1, <4>2, <5>1 DEF PinInv, PinsCountHolders, LockTypeOK
      <4> QED BY <4>1, <4>2
    <3>4. ASSUME NEW u \in Threads, NEW s \in held'[u] PROVE committed'[s] /\ ~restoring'[s]
      <4>1. s \in Segments /\ (s \in held[u] \/ s = at[t])
        BY <1>1, <3>1 DEF CallTypeOK
      <4> QED BY <1>4, <4>1 DEF PinInv, LeasedIsResident
    <3> QED BY <3>3, <3>4 DEF PinInv, PinsCountHolders, LeasedIsResident
  <2> QED BY <2>1, <2>2
<1>5. ASSUME NEW t \in Threads, PinResident(t) PROVE PinInv'
  <2>1. /\ Pin(t) /\ pc[t] = "pin" /\ committed[at[t]] /\ at[t] \in Segments
        /\ committed' = committed /\ restoring' = restoring
    BY <1>1, <1>5 DEF PinResident, storeVars, CallTypeOK
  <2>2. ~restoring[at[t]]
    BY <2>1 DEF RestoreInv
  <2> QED BY <1>4, <2>1, <2>2
<1>6. ASSUME NEW t \in Threads, Publish(t) PROVE PinInv'
  <2>1. /\ Pin(t) /\ pc[t] = "publish" /\ at[t] \in Segments
        /\ committed' = [committed EXCEPT ![at[t]] = TRUE]
        /\ restoring' = [restoring EXCEPT ![at[t]] = FALSE]
    BY <1>1, <1>6 DEF Publish, EndRestore, CallTypeOK
  <2> QED BY <1>1, <1>4, <2>1 DEF StoreTypeOK, LockTypeOK
<1>7. ASSUME NEW t \in Threads, Unpin(t) PROVE PinInv'
  <2>1. PICK s \in held[t] : /\ pins' = IF pins[s] > 0 THEN [pins EXCEPT ![s] = @ - 1] ELSE pins
                             /\ held' = [held EXCEPT ![t] = @ \ {s}]
    BY <1>7 DEF Unpin
  <2>2. committed' = committed /\ restoring' = restoring /\ s \in Segments
    BY <1>1, <1>7 DEF Unpin, storeVars, CallTypeOK
  <2>3. t \in Holders(s) /\ pins[s] = Cardinality(Holders(s))
    BY <2>2 DEF Holders, PinInv, PinsCountHolders
  <2>4. /\ Holders(s)' = Holders(s) \ {t}
        /\ \A r \in Segments \ {s} : Holders(r)' = Holders(r)
    BY <1>1, <2>1 DEF Holders, CallTypeOK
  <2>5. Cardinality(Holders(s)') = pins[s] - 1 /\ pins[s] > 0
    <3>1. Cardinality(Holders(s) \ {t}) = Cardinality(Holders(s)) - 1
      BY <2>2, <2>3, HoldersFinite, FS_RemoveElement
    <3>2. pins[s] # 0
      BY <1>2, <2>2
    <3> QED BY <1>1, <2>2, <2>3, <2>4, <3>1, <3>2 DEF LockTypeOK
  <2>6. PinsCountHolders'
    BY <1>1, <2>1, <2>2, <2>4, <2>5 DEF PinInv, PinsCountHolders, LockTypeOK
  <2>7. LeasedIsResident'
    BY <1>1, <2>1, <2>2 DEF PinInv, LeasedIsResident, CallTypeOK
  <2> QED BY <2>6, <2>7 DEF PinInv
<1>8. ASSUME NEW t \in Threads, BeginRestore(t) PROVE PinInv'
  <2>1. /\ pins' = pins /\ held' = held /\ committed' = committed /\ ~committed[at[t]]
        /\ restoring' = [restoring EXCEPT ![at[t]] = TRUE] /\ at[t] \in Segments
    BY <1>1, <1>8 DEF BeginRestore, MayRestore, storeVars, CallTypeOK
  <2> QED BY <1>1, <1>3, <2>1 DEF LockTypeOK
<1>9. ASSUME NEW t \in Threads, GateRefuse(t) \/ PublishFailure(t) PROVE PinInv'
  <2>1. /\ pins' = pins /\ held' = held /\ committed' = committed
        /\ restoring' = [restoring EXCEPT ![at[t]] = FALSE] /\ at[t] \in Segments
    BY <1>1, <1>9 DEF GateRefuse, PublishFailure, EndRestore, storeVars, CallTypeOK
  <2> QED BY <1>1, <1>3, <2>1 DEF LockTypeOK
<1>10. ASSUME NEW t \in Threads, DirectDecommit(t) \/ Swap(t) PROVE PinInv'
  <2>1. /\ pins' = pins /\ held' = held /\ restoring' = restoring
        /\ victim[t] \in Segments /\ Evictable(victim[t])
        /\ committed' = committed \/ committed' = [committed EXCEPT ![victim[t]] = FALSE]
    BY <1>1, <1>10 DEF DirectDecommit, DirectAllowed, Swap, StillCurrent, Decommit, DecommitFails,
       CompactTypeOK, callVars
  <2>2. \A u \in Threads : victim[t] \notin held[u]
    BY <1>2, <2>1 DEF Evictable
  <2> QED BY <1>1, <1>3, <2>1, <2>2 DEF StoreTypeOK
\* The other steps touch none of pins, held, committed and restoring.
<1>11. ASSUME NEW t \in Threads,
              \/ Acquire(t) \/ Prewarm(t) \/ Wait(t) \/ GatePass(t) \/ CopySegment(t)
              \/ Rebuild(t) \/ RebuildFails(t) \/ Fill(t) \/ Write(t) \/ BeginRelease(t)
              \/ Journal(t)
       PROVE  PinInv'
  <2>1. pins' = pins /\ held' = held /\ committed' = committed /\ restoring' = restoring
    BY <1>11 DEF Acquire, Prewarm, Request, Wait, GatePass, CopySegment, Rebuild, RebuildFails,
       Fill, Write, BeginRelease, Journal, storeVars, callVars
  <2> QED BY <1>3, <2>1
<1>12. ASSUME NEW t \in Threads,
              \/ Choose(t) \/ DirectRefused(t) \/ Snapshot(t) \/ GiveUp(t) \/ SwapAborted(t)
       PROVE  PinInv'
  <2>1. pins' = pins /\ held' = held /\ committed' = committed /\ restoring' = restoring
    BY <1>12 DEF Choose, DirectRefused, Snapshot, GiveUp, SwapAborted, storeVars, callVars
  <2> QED BY <1>3, <2>1
<1>13. CASE UNCHANGED vars
  BY <1>3, <1>13 DEF vars, callVars, storeVars
<1> QED
  BY <1>5, <1>6, <1>7, <1>8, <1>9, <1>10, <1>11, <1>12, <1>13
     DEF Next, Materialize, Release, CompactOne

ControlInv == TypeOK /\ HeldInv /\ RestoreInv /\ PinInv

LEMMA ControlInvariant == Spec => []ControlInv
<1>1. Init => ControlInv
  BY InitTypeOK, InitHeld, InitRestore, InitPin DEF ControlInv
<1>2. ControlInv /\ [Next]_vars => ControlInv'
  BY NextTypeOK, NextHeld, NextRestore, NextPin DEF ControlInv
<1> QED BY <1>1, <1>2, PTL DEF Spec

(***************************************************************************)
(* The pointer sr_lease_data returns is valid until sr_release: whatever   *)
(* other threads acquire, restore, trim or compact, a leased segment stays *)
(* mapped and nobody restores over it (include/stateram_core.h:188-190).   *)
(***************************************************************************)
THEOREM LeaseStaysResident == Spec => []LeasedIsResident
<1>1. ControlInv => LeasedIsResident
  BY DEF ControlInv, PinInv
<1> QED BY <1>1, ControlInvariant, PTL

(***************************************************************************)
(* pin_count is the number of leases that hold the segment: a failed       *)
(* sr_acquire gives back each pin it took, once.                           *)
(***************************************************************************)
THEOREM PinsAreCounted == Spec => []PinsCountHolders
<1>1. ControlInv => PinsCountHolders
  BY DEF ControlInv, PinInv
<1> QED BY <1>1, ControlInvariant, PTL

(***************************************************************************)
(* The restoring flag of materialize_and_pin is a lock: no two threads     *)
(* rebuild into the same arena range, and no path leaves the flag set with *)
(* nobody restoring, which would block every later acquirer for ever.      *)
(***************************************************************************)
THEOREM RestoreIsExclusive == Spec => []OneRestorer
<1>1. ASSUME RestoreInv PROVE OneRestorer
  <2>1. ASSUME NEW s \in Segments, restoring[s]
        PROVE  ~committed[s] /\ Cardinality(Restorers(s)) = 1
    <3>1. PICK t \in Threads : Restores(t, s)
      BY <1>1, <2>1 DEF RestoreInv
    <3>2. Restorers(s) = {t}
      BY <1>1, <3>1 DEF RestoreInv, Restores, Restorers
    <3> QED BY <1>1, <2>1, <3>2, FS_Singleton DEF RestoreInv
  <2>2. ASSUME NEW s \in Segments, ~restoring[s] PROVE Restorers(s) = {}
    BY <1>1, <2>2 DEF RestoreInv, Restores, Restorers
  <2> QED BY <2>1, <2>2 DEF OneRestorer
<1>2. ControlInv => OneRestorer
  BY <1>1 DEF ControlInv
<1> QED BY <1>2, ControlInvariant, PTL

-----------------------------------------------------------------------------
(***************************************************************************)
(* The data.  Between the copy a restore takes under the lock and its      *)
(* publication the segment stands still, so what is rebuilt fits it.       *)
(***************************************************************************)
\* c is a content materialize_and_pin may publish for s.
Fits(s, c) == c \in Rebuilt(s) /\ (hashValid[s] => c = hash[s])

Current(s) == [base |-> base[s], bitmap |-> bitmap[s], overlay |-> overlay[s],
               hash |-> hash[s], hashValid |-> hashValid[s]]

RestoreData(t) ==
    /\ pc[t] \in {"build", "fill", "publish"} => job[t] = Current(at[t])
    /\ pc[t] = "fill" => Fits(at[t], scratch[t])
    /\ pc[t] = "publish" /\ built[t] => Fits(at[t], raw[at[t]])

RestoreDataInv == \A t \in Threads : RestoreData(t)

LEMMA InitRestoreData == Init => RestoreDataInv
  BY DEF Init, RestoreDataInv, RestoreData

LEMMA NextRestoreData ==
    ControlInv /\ RestoreDataInv /\ [Next]_vars => RestoreDataInv'
<1> SUFFICES ASSUME ControlInv, RestoreDataInv, [Next]_vars PROVE RestoreDataInv' OBVIOUS
<1>1. CallTypeOK /\ LockTypeOK /\ StoreTypeOK /\ CompactTypeOK /\ RestoreTypeOK
  BY DEF ControlInv, TypeOK
<1>2. ASSUME NEW u \in Threads, pc[u] \in RestorePcs
      PROVE  at[u] \in Segments /\ ~committed[at[u]]
  BY <1>1, <1>2 DEF ControlInv, RestoreInv, Restores, CallTypeOK
<1>3. ASSUME NEW t \in Threads, NEW u \in Threads \ {t},
             pc[t] \in RestorePcs, pc[u] \in RestorePcs
      PROVE  at[t] # at[u]
  BY <1>1, <1>3 DEF ControlInv, RestoreInv, Restores, CallTypeOK
\* A thread keeps its data when neither it nor its segment is touched.
<1>4. ASSUME NEW u \in Threads,
             pc'[u] = pc[u] \/ pc'[u] \notin {"build", "fill", "publish"},
             pc[u] \in RestorePcs =>
               /\ at'[u] = at[u] /\ job'[u] = job[u] /\ scratch'[u] = scratch[u] /\ built'[u] = built[u]
               /\ base'[at[u]] = base[at[u]] /\ bitmap'[at[u]] = bitmap[at[u]]
               /\ overlay'[at[u]] = overlay[at[u]] /\ hash'[at[u]] = hash[at[u]]
               /\ hashValid'[at[u]] = hashValid[at[u]] /\ raw'[at[u]] = raw[at[u]]
      PROVE  RestoreData(u)'
  BY <1>4 DEF RestoreDataInv, RestoreData, Fits, Rebuilt, Current, RestorePcs
\* The store stands still and t does not enter or go on with a restore.
<1>5. ASSUME NEW t \in Threads, UNCHANGED storeVars, UNCHANGED restoreVars,
             \A u \in Threads : pc'[u] = pc[u] \/ pc'[u] \notin {"build", "fill", "publish"},
             \A u \in Threads : pc[u] \in RestorePcs => at'[u] = at[u]
      PROVE  RestoreDataInv'
  BY <1>4, <1>5 DEF storeVars, restoreVars, RestoreDataInv
<1>6. ASSUME NEW t \in Threads,
             \/ Acquire(t) \/ Prewarm(t) \/ PinResident(t) \/ Wait(t) \/ BeginRestore(t)
             \/ GatePass(t) \/ BeginRelease(t) \/ Unpin(t)
      PROVE  RestoreDataInv'
  <2>1. /\ UNCHANGED storeVars /\ UNCHANGED restoreVars
        /\ pc[t] \notin {"build", "fill", "publish"}
        /\ \E next \in {"pin", "wait", "gate", "copy", "journal", "unpin", "idle", "leased"} :
             pc' = [pc EXCEPT ![t] = next]
        /\ \A u \in Threads : at'[u] = at[u] \/ (u = t /\ pc[t] \notin RestorePcs)
    BY <1>1, <1>6 DEF Acquire, Prewarm, Request, PinResident, Pin, NextPc, Wait, BeginRestore,
       GatePass, BeginRelease, Unpin, CallTypeOK, RestorePcs
  <2> QED BY <1>1, <1>5, <2>1 DEF CallTypeOK
<1>7. ASSUME NEW t \in Threads, GateRefuse(t) \/ PublishFailure(t) PROVE RestoreDataInv'
  <2>1. /\ UNCHANGED storeVars /\ at' = at /\ Notify(t, FailPc(t))
        /\ FailPc(t) \in {"idle", "unpin"}
        /\ \A u \in Threads \ {t} :
             job'[u] = job[u] /\ scratch'[u] = scratch[u] /\ built'[u] = built[u]
    BY <1>1, <1>7 DEF GateRefuse, PublishFailure, FailPc, Forget, restoreVars, RestoreTypeOK
  <2>2. RestoreData(t)'
    BY <2>1 DEF RestoreData, Notify
  <2>3. ASSUME NEW u \in Threads \ {t} PROVE RestoreData(u)'
    <3>1. pc'[u] = pc[u] \/ pc'[u] = "pin"
      BY <2>1 DEF Notify
    <3> QED BY <1>4, <2>1, <3>1 DEF storeVars
  <2> QED BY <2>2, <2>3 DEF RestoreDataInv
<1>8. ASSUME NEW t \in Threads, CopySegment(t) PROVE RestoreDataInv'
  <2>1. RestoreData(t)'
    BY <1>1, <1>8 DEF CopySegment, RestoreData, Current, CallTypeOK, RestoreTypeOK, storeVars
  <2>2. ASSUME NEW u \in Threads \ {t} PROVE RestoreData(u)'
    BY <1>1, <1>4, <1>8 DEF CopySegment, storeVars, CallTypeOK, RestoreTypeOK
  <2> QED BY <2>1, <2>2 DEF RestoreDataInv
<1>9. ASSUME NEW t \in Threads, Rebuild(t) PROVE RestoreDataInv'
  <2>1. job[t] = Current(at[t])
    BY <1>9 DEF Rebuild, RestoreDataInv, RestoreData
  <2>2. PICK d \in BaseContents(job[t].base) :
            /\ Verified(t, Compose(d, job[t].bitmap, job[t].overlay))
            /\ scratch' = [scratch EXCEPT ![t] = Compose(d, job[t].bitmap, job[t].overlay)]
    BY <1>9 DEF Rebuild
  <2>3. Fits(at[t], scratch'[t])
    BY <1>1, <2>1, <2>2 DEF Fits, Rebuilt, Current, Verified, RestoreTypeOK
  <2>4. /\ at' = at /\ job' = job /\ UNCHANGED storeVars
        /\ pc' = [pc EXCEPT ![t] = "fill"] /\ built' = [built EXCEPT ![t] = TRUE]
    BY <1>9 DEF Rebuild
  <2>5. RestoreData(t)'
    BY <1>1, <2>1, <2>3, <2>4 DEF RestoreData, Current, Fits, Rebuilt, storeVars, CallTypeOK
  <2>6. ASSUME NEW u \in Threads \ {t} PROVE RestoreData(u)'
    BY <1>1, <1>4, <2>2, <2>4 DEF storeVars, CallTypeOK, RestoreTypeOK
  <2> QED BY <2>5, <2>6 DEF RestoreDataInv
<1>10. ASSUME NEW t \in Threads, RebuildFails(t) PROVE RestoreDataInv'
  <2>1. RestoreData(t)'
    BY <1>1, <1>10 DEF RebuildFails, RestoreDataInv, RestoreData, Current, CallTypeOK,
       RestoreTypeOK, storeVars
  <2>2. ASSUME NEW u \in Threads \ {t} PROVE RestoreData(u)'
    BY <1>1, <1>4, <1>10 DEF RebuildFails, storeVars, CallTypeOK, RestoreTypeOK
  <2> QED BY <2>1, <2>2 DEF RestoreDataInv
<1>11. ASSUME NEW t \in Threads, Fill(t) PROVE RestoreDataInv'
  <2>1. /\ at' = at /\ job' = job /\ scratch' = scratch /\ pc[t] = "fill"
        /\ pc' = [pc EXCEPT ![t] = "publish"]
        /\ UNCHANGED <<base, bitmap, overlay, hash, hashValid>>
        /\ \/ raw' = [raw EXCEPT ![at[t]] = scratch[t]] /\ built' = built
           \/ built' = [built EXCEPT ![t] = FALSE] /\ raw' = raw
    BY <1>11 DEF Fill
  <2>2. job[t] = Current(at[t]) /\ Fits(at[t], scratch[t]) /\ at[t] \in Segments
    BY <1>1, <2>1 DEF RestoreDataInv, RestoreData, CallTypeOK
  <2>3. job'[t] = Current(at[t])'
    BY <2>1, <2>2 DEF Current
  <2>4. built'[t] => raw'[at[t]] = scratch[t]
    BY <1>1, <2>1, <2>2 DEF StoreTypeOK, RestoreTypeOK
  <2>5. built'[t] => Fits(at[t], raw[at[t]])'
    BY <2>1, <2>2, <2>4 DEF Fits, Rebuilt
  <2>6. RestoreData(t)'
    BY <1>1, <2>1, <2>3, <2>5 DEF RestoreData, CallTypeOK
  <2>7. ASSUME NEW u \in Threads \ {t} PROVE RestoreData(u)'
    <3>1. pc[u] \in RestorePcs => at[u] # at[t] /\ at[u] \in Segments
      BY <1>1, <1>3, <2>1 DEF RestorePcs, CallTypeOK
    <3>2. pc[u] \in RestorePcs => raw'[at[u]] = raw[at[u]]
      BY <1>1, <2>1, <3>1 DEF StoreTypeOK
    <3> QED BY <1>1, <1>4, <2>1, <3>2 DEF CallTypeOK, RestoreTypeOK
  <2> QED BY <2>6, <2>7 DEF RestoreDataInv
<1>12. ASSUME NEW t \in Threads, Publish(t) PROVE RestoreDataInv'
  <2>1. /\ pc[t] = "publish" /\ UNCHANGED <<raw, base, bitmap, overlay>> /\ at[t] \in Segments
        /\ hash' = hash \/ \E h : hash' = [hash EXCEPT ![at[t]] = h]
        /\ hashValid' = [hashValid EXCEPT ![at[t]] = TRUE]
        /\ Notify(t, NextPc(t)) /\ NextPc(t) \notin RestorePcs
        /\ at' = [at EXCEPT ![t] = NextAt(t)] /\ Forget(t)
    BY <1>1, <1>12 DEF Publish, Pin, NextPc, RestorePcs, CallTypeOK
  <2>2. RestoreData(t)'
    BY <2>1 DEF RestoreData, Notify, RestorePcs
  <2>3. ASSUME NEW u \in Threads \ {t} PROVE RestoreData(u)'
    <3>1. pc[u] \in RestorePcs => at[u] # at[t] /\ at[u] \in Segments
      BY <1>1, <1>3, <2>1 DEF RestorePcs, CallTypeOK
    <3>2. pc[u] \in RestorePcs => hash'[at[u]] = hash[at[u]] /\ hashValid'[at[u]] = hashValid[at[u]]
      BY <1>1, <2>1, <3>1 DEF StoreTypeOK
    <3>3. /\ at'[u] = at[u] /\ job'[u] = job[u] /\ scratch'[u] = scratch[u] /\ built'[u] = built[u]
          /\ pc'[u] = pc[u] \/ pc'[u] = "pin"
      BY <1>1, <2>1 DEF Forget, Notify, CallTypeOK, RestoreTypeOK
    <3> QED BY <1>4, <2>1, <3>2, <3>3
  <2> QED BY <2>2, <2>3 DEF RestoreDataInv
\* Writers, journals and compaction only touch mapped segments.
<1>13. ASSUME NEW s \in Segments, committed[s], UNCHANGED restoreVars,
              \A u \in Threads : pc[u] \in RestorePcs => at'[u] = at[u],
              \A u \in Threads : pc'[u] = pc[u] \/ pc'[u] \notin {"build", "fill", "publish"},
              \A r \in Segments \ {s} :
                /\ base'[r] = base[r] /\ bitmap'[r] = bitmap[r] /\ overlay'[r] = overlay[r]
                /\ hash'[r] = hash[r] /\ hashValid'[r] = hashValid[r] /\ raw'[r] = raw[r]
       PROVE  RestoreDataInv'
  <2>1. ASSUME NEW u \in Threads PROVE RestoreData(u)'
    <3>1. pc[u] \in RestorePcs => at[u] \in Segments \ {s}
      BY <1>2, <1>13
    <3> QED BY <1>4, <1>13, <3>1 DEF restoreVars
  <2> QED BY <2>1 DEF RestoreDataInv
<1>14. ASSUME NEW t \in Threads, Write(t) PROVE RestoreDataInv'
  <2>1. PICK s \in held[t] : \E p \in LeasedPages(t, s), v \in Values : raw' = [raw EXCEPT ![s][p] = v]
    BY <1>14 DEF Write
  <2>2. s \in Segments /\ committed[s]
    BY <1>1 DEF CallTypeOK, ControlInv, PinInv, LeasedIsResident
  <2>3. \A r \in Segments \ {s} : raw'[r] = raw[r]
    BY <1>1, <2>1 DEF StoreTypeOK
  <2> QED BY <1>13, <1>14, <2>2, <2>3 DEF Write, callVars
<1>15. ASSUME NEW t \in Threads, Journal(t) PROVE RestoreDataInv'
  <2>1. at[t] \in Segments /\ committed[at[t]] /\ pc[t] = "journal" /\ UNCHANGED restoreVars
    BY <1>1, <1>15 DEF Journal, CallTypeOK
  <2>2. \A r \in Segments \ {at[t]} :
                /\ base'[r] = base[r] /\ bitmap'[r] = bitmap[r] /\ overlay'[r] = overlay[r]
                /\ hash'[r] = hash[r] /\ hashValid'[r] = hashValid[r] /\ raw'[r] = raw[r]
    BY <1>1, <1>15 DEF Journal, StoreTypeOK
  <2>3. \A u \in Threads : /\ pc[u] \in RestorePcs => at'[u] = at[u]
                           /\ pc'[u] = pc[u] \/ pc'[u] \notin {"build", "fill", "publish"}
    BY <1>1, <1>15 DEF Journal, AfterJournal, CallTypeOK, RestorePcs
  <2> QED BY <1>13, <2>1, <2>2, <2>3
<1>16. ASSUME NEW t \in Threads, DirectDecommit(t) \/ Swap(t) PROVE RestoreDataInv'
  <2>1. victim[t] \in Segments /\ committed[victim[t]] /\ UNCHANGED restoreVars /\ UNCHANGED callVars
    BY <1>1, <1>16 DEF DirectDecommit, DirectAllowed, Evictable, Swap, StillCurrent, CompactTypeOK
  <2>2. \A r \in Segments \ {victim[t]} : raw'[r] = raw[r]
    BY <1>1, <1>16, <2>1 DEF DirectDecommit, Swap, Decommit, DecommitFails, StoreTypeOK
  <2>3. \A r \in Segments \ {victim[t]} :
                /\ base'[r] = base[r] /\ bitmap'[r] = bitmap[r] /\ overlay'[r] = overlay[r]
                /\ hash'[r] = hash[r] /\ hashValid'[r] = hashValid[r]
    BY <1>1, <1>16, <2>1 DEF DirectDecommit, Swap, StoreTypeOK
  <2> QED BY <1>13, <2>1, <2>2, <2>3 DEF callVars
<1>17. ASSUME NEW t \in Threads,
              Choose(t) \/ DirectRefused(t) \/ Snapshot(t) \/ GiveUp(t) \/ SwapAborted(t)
       PROVE  RestoreDataInv'
  BY <1>5, <1>17 DEF Choose, DirectRefused, Snapshot, GiveUp, SwapAborted, callVars
<1>18. CASE UNCHANGED vars
  <2>1. ASSUME NEW u \in Threads PROVE RestoreData(u)'
    BY <1>4, <1>18 DEF vars, storeVars, restoreVars, callVars
  <2> QED BY <2>1 DEF RestoreDataInv
<1> QED
  BY <1>6, <1>7, <1>8, <1>9, <1>10, <1>11, <1>12, <1>14, <1>15, <1>16, <1>17, <1>18
     DEF Next, Materialize, Release, CompactOne

(***************************************************************************)
(* The store.  A segment that is mapped and that nobody is writing has a   *)
(* fresh hash, and its base with its overlay rebuild its bytes; a dormant  *)
(* one can be rebuilt to its hash.                                         *)
(***************************************************************************)
StoreData(s) ==
    /\ committed[s] => hashValid[s]
    /\ committed[s] /\ Unjournaled(s) = {} => hash[s] = raw[s]
    /\ committed[s] /\ (base[s].kind = "BACKING" => BackingIsHonest) =>
         \A p \in Pages \ Unjournaled(s) : \A d \in Rebuilt(s) : d[p] = raw[s][p]
    /\ ~committed[s] /\ hashValid[s] /\ (base[s].kind = "BACKING" => BackingIsHonest) =>
         Rebuilt(s) = {hash[s]}

StoreDataInv == \A s \in Segments : StoreData(s)

\* What consolidate_and_decommit copied is the content of its victim, unless
\* the generation has moved on.
SnapData(t) ==
    cpc[t] = "swap" =>
      /\ snap[t].generation <= generation[victim[t]]
      /\ snap[t].generation = generation[victim[t]] =>
           hashValid[victim[t]] /\ snap[t].data = hash[victim[t]]

SnapDataInv == \A t \in Threads : SnapData(t)

\* t has not journaled all it may have written in s.
Writing(t, s) ==
    /\ s \in held[t] /\ lease[t].mode = "WRITE"
    /\ pc[t] = "leased" \/ (pc[t] = "journal" /\ s >= at[t])

DataInv == RestoreDataInv /\ StoreDataInv /\ SnapDataInv

LEMMA UnjournaledIsWritten ==
    ASSUME NEW s, NEW p
    PROVE  p \in Unjournaled(s) <=> \E t \in Threads : Writing(t, s) /\ p \in LeasedPages(t, s)
  BY DEF Unjournaled, Writing

\* A mapped segment that nobody has pinned has no write to lose.
LEMMA EvictableIsQuiet ==
    ASSUME ControlInv, NEW s \in Segments, Evictable(s)
    PROVE  Unjournaled(s) = {} /\ committed[s]
<1>1. Cardinality(Holders(s)) = 0
  BY DEF Evictable, ControlInv, PinInv, PinsCountHolders
<1>2. Holders(s) = {}
  BY <1>1, HoldersFinite, FS_EmptySet
<1>3. \A t \in Threads : s \notin held[t]
  BY <1>2 DEF Holders
<1>4. \A p : p \notin Unjournaled(s)
  BY <1>3, UnjournaledIsWritten DEF Writing
<1> QED BY <1>4 DEF Evictable

LEMMA EvictableIsFresh ==
    ASSUME ControlInv, StoreDataInv, NEW s \in Segments, Evictable(s)
    PROVE  hashValid[s] /\ hash[s] = raw[s]
  BY EvictableIsQuiet DEF StoreDataInv, StoreData

\* Composing with an empty overlay changes nothing.
LEMMA ComposeEmpty ==
    ASSUME NEW d \in Content, NEW ov
    PROVE  Compose(d, {}, ov) = d
  BY DEF Compose, Content

\* An honest backing, or a compressed base, rebuilds one content.
LEMMA RebuiltIsUnique ==
    ASSUME NEW s \in Segments, base[s].kind = "BACKING" => BackingIsHonest,
           NEW c \in Rebuilt(s), NEW d \in Rebuilt(s)
    PROVE  c = d
  BY DEF Rebuilt, BaseContents, BackingIsHonest

LEMMA RebuiltType ==
    ASSUME StoreTypeOK, NEW s \in Segments, NEW c \in Rebuilt(s)
    PROVE  c \in Content
<1>1. PICK d \in BaseContents(base[s]) : c = Compose(d, bitmap[s], overlay[s])
  BY DEF Rebuilt
<1>2. d \in Content
  BY ConstantsAssumption DEF BaseContents, StoreTypeOK, BaseType
<1> QED BY <1>1, <1>2, ComposeType DEF StoreTypeOK

LEMMA InitStoreData == Init => StoreDataInv
<1> SUFFICES ASSUME Init, NEW s \in Segments PROVE StoreData(s)
  BY DEF StoreDataInv
<1>0. bitmap[s] = {}
  BY DEF Init
<1>1. CASE RegisteredWithData
  <2>1. /\ committed[s] /\ hashValid[s] /\ hash[s] = raw[s] /\ base[s].kind = "NONE"
    BY <1>1 DEF RegisteredWithData, Loaded, NoBase
  <2>2. Rebuilt(s) = {}
    BY <2>1 DEF Rebuilt, BaseContents
  <2> QED BY <2>1, <2>2 DEF StoreData
<1>2. CASE RegisteredTrusted
  <2>1. /\ committed[s] /\ hashValid[s] /\ hash[s] = raw[s] /\ base[s].kind = "BACKING"
        /\ raw[s] \in BackingData /\ raw[s] \in Content
    BY <1>2, ConstantsAssumption DEF RegisteredTrusted, Loaded, BackingBase
  <2>2. raw[s] \in BaseContents(base[s])
    BY <2>1 DEF BaseContents
  <2>3. Compose(raw[s], bitmap[s], overlay[s]) = raw[s]
    BY <1>0, <2>1, ComposeEmpty
  <2>4. raw[s] \in Rebuilt(s)
    BY <2>2, <2>3 DEF Rebuilt
  <2> QED BY <2>1, <2>4, RebuiltIsUnique DEF StoreData
<1>3. CASE RegisteredByBacking
  BY <1>3 DEF RegisteredByBacking, StoreData
<1> QED BY <1>1, <1>2, <1>3 DEF Init


LEMMA NextStoreData ==
    ASSUME DecommitTears = FALSE
    PROVE  ControlInv /\ DataInv /\ [Next]_vars => StoreDataInv'
<1> SUFFICES ASSUME ControlInv, DataInv, [Next]_vars PROVE StoreDataInv' OBVIOUS
<1>1. CallTypeOK /\ LockTypeOK /\ StoreTypeOK /\ CompactTypeOK /\ RestoreTypeOK /\ StoreDataInv
  BY DEF ControlInv, TypeOK, DataInv
\* A segment keeps its data when it is not touched and no write goes away.
<1>2. ASSUME NEW s \in Segments,
             committed'[s] = committed[s], base'[s] = base[s], bitmap'[s] = bitmap[s],
             overlay'[s] = overlay[s], hash'[s] = hash[s], hashValid'[s] = hashValid[s],
             raw'[s] = raw[s] \/ ~committed[s],
             \A u \in Threads : Writing(u, s) => Writing(u, s)' /\ lease'[u] = lease[u]
      PROVE  StoreData(s)'
  <2>1. StoreData(s) /\ Rebuilt(s)' = Rebuilt(s)
    BY <1>1, <1>2 DEF StoreDataInv, Rebuilt
  <2>2. ASSUME NEW p \in Unjournaled(s) PROVE p \in Unjournaled(s)'
    <3>1. PICK u \in Threads : Writing(u, s) /\ p \in LeasedPages(u, s)
      BY <2>2, UnjournaledIsWritten
    <3>2. Writing(u, s)' /\ p \in LeasedPages(u, s)'
      BY <1>2, <3>1 DEF LeasedPages
    <3> QED BY <3>2 DEF Unjournaled, Writing
  <2> QED BY <1>2, <2>1, <2>2 DEF StoreData
\* A step of t, which is not writing, that touches no mapped segment.
<1>3. ASSUME NEW t \in Threads, pc[t] \notin {"leased", "journal"},
             UNCHANGED <<committed, base, bitmap, overlay, hash, hashValid>>,
             \A s \in Segments : raw'[s] = raw[s] \/ ~committed[s],
             \A u \in Threads \ {t} :
               /\ held'[u] = held[u] /\ at'[u] = at[u] /\ lease'[u] = lease[u]
               /\ pc[u] \in {"leased", "journal"} => pc'[u] = pc[u]
      PROVE  StoreDataInv'
  <2>1. ASSUME NEW s \in Segments, NEW u \in Threads, Writing(u, s)
        PROVE  Writing(u, s)' /\ lease'[u] = lease[u]
    BY <1>3, <2>1 DEF Writing
  <2>2. ASSUME NEW s \in Segments PROVE StoreData(s)'
    BY <1>2, <1>3, <2>1
  <2> QED BY <2>2 DEF StoreDataInv
<1>4. ASSUME NEW t \in Threads,
             \/ Acquire(t) \/ Prewarm(t) \/ PinResident(t) \/ Wait(t) \/ BeginRestore(t)
             \/ GatePass(t) \/ CopySegment(t) \/ Rebuild(t) \/ RebuildFails(t) \/ Unpin(t)
      PROVE  StoreDataInv'
  <2>1. /\ UNCHANGED storeVars /\ pc[t] \notin {"leased", "journal"}
        /\ \A u \in Threads \ {t} : /\ held'[u] = held[u] /\ at'[u] = at[u]
                                    /\ lease'[u] = lease[u] /\ pc'[u] = pc[u]
    BY <1>1, <1>4 DEF Acquire, Prewarm, Request, PinResident, Pin, Wait, BeginRestore,
       GatePass, CopySegment, Rebuild, RebuildFails, Unpin, CallTypeOK
  <2> QED BY <1>3, <2>1 DEF storeVars
<1>5. ASSUME NEW t \in Threads, GateRefuse(t) \/ PublishFailure(t) PROVE StoreDataInv'
  <2>1. /\ UNCHANGED storeVars /\ pc[t] \notin {"leased", "journal"}
        /\ lease' = lease /\ at' = at /\ held' = held /\ Notify(t, FailPc(t))
    BY <1>5 DEF GateRefuse, PublishFailure
  <2>2. \A u \in Threads \ {t} : pc[u] \in {"leased", "journal"} => pc'[u] = pc[u]
    BY <2>1 DEF Notify
  <2> QED BY <1>3, <2>1, <2>2 DEF storeVars
<1>6. ASSUME NEW t \in Threads, Fill(t) PROVE StoreDataInv'
  <2>1. /\ pc[t] = "fill" /\ at' = at /\ lease' = lease /\ held' = held
        /\ pc' = [pc EXCEPT ![t] = "publish"]
        /\ UNCHANGED <<committed, base, bitmap, overlay, hash, hashValid>>
        /\ raw' = raw \/ raw' = [raw EXCEPT ![at[t]] = scratch[t]]
    BY <1>6 DEF Fill
  <2>2. at[t] \in Segments /\ ~committed[at[t]]
    BY <1>1, <2>1 DEF CallTypeOK, ControlInv, RestoreInv, Restores, RestorePcs
  <2>3. \A s \in Segments : raw'[s] = raw[s] \/ ~committed[s]
    BY <1>1, <2>1, <2>2 DEF StoreTypeOK
  <2> QED BY <1>1, <1>3, <2>1, <2>3 DEF CallTypeOK
<1>7. ASSUME NEW t \in Threads, BeginRelease(t) PROVE StoreDataInv'
  <2>1. /\ UNCHANGED storeVars /\ lease' = lease /\ held' = held /\ pc[t] = "leased"
        /\ pc' = [pc EXCEPT ![t] = IF lease[t].mode = "WRITE" THEN "journal" ELSE "unpin"]
        /\ at' = [at EXCEPT ![t] = lease[t].first]
    BY <1>7 DEF BeginRelease
  <2>2. ASSUME NEW s \in Segments, NEW u \in Threads, Writing(u, s) PROVE Writing(u, s)'
    <3>1. CASE u = t
      <4>1. s \in held[t] /\ lease[t].first <= s /\ lease[t].mode = "WRITE"
        BY <2>1, <2>2, <3>1 DEF ControlInv, HeldInv, HeldOK, Writing
      <4> QED BY <1>1, <2>1, <3>1, <4>1 DEF Writing, CallTypeOK, Segments
    <3>2. CASE u # t
      BY <1>1, <2>1, <2>2, <3>2 DEF Writing, CallTypeOK
    <3> QED BY <3>1, <3>2
  <2>3. ASSUME NEW s \in Segments PROVE StoreData(s)'
    BY <1>2, <2>1, <2>2 DEF storeVars
  <2> QED BY <2>3 DEF StoreDataInv
<1>8. ASSUME NEW t \in Threads, Write(t) PROVE StoreDataInv'
  <2>1. PICK s \in held[t] : \E p \in LeasedPages(t, s), v \in Values : raw' = [raw EXCEPT ![s][p] = v]
    BY <1>8 DEF Write
  <2>2. PICK p \in LeasedPages(t, s), v \in Values : raw' = [raw EXCEPT ![s][p] = v]
    BY <2>1
  <2>3. /\ UNCHANGED <<committed, base, bitmap, overlay, hash, hashValid>>
        /\ UNCHANGED callVars /\ Writing(t, s) /\ s \in Segments
    BY <1>1, <1>8 DEF Write, Writing, CallTypeOK
  <2>4. \A r \in Segments : Unjournaled(r)' = Unjournaled(r) /\ Rebuilt(r)' = Rebuilt(r)
    BY <2>3 DEF callVars, Unjournaled, LeasedPages, Rebuilt
  <2>5. p \in Unjournaled(s)
    BY <2>3, UnjournaledIsWritten
  <2>6. \A r \in Segments : \A q \in Pages \ Unjournaled(r) : raw'[r][q] = raw[r][q]
    BY <1>1, <2>2, <2>3, <2>5 DEF StoreTypeOK, Content
  <2>7. \A r \in Segments : Unjournaled(r) = {} => raw'[r] = raw[r]
    BY <1>1, <2>2, <2>3, <2>5 DEF StoreTypeOK
  <2>8. ASSUME NEW r \in Segments PROVE StoreData(r)'
    <3>1. StoreData(r)
      BY <1>1 DEF StoreDataInv
    <3> QED BY <2>3, <2>4, <2>6, <2>7, <3>1 DEF StoreData
  <2> QED BY <2>8 DEF StoreDataInv
<1>9. ASSUME NEW t \in Threads, Publish(t) PROVE StoreDataInv'
  <2>0. PICK s \in Segments : s = at[t]
    BY <1>1 DEF CallTypeOK
  <2>1. /\ pc[t] = "publish" /\ built[t] /\ s \in Segments
        /\ UNCHANGED <<raw, base, bitmap, overlay>> /\ lease' = lease
        /\ committed' = [committed EXCEPT ![s] = TRUE]
        /\ hash' = IF hashValid[s] THEN hash ELSE [hash EXCEPT ![s] = raw[s]]
        /\ hashValid' = [hashValid EXCEPT ![s] = TRUE]
        /\ Notify(t, NextPc(t)) /\ Pin(t)
    BY <1>9, <2>0 DEF Publish, FreshHash
  <2>2. \A u \in Threads \ {t} :
               /\ held'[u] = held[u] /\ at'[u] = at[u] /\ lease'[u] = lease[u]
               /\ pc[u] \in {"leased", "journal"} => pc'[u] = pc[u]
    BY <1>1, <2>1 DEF Notify, Pin, CallTypeOK
  <2>3. ASSUME NEW r \in Segments \ {s} PROVE StoreData(r)'
    <3>1. ASSUME NEW u \in Threads, Writing(u, r) PROVE Writing(u, r)' /\ lease'[u] = lease[u]
      BY <2>1, <2>2, <3>1 DEF Writing
    <3>2. /\ committed'[r] = committed[r] /\ hash'[r] = hash[r] /\ hashValid'[r] = hashValid[r]
      BY <1>1, <2>1, <2>3 DEF StoreTypeOK
    <3> QED BY <1>2, <2>1, <2>3, <3>1, <3>2
  <2>4. StoreData(s)'
    <3>1. Fits(s, raw[s])
      BY <2>0, <2>1 DEF DataInv, RestoreDataInv, RestoreData
    <3>2. committed'[s] /\ hashValid'[s] /\ hash'[s] = raw'[s]
      BY <1>1, <2>1, <3>1 DEF StoreTypeOK, Fits
    <3>3. Rebuilt(s)' = Rebuilt(s) /\ raw'[s] = raw[s] /\ base'[s] = base[s]
      BY <2>1 DEF Rebuilt
    <3>4. (base[s].kind = "BACKING" => BackingIsHonest) => \A d \in Rebuilt(s) : d = raw[s]
      BY <2>1, <3>1, RebuiltIsUnique DEF Fits
    <3> QED BY <3>2, <3>3, <3>4 DEF StoreData
  <2> QED BY <2>3, <2>4 DEF StoreDataInv
<1>10. ASSUME NEW t \in Threads, Journal(t) PROVE StoreDataInv'
  <2>0. PICK s \in Segments, bits \in SUBSET Pages : s = at[t] /\ bits = LeasedPages(t, s)
    BY <1>1 DEF CallTypeOK, LeasedPages
  <2>1. /\ pc[t] = "journal" /\ s \in Segments /\ committed[s]
        /\ UNCHANGED <<raw, committed, base, lease, held>>
        /\ bitmap' = [bitmap EXCEPT ![s] = @ \cup bits]
        /\ overlay' = [overlay EXCEPT ![s] = Compose(@, bits, raw[s])]
        /\ hash' = [hash EXCEPT ![s] = raw[s]]
        /\ hashValid' = [hashValid EXCEPT ![s] = TRUE]
        /\ at' = [at EXCEPT ![t] = NextAt(t)]
        /\ pc' = [pc EXCEPT ![t] = AfterJournal(t)]
    <3>1. at[t] \in Segments /\ lease[t].lo \in Nat /\ lease[t].hi \in Nat
      BY <1>1 DEF CallTypeOK, AllPages
    <3>2. OverlappingPages(at[t], lease[t].lo, lease[t].hi) = LeasedPages(t, at[t])
      BY <3>1, OverlappingPagesIsLeasedPages
    <3> QED BY <1>10, <2>0, <3>1, <3>2 DEF Journal, FreshHash
  <2>2. ASSUME NEW u \in Threads, NEW r \in Segments, Writing(u, r), u # t \/ r # s
        PROVE  Writing(u, r)'
    <3>1. CASE u # t
      BY <1>1, <2>1, <2>2, <3>1 DEF Writing, CallTypeOK
    <3>2. CASE u = t /\ r # s
      <4>1. r \in held[t] /\ lease[t].mode = "WRITE" /\ r > s /\ r <= lease[t].last
        <5>1. r \in held[t] /\ lease[t].mode = "WRITE" /\ r >= at[t]
          BY <2>1, <2>2, <3>2 DEF Writing
        <5>2. held[t] = {q \in Segments : lease[t].first <= q /\ q <= lease[t].last}
          BY <2>1 DEF ControlInv, HeldInv, HeldOK
        <5> QED BY <2>0, <3>2, <5>1, <5>2 DEF Segments
      <4>2. s < lease[t].last
        BY <1>1, <2>1, <4>1 DEF CallTypeOK, Segments
      <4>3. NextAt(t) = s + 1 /\ AfterJournal(t) = "journal"
        BY <2>0, <4>2 DEF NextAt, AfterJournal
      <4>4. pc'[t] = "journal" /\ at'[t] = s + 1 /\ r >= s + 1
        BY <1>1, <2>1, <4>1, <4>3 DEF CallTypeOK, Segments
      <4> QED BY <2>1, <3>2, <4>1, <4>4 DEF Writing
    <3> QED BY <2>2, <3>1, <3>2
  <2>3. ASSUME NEW r \in Segments \ {s} PROVE StoreData(r)'
    <3>1. ASSUME NEW u \in Threads, Writing(u, r) PROVE Writing(u, r)' /\ lease'[u] = lease[u]
      BY <2>1, <2>2, <2>3, <3>1
    <3>2. /\ bitmap'[r] = bitmap[r] /\ overlay'[r] = overlay[r]
          /\ hash'[r] = hash[r] /\ hashValid'[r] = hashValid[r]
      BY <1>1, <2>1, <2>3 DEF StoreTypeOK
    <3> QED BY <1>2, <2>1, <2>3, <3>1, <3>2
  <2>4. StoreData(s)'
    <3>1. \A p \in Unjournaled(s) : p \in bits \/ p \in Unjournaled(s)'
      <4> SUFFICES ASSUME NEW p \in Unjournaled(s), p \notin bits PROVE p \in Unjournaled(s)'
        OBVIOUS
      <4>1. PICK u \in Threads : Writing(u, s) /\ p \in LeasedPages(u, s) /\ (u = t => p \in bits)
        BY <2>0, UnjournaledIsWritten
      <4>2. Writing(u, s)'
        BY <2>0, <2>1, <2>2, <4>1
      <4>3. p \in LeasedPages(u, s)'
        <5> QED BY <2>1, <4>1 DEF LeasedPages
      <4>4. p \in UNION {LeasedPages(v, s)' : v \in {w \in Threads : Writing(w, s)'}}
        BY <4>2, <4>3
      <4> QED BY <4>2, <4>3 DEF Unjournaled, Writing
    <3>3. StoreData(s)
      BY <1>1, <2>1 DEF StoreDataInv
    <3>4. /\ committed'[s] /\ hashValid'[s] /\ hash'[s] = raw[s] /\ raw'[s] = raw[s]
          /\ base'[s] = base[s] /\ bitmap'[s] = bitmap[s] \cup bits
          /\ overlay'[s] = Compose(overlay[s], bits, raw[s])
      BY <1>1, <2>1 DEF StoreTypeOK
    <3>5. ASSUME base[s].kind = "BACKING" => BackingIsHonest,
                 NEW p \in Pages \ Unjournaled(s)', NEW d \in Rebuilt(s)'
          PROVE  d[p] = raw[s][p]
      <4>1. PICK c \in BaseContents(base[s]) :
                d = Compose(c, bitmap[s] \cup bits, Compose(overlay[s], bits, raw[s]))
        BY <3>4, <3>5 DEF Rebuilt
      <4>2. CASE p \in bits
        BY <4>1, <4>2 DEF Compose
      <4>3. CASE p \notin bits
        <5>1. p \notin Unjournaled(s)
          BY <3>1, <3>5, <4>3
        <5>2. Compose(c, bitmap[s], overlay[s])[p] = raw[s][p]
          BY <2>1, <3>3, <3>5, <5>1 DEF StoreData, Rebuilt
        <5>3. d[p] = Compose(c, bitmap[s], overlay[s])[p]
          BY <4>1, <4>3 DEF Compose
        <5> QED BY <5>2, <5>3
      <4> QED BY <4>2, <4>3
    <3> QED BY <3>4, <3>5 DEF StoreData
  <2> QED BY <2>3, <2>4 DEF StoreDataInv
\* Compaction of the victim of t.
<1>11. ASSUME NEW t \in Threads, NEW v \in Segments, v = victim[t], Evictable(v),
              UNCHANGED callVars,
              \A r \in Segments \ {v} :
                /\ committed'[r] = committed[r] /\ base'[r] = base[r] /\ bitmap'[r] = bitmap[r]
                /\ overlay'[r] = overlay[r] /\ hash'[r] = hash[r]
                /\ hashValid'[r] = hashValid[r] /\ raw'[r] = raw[r],
              StoreData(v)'
       PROVE  StoreDataInv'
  <2>1. ASSUME NEW r \in Segments \ {v} PROVE StoreData(r)'
    <3>1. ASSUME NEW u \in Threads, Writing(u, r) PROVE Writing(u, r)' /\ lease'[u] = lease[u]
      BY <1>11, <3>1 DEF Writing, callVars
    <3> QED BY <1>2, <1>11, <3>1
  <2> QED BY <1>11, <2>1 DEF StoreDataInv
\* decommit_pages fails: nothing has happened.
<1>12. ASSUME NEW t \in Threads, NEW v \in Segments, DecommitFails(v),
              UNCHANGED <<base, bitmap, overlay, hash, hashValid>>, UNCHANGED callVars
       PROVE  StoreDataInv'
  <2>1. raw' = raw /\ committed' = committed
    BY <1>12 DEF DecommitFails
  <2>2. ASSUME NEW r \in Segments PROVE StoreData(r)'
    <3>1. ASSUME NEW u \in Threads, Writing(u, r) PROVE Writing(u, r)' /\ lease'[u] = lease[u]
      BY <1>12, <3>1 DEF Writing, callVars
    <3> QED BY <1>2, <1>12, <2>1, <3>1
  <2> QED BY <2>2 DEF StoreDataInv
<1>13. ASSUME NEW t \in Threads, DirectDecommit(t) PROVE StoreDataInv'
  <2>0. PICK v \in Segments : v = victim[t]
    BY <1>1 DEF CompactTypeOK
  <2>1. /\ v \in Segments /\ Evictable(v) /\ base[v].kind # "NONE" /\ UNCHANGED callVars
        /\ UNCHANGED <<base, bitmap, overlay, hash, hashValid>>
        /\ Decommit(v) \/ DecommitFails(v)
    BY <1>13, <2>0 DEF DirectDecommit, DirectAllowed
  <2>2. CASE DecommitFails(v)
    BY <1>12, <2>1, <2>2
  <2>3. CASE Decommit(v)
    <3>1. /\ raw' = [raw EXCEPT ![v] = Blank] /\ committed' = [committed EXCEPT ![v] = FALSE]
      BY <2>3 DEF Decommit
    <3>2. hashValid[v] /\ hash[v] = raw[v] /\ Unjournaled(v) = {} /\ committed[v]
      BY <1>1, <2>1, EvictableIsQuiet, EvictableIsFresh
    <3>3. ASSUME base[v].kind = "BACKING" => BackingIsHonest PROVE Rebuilt(v) = {hash[v]}
      <4>1. \A d \in Rebuilt(v) : \A p \in Pages : d[p] = raw[v][p]
        BY <1>1, <2>1, <3>2, <3>3 DEF StoreDataInv, StoreData
      <4>2. ASSUME NEW d \in Rebuilt(v) PROVE d = raw[v]
        <5>1. d \in Content /\ raw[v] \in Content
          BY <1>1, <2>1, RebuiltType DEF StoreTypeOK
        <5> QED BY <4>1, <5>1 DEF Content
      <4>3. Rebuilt(v) # {}
        <5>1. base[v].kind \in {"BACKING", "COMPRESSED"}
          BY <1>1, <2>1 DEF StoreTypeOK, BaseType, BaseKinds
        <5>2. BaseContents(base[v]) # {}
          BY <3>3, <5>1 DEF BaseContents, BackingIsHonest
        <5> QED BY <5>2 DEF Rebuilt
      <4> QED BY <3>2, <4>2, <4>3
    <3>4. /\ ~committed'[v] /\ hash'[v] = hash[v] /\ base'[v] = base[v] /\ Rebuilt(v)' = Rebuilt(v)
      BY <1>1, <2>1, <3>1 DEF StoreTypeOK, Rebuilt
    <3>5. StoreData(v)'
      BY <3>3, <3>4 DEF StoreData
    <3>6. \A r \in Segments \ {v} : raw'[r] = raw[r] /\ committed'[r] = committed[r]
      BY <1>1, <3>1 DEF StoreTypeOK
    <3> QED BY <1>11, <2>0, <2>1, <3>5, <3>6
  <2> QED BY <2>1, <2>2, <2>3
<1>14. ASSUME NEW t \in Threads, Swap(t) PROVE StoreDataInv'
  <2>0. PICK v \in Segments, c \in Content : v = victim[t] /\ c = snap[t].data
    BY <1>1 DEF CompactTypeOK
  <2>1. /\ v \in Segments /\ Evictable(v) /\ UNCHANGED callVars /\ c \in Content
        /\ \/ /\ Decommit(v)
              /\ base' = [base EXCEPT ![v] = [kind |-> "COMPRESSED", data |-> c]]
              /\ bitmap' = [bitmap EXCEPT ![v] = {}]
              /\ overlay' = [overlay EXCEPT ![v] = Blank]
              /\ hash' = [hash EXCEPT ![v] = c]
              /\ hashValid' = [hashValid EXCEPT ![v] = TRUE]
           \/ DecommitFails(v) /\ UNCHANGED <<base, bitmap, overlay, hash, hashValid>>
    BY <1>14, <2>0 DEF Swap, StillCurrent
  <2>3. CASE DecommitFails(v) /\ UNCHANGED <<base, bitmap, overlay, hash, hashValid>>
    BY <1>12, <2>1, <2>3
  <2>4. CASE /\ Decommit(v)
             /\ base' = [base EXCEPT ![v] = [kind |-> "COMPRESSED", data |-> c]]
             /\ bitmap' = [bitmap EXCEPT ![v] = {}]
             /\ overlay' = [overlay EXCEPT ![v] = Blank]
             /\ hash' = [hash EXCEPT ![v] = c]
             /\ hashValid' = [hashValid EXCEPT ![v] = TRUE]
    <3>1. /\ ~committed'[v] /\ hash'[v] = c /\ bitmap'[v] = {} /\ overlay'[v] = Blank
          /\ base'[v] = [kind |-> "COMPRESSED", data |-> c]
      BY <1>1, <2>1, <2>4 DEF Decommit, StoreTypeOK
    <3>2. BaseContents(base'[v]) = {c}
      BY <3>1 DEF BaseContents
    <3>3. Compose(c, {}, Blank) = c
      BY <2>1, ComposeEmpty
    <3>4. Rebuilt(v)' = {c}
      BY <3>1, <3>2, <3>3 DEF Rebuilt
    <3>5. StoreData(v)'
      BY <3>1, <3>4 DEF StoreData
    <3>6. \A r \in Segments \ {v} :
                /\ committed'[r] = committed[r] /\ base'[r] = base[r] /\ bitmap'[r] = bitmap[r]
                /\ overlay'[r] = overlay[r] /\ hash'[r] = hash[r]
                /\ hashValid'[r] = hashValid[r] /\ raw'[r] = raw[r]
      BY <1>1, <2>4 DEF Decommit, StoreTypeOK
    <3> QED BY <1>11, <2>0, <2>1, <3>5, <3>6
  <2> QED BY <2>1, <2>3, <2>4
<1>15. ASSUME NEW t \in Threads,
              Choose(t) \/ DirectRefused(t) \/ Snapshot(t) \/ GiveUp(t) \/ SwapAborted(t)
       PROVE  UNCHANGED <<storeVars, callVars>>
  BY <1>15 DEF Choose, DirectRefused, Snapshot, GiveUp, SwapAborted
<1>16. CASE UNCHANGED <<storeVars, callVars>>
  <2>1. ASSUME NEW r \in Segments PROVE StoreData(r)'
    <3>1. ASSUME NEW u \in Threads, Writing(u, r) PROVE Writing(u, r)' /\ lease'[u] = lease[u]
      BY <1>16, <3>1 DEF Writing, callVars
    <3> QED BY <1>2, <1>16, <3>1 DEF storeVars
  <2> QED BY <2>1 DEF StoreDataInv
<1>17. UNCHANGED vars => UNCHANGED <<storeVars, callVars>>
  BY DEF vars
<1> QED
  BY <1>4, <1>5, <1>6, <1>7, <1>8, <1>9, <1>10, <1>13, <1>14, <1>15, <1>16, <1>17
     DEF Next, Materialize, Release, CompactOne

LEMMA NextSnapData ==
    ControlInv /\ DataInv /\ [Next]_vars => SnapDataInv'
<1> SUFFICES ASSUME ControlInv, DataInv, [Next]_vars PROVE SnapDataInv' OBVIOUS
<1>1. CallTypeOK /\ StoreTypeOK /\ CompactTypeOK /\ StoreDataInv /\ SnapDataInv
  BY DEF ControlInv, TypeOK, DataInv
\* u keeps its snapshot when its victim has the same generation and hash, or
\* a newer generation.
<1>2. ASSUME NEW u \in Threads,
             cpc'[u] = "swap" => /\ cpc[u] = "swap" /\ victim'[u] = victim[u] /\ snap'[u] = snap[u],
             cpc'[u] = "swap" =>
               \/ /\ generation'[victim[u]] = generation[victim[u]]
                  /\ hashValid[victim[u]] =>
                       hashValid'[victim[u]] /\ hash'[victim[u]] = hash[victim[u]]
               \/ generation'[victim[u]] = generation[victim[u]] + 1
      PROVE  SnapData(u)'
  <2> SUFFICES ASSUME cpc'[u] = "swap" PROVE SnapData(u)'
    BY DEF SnapData
  <2>0. PICK v \in Segments : v = victim[u] /\ v = victim'[u]
    BY <1>1, <1>2 DEF CompactTypeOK
  <2>1. /\ snap[u].generation \in Nat /\ generation[v] \in Nat
        /\ snap[u].generation <= generation[v]
        /\ snap[u].generation = generation[v] => hashValid[v] /\ snap[u].data = hash[v]
    BY <1>1, <1>2, <2>0 DEF SnapDataInv, SnapData, CompactTypeOK, StoreTypeOK
  <2>2. CASE generation'[v] = generation[v] + 1
    BY <1>2, <2>0, <2>1, <2>2 DEF SnapData
  <2>3. CASE /\ generation'[v] = generation[v]
             /\ hashValid[v] => hashValid'[v] /\ hash'[v] = hash[v]
    BY <1>2, <2>0, <2>1, <2>3 DEF SnapData
  <2> QED BY <1>2, <2>0, <2>2, <2>3
<1>3. ASSUME UNCHANGED <<generation, hash, hashValid>>,
             \A u \in Threads : cpc'[u] = "swap" =>
               /\ cpc[u] = "swap" /\ victim'[u] = victim[u] /\ snap'[u] = snap[u]
      PROVE  SnapDataInv'
  BY <1>2, <1>3 DEF SnapDataInv
<1>4. ASSUME NEW t \in Threads,
             \/ Acquire(t) \/ Prewarm(t) \/ PinResident(t) \/ Wait(t) \/ BeginRestore(t)
             \/ GatePass(t) \/ GateRefuse(t) \/ CopySegment(t) \/ Rebuild(t) \/ RebuildFails(t)
             \/ Fill(t) \/ PublishFailure(t) \/ Write(t) \/ BeginRelease(t) \/ Unpin(t)
      PROVE  SnapDataInv'
  <2>1. UNCHANGED <<generation, hash, hashValid>> /\ UNCHANGED compactVars
    BY <1>4 DEF Acquire, Prewarm, Request, PinResident, Wait, BeginRestore, GatePass, GateRefuse,
       CopySegment, Rebuild, RebuildFails, Fill, PublishFailure, Write, BeginRelease, Unpin,
       storeVars
  <2> QED BY <1>3, <2>1 DEF compactVars
<1>5. ASSUME NEW t \in Threads,
             Choose(t) \/ DirectDecommit(t) \/ DirectRefused(t) \/ GiveUp(t) \/ SwapAborted(t)
      PROVE  SnapDataInv'
  <2>1. /\ UNCHANGED <<generation, hash, hashValid>>
        /\ \E next \in {"direct", "none", "snapshot"} : cpc' = [cpc EXCEPT ![t] = next]
        /\ \A u \in Threads \ {t} : victim'[u] = victim[u] /\ snap'[u] = snap[u]
    BY <1>1, <1>5 DEF Choose, DirectDecommit, DirectRefused, GiveUp, SwapAborted, ToCompactPc,
       DropSnap, storeVars, CompactTypeOK
  <2> QED BY <1>1, <1>3, <2>1 DEF CompactTypeOK
<1>6. ASSUME NEW t \in Threads, Publish(t) PROVE SnapDataInv'
  <2>1. UNCHANGED <<generation, compactVars>> /\ at[t] \in Segments
    BY <1>1, <1>6 DEF Publish, CallTypeOK
  <2>2. \A v \in Segments : hashValid[v] => hashValid'[v] /\ hash'[v] = hash[v]
    BY <1>1, <1>6, <2>1 DEF Publish, StoreTypeOK
  <2>3. ASSUME NEW u \in Threads PROVE SnapData(u)'
    BY <1>1, <1>2, <2>1, <2>2 DEF compactVars, CompactTypeOK
  <2> QED BY <2>3 DEF SnapDataInv
<1>7. ASSUME NEW t \in Threads, Journal(t) PROVE SnapDataInv'
  <2>1. /\ UNCHANGED compactVars /\ at[t] \in Segments
        /\ generation' = [generation EXCEPT ![at[t]] = @ + 1]
        /\ \A v \in Segments \ {at[t]} : hash'[v] = hash[v] /\ hashValid'[v] = hashValid[v]
    BY <1>1, <1>7 DEF Journal, CallTypeOK, StoreTypeOK
  <2>2. \A v \in Segments :
          \/ generation'[v] = generation[v] /\ hash'[v] = hash[v] /\ hashValid'[v] = hashValid[v]
          \/ generation'[v] = generation[v] + 1
    BY <1>1, <2>1 DEF StoreTypeOK
  <2>3. ASSUME NEW u \in Threads PROVE SnapData(u)'
    BY <1>1, <1>2, <2>1, <2>2 DEF compactVars, CompactTypeOK
  <2> QED BY <2>3 DEF SnapDataInv
<1>8. ASSUME NEW t \in Threads, Snapshot(t) PROVE SnapDataInv'
  <2>0. PICK v \in Segments : v = victim[t]
    BY <1>1 DEF CompactTypeOK
  <2>1. /\ UNCHANGED storeVars /\ victim' = victim /\ Evictable(v)
        /\ snap' = [snap EXCEPT ![t] = [generation |-> generation[v], data |-> raw[v]]]
        /\ cpc' = [cpc EXCEPT ![t] = "swap"]
    BY <1>8, <2>0 DEF Snapshot, ToCompactPc
  <2>2. hashValid[v] /\ hash[v] = raw[v]
    BY <1>1, <2>1, EvictableIsFresh
  <2>3. SnapData(t)'
    BY <1>1, <2>0, <2>1, <2>2 DEF SnapData, storeVars, CompactTypeOK, StoreTypeOK
  <2>4. ASSUME NEW u \in Threads \ {t} PROVE SnapData(u)'
    BY <1>1, <1>2, <2>1 DEF storeVars, CompactTypeOK
  <2> QED BY <2>3, <2>4 DEF SnapDataInv
\* Another thread swaps in the same content, or swaps another segment.
<1>9. ASSUME NEW t \in Threads, Swap(t) PROVE SnapDataInv'
  <2>0. PICK v \in Segments : v = victim[t]
    BY <1>1 DEF CompactTypeOK
  <2>1. /\ generation' = generation /\ cpc[t] = "swap" /\ snap[t].generation = generation[v]
        /\ cpc' = [cpc EXCEPT ![t] = "none"]
        /\ \/ hash' = hash /\ hashValid' = hashValid
           \/ /\ hash' = [hash EXCEPT ![v] = snap[t].data]
              /\ hashValid' = [hashValid EXCEPT ![v] = TRUE]
        /\ \A u \in Threads \ {t} : victim'[u] = victim[u] /\ snap'[u] = snap[u]
    BY <1>1, <1>9, <2>0 DEF Swap, StillCurrent, ToCompactPc, DropSnap, CompactTypeOK
  <2>2. snap[t].data = hash[v] /\ hashValid[v]
    BY <1>1, <2>0, <2>1 DEF SnapDataInv, SnapData
  <2>3. \A r \in Segments : hash'[r] = hash[r] /\ hashValid'[r] = hashValid[r]
    BY <1>1, <2>1, <2>2 DEF StoreTypeOK
  <2>4. ASSUME NEW u \in Threads PROVE SnapData(u)'
    BY <1>1, <1>2, <2>1, <2>3 DEF CompactTypeOK
  <2> QED BY <2>4 DEF SnapDataInv
<1>10. CASE UNCHANGED vars
  BY <1>3, <1>10 DEF vars, storeVars, compactVars
<1> QED
  BY <1>4, <1>5, <1>6, <1>7, <1>8, <1>9, <1>10 DEF Next, Materialize, Release, CompactOne

LEMMA DataInvariant ==
    ASSUME DecommitTears = FALSE
    PROVE  Spec => [](ControlInv /\ DataInv)
<1>1. Init => ControlInv /\ DataInv
  <2>1. Init => SnapDataInv
    BY DEF Init, SnapDataInv, SnapData
  <2> QED BY <2>1, InitTypeOK, InitHeld, InitRestore, InitPin, InitRestoreData, InitStoreData
         DEF ControlInv, DataInv
<1>2. ControlInv /\ DataInv /\ [Next]_vars => (ControlInv /\ DataInv)'
  BY NextTypeOK, NextHeld, NextRestore, NextPin, NextRestoreData, NextStoreData, NextSnapData
     DEF ControlInv, DataInv
<1> QED BY <1>1, <1>2, PTL DEF Spec

(***************************************************************************)
(* When decommit_pages either succeeds or does nothing, a dormant segment  *)
(* can always be rebuilt, and to the content its hash records: no order of *)
(* leases, evictions and restores makes sr_acquire of an object with an    *)
(* honest backing fail with SR_ERR_CORRUPTION.                             *)
(***************************************************************************)
THEOREM DormantStaysRecoverable ==
    ASSUME DecommitTears = FALSE
    PROVE  Spec => []DormantIsRecoverable
<1>1. ControlInv /\ DataInv => DormantIsRecoverable
  BY DEF DataInv, StoreDataInv, StoreData, DormantIsRecoverable
<1> QED BY <1>1, DataInvariant, PTL

(***************************************************************************)
(* A mapped segment that nobody is writing holds exactly the bytes its     *)
(* hash was computed from, whatever was evicted and restored in between.   *)
(***************************************************************************)
THEOREM HashStaysFresh ==
    ASSUME DecommitTears = FALSE
    PROVE  Spec => []HashAgrees
<1>1. ControlInv /\ DataInv => HashAgrees
  BY DEF DataInv, StoreDataInv, StoreData, HashAgrees
<1> QED BY <1>1, DataInvariant, PTL

(***************************************************************************)
(* The base with the overlay rebuilds every page nobody is writing: no     *)
(* page range of a lease leaves out a page that was written, whatever the  *)
(* sizes of segment and page.                                              *)
(***************************************************************************)
THEOREM BackingStaysFaithful ==
    ASSUME DecommitTears = FALSE
    PROVE  Spec => []BackingAgrees
<1>1. ControlInv /\ DataInv => BackingAgrees
  BY DEF DataInv, StoreDataInv, StoreData, BackingAgrees
<1> QED BY <1>1, DataInvariant, PTL

(***************************************************************************)
(* What materialize_and_pin copied under the lock is still the state of    *)
(* the segment when it rebuilds and publishes without it.                  *)
(***************************************************************************)
THEOREM RestoreStaysCurrent ==
    ASSUME DecommitTears = FALSE
    PROVE  Spec => []RestoreIsCurrent
<1>1. ControlInv /\ DataInv => RestoreIsCurrent
  BY DEF DataInv, RestoreDataInv, RestoreData, Current, RestoreIsCurrent
<1> QED BY <1>1, DataInvariant, PTL

(***************************************************************************)
(* The optimistic consolidation of consolidate_and_decommit never installs *)
(* bytes other than those it discards: a write journaled while it was      *)
(* encoding without the lock makes its generation check fail.              *)
(***************************************************************************)
THEOREM SwapIsCurrent ==
    ASSUME DecommitTears = FALSE
    PROVE  Spec => SwapKeepsNewest
<1>1. ASSUME ControlInv, DataInv, [Next]_vars, NEW s \in Segments, base'[s] # base[s]
      PROVE  base'[s].data = raw[s] /\ hash'[s] = raw[s]
  <2>0. CallTypeOK /\ StoreTypeOK /\ CompactTypeOK /\ StoreDataInv /\ SnapDataInv
    BY <1>1 DEF ControlInv, TypeOK, DataInv
  <2>1. PICK t \in Threads : Swap(t)
    BY <1>1 DEF Next, vars, storeVars, Acquire, Prewarm, Request, Materialize, PinResident, Wait,
       BeginRestore, GatePass, GateRefuse, CopySegment, Rebuild, RebuildFails, Fill, Publish,
       PublishFailure, Write, BeginRelease, Release, Journal, Unpin, Choose, CompactOne,
       DirectDecommit, DirectRefused, Snapshot, GiveUp, SwapAborted
  <2>2. /\ cpc[t] = "swap" /\ Evictable(victim[t]) /\ victim[t] \in Segments
        /\ snap[t].generation = generation[victim[t]]
        /\ base' = [base EXCEPT ![victim[t]] = [kind |-> "COMPRESSED", data |-> snap[t].data]]
        /\ hash' = [hash EXCEPT ![victim[t]] = snap[t].data]
    BY <1>1, <2>0, <2>1 DEF Swap, StillCurrent, CompactTypeOK
  <2>3. s = victim[t]
    BY <1>1, <2>0, <2>2 DEF StoreTypeOK
  <2>4. snap[t].data = hash[s] /\ hash[s] = raw[s]
    BY <1>1, <2>0, <2>2, <2>3, EvictableIsFresh DEF SnapDataInv, SnapData
  <2> QED BY <2>0, <2>2, <2>3, <2>4 DEF StoreTypeOK
<1>2. ControlInv /\ DataInv /\ [Next]_vars =>
        [\A s \in Segments : base'[s] # base[s] => base'[s].data = raw[s] /\ hash'[s] = raw[s]]_vars
  BY <1>1
<1> QED BY <1>2, DataInvariant, PTL DEF Spec, SwapKeepsNewest

(***************************************************************************)
(* The two together: a thread has a pin of its own on every segment of its *)
(* lease, and the segment is mapped.                                       *)
(***************************************************************************)
THEOREM LeasesAlwaysHold == Spec => []LeasesHold
<1>1. PinsCountHolders /\ LeasedIsResident => LeasesHold
  BY DEF LeasesHold
<1> QED BY <1>1, PinsAreCounted, LeaseStaysResident, PTL

(***************************************************************************)
(* Restorer, backing and hash of every segment agree at every moment, when *)
(* decommit either happens or does not.                                    *)
(***************************************************************************)
THEOREM SegmentsAlwaysAgree ==
    ASSUME DecommitTears = FALSE
    PROVE  Spec => []SegmentsAgree
<1>1. OneRestorer /\ RestoreIsCurrent /\ BackingAgrees /\ HashAgrees => SegmentsAgree
  BY DEF SegmentsAgree
<1> QED BY <1>1, RestoreIsExclusive, RestoreStaysCurrent, BackingStaysFaithful, HashStaysFresh, PTL

-----------------------------------------------------------------------------
(***************************************************************************)
(* SegmentLease implements LeasedMemory, for every set of threads and      *)
(* every size of the object: eviction, journaling, consolidation and       *)
(* restoration are invisible to the applications.                          *)
(***************************************************************************)

(***************************************************************************)
(* A request covers exactly the segments of its page range.                *)
(***************************************************************************)
LeaseShape(t) ==
    /\ lease[t].first = SegmentOf(lease[t].lo)
    /\ lease[t].last = SegmentOf(lease[t].hi)

LeaseShapeInv == \A t \in Threads : LeaseShape(t)

LEMMA LeaseShapeInvariant == Spec => []LeaseShapeInv
<1>1. Init => LeaseShapeInv
  <2>1. SegmentOf(0) = 0
    BY ConstantsAssumption, SMT DEF SegmentOf
  <2> QED BY <2>1 DEF Init, LeaseShapeInv, LeaseShape, NoLease
<1>2. TypeOK /\ LeaseShapeInv /\ [Next]_vars => LeaseShapeInv'
  <2> SUFFICES ASSUME TypeOK, LeaseShapeInv, [Next]_vars PROVE LeaseShapeInv' OBVIOUS
  <2>1. ASSUME NEW t \in Threads, NEW mode, NEW lo, NEW hi, Request(t, mode, lo, hi)
        PROVE  LeaseShapeInv'
    BY <2>1 DEF Request, LeaseShapeInv, LeaseShape, TypeOK, CallTypeOK, SegmentOf
  <2>2. ASSUME NEW t \in Threads, Acquire(t) \/ Prewarm(t) PROVE LeaseShapeInv'
    BY <2>1, <2>2 DEF Acquire, Prewarm
  <2>3. ASSUME NEW t \in Threads,
               Materialize(t) \/ Write(t) \/ BeginRelease(t) \/ Release(t) \/ Choose(t) \/ CompactOne(t)
        PROVE  lease' = lease
    BY <2>3 DEF Materialize, PinResident, Wait, BeginRestore, GatePass, GateRefuse, CopySegment,
       Rebuild, RebuildFails, Fill, Publish, PublishFailure, Write, BeginRelease, Release, Journal,
       Unpin, Choose, CompactOne, DirectDecommit, DirectRefused, Snapshot, GiveUp, Swap,
       SwapAborted, callVars
  <2>4. lease' = lease => LeaseShapeInv'
    BY DEF LeaseShapeInv, LeaseShape
  <2>5. UNCHANGED vars => lease' = lease
    BY DEF vars, callVars
  <2> QED BY <2>2, <2>3, <2>4, <2>5 DEF Next
<1> QED BY <1>1, <1>2, TypeCorrect, PTL DEF Spec

\* A segment with a page in the range lies between its ends.
LEMMA PageInRange ==
    ASSUME NEW lo \in AllPages, NEW hi \in AllPages, NEW s \in Segments, NEW p \in Pages,
           lo <= s * PageCount + p, s * PageCount + p <= hi
    PROVE  SegmentOf(lo) <= s /\ s <= SegmentOf(hi)
<1> USE ConstantsAssumption
<1> DEFINE page == s * PageCount + p
<1>1. page \in AllPages
  <2>1. page <= hi /\ page >= 0 /\ page \in Int
    BY DEF Segments, Pages, AllPages
  <2> QED BY <2>1 DEF AllPages
<1>2. SegmentOf(page) = s
  <2> DEFINE q == page \div PageCount
  <2>0. ASSUME NEW n \in Int
        PROVE  /\ n = PageCount * (n \div PageCount) + (n % PageCount)
               /\ n % PageCount \in 0 .. PageCount - 1 /\ n \div PageCount \in Int
    BY SMT
  <2>1. /\ page = PageCount * q + (page % PageCount) /\ page % PageCount \in 0 .. PageCount - 1
        /\ q \in Int /\ page \in Int
    <3>1. page \in Int
      BY <1>1 DEF AllPages
    <3> HIDE DEF page
    <3> QED BY <2>0, <3>1
  <2>2. page = PageCount * s + p /\ s \in Int /\ p \in 0 .. PageCount - 1
    BY DEF Segments, Pages
  <2> HIDE DEF q, page
  <2>3. CASE q > s
    <3>1. PageCount * q >= PageCount * (s + 1)
      BY <2>1, <2>2, <2>3
    <3>2. PageCount * (s + 1) = PageCount * s + PageCount
      BY <2>2
    <3> QED BY <2>1, <2>2, <3>1, <3>2
  <2>4. CASE q < s
    <3>1. PageCount * s >= PageCount * (q + 1)
      BY <2>1, <2>2, <2>4
    <3>2. PageCount * (q + 1) = PageCount * q + PageCount
      BY <2>1
    <3> QED BY <2>1, <2>2, <3>1, <3>2
  <2> QED BY <2>1, <2>2, <2>3, <2>4 DEF SegmentOf, q
<1> QED BY <1>1, <1>2, SegmentOfMonotone

-----------------------------------------------------------------------------
(***************************************************************************)
(* The refinement mapping                                                  *)
(***************************************************************************)
Mem == [s \in Segments |-> IF committed[s] THEN raw[s] ELSE hash[s]]

NoGrant == [mode |-> "NONE", pages |-> [s \in Segments |-> {}]]

GrantOf(t) ==
    IF pc[t] = "leased" THEN [mode |-> lease[t].mode, pages |-> [s \in Segments |-> LeasedPages(t, s)]]
    ELSE NoGrant

GrantMap == [t \in Threads |-> GrantOf(t)]

\* The invariants the refinement rests on.
MemoryInv == ControlInv /\ DataInv /\ LeaseShapeInv

\* A step that only fixes the content of more segments, and grants nothing.
RevealStep ==
    /\ \A s \in Segments : hashValid[s] => hashValid'[s] /\ Mem'[s] = Mem[s]
    /\ \A t \in Threads : GrantOf(t)' = GrantOf(t)

LEMMA RevealIsLook ==
    ASSUME TypeOK, TypeOK', RevealStep
    PROVE  Memory!Look
<1>1. Mem' \in [Segments -> Content]
  BY DEF TypeOK, StoreTypeOK, Mem
<1>2. hashValid' \in [Segments -> BOOLEAN]
  BY DEF TypeOK, StoreTypeOK
<1>3. GrantMap' = GrantMap
  BY DEF RevealStep, GrantMap
<1> QED BY <1>1, <1>2, <1>3 DEF RevealStep, Memory!Look, Memory!Reveal, Memory!Content, Content,
       Mem, GrantMap, GrantOf, NoGrant

LEMMA NextMemory ==
    ASSUME DecommitTears = FALSE
    PROVE  MemoryInv /\ MemoryInv' /\ [Next]_vars => [Memory!Next]_<<Mem, hashValid, GrantMap>>
<1> SUFFICES ASSUME MemoryInv, MemoryInv', [Next]_vars
             PROVE  [Memory!Next]_<<Mem, hashValid, GrantMap>>
  OBVIOUS
<1>1. TypeOK /\ TypeOK' /\ CallTypeOK /\ StoreTypeOK /\ CompactTypeOK /\ StoreDataInv
  BY DEF MemoryInv, ControlInv, TypeOK, DataInv
<1>2. RevealStep => [Memory!Next]_<<Mem, hashValid, GrantMap>>
  BY <1>1, RevealIsLook DEF Memory!Next, Mem, GrantMap, GrantOf, NoGrant
\* The grants of the threads other than t stay.
<1>3. ASSUME NEW t \in Threads, NEW next, pc' = [pc EXCEPT ![t] = next] \/ Notify(t, next),
             \A u \in Threads \ {t} : lease'[u] = lease[u]
      PROVE  \A u \in Threads \ {t} : GrantOf(u)' = GrantOf(u)
  <2>1. ASSUME NEW u \in Threads \ {t} PROVE GrantOf(u)' = GrantOf(u)
    <3>1. pc'[u] = "leased" <=> pc[u] = "leased"
      BY <1>1, <1>3 DEF Notify, CallTypeOK
    <3> QED BY <1>3, <3>1 DEF GrantOf, NoGrant, LeasedPages
  <2> QED BY <2>1
<1>4. ASSUME NEW t \in Threads, NEW next, pc' = [pc EXCEPT ![t] = next] \/ Notify(t, next),
             \A u \in Threads \ {t} : lease'[u] = lease[u],
             pc[t] # "leased", next # "leased"
      PROVE  \A u \in Threads : GrantOf(u)' = GrantOf(u)
  <2>1. GrantOf(t)' = GrantOf(t)
    <3>1. pc'[t] # "leased"
      BY <1>1, <1>4 DEF Notify, CallTypeOK
    <3> QED BY <1>4, <3>1 DEF GrantOf, NoGrant
  <2> QED BY <1>3, <1>4, <2>1
<1>5. UNCHANGED storeVars =>
        \A s \in Segments : hashValid[s] => hashValid'[s] /\ Mem'[s] = Mem[s]
  BY DEF storeVars, Mem
\* Granting a lease: every page of the range lies in a segment t has pinned.
<1>6. ASSUME NEW t \in Threads,
             \A s \in Segments : hashValid[s] => hashValid'[s] /\ Mem'[s] = Mem[s],
             pc' = [pc EXCEPT ![t] = NextPc(t)] \/ Notify(t, NextPc(t)),
             lease' = lease, pc[t] # "leased"
      PROVE  [Memory!Next]_<<Mem, hashValid, GrantMap>>
  <2>1. CASE NextPc(t) # "leased"
    BY <1>2, <1>4, <1>6, <2>1 DEF RevealStep
  <2>2. CASE NextPc(t) = "leased"
    <3>1. \A u \in Threads \ {t} : GrantOf(u)' = GrantOf(u)
      BY <1>3, <1>6
    <3>2. pc'[t] = "leased" /\ lease[t].mode # "PREWARM"
      BY <1>1, <1>6, <2>2 DEF Notify, NextPc, CallTypeOK
    <3> DEFINE g == [mode |-> lease[t].mode, pages |-> [s \in Segments |-> LeasedPages(t, s)]]
    <3>3. g \in Memory!Grants
      BY <1>1, <3>2 DEF Memory!Grants, CallTypeOK, Modes, LeasedPages
    <3>4. GrantOf(t) = NoGrant /\ GrantOf(t)' = g
      BY <1>6, <3>2 DEF GrantOf, LeasedPages
    <3>5. GrantMap' = [GrantMap EXCEPT ![t] = g]
      BY <3>1, <3>4 DEF GrantMap
    <3>6. ASSUME NEW s \in Segments, g.pages[s] # {} PROVE hashValid'[s]
      <4>1. PICK p \in Pages : lease[t].lo <= s * PageCount + p /\ s * PageCount + p <= lease[t].hi
        BY <3>6 DEF LeasedPages
      <4>2. lease[t].first <= s /\ s <= lease[t].last
        BY <1>1, <4>1, PageInRange DEF MemoryInv, LeaseShapeInv, LeaseShape, CallTypeOK
      <4>3. s \in held'[t]
        BY <1>6, <3>2, <4>2 DEF MemoryInv, ControlInv, HeldInv, HeldOK
      <4>4. committed'[s]
        BY <4>3 DEF MemoryInv, ControlInv, PinInv, LeasedIsResident
      <4> QED BY <4>4 DEF MemoryInv, DataInv, StoreDataInv, StoreData
    <3>7. Mem' \in [Segments -> Content] /\ hashValid' \in [Segments -> BOOLEAN]
      BY <1>1 DEF TypeOK, StoreTypeOK, Mem
    <3>8. GrantMap[t] = NoGrant
      BY <3>4 DEF GrantMap
    <3> HIDE DEF g
    <3>9. Memory!Grant(t)
      BY <1>6, <3>3, <3>5, <3>6, <3>7, <3>8
         DEF Memory!Grant, Memory!Reveal, Memory!Content, Memory!Nothing, Content, Mem, GrantMap,
             GrantOf, NoGrant
    <3> QED BY <3>9 DEF Memory!Next, Mem, GrantMap, GrantOf, NoGrant
  <2> QED BY <2>1, <2>2
<1>7. ASSUME NEW t \in Threads, PinResident(t) PROVE [Memory!Next]_<<Mem, hashValid, GrantMap>>
  BY <1>5, <1>6, <1>7 DEF PinResident
<1>8. ASSUME NEW t \in Threads, Publish(t) PROVE [Memory!Next]_<<Mem, hashValid, GrantMap>>
  <2>0. PICK s \in Segments : s = at[t]
    BY <1>1 DEF CallTypeOK
  <2>1. /\ pc[t] = "publish" /\ built[t] /\ raw' = raw /\ lease' = lease
        /\ committed' = [committed EXCEPT ![s] = TRUE]
        /\ hash' = IF hashValid[s] THEN hash ELSE [hash EXCEPT ![s] = raw[s]]
        /\ hashValid' = [hashValid EXCEPT ![s] = TRUE]
        /\ Notify(t, NextPc(t))
    BY <1>8, <2>0 DEF Publish, FreshHash
  <2>2. ~committed[s] /\ (hashValid[s] => raw[s] = hash[s])
    BY <2>0, <2>1 DEF MemoryInv, ControlInv, RestoreInv, Restores, RestorePcs, DataInv,
       RestoreDataInv, RestoreData, Fits
  <2>3. ASSUME NEW r \in Segments, hashValid[r] PROVE hashValid'[r] /\ Mem'[r] = Mem[r]
    BY <1>1, <2>1, <2>2, <2>3 DEF Mem, StoreTypeOK
  <2> QED BY <1>6, <2>1, <2>3
<1>9. ASSUME NEW t \in Threads,
             \/ Acquire(t) \/ Prewarm(t) \/ Wait(t) \/ BeginRestore(t) \/ GatePass(t)
             \/ GateRefuse(t) \/ CopySegment(t) \/ Rebuild(t) \/ RebuildFails(t)
             \/ PublishFailure(t) \/ Unpin(t)
      PROVE  [Memory!Next]_<<Mem, hashValid, GrantMap>>
  <2>1. /\ UNCHANGED storeVars /\ pc[t] # "leased"
        /\ \E next \in CallPcs \ {"leased"} : pc' = [pc EXCEPT ![t] = next] \/ Notify(t, next)
        /\ \A u \in Threads \ {t} : lease'[u] = lease[u]
    BY <1>1, <1>9 DEF Acquire, Prewarm, Request, Wait, BeginRestore, GatePass, GateRefuse, CopySegment,
       Rebuild, RebuildFails, PublishFailure, Unpin, FailPc, CallTypeOK, CallPcs, RestorePcs
  <2>2. \A u \in Threads : GrantOf(u)' = GrantOf(u)
    BY <1>4, <2>1
  <2> QED BY <1>2, <1>5, <2>1, <2>2 DEF RevealStep
<1>10. ASSUME NEW t \in Threads, Fill(t) PROVE [Memory!Next]_<<Mem, hashValid, GrantMap>>
  <2>0. PICK s \in Segments : s = at[t]
    BY <1>1 DEF CallTypeOK
  <2>1. /\ pc[t] = "fill" /\ pc' = [pc EXCEPT ![t] = "publish"] /\ lease' = lease
        /\ UNCHANGED <<committed, hash, hashValid>>
        /\ raw' = raw \/ raw' = [raw EXCEPT ![s] = scratch[t]]
    BY <1>10, <2>0 DEF Fill
  <2>2. ~committed[s]
    BY <2>0, <2>1 DEF MemoryInv, ControlInv, RestoreInv, Restores, RestorePcs
  <2>3. \A r \in Segments : Mem'[r] = Mem[r]
    BY <1>1, <2>1, <2>2 DEF Mem, StoreTypeOK
  <2>4. \A u \in Threads : GrantOf(u)' = GrantOf(u)
    BY <1>4, <2>1
  <2> QED BY <1>2, <2>1, <2>3, <2>4 DEF RevealStep
<1>11. ASSUME NEW t \in Threads, Journal(t) PROVE [Memory!Next]_<<Mem, hashValid, GrantMap>>
  <2>0. PICK s \in Segments : s = at[t]
    BY <1>1 DEF CallTypeOK
  <2>1. /\ pc[t] = "journal" /\ committed[s] /\ UNCHANGED <<raw, committed, lease>>
        /\ hash' = [hash EXCEPT ![s] = raw[s]] /\ hashValid' = [hashValid EXCEPT ![s] = TRUE]
        /\ pc' = [pc EXCEPT ![t] = AfterJournal(t)] /\ AfterJournal(t) # "leased"
    BY <1>11, <2>0 DEF Journal, FreshHash, AfterJournal
  <2>2. \A r \in Segments : hashValid[r] => hashValid'[r] /\ Mem'[r] = Mem[r]
    BY <1>1, <2>1 DEF Mem, StoreTypeOK
  <2>3. \A u \in Threads : GrantOf(u)' = GrantOf(u)
    BY <1>4, <2>1
  <2> QED BY <1>2, <2>2, <2>3 DEF RevealStep
\* A lease is returned, or written through.
<1>12. ASSUME NEW t \in Threads, BeginRelease(t) PROVE [Memory!Next]_<<Mem, hashValid, GrantMap>>
  <2>1. /\ UNCHANGED storeVars /\ pc[t] = "leased" /\ lease' = lease
        /\ \E next \in {"journal", "unpin"} : pc' = [pc EXCEPT ![t] = next]
    BY <1>12 DEF BeginRelease
  <2>2. \A u \in Threads \ {t} : GrantOf(u)' = GrantOf(u)
    BY <1>3, <2>1
  <2>3. GrantOf(t)' = NoGrant /\ GrantOf(t).mode \in Modes
    BY <1>1, <2>1 DEF GrantOf, NoGrant, CallTypeOK
  <2>4. GrantMap' = [GrantMap EXCEPT ![t] = NoGrant] /\ GrantMap[t].mode \in Modes
    BY <2>2, <2>3 DEF GrantMap
  <2>5. GrantMap[t] # NoGrant
    BY <2>4 DEF NoGrant, Modes
  <2>6. Memory!Return(t)
    BY <2>1, <2>4, <2>5 DEF Memory!Return, Memory!Nothing, storeVars, Mem, GrantMap, GrantOf, NoGrant
  <2> QED BY <2>6 DEF Memory!Next, Mem, GrantMap, GrantOf, NoGrant
<1>13. ASSUME NEW t \in Threads, Write(t) PROVE [Memory!Next]_<<Mem, hashValid, GrantMap>>
  <2>1. PICK s \in held[t] : \E p \in LeasedPages(t, s), v \in Values : raw' = [raw EXCEPT ![s][p] = v]
    BY <1>13 DEF Write
  <2>2. PICK p \in LeasedPages(t, s), v \in Values : raw' = [raw EXCEPT ![s][p] = v]
    BY <2>1
  <2>3. /\ UNCHANGED <<committed, hash, hashValid, callVars>> /\ s \in Segments /\ committed[s]
        /\ pc[t] = "leased" /\ lease[t].mode = "WRITE"
    BY <1>1, <1>13 DEF Write, CallTypeOK, MemoryInv, ControlInv, PinInv, LeasedIsResident
  <2>4. Mem' = [Mem EXCEPT ![s][p] = v]
    BY <1>1, <2>2, <2>3 DEF Mem, StoreTypeOK
  <2>5. GrantMap' = GrantMap
    BY <2>3 DEF GrantMap, GrantOf, NoGrant, LeasedPages, callVars
  <2>6. GrantMap[t].mode = "WRITE" /\ p \in GrantMap[t].pages[s]
    BY <2>3 DEF GrantMap, GrantOf
  <2>7. Memory!Store(t)
    <3>1. \E r \in Segments : \E q \in GrantMap[t].pages[r], w \in Values :
              Mem' = [Mem EXCEPT ![r][q] = w]
      BY <2>3, <2>4, <2>6
    <3> QED BY <2>3, <2>5, <2>6, <3>1 DEF Memory!Store, Mem, GrantMap, GrantOf, NoGrant
  <2> QED BY <2>7 DEF Memory!Next, Mem, GrantMap, GrantOf, NoGrant
\* Eviction replaces the arena by a hash that describes it.
<1>14. ASSUME NEW t \in Threads, DirectDecommit(t) \/ Swap(t)
       PROVE  [Memory!Next]_<<Mem, hashValid, GrantMap>>
  <2>0. PICK v \in Segments, c \in Content : v = victim[t] /\ c = snap[t].data
    BY <1>1 DEF CompactTypeOK
  <2>1. /\ Evictable(v) /\ UNCHANGED callVars
        /\ Swap(t) => cpc[t] = "swap" /\ snap[t].generation = generation[v]
    BY <1>14, <2>0 DEF DirectDecommit, DirectAllowed, Swap, StillCurrent
  <2>2. committed[v] /\ hashValid[v] /\ hash[v] = raw[v]
    BY <1>1, <2>1, EvictableIsFresh DEF MemoryInv, Evictable
  <2>3. Swap(t) => c = hash[v]
    BY <1>1, <2>0, <2>1 DEF MemoryInv, DataInv, SnapDataInv, SnapData
  <2>4. \A r \in Segments : hash'[r] = hash[r] /\ hashValid'[r] = hashValid[r]
    BY <1>1, <1>14, <2>0, <2>2, <2>3 DEF DirectDecommit, Swap, StoreTypeOK
  <2>5. \/ raw' = raw /\ committed' = committed
        \/ raw' = [raw EXCEPT ![v] = Blank] /\ committed' = [committed EXCEPT ![v] = FALSE]
    BY <1>14, <2>0 DEF DirectDecommit, Swap, Decommit, DecommitFails
  <2>6. \A r \in Segments : Mem'[r] = Mem[r]
    BY <1>1, <2>2, <2>4, <2>5 DEF Mem, StoreTypeOK
  <2>7. \A u \in Threads : GrantOf(u)' = GrantOf(u)
    BY <2>1 DEF GrantOf, NoGrant, LeasedPages, callVars
  <2> QED BY <1>2, <2>4, <2>6, <2>7 DEF RevealStep
<1>15. ASSUME NEW t \in Threads,
              Choose(t) \/ DirectRefused(t) \/ Snapshot(t) \/ GiveUp(t) \/ SwapAborted(t)
       PROVE  UNCHANGED <<storeVars, callVars>>
  BY <1>15 DEF Choose, DirectRefused, Snapshot, GiveUp, SwapAborted
<1>16. CASE UNCHANGED <<storeVars, callVars>>
  BY <1>16 DEF storeVars, callVars, Mem, GrantMap, GrantOf, NoGrant, LeasedPages
<1>17. UNCHANGED vars => UNCHANGED <<storeVars, callVars>>
  BY DEF vars
<1> QED
  BY <1>7, <1>8, <1>9, <1>10, <1>11, <1>12, <1>13, <1>14, <1>15, <1>16, <1>17
     DEF Next, Materialize, Release, CompactOne

(***************************************************************************)
(* The object is a memory (include/stateram_core.h:188-190): when          *)
(* decommit_pages succeeds or does nothing, no interleaving of leases,     *)
(* journals, evictions, consolidations and restores, with a backing that   *)
(* may fail or drift, lets a lease see a content that is not the one the   *)
(* writers left.                                                           *)
(***************************************************************************)
THEOREM ImplementsMemory ==
    ASSUME DecommitTears = FALSE
    PROVE  Spec => IsMemory
<1>1. Init => Memory!Init
  <2> SUFFICES ASSUME Init PROVE Memory!Init OBVIOUS
  <2>1. StoreTypeOK /\ \A t \in Threads : pc[t] = "idle"
    BY InitTypeOK DEF TypeOK, Init
  <2>2. Mem \in [Segments -> Content] /\ hashValid \in [Segments -> BOOLEAN]
    BY <2>1 DEF StoreTypeOK, Mem
  <2>3. GrantMap = [t \in Threads |-> NoGrant]
    BY <2>1 DEF GrantMap, GrantOf
  <2> QED BY <2>2, <2>3 DEF Memory!Init, Memory!Nothing, Memory!Content, Content, Mem, GrantMap,
         GrantOf, NoGrant
<1>2. MemoryInv /\ MemoryInv' /\ [Next]_vars => [Memory!Next]_<<Mem, hashValid, GrantMap>>
  BY NextMemory
<1>3. Spec => []MemoryInv
  BY DataInvariant, LeaseShapeInvariant, PTL DEF MemoryInv
<1> QED BY <1>1, <1>2, <1>3, PTL DEF Spec, IsMemory, Memory!Spec, Mem, GrantMap, GrantOf, NoGrant
=============================================================================
