------------------------ MODULE TrackedRegion_proofs ------------------------
(***************************************************************************)
(* Theorems about TrackedRegion, for any number of threads, pages and      *)
(* bytes, when nothing happens that the callers of the library avoid       *)
(* (Allowed = {}).                                                         *)
(***************************************************************************)
EXTENDS TrackedRegion, TLAPS

-----------------------------------------------------------------------------
(***************************************************************************)
(* The encoding.                                                           *)
(***************************************************************************)
\* encode_delta and apply_rep are inverse, whether a delta or a snapshot is
\* the shorter: a page is what its representation says, laid over the base it
\* was compared with.
THEOREM EncodeApply ==
    ASSUME NEW b \in Content, NEW c \in Content
    PROVE  Encode(b, c) \in Reps /\ Apply(b, Encode(b, c)) = c
<1> DEFINE differ == {o \in Offsets : b[o] # c[o]}
           covers == IF differ # {} /\ Cost(differ) >= PageSize THEN Offsets ELSE differ
<1>1. covers \in SUBSET Offsets /\ differ \subseteq covers
  OBVIOUS
<1>2. Encode(b, c) = [o \in covers |-> c[o]]
  BY DEF Encode
<1> HIDE DEF covers
<1>3. Encode(b, c) \in [covers -> Values]
  BY <1>1, <1>2 DEF Content
<1>4. Apply(b, Encode(b, c)) = [o \in Offsets |-> c[o]]
  BY <1>1, <1>2 DEF Apply
<1> QED BY <1>1, <1>3, <1>4 DEF Reps, Content

LEMMA ApplyType ==
    ASSUME NEW b \in Content, NEW r \in Reps
    PROVE  Apply(b, r) \in Content
BY DEF Apply, Reps, Content

LEMMA NothingType == Nothing \in Reps /\ \A b \in Content : Apply(b, Nothing) = b
<1>1. Nothing \in [{} -> Values]
  BY DEF Nothing
<1>2. \A b \in Content : Apply(b, Nothing) = b
  BY DEF Apply, Nothing, Content
<1> QED BY <1>1, <1>2 DEF Reps

LEMMA BlankType == Blank \in Content
BY TrackedAssumption DEF Blank, Content

\* With a recipe that makes the page itself, what its representation adds
\* changes nothing.
LEMMA ApplyOverSelf ==
    ASSUME NEW b \in Content, NEW c \in Content, NEW r \in Reps, c = Apply(b, r)
    PROVE  Apply(c, r) = c
<1>1. \A o \in Offsets : o \in DOMAIN r => c[o] = r[o]
  BY DEF Apply
<1> QED BY <1>1 DEF Apply, Content

-----------------------------------------------------------------------------
(***************************************************************************)
(* The invariant.                                                          *)
(***************************************************************************)
\* A sleeping thread waits for the page of its access, a missing one until
\* the handler has copied it in.
SleepInv ==
    \A t \in Threads :
        /\ fault[t] # "none" => op[t].page \in Pages
        /\ fault[t] \in {"read", "write"} => fault[t] = op[t].kind /\ op[t].page \notin present
        /\ fault[t] = "protected" => op[t].kind = "write"

\* The handler serves a thread that sleeps, and what it knows of the page holds
\* until that thread is awake.
HandlerInv ==
    /\ hpc # "idle" =>
         \E t \in Threads : op[t].page = serves /\ op[t].kind = asked /\ fault[t] # "none"
    /\ hpc \in {"apply", "mark", "copy"} => serves \notin present
    /\ hpc = "unprotect" => asked = "write" /\ serves \in dirty
    /\ hpc = "copy" /\ asked = "write" => serves \in dirty
    /\ hpc = "apply" => image = recipe[serves]
    /\ hpc \in {"mark", "copy"} => image = last[serves]

\* Nobody writes during a call but a materialization, nobody reads during a
\* rebase either.
QuietInv ==
    /\ call \in {"checkpoint", "drop", "rebase"} => \A t \in Threads : op[t].kind # "write"
    /\ call = "rebase" => \A t \in Threads : op[t].kind # "read"

CallInv ==
    /\ mpc = "idle" <=> call = "none"
    /\ mpc \in {"discard", "clean"} => call = "checkpoint" /\ next < stop
    /\ mpc = "protect" => call = "rebase"
    /\ call = "rebase" => recipe = last
    /\ run # {} => call = "drop"
    /\ run \cap dirty = {}

Rebuildable(p) == Apply(recipe[p], rep[p]) = last[p]

DataInv ==
    /\ \A p \in present : mem[p] = last[p]
    /\ \A p \in Pages : p \notin present \/ p \notin dirty => Rebuildable(p)
    /\ mpc \in {"discard", "clean"} => Rebuildable(next)
    /\ mpc # "protect" => writable \subseteq dirty
    /\ mpc = "clean" => next \notin writable

TrackedInv == TypeOK /\ SleepInv /\ HandlerInv /\ QuietInv /\ CallInv /\ DataInv

LEMMA Waits ==
    ASSUME Allowed = {}
    PROVE  WritersWait = {"checkpoint", "drop", "rebase"} /\ ReadersWait = {"rebase"}
BY DEF WritersWait, ReadersWait

LEMMA InitTrackedInv == Init => TrackedInv
<1> SUFFICES ASSUME Init PROVE TrackedInv
  OBVIOUS
<1>1. TypeOK
  BY BlankType, NothingType, TrackedAssumption
     DEF Init, TypeOK, Ops, NoOp, Messages, Calls, Pages, Content
<1>2. DataInv
  BY <1>1, NothingType DEF Init, DataInv, Rebuildable, TypeOK
<1> QED BY <1>1, <1>2
     DEF Init, TrackedInv, SleepInv, HandlerInv, QuietInv, CallInv, NoOp

LEMMA NextTypeOK ==
    ASSUME Allowed = {}, TypeOK, SleepInv, CallInv, [Next]_vars
    PROVE  TypeOK'
<1>1. ASSUME NEW t \in Apps, NEW kind \in {"read", "write"}, NEW p \in Pages, Request(t, kind, p) PROVE TypeOK'
  BY <1>1, BlankType, NothingType, TrackedAssumption
     DEF Request, kernelVars, metaVars, handlerVars, callVars, TypeOK,
         SleepInv, CallInv, Threads, Pages, Ops, NoOp, Messages, Calls
<1>2. ASSUME NEW t \in Threads, Read(t) PROVE TypeOK'
  BY <1>2, BlankType, NothingType, TrackedAssumption
     DEF Read, kernelVars, metaVars, handlerVars, callVars, TypeOK,
         SleepInv, CallInv, Threads, Pages, Ops, NoOp, Messages, Calls
<1>3. ASSUME NEW t \in Threads, Write(t) PROVE TypeOK'
  <2>1. PICK o \in Offsets, v \in Values :
          /\ mem' = [mem EXCEPT ![op[t].page][o] = v]
          /\ last' = [last EXCEPT ![op[t].page][o] = v]
    BY <1>3 DEF Write
  <2>2. mem' \in [Pages -> Content] /\ last' \in [Pages -> Content]
    BY <2>1 DEF TypeOK, Content
  <2> QED
    BY <1>3, <2>2 DEF Write, metaVars, handlerVars, callVars, TypeOK,
        Threads, Ops, NoOp
<1>4. ASSUME NEW t \in Threads, Fault(t) PROVE TypeOK'
  BY <1>4, BlankType, NothingType, TrackedAssumption
     DEF Fault, CanAccess, metaVars, appVars, handlerVars, callVars,
         TypeOK, SleepInv, CallInv, Threads, Pages, Ops, NoOp, Messages,
         Calls
<1>5. ASSUME NEW t \in Threads, TakeWrite(t) PROVE TypeOK'
  BY <1>5, BlankType, NothingType, TrackedAssumption
     DEF TakeWrite, Mark, kernelVars, appVars, callVars, TypeOK, SleepInv,
         CallInv, Threads, Pages, Ops, NoOp, Messages, Calls
<1>6. ASSUME NEW t \in Threads, TakeMissing(t) PROVE TypeOK'
  BY <1>6, BlankType, NothingType, TrackedAssumption
     DEF TakeMissing, kernelVars, metaVars, appVars, callVars, TypeOK,
         SleepInv, CallInv, Threads, Pages, Ops, NoOp, Messages, Calls
<1>7. CASE Unprotect
  BY <1>7, BlankType, NothingType, TrackedAssumption
     DEF Unprotect, Wake, metaVars, appVars, callVars, TypeOK, SleepInv,
         CallInv, Threads, Pages, Ops, NoOp, Messages, Calls
<1>8. CASE ApplyRep
  <2>1. image' = Apply(image, rep[serves]) /\ image' \in Content
    BY <1>8, ApplyType DEF ApplyRep, Images, TypeOK
  <2> QED
    BY <1>8, <2>1 DEF ApplyRep, kernelVars, metaVars, appVars, callVars, TypeOK
<1>9. CASE MarkFirstWrite
  BY <1>9, BlankType, NothingType, TrackedAssumption
     DEF MarkFirstWrite, Mark, kernelVars, appVars, callVars, TypeOK,
         SleepInv, CallInv, Threads, Pages, Ops, NoOp, Messages, Calls
<1>10. CASE Copy
  BY <1>10, BlankType, NothingType, TrackedAssumption
     DEF Copy, Install, Wake, metaVars, appVars, callVars, TypeOK,
         SleepInv, CallInv, Threads, Pages, Ops, NoOp, Messages, Calls
<1>11. CASE BeginRange
  BY <1>11, BlankType, NothingType, TrackedAssumption
     DEF BeginRange, Begin, kernelVars, metaVars, appVars, handlerVars,
         TypeOK, SleepInv, CallInv, Threads, Pages, Ops, NoOp, Messages,
         Calls
<1>12. CASE BeginRebase
  BY <1>12, BlankType, NothingType, TrackedAssumption
     DEF BeginRebase, Begin, kernelVars, metaVars, handlerVars, TypeOK,
         SleepInv, CallInv, Threads, Pages, Ops, NoOp, Messages, Calls
<1>13. CASE Finish
  BY <1>13, BlankType, NothingType, TrackedAssumption
     DEF Finish, Return, kernelVars, metaVars, appVars, handlerVars,
         TypeOK, SleepInv, CallInv, Threads, Pages, Ops, NoOp, Messages,
         Calls
<1>14. CASE SkipClean
  BY <1>14, BlankType, NothingType, TrackedAssumption
     DEF SkipClean, kernelVars, metaVars, appVars, handlerVars, TypeOK,
         SleepInv, CallInv, Threads, Pages, Ops, NoOp, Messages, Calls
<1>15. CASE Checkpoint
  <2>1. next \in Pages
    BY <1>15 DEF Checkpoint, TypeOK, Pages
  <2>2. rep' \in [Pages -> Reps]
    BY <1>15, <2>1, EncodeApply DEF Checkpoint, Encoded, TypeOK
  <2> QED
    BY <1>15, <2>2 DEF Checkpoint, kernelVars, appVars, handlerVars, TypeOK
<1>16. CASE DiscardPage
  BY <1>16, BlankType, NothingType, TrackedAssumption
     DEF DiscardPage, Discard, metaVars, appVars, handlerVars, TypeOK,
         SleepInv, CallInv, Threads, Pages, Ops, NoOp, Messages, Calls
<1>17. CASE CleanPage
  BY <1>17, BlankType, NothingType, TrackedAssumption
     DEF CleanPage, kernelVars, appVars, handlerVars, TypeOK, SleepInv,
         CallInv, Threads, Pages, Ops, NoOp, Messages, Calls
<1>18. CASE CheckpointFails
  BY <1>18, BlankType, NothingType, TrackedAssumption
     DEF CheckpointFails, Return, kernelVars, metaVars, appVars,
         handlerVars, TypeOK, SleepInv, CallInv, Threads, Pages, Ops, NoOp,
         Messages, Calls
<1>19. CASE ScanDirty
  BY <1>19, BlankType, NothingType, TrackedAssumption
     DEF ScanDirty, kernelVars, metaVars, appVars, handlerVars, TypeOK,
         SleepInv, CallInv, Threads, Pages, Ops, NoOp, Messages, Calls
<1>20. CASE ScanClean
  BY <1>20, BlankType, NothingType, TrackedAssumption
     DEF ScanClean, kernelVars, metaVars, appVars, handlerVars, TypeOK,
         SleepInv, CallInv, Threads, Pages, Ops, NoOp, Messages, Calls
<1>21. CASE DropRun
  BY <1>21, BlankType, NothingType, TrackedAssumption
     DEF DropRun, Discard, metaVars, appVars, handlerVars, TypeOK,
         SleepInv, CallInv, Threads, Pages, Ops, NoOp, Messages, Calls
<1>22. CASE FinishDrop
  BY <1>22, BlankType, NothingType, TrackedAssumption
     DEF FinishDrop, Return, kernelVars, metaVars, appVars, handlerVars,
         TypeOK, SleepInv, CallInv, Threads, Pages, Ops, NoOp, Messages,
         Calls
<1>23. CASE Touch
  BY <1>23, BlankType, NothingType, TrackedAssumption
     DEF Touch, Touches, kernelVars, metaVars, handlerVars, TypeOK,
         SleepInv, CallInv, Threads, Pages, Ops, NoOp, Messages, Calls
<1>24. CASE Rebase
  BY <1>24, BlankType, NothingType, TrackedAssumption
     DEF Rebase, kernelVars, appVars, handlerVars, TypeOK, SleepInv,
         CallInv, Threads, Pages, Ops, NoOp, Messages, Calls
<1>25. CASE Protect
  BY <1>25, BlankType, NothingType, TrackedAssumption
     DEF Protect, Return, metaVars, appVars, handlerVars, TypeOK, SleepInv,
         CallInv, Threads, Pages, Ops, NoOp, Messages, Calls
<1>26. CASE UNCHANGED vars
  BY <1>26 DEF vars, kernelVars, metaVars, appVars, handlerVars, callVars,
      TypeOK, SleepInv, CallInv, Threads, Pages, Ops, NoOp, Messages, Calls
<1> QED
  BY <1>1, <1>2, <1>3, <1>4, <1>5, <1>6, <1>7, <1>8, <1>9, <1>10, <1>11,
     <1>12, <1>13, <1>14, <1>15, <1>16, <1>17, <1>18, <1>19, <1>20, <1>21,
     <1>22, <1>23, <1>24, <1>25, <1>26
     DEF Next, Access, Take, Handle, Proceed, CheckpointRange, DropRange,
         RebaseRecipe

LEMMA NextSleep ==
    ASSUME Allowed = {}, TypeOK, SleepInv, [Next]_vars
    PROVE  SleepInv'
<1>1. ASSUME NEW t \in Apps, NEW kind \in {"read", "write"}, NEW p \in Pages, Request(t, kind, p) PROVE SleepInv'
  BY <1>1, TrackedAssumption
     DEF Request, kernelVars, metaVars, handlerVars, callVars, SleepInv,
         TypeOK, Threads, NoOp, Ops, Messages, Pages
<1>2. ASSUME NEW t \in Threads, Read(t) PROVE SleepInv'
  BY <1>2, TrackedAssumption
     DEF Read, kernelVars, metaVars, handlerVars, callVars, SleepInv,
         TypeOK, Threads, NoOp, Ops, Messages, Pages
<1>3. ASSUME NEW t \in Threads, Write(t) PROVE SleepInv'
  BY <1>3, TrackedAssumption
     DEF Write, CanAccess, metaVars, handlerVars, callVars, SleepInv,
         TypeOK, Threads, NoOp, Ops, Messages, Pages
<1>4. ASSUME NEW t \in Threads, Fault(t) PROVE SleepInv'
  BY <1>4, TrackedAssumption
     DEF Fault, CanAccess, metaVars, appVars, handlerVars, callVars,
         SleepInv, TypeOK, Threads, NoOp, Ops, Messages, Pages
<1>5. ASSUME NEW t \in Threads, TakeWrite(t) PROVE SleepInv'
  BY <1>5, TrackedAssumption
     DEF TakeWrite, Mark, kernelVars, appVars, callVars, SleepInv, TypeOK,
         Threads, NoOp, Ops, Messages, Pages
<1>6. ASSUME NEW t \in Threads, TakeMissing(t) PROVE SleepInv'
  BY <1>6, TrackedAssumption
     DEF TakeMissing, kernelVars, metaVars, appVars, callVars, SleepInv,
         TypeOK, Threads, NoOp, Ops, Messages, Pages
<1>7. CASE Unprotect
  BY <1>7, TrackedAssumption
     DEF Unprotect, Wake, metaVars, appVars, callVars, SleepInv, TypeOK,
         Threads, NoOp, Ops, Messages, Pages
<1>8. CASE ApplyRep
  BY <1>8, TrackedAssumption
     DEF ApplyRep, Images, kernelVars, metaVars, appVars, callVars,
         SleepInv, TypeOK, Threads, NoOp, Ops, Messages, Pages
<1>9. CASE MarkFirstWrite
  BY <1>9, TrackedAssumption
     DEF MarkFirstWrite, Mark, kernelVars, appVars, callVars, SleepInv,
         TypeOK, Threads, NoOp, Ops, Messages, Pages
<1>10. CASE Copy
  BY <1>10, TrackedAssumption
     DEF Copy, Install, Wake, metaVars, appVars, callVars, SleepInv,
         TypeOK, Threads, NoOp, Ops, Messages, Pages
<1>11. CASE BeginRange
  BY <1>11, TrackedAssumption
     DEF BeginRange, Begin, kernelVars, metaVars, appVars, handlerVars,
         SleepInv, TypeOK, Threads, NoOp, Ops, Messages, Pages
<1>12. CASE BeginRebase
  BY <1>12, TrackedAssumption
     DEF BeginRebase, Begin, kernelVars, metaVars, handlerVars, SleepInv,
         TypeOK, Threads, NoOp, Ops, Messages, Pages
<1>13. CASE Finish
  BY <1>13, TrackedAssumption
     DEF Finish, Return, kernelVars, metaVars, appVars, handlerVars,
         SleepInv, TypeOK, Threads, NoOp, Ops, Messages, Pages
<1>14. CASE SkipClean
  BY <1>14, TrackedAssumption
     DEF SkipClean, kernelVars, metaVars, appVars, handlerVars, SleepInv,
         TypeOK, Threads, NoOp, Ops, Messages, Pages
<1>15. CASE Checkpoint
  BY <1>15, TrackedAssumption
     DEF Checkpoint, kernelVars, appVars, handlerVars, SleepInv, TypeOK,
         Threads, NoOp, Ops, Messages, Pages
<1>16. CASE DiscardPage
  BY <1>16, TrackedAssumption
     DEF DiscardPage, Discard, metaVars, appVars, handlerVars, SleepInv,
         TypeOK, Threads, NoOp, Ops, Messages, Pages
<1>17. CASE CleanPage
  BY <1>17, TrackedAssumption
     DEF CleanPage, kernelVars, appVars, handlerVars, SleepInv, TypeOK,
         Threads, NoOp, Ops, Messages, Pages
<1>18. CASE CheckpointFails
  BY <1>18, TrackedAssumption
     DEF CheckpointFails, Return, kernelVars, metaVars, appVars,
         handlerVars, SleepInv, TypeOK, Threads, NoOp, Ops, Messages, Pages
<1>19. CASE ScanDirty
  BY <1>19, TrackedAssumption
     DEF ScanDirty, kernelVars, metaVars, appVars, handlerVars, SleepInv,
         TypeOK, Threads, NoOp, Ops, Messages, Pages
<1>20. CASE ScanClean
  BY <1>20, TrackedAssumption
     DEF ScanClean, kernelVars, metaVars, appVars, handlerVars, SleepInv,
         TypeOK, Threads, NoOp, Ops, Messages, Pages
<1>21. CASE DropRun
  BY <1>21, TrackedAssumption
     DEF DropRun, Discard, metaVars, appVars, handlerVars, SleepInv,
         TypeOK, Threads, NoOp, Ops, Messages, Pages
<1>22. CASE FinishDrop
  BY <1>22, TrackedAssumption
     DEF FinishDrop, Return, kernelVars, metaVars, appVars, handlerVars,
         SleepInv, TypeOK, Threads, NoOp, Ops, Messages, Pages
<1>23. CASE Touch
  BY <1>23, TrackedAssumption
     DEF Touch, Touches, kernelVars, metaVars, handlerVars, SleepInv,
         TypeOK, Threads, NoOp, Ops, Messages, Pages
<1>24. CASE Rebase
  BY <1>24, TrackedAssumption
     DEF Rebase, kernelVars, appVars, handlerVars, SleepInv, TypeOK,
         Threads, NoOp, Ops, Messages, Pages
<1>25. CASE Protect
  BY <1>25, TrackedAssumption
     DEF Protect, Return, metaVars, appVars, handlerVars, SleepInv, TypeOK,
         Threads, NoOp, Ops, Messages, Pages
<1>26. CASE UNCHANGED vars
  BY <1>26 DEF vars, kernelVars, metaVars, appVars, handlerVars, callVars,
      SleepInv, TypeOK, Threads, NoOp, Ops, Messages, Pages
<1> QED
  BY <1>1, <1>2, <1>3, <1>4, <1>5, <1>6, <1>7, <1>8, <1>9, <1>10, <1>11,
     <1>12, <1>13, <1>14, <1>15, <1>16, <1>17, <1>18, <1>19, <1>20, <1>21,
     <1>22, <1>23, <1>24, <1>25, <1>26
     DEF Next, Access, Take, Handle, Proceed, CheckpointRange, DropRange,
         RebaseRecipe

LEMMA NextHandler ==
    ASSUME Allowed = {}, TypeOK, SleepInv, HandlerInv, QuietInv, CallInv, DataInv, [Next]_vars
    PROVE  HandlerInv'
<1>1. ASSUME NEW t \in Apps, NEW kind \in {"read", "write"}, NEW p \in Pages, Request(t, kind, p) PROVE HandlerInv'
  BY <1>1, Waits, TrackedAssumption
     DEF Request, kernelVars, metaVars, handlerVars, callVars, HandlerInv,
         SleepInv, QuietInv, CallInv, DataInv, Rebuildable, TypeOK,
         Threads, NoOp, Ops, Pages, Messages
<1>2. ASSUME NEW t \in Threads, Read(t) PROVE HandlerInv'
  BY <1>2, Waits, TrackedAssumption
     DEF Read, kernelVars, metaVars, handlerVars, callVars, HandlerInv,
         SleepInv, QuietInv, CallInv, DataInv, Rebuildable, TypeOK,
         Threads, NoOp, Ops, Pages, Messages
<1>3. ASSUME NEW t \in Threads, Write(t) PROVE HandlerInv'
  BY <1>3, Waits, TrackedAssumption
     DEF Write, CanAccess, metaVars, handlerVars, callVars, HandlerInv,
         SleepInv, QuietInv, CallInv, DataInv, Rebuildable, TypeOK,
         Threads, NoOp, Ops, Pages, Messages
<1>4. ASSUME NEW t \in Threads, Fault(t) PROVE HandlerInv'
  BY <1>4, Waits, TrackedAssumption
     DEF Fault, CanAccess, metaVars, appVars, handlerVars, callVars,
         HandlerInv, SleepInv, QuietInv, CallInv, DataInv, Rebuildable,
         TypeOK, Threads, NoOp, Ops, Pages, Messages
<1>5. ASSUME NEW t \in Threads, TakeWrite(t) PROVE HandlerInv'
  BY <1>5, Waits, TrackedAssumption
     DEF TakeWrite, Mark, kernelVars, appVars, callVars, HandlerInv,
         SleepInv, QuietInv, CallInv, DataInv, Rebuildable, TypeOK,
         Threads, NoOp, Ops, Pages, Messages
<1>6. ASSUME NEW t \in Threads, TakeMissing(t) PROVE HandlerInv'
  BY <1>6, Waits, TrackedAssumption
     DEF TakeMissing, kernelVars, metaVars, appVars, callVars, HandlerInv,
         SleepInv, QuietInv, CallInv, DataInv, Rebuildable, TypeOK,
         Threads, NoOp, Ops, Pages, Messages
<1>7. CASE Unprotect
  BY <1>7, Waits, TrackedAssumption
     DEF Unprotect, Wake, metaVars, appVars, callVars, HandlerInv,
         SleepInv, QuietInv, CallInv, DataInv, Rebuildable, TypeOK,
         Threads, NoOp, Ops, Pages, Messages
<1>8. CASE ApplyRep
  BY <1>8, Waits, TrackedAssumption
     DEF ApplyRep, Images, kernelVars, metaVars, appVars, callVars,
         HandlerInv, SleepInv, QuietInv, CallInv, DataInv, Rebuildable,
         TypeOK, Threads, NoOp, Ops, Pages, Messages
<1>9. CASE MarkFirstWrite
  BY <1>9, Waits, TrackedAssumption
     DEF MarkFirstWrite, Mark, kernelVars, appVars, callVars, HandlerInv,
         SleepInv, QuietInv, CallInv, DataInv, Rebuildable, TypeOK,
         Threads, NoOp, Ops, Pages, Messages
<1>10. CASE Copy
  BY <1>10, Waits, TrackedAssumption
     DEF Copy, Install, Wake, metaVars, appVars, callVars, HandlerInv,
         SleepInv, QuietInv, CallInv, DataInv, Rebuildable, TypeOK,
         Threads, NoOp, Ops, Pages, Messages
<1>11. CASE BeginRange
  BY <1>11, Waits, TrackedAssumption
     DEF BeginRange, Begin, kernelVars, metaVars, appVars, handlerVars,
         HandlerInv, SleepInv, QuietInv, CallInv, DataInv, Rebuildable,
         TypeOK, Threads, NoOp, Ops, Pages, Messages
<1>12. CASE BeginRebase
  BY <1>12, Waits, TrackedAssumption
     DEF BeginRebase, Begin, kernelVars, metaVars, handlerVars, HandlerInv,
         SleepInv, QuietInv, CallInv, DataInv, Rebuildable, TypeOK,
         Threads, NoOp, Ops, Pages, Messages
<1>13. CASE Finish
  BY <1>13, Waits, TrackedAssumption
     DEF Finish, Return, kernelVars, metaVars, appVars, handlerVars,
         HandlerInv, SleepInv, QuietInv, CallInv, DataInv, Rebuildable,
         TypeOK, Threads, NoOp, Ops, Pages, Messages
<1>14. CASE SkipClean
  BY <1>14, Waits, TrackedAssumption
     DEF SkipClean, kernelVars, metaVars, appVars, handlerVars, HandlerInv,
         SleepInv, QuietInv, CallInv, DataInv, Rebuildable, TypeOK,
         Threads, NoOp, Ops, Pages, Messages
<1>15. CASE Checkpoint
  BY <1>15, Waits, TrackedAssumption
     DEF Checkpoint, kernelVars, appVars, handlerVars, HandlerInv,
         SleepInv, QuietInv, CallInv, DataInv, Rebuildable, TypeOK,
         Threads, NoOp, Ops, Pages, Messages
<1>16. CASE DiscardPage
  BY <1>16, Waits, TrackedAssumption
     DEF DiscardPage, Discard, metaVars, appVars, handlerVars, HandlerInv,
         SleepInv, QuietInv, CallInv, DataInv, Rebuildable, TypeOK,
         Threads, NoOp, Ops, Pages, Messages
<1>17. CASE CleanPage
  BY <1>17, Waits, TrackedAssumption
     DEF CleanPage, kernelVars, appVars, handlerVars, HandlerInv, SleepInv,
         QuietInv, CallInv, DataInv, Rebuildable, TypeOK, Threads, NoOp,
         Ops, Pages, Messages
<1>18. CASE CheckpointFails
  BY <1>18, Waits, TrackedAssumption
     DEF CheckpointFails, Return, kernelVars, metaVars, appVars,
         handlerVars, HandlerInv, SleepInv, QuietInv, CallInv, DataInv,
         Rebuildable, TypeOK, Threads, NoOp, Ops, Pages, Messages
<1>19. CASE ScanDirty
  BY <1>19, Waits, TrackedAssumption
     DEF ScanDirty, kernelVars, metaVars, appVars, handlerVars, HandlerInv,
         SleepInv, QuietInv, CallInv, DataInv, Rebuildable, TypeOK,
         Threads, NoOp, Ops, Pages, Messages
<1>20. CASE ScanClean
  BY <1>20, Waits, TrackedAssumption
     DEF ScanClean, kernelVars, metaVars, appVars, handlerVars, HandlerInv,
         SleepInv, QuietInv, CallInv, DataInv, Rebuildable, TypeOK,
         Threads, NoOp, Ops, Pages, Messages
<1>21. CASE DropRun
  BY <1>21, Waits, TrackedAssumption
     DEF DropRun, Discard, metaVars, appVars, handlerVars, HandlerInv,
         SleepInv, QuietInv, CallInv, DataInv, Rebuildable, TypeOK,
         Threads, NoOp, Ops, Pages, Messages
<1>22. CASE FinishDrop
  BY <1>22, Waits, TrackedAssumption
     DEF FinishDrop, Return, kernelVars, metaVars, appVars, handlerVars,
         HandlerInv, SleepInv, QuietInv, CallInv, DataInv, Rebuildable,
         TypeOK, Threads, NoOp, Ops, Pages, Messages
<1>23. CASE Touch
  BY <1>23, Waits, TrackedAssumption
     DEF Touch, Touches, kernelVars, metaVars, handlerVars, HandlerInv,
         SleepInv, QuietInv, CallInv, DataInv, Rebuildable, TypeOK,
         Threads, NoOp, Ops, Pages, Messages
<1>24. CASE Rebase
  BY <1>24, Waits, TrackedAssumption
     DEF Rebase, kernelVars, appVars, handlerVars, HandlerInv, SleepInv,
         QuietInv, CallInv, DataInv, Rebuildable, TypeOK, Threads, NoOp,
         Ops, Pages, Messages
<1>25. CASE Protect
  BY <1>25, Waits, TrackedAssumption
     DEF Protect, Return, metaVars, appVars, handlerVars, HandlerInv,
         SleepInv, QuietInv, CallInv, DataInv, Rebuildable, TypeOK,
         Threads, NoOp, Ops, Pages, Messages
<1>26. CASE UNCHANGED vars
  BY <1>26 DEF vars, kernelVars, metaVars, appVars, handlerVars, callVars,
      HandlerInv, SleepInv, QuietInv, CallInv, DataInv, Rebuildable, TypeOK,
      Threads, NoOp, Ops, Pages, Messages
<1> QED
  BY <1>1, <1>2, <1>3, <1>4, <1>5, <1>6, <1>7, <1>8, <1>9, <1>10, <1>11,
     <1>12, <1>13, <1>14, <1>15, <1>16, <1>17, <1>18, <1>19, <1>20, <1>21,
     <1>22, <1>23, <1>24, <1>25, <1>26
     DEF Next, Access, Take, Handle, Proceed, CheckpointRange, DropRange,
         RebaseRecipe

LEMMA NextQuiet ==
    ASSUME Allowed = {}, TypeOK, QuietInv, CallInv, [Next]_vars
    PROVE  QuietInv'
<1>1. ASSUME NEW t \in Apps, NEW kind \in {"read", "write"}, NEW p \in Pages, Request(t, kind, p) PROVE QuietInv'
  BY <1>1, Waits, TrackedAssumption
     DEF Request, kernelVars, metaVars, handlerVars, callVars, QuietInv,
         CallInv, TypeOK, Threads, NoOp, Ops, Calls
<1>2. ASSUME NEW t \in Threads, Read(t) PROVE QuietInv'
  BY <1>2, Waits, TrackedAssumption
     DEF Read, kernelVars, metaVars, handlerVars, callVars, QuietInv,
         CallInv, TypeOK, Threads, NoOp, Ops, Calls
<1>3. ASSUME NEW t \in Threads, Write(t) PROVE QuietInv'
  BY <1>3, Waits, TrackedAssumption
     DEF Write, CanAccess, metaVars, handlerVars, callVars, QuietInv,
         CallInv, TypeOK, Threads, NoOp, Ops, Calls
<1>4. ASSUME NEW t \in Threads, Fault(t) PROVE QuietInv'
  BY <1>4, Waits, TrackedAssumption
     DEF Fault, CanAccess, metaVars, appVars, handlerVars, callVars,
         QuietInv, CallInv, TypeOK, Threads, NoOp, Ops, Calls
<1>5. ASSUME NEW t \in Threads, TakeWrite(t) PROVE QuietInv'
  BY <1>5, Waits, TrackedAssumption
     DEF TakeWrite, Mark, kernelVars, appVars, callVars, QuietInv, CallInv,
         TypeOK, Threads, NoOp, Ops, Calls
<1>6. ASSUME NEW t \in Threads, TakeMissing(t) PROVE QuietInv'
  BY <1>6, Waits, TrackedAssumption
     DEF TakeMissing, kernelVars, metaVars, appVars, callVars, QuietInv,
         CallInv, TypeOK, Threads, NoOp, Ops, Calls
<1>7. CASE Unprotect
  BY <1>7, Waits, TrackedAssumption
     DEF Unprotect, Wake, metaVars, appVars, callVars, QuietInv, CallInv,
         TypeOK, Threads, NoOp, Ops, Calls
<1>8. CASE ApplyRep
  BY <1>8, Waits, TrackedAssumption
     DEF ApplyRep, Images, kernelVars, metaVars, appVars, callVars,
         QuietInv, CallInv, TypeOK, Threads, NoOp, Ops, Calls
<1>9. CASE MarkFirstWrite
  BY <1>9, Waits, TrackedAssumption
     DEF MarkFirstWrite, Mark, kernelVars, appVars, callVars, QuietInv,
         CallInv, TypeOK, Threads, NoOp, Ops, Calls
<1>10. CASE Copy
  BY <1>10, Waits, TrackedAssumption
     DEF Copy, Install, Wake, metaVars, appVars, callVars, QuietInv,
         CallInv, TypeOK, Threads, NoOp, Ops, Calls
<1>11. CASE BeginRange
  BY <1>11, Waits, TrackedAssumption
     DEF BeginRange, Begin, kernelVars, metaVars, appVars, handlerVars,
         QuietInv, CallInv, TypeOK, Threads, NoOp, Ops, Calls
<1>12. CASE BeginRebase
  BY <1>12, Waits, TrackedAssumption
     DEF BeginRebase, Begin, kernelVars, metaVars, handlerVars, QuietInv,
         CallInv, TypeOK, Threads, NoOp, Ops, Calls
<1>13. CASE Finish
  BY <1>13, Waits, TrackedAssumption
     DEF Finish, Return, kernelVars, metaVars, appVars, handlerVars,
         QuietInv, CallInv, TypeOK, Threads, NoOp, Ops, Calls
<1>14. CASE SkipClean
  BY <1>14, Waits, TrackedAssumption
     DEF SkipClean, kernelVars, metaVars, appVars, handlerVars, QuietInv,
         CallInv, TypeOK, Threads, NoOp, Ops, Calls
<1>15. CASE Checkpoint
  BY <1>15, Waits, TrackedAssumption
     DEF Checkpoint, kernelVars, appVars, handlerVars, QuietInv, CallInv,
         TypeOK, Threads, NoOp, Ops, Calls
<1>16. CASE DiscardPage
  BY <1>16, Waits, TrackedAssumption
     DEF DiscardPage, Discard, metaVars, appVars, handlerVars, QuietInv,
         CallInv, TypeOK, Threads, NoOp, Ops, Calls
<1>17. CASE CleanPage
  BY <1>17, Waits, TrackedAssumption
     DEF CleanPage, kernelVars, appVars, handlerVars, QuietInv, CallInv,
         TypeOK, Threads, NoOp, Ops, Calls
<1>18. CASE CheckpointFails
  BY <1>18, Waits, TrackedAssumption
     DEF CheckpointFails, Return, kernelVars, metaVars, appVars,
         handlerVars, QuietInv, CallInv, TypeOK, Threads, NoOp, Ops, Calls
<1>19. CASE ScanDirty
  BY <1>19, Waits, TrackedAssumption
     DEF ScanDirty, kernelVars, metaVars, appVars, handlerVars, QuietInv,
         CallInv, TypeOK, Threads, NoOp, Ops, Calls
<1>20. CASE ScanClean
  BY <1>20, Waits, TrackedAssumption
     DEF ScanClean, kernelVars, metaVars, appVars, handlerVars, QuietInv,
         CallInv, TypeOK, Threads, NoOp, Ops, Calls
<1>21. CASE DropRun
  BY <1>21, Waits, TrackedAssumption
     DEF DropRun, Discard, metaVars, appVars, handlerVars, QuietInv,
         CallInv, TypeOK, Threads, NoOp, Ops, Calls
<1>22. CASE FinishDrop
  BY <1>22, Waits, TrackedAssumption
     DEF FinishDrop, Return, kernelVars, metaVars, appVars, handlerVars,
         QuietInv, CallInv, TypeOK, Threads, NoOp, Ops, Calls
<1>23. CASE Touch
  BY <1>23, Waits, TrackedAssumption
     DEF Touch, Touches, kernelVars, metaVars, handlerVars, QuietInv,
         CallInv, TypeOK, Threads, NoOp, Ops, Calls
<1>24. CASE Rebase
  BY <1>24, Waits, TrackedAssumption
     DEF Rebase, kernelVars, appVars, handlerVars, QuietInv, CallInv,
         TypeOK, Threads, NoOp, Ops, Calls
<1>25. CASE Protect
  BY <1>25, Waits, TrackedAssumption
     DEF Protect, Return, metaVars, appVars, handlerVars, QuietInv,
         CallInv, TypeOK, Threads, NoOp, Ops, Calls
<1>26. CASE UNCHANGED vars
  BY <1>26 DEF vars, kernelVars, metaVars, appVars, handlerVars, callVars,
      QuietInv, CallInv, TypeOK, Threads, NoOp, Ops, Calls
<1> QED
  BY <1>1, <1>2, <1>3, <1>4, <1>5, <1>6, <1>7, <1>8, <1>9, <1>10, <1>11,
     <1>12, <1>13, <1>14, <1>15, <1>16, <1>17, <1>18, <1>19, <1>20, <1>21,
     <1>22, <1>23, <1>24, <1>25, <1>26
     DEF Next, Access, Take, Handle, Proceed, CheckpointRange, DropRange,
         RebaseRecipe

LEMMA NextCall ==
    ASSUME Allowed = {}, TypeOK, SleepInv, HandlerInv, QuietInv, CallInv, [Next]_vars
    PROVE  CallInv'
<1>1. ASSUME NEW t \in Apps, NEW kind \in {"read", "write"}, NEW p \in Pages, Request(t, kind, p) PROVE CallInv'
  BY <1>1, Waits, TrackedAssumption
     DEF Request, kernelVars, metaVars, handlerVars, callVars, CallInv,
         SleepInv, HandlerInv, QuietInv, TypeOK, Threads, NoOp, Ops
<1>2. ASSUME NEW t \in Threads, Read(t) PROVE CallInv'
  BY <1>2, Waits, TrackedAssumption
     DEF Read, kernelVars, metaVars, handlerVars, callVars, CallInv,
         SleepInv, HandlerInv, QuietInv, TypeOK, Threads, NoOp, Ops
<1>3. ASSUME NEW t \in Threads, Write(t) PROVE CallInv'
  BY <1>3, Waits, TrackedAssumption
     DEF Write, CanAccess, metaVars, handlerVars, callVars, CallInv,
         SleepInv, HandlerInv, QuietInv, TypeOK, Threads, NoOp, Ops
<1>4. ASSUME NEW t \in Threads, Fault(t) PROVE CallInv'
  BY <1>4, Waits, TrackedAssumption
     DEF Fault, CanAccess, metaVars, appVars, handlerVars, callVars,
         CallInv, SleepInv, HandlerInv, QuietInv, TypeOK, Threads, NoOp,
         Ops
<1>5. ASSUME NEW t \in Threads, TakeWrite(t) PROVE CallInv'
  BY <1>5, Waits, TrackedAssumption
     DEF TakeWrite, Mark, kernelVars, appVars, callVars, CallInv, SleepInv,
         HandlerInv, QuietInv, TypeOK, Threads, NoOp, Ops
<1>6. ASSUME NEW t \in Threads, TakeMissing(t) PROVE CallInv'
  BY <1>6, Waits, TrackedAssumption
     DEF TakeMissing, kernelVars, metaVars, appVars, callVars, CallInv,
         SleepInv, HandlerInv, QuietInv, TypeOK, Threads, NoOp, Ops
<1>7. CASE Unprotect
  BY <1>7, Waits, TrackedAssumption
     DEF Unprotect, Wake, metaVars, appVars, callVars, CallInv, SleepInv,
         HandlerInv, QuietInv, TypeOK, Threads, NoOp, Ops
<1>8. CASE ApplyRep
  BY <1>8, Waits, TrackedAssumption
     DEF ApplyRep, Images, kernelVars, metaVars, appVars, callVars,
         CallInv, SleepInv, HandlerInv, QuietInv, TypeOK, Threads, NoOp,
         Ops
<1>9. CASE MarkFirstWrite
  BY <1>9, Waits, TrackedAssumption
     DEF MarkFirstWrite, Mark, kernelVars, appVars, callVars, CallInv,
         SleepInv, HandlerInv, QuietInv, TypeOK, Threads, NoOp, Ops
<1>10. CASE Copy
  BY <1>10, Waits, TrackedAssumption
     DEF Copy, Install, Wake, metaVars, appVars, callVars, CallInv,
         SleepInv, HandlerInv, QuietInv, TypeOK, Threads, NoOp, Ops
<1>11. CASE BeginRange
  BY <1>11, Waits, TrackedAssumption
     DEF BeginRange, Begin, kernelVars, metaVars, appVars, handlerVars,
         CallInv, SleepInv, HandlerInv, QuietInv, TypeOK, Threads, NoOp,
         Ops
<1>12. CASE BeginRebase
  BY <1>12, Waits, TrackedAssumption
     DEF BeginRebase, Begin, kernelVars, metaVars, handlerVars, CallInv,
         SleepInv, HandlerInv, QuietInv, TypeOK, Threads, NoOp, Ops
<1>13. CASE Finish
  BY <1>13, Waits, TrackedAssumption
     DEF Finish, Return, kernelVars, metaVars, appVars, handlerVars,
         CallInv, SleepInv, HandlerInv, QuietInv, TypeOK, Threads, NoOp,
         Ops
<1>14. CASE SkipClean
  BY <1>14, Waits, TrackedAssumption
     DEF SkipClean, kernelVars, metaVars, appVars, handlerVars, CallInv,
         SleepInv, HandlerInv, QuietInv, TypeOK, Threads, NoOp, Ops
<1>15. CASE Checkpoint
  BY <1>15, Waits, TrackedAssumption
     DEF Checkpoint, kernelVars, appVars, handlerVars, CallInv, SleepInv,
         HandlerInv, QuietInv, TypeOK, Threads, NoOp, Ops
<1>16. CASE DiscardPage
  BY <1>16, Waits, TrackedAssumption
     DEF DiscardPage, Discard, metaVars, appVars, handlerVars, CallInv,
         SleepInv, HandlerInv, QuietInv, TypeOK, Threads, NoOp, Ops
<1>17. CASE CleanPage
  BY <1>17, Waits, TrackedAssumption
     DEF CleanPage, kernelVars, appVars, handlerVars, CallInv, SleepInv,
         HandlerInv, QuietInv, TypeOK, Threads, NoOp, Ops
<1>18. CASE CheckpointFails
  BY <1>18, Waits, TrackedAssumption
     DEF CheckpointFails, Return, kernelVars, metaVars, appVars,
         handlerVars, CallInv, SleepInv, HandlerInv, QuietInv, TypeOK,
         Threads, NoOp, Ops
<1>19. CASE ScanDirty
  BY <1>19, Waits, TrackedAssumption
     DEF ScanDirty, kernelVars, metaVars, appVars, handlerVars, CallInv,
         SleepInv, HandlerInv, QuietInv, TypeOK, Threads, NoOp, Ops
<1>20. CASE ScanClean
  BY <1>20, Waits, TrackedAssumption
     DEF ScanClean, kernelVars, metaVars, appVars, handlerVars, CallInv,
         SleepInv, HandlerInv, QuietInv, TypeOK, Threads, NoOp, Ops
<1>21. CASE DropRun
  BY <1>21, Waits, TrackedAssumption
     DEF DropRun, Discard, metaVars, appVars, handlerVars, CallInv,
         SleepInv, HandlerInv, QuietInv, TypeOK, Threads, NoOp, Ops
<1>22. CASE FinishDrop
  BY <1>22, Waits, TrackedAssumption
     DEF FinishDrop, Return, kernelVars, metaVars, appVars, handlerVars,
         CallInv, SleepInv, HandlerInv, QuietInv, TypeOK, Threads, NoOp,
         Ops
<1>23. CASE Touch
  BY <1>23, Waits, TrackedAssumption
     DEF Touch, Touches, kernelVars, metaVars, handlerVars, CallInv,
         SleepInv, HandlerInv, QuietInv, TypeOK, Threads, NoOp, Ops
<1>24. CASE Rebase
  BY <1>24, Waits, TrackedAssumption
     DEF Rebase, kernelVars, appVars, handlerVars, CallInv, SleepInv,
         HandlerInv, QuietInv, TypeOK, Threads, NoOp, Ops
<1>25. CASE Protect
  BY <1>25, Waits, TrackedAssumption
     DEF Protect, Return, metaVars, appVars, handlerVars, CallInv,
         SleepInv, HandlerInv, QuietInv, TypeOK, Threads, NoOp, Ops
<1>26. CASE UNCHANGED vars
  BY <1>26 DEF vars, kernelVars, metaVars, appVars, handlerVars, callVars,
      CallInv, SleepInv, HandlerInv, QuietInv, TypeOK, Threads, NoOp, Ops
<1> QED
  BY <1>1, <1>2, <1>3, <1>4, <1>5, <1>6, <1>7, <1>8, <1>9, <1>10, <1>11,
     <1>12, <1>13, <1>14, <1>15, <1>16, <1>17, <1>18, <1>19, <1>20, <1>21,
     <1>22, <1>23, <1>24, <1>25, <1>26
     DEF Next, Access, Take, Handle, Proceed, CheckpointRange, DropRange,
         RebaseRecipe

LEMMA NextData ==
    ASSUME Allowed = {}, TrackedInv, [Next]_vars
    PROVE  DataInv'
<1>1. ASSUME NEW t \in Apps, NEW kind \in {"read", "write"}, NEW p \in Pages, Request(t, kind, p) PROVE DataInv'
  BY <1>1, TrackedAssumption
     DEF Request, kernelVars, metaVars, handlerVars, callVars, TrackedInv,
         DataInv, CallInv, QuietInv, HandlerInv, Rebuildable, TypeOK, Pages
<1>2. ASSUME NEW t \in Threads, Read(t) PROVE DataInv'
  BY <1>2, TrackedAssumption
     DEF Read, kernelVars, metaVars, handlerVars, callVars, TrackedInv,
         DataInv, CallInv, QuietInv, HandlerInv, Rebuildable, TypeOK, Pages
<1>3. ASSUME NEW t \in Threads, Write(t) PROVE DataInv'
  <2> DEFINE p == op[t].page
  <2>0. TypeOK /\ DataInv /\ CallInv /\ QuietInv
    BY DEF TrackedInv
  <2>1. p \in Pages /\ p \in present /\ p \in writable
    BY <1>3, <2>0 DEF Write, CanAccess, TypeOK
  <2>2. mpc \notin {"protect", "discard", "clean"} /\ p \in dirty
    BY <1>3, <2>0, <2>1 DEF Write, CallInv, QuietInv, DataInv, TypeOK
  <2>3. PICK o \in Offsets, v \in Values :
          /\ mem' = [mem EXCEPT ![p][o] = v]
          /\ last' = [last EXCEPT ![p][o] = v]
    BY <1>3 DEF Write
  <2>4. mem[p] = last[p]
    BY <2>0, <2>1 DEF DataInv
  <2>5. mem'[p] = last'[p] /\ \A q \in Pages \ {p} : mem'[q] = mem[q] /\ last'[q] = last[q]
    BY <2>0, <2>1, <2>3, <2>4 DEF TypeOK, Content
  <2> QED
    BY <1>3, <2>0, <2>1, <2>2, <2>5
       DEF Write, metaVars, handlerVars, callVars, DataInv, Rebuildable, TypeOK
<1>4. ASSUME NEW t \in Threads, Fault(t) PROVE DataInv'
  BY <1>4, TrackedAssumption
     DEF Fault, CanAccess, metaVars, appVars, handlerVars, callVars,
         TrackedInv, DataInv, CallInv, QuietInv, HandlerInv, Rebuildable,
         TypeOK, Pages
<1>5. ASSUME NEW t \in Threads, TakeWrite(t) PROVE DataInv'
  BY <1>5, TrackedAssumption
     DEF TakeWrite, Mark, kernelVars, appVars, callVars, TrackedInv,
         DataInv, CallInv, QuietInv, HandlerInv, Rebuildable, TypeOK, Pages
<1>6. ASSUME NEW t \in Threads, TakeMissing(t) PROVE DataInv'
  BY <1>6, TrackedAssumption
     DEF TakeMissing, kernelVars, metaVars, appVars, callVars, TrackedInv,
         DataInv, CallInv, QuietInv, HandlerInv, Rebuildable, TypeOK, Pages
<1>7. CASE Unprotect
  BY <1>7, TrackedAssumption
     DEF Unprotect, Wake, metaVars, appVars, callVars, TrackedInv, DataInv,
         CallInv, QuietInv, HandlerInv, Rebuildable, TypeOK, Pages
<1>8. CASE ApplyRep
  BY <1>8, TrackedAssumption
     DEF ApplyRep, Images, kernelVars, metaVars, appVars, callVars,
         TrackedInv, DataInv, CallInv, QuietInv, HandlerInv, Rebuildable,
         TypeOK, Pages
<1>9. CASE MarkFirstWrite
  BY <1>9, TrackedAssumption
     DEF MarkFirstWrite, Mark, kernelVars, appVars, callVars, TrackedInv,
         DataInv, CallInv, QuietInv, HandlerInv, Rebuildable, TypeOK, Pages
<1>10. CASE Copy
  BY <1>10, TrackedAssumption
     DEF Copy, Install, Wake, metaVars, appVars, callVars, TrackedInv,
         DataInv, CallInv, QuietInv, HandlerInv, Rebuildable, TypeOK, Pages
<1>11. CASE BeginRange
  BY <1>11, TrackedAssumption
     DEF BeginRange, Begin, kernelVars, metaVars, appVars, handlerVars,
         TrackedInv, DataInv, CallInv, QuietInv, HandlerInv, Rebuildable,
         TypeOK, Pages
<1>12. CASE BeginRebase
  <2>0. TypeOK /\ DataInv /\ CallInv
    BY DEF TrackedInv
  <2>1. ASSUME NEW q \in Pages, Rebuildable(q) PROVE Apply(last[q], rep[q]) = last[q]
    BY <2>0, <2>1, ApplyOverSelf DEF Rebuildable, TypeOK
  <2>2. recipe' = last /\ mpc' = "page" /\ UNCHANGED <<present, writable, mem, dirty, rep, last>>
    BY <1>12 DEF BeginRebase, Begin, kernelVars, metaVars
  <2>3. mpc # "protect"
    BY <1>12, <2>0 DEF BeginRebase, Begin, CallInv
  <2> QED
    BY <2>0, <2>1, <2>2, <2>3 DEF DataInv, Rebuildable, TypeOK
<1>13. CASE Finish
  BY <1>13, TrackedAssumption
     DEF Finish, Return, kernelVars, metaVars, appVars, handlerVars,
         TrackedInv, DataInv, CallInv, QuietInv, HandlerInv, Rebuildable,
         TypeOK, Pages
<1>14. CASE SkipClean
  BY <1>14, TrackedAssumption
     DEF SkipClean, kernelVars, metaVars, appVars, handlerVars, TrackedInv,
         DataInv, CallInv, QuietInv, HandlerInv, Rebuildable, TypeOK, Pages
<1>15. CASE Checkpoint
  <2>0. TypeOK /\ DataInv
    BY DEF TrackedInv
  <2>1. next \in Pages /\ next \in present /\ next \in dirty
    BY <1>15, <2>0 DEF Checkpoint, TypeOK, Pages
  <2>2. Apply(recipe[next], Encoded(next)) = last[next]
    BY <2>0, <2>1, EncodeApply DEF Encoded, DataInv, TypeOK
  <2>3. rep'[next] = Encoded(next) /\ \A q \in Pages \ {next} : rep'[q] = rep[q]
    BY <1>15, <2>0, <2>1 DEF Checkpoint, TypeOK
  <2> QED
    BY <1>15, <2>0, <2>1, <2>2, <2>3
       DEF Checkpoint, kernelVars, appVars, DataInv, Rebuildable, TypeOK
<1>16. CASE DiscardPage
  BY <1>16, TrackedAssumption
     DEF DiscardPage, Discard, metaVars, appVars, handlerVars, TrackedInv,
         DataInv, CallInv, QuietInv, HandlerInv, Rebuildable, TypeOK, Pages
<1>17. CASE CleanPage
  BY <1>17, TrackedAssumption
     DEF CleanPage, kernelVars, appVars, handlerVars, TrackedInv, DataInv,
         CallInv, QuietInv, HandlerInv, Rebuildable, TypeOK, Pages
<1>18. CASE CheckpointFails
  BY <1>18, TrackedAssumption
     DEF CheckpointFails, Return, kernelVars, metaVars, appVars,
         handlerVars, TrackedInv, DataInv, CallInv, QuietInv, HandlerInv,
         Rebuildable, TypeOK, Pages
<1>19. CASE ScanDirty
  BY <1>19, TrackedAssumption
     DEF ScanDirty, kernelVars, metaVars, appVars, handlerVars, TrackedInv,
         DataInv, CallInv, QuietInv, HandlerInv, Rebuildable, TypeOK, Pages
<1>20. CASE ScanClean
  BY <1>20, TrackedAssumption
     DEF ScanClean, kernelVars, metaVars, appVars, handlerVars, TrackedInv,
         DataInv, CallInv, QuietInv, HandlerInv, Rebuildable, TypeOK, Pages
<1>21. CASE DropRun
  BY <1>21, TrackedAssumption
     DEF DropRun, Discard, metaVars, appVars, handlerVars, TrackedInv,
         DataInv, CallInv, QuietInv, HandlerInv, Rebuildable, TypeOK, Pages
<1>22. CASE FinishDrop
  BY <1>22, TrackedAssumption
     DEF FinishDrop, Return, kernelVars, metaVars, appVars, handlerVars,
         TrackedInv, DataInv, CallInv, QuietInv, HandlerInv, Rebuildable,
         TypeOK, Pages
<1>23. CASE Touch
  BY <1>23, TrackedAssumption
     DEF Touch, Touches, kernelVars, metaVars, handlerVars, TrackedInv,
         DataInv, CallInv, QuietInv, HandlerInv, Rebuildable, TypeOK, Pages
<1>24. CASE Rebase
  <2>0. TypeOK /\ DataInv /\ recipe = last
    BY <1>24 DEF Rebase, TrackedInv, CallInv
  <2>1. \A q \in Pages : Apply(recipe[q], Nothing) = last[q]
    BY <2>0, NothingType DEF TypeOK
  <2> QED
    BY <1>24, <2>0, <2>1 DEF Rebase, kernelVars, appVars, DataInv,
        Rebuildable, TypeOK
<1>25. CASE Protect
  BY <1>25, TrackedAssumption
     DEF Protect, Return, metaVars, appVars, handlerVars, TrackedInv,
         DataInv, CallInv, QuietInv, HandlerInv, Rebuildable, TypeOK, Pages
<1>26. CASE UNCHANGED vars
  BY <1>26 DEF vars, kernelVars, metaVars, appVars, handlerVars, callVars,
      TrackedInv, DataInv, CallInv, QuietInv, HandlerInv, Rebuildable, TypeOK,
      Pages
<1> QED
  BY <1>1, <1>2, <1>3, <1>4, <1>5, <1>6, <1>7, <1>8, <1>9, <1>10, <1>11,
     <1>12, <1>13, <1>14, <1>15, <1>16, <1>17, <1>18, <1>19, <1>20, <1>21,
     <1>22, <1>23, <1>24, <1>25, <1>26
     DEF Next, Access, Take, Handle, Proceed, CheckpointRange, DropRange,
         RebaseRecipe

LEMMA NextTrackedInv ==
    ASSUME Allowed = {}, TrackedInv, [Next]_vars
    PROVE  TrackedInv'
BY NextTypeOK, NextSleep, NextHandler, NextQuiet, NextCall, NextData DEF TrackedInv

-----------------------------------------------------------------------------
(***************************************************************************)
(* Whatever the handler, the application and the calls of the library do   *)
(* at the same time, the content of every page is in memory or can be made *)
(* from its recipe and its representation; see DataInv.                    *)
(***************************************************************************)
THEOREM TrackedInvariant ==
    ASSUME Allowed = {}
    PROVE  Spec => []TrackedInv
<1>1. Init => TrackedInv
  BY InitTrackedInv
<1>2. TrackedInv /\ [Next]_vars => TrackedInv'
  BY NextTrackedInv
<1> QED BY <1>1, <1>2, PTL DEF Spec

(***************************************************************************)
(* The variables keep their types; in particular no loop over the pages of *)
(* a range runs past its end.                                              *)
(***************************************************************************)
THEOREM TypeCorrect ==
    ASSUME Allowed = {}
    PROVE  Spec => []TypeOK
<1>1. TrackedInv => TypeOK
  BY DEF TrackedInv
<1> QED BY <1>1, TrackedInvariant, PTL

(***************************************************************************)
(* stateram9.h:40-41: a page in memory holds what was last stored in it,   *)
(* and recipe and representation make that of a page that is not.          *)
(***************************************************************************)
THEOREM NoStoreIsLost ==
    ASSUME Allowed = {}
    PROVE  Spec => []NothingIsLost
<1>1. TrackedInv => NothingIsLost
  BY DEF TrackedInv, DataInv, Rebuildable, NothingIsLost
<1> QED BY <1>1, TrackedInvariant, PTL

(***************************************************************************)
(* A page that is not dirty may be dropped at any moment.                  *)
(***************************************************************************)
THEOREM CleanPagesAreSafe ==
    ASSUME Allowed = {}
    PROVE  Spec => []CleanIsRebuildable
<1>1. TrackedInv => CleanIsRebuildable
  BY DEF TrackedInv, DataInv, Rebuildable, CleanIsRebuildable
<1> QED BY <1>1, TrackedInvariant, PTL

(***************************************************************************)
(* The handler marks a page dirty before any write can reach it, and no    *)
(* call leaves a page writable that it has declared clean.                 *)
(***************************************************************************)
THEOREM NoWriteEscapes ==
    ASSUME Allowed = {}
    PROVE  Spec => []WritesAreSeen
<1>1. TrackedInv => WritesAreSeen
  BY DEF TrackedInv, DataInv, WritesAreSeen
<1> QED BY <1>1, TrackedInvariant, PTL

(***************************************************************************)
(* The page the handler is about to copy in is current, though the         *)
(* representations may have changed since it made it.                      *)
(***************************************************************************)
THEOREM CopiesAreCurrent ==
    ASSUME Allowed = {}
    PROVE  Spec => []ImageIsCurrent
<1>1. TrackedInv => ImageIsCurrent
  BY DEF TrackedInv, HandlerInv, ImageIsCurrent
<1> QED BY <1>1, TrackedInvariant, PTL

(***************************************************************************)
(* stateram9.h:46-47: a drop keeps the dirty pages, as long as writers are *)
(* quiet meanwhile.                                                        *)
(***************************************************************************)
THEOREM DropKeepsDirty ==
    ASSUME Allowed = {}
    PROVE  Spec => DirtyIsPreserved
<1>1. ASSUME TrackedInv, Next, call = "drop"
      PROVE  dirty \cap present \subseteq present'
  <2>1. CASE DropRun
    BY <1>1, <2>1 DEF DropRun, Discard, TrackedInv, CallInv
  <2>2. CASE ~DropRun
    <3>1. mpc # "discard"
      BY <1>1 DEF TrackedInv, CallInv
    <3>2. present \subseteq present'
      BY <1>1, <2>2, <3>1
         DEF Next, Request, Access, Read, Write, Fault, Take,
             TakeWrite, TakeMissing, Handle,
             Unprotect, ApplyRep, MarkFirstWrite, Copy, BeginRange, BeginRebase, Proceed,
             CheckpointRange, SkipClean, Checkpoint, DiscardPage, CleanPage, CheckpointFails,
             DropRange, ScanDirty, ScanClean, FinishDrop, RebaseRecipe, Rebase, Protect, Touch,
             Finish, kernelVars
    <3> QED BY <3>2
  <2> QED BY <2>1, <2>2
<1>2. TrackedInv /\ [Next]_vars => [call = "drop" => dirty \cap present \subseteq present']_vars
  BY <1>1
<1> QED BY <1>2, TrackedInvariant, PTL DEF Spec, DirtyIsPreserved

(***************************************************************************)
(* Nothing that was stored is lost, in memory or out of it.                *)
(***************************************************************************)
THEOREM ContentStaysKept ==
    ASSUME Allowed = {}
    PROVE  Spec => []ContentIsKept
<1>1. NothingIsLost /\ CleanIsRebuildable => ContentIsKept
  BY DEF ContentIsKept
<1> QED BY <1>1, NoStoreIsLost, CleanPagesAreSafe, PTL

(***************************************************************************)
(* The handler neither lets a write pass unseen nor copies an old page in. *)
(***************************************************************************)
THEOREM HandlerStaysCurrent ==
    ASSUME Allowed = {}
    PROVE  Spec => []HandlerIsCurrent
<1>1. WritesAreSeen /\ ImageIsCurrent => HandlerIsCurrent
  BY DEF HandlerIsCurrent
<1> QED BY <1>1, NoWriteEscapes, CopiesAreCurrent, PTL
=============================================================================
