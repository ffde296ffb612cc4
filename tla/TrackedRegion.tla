--------------------------- MODULE TrackedRegion ---------------------------
(***************************************************************************)
(* The userfaultfd runtime (src/stateram9.c): a region whose pages are     *)
(* made by a recipe of the application and live, when they are not in      *)
(* memory, as the recipe and at most one delta or snapshot each.  The      *)
(* kernel reports the first touch of a missing page and the first write to *)
(* a protected one to a handler thread, which fills the page or marks it   *)
(* dirty, while application threads read and write and one of them, the    *)
(* manager, checkpoints, drops, warms and rebases pages.                   *)
(*                                                                         *)
(* The kernel is modelled from how the handler uses it: a thread that      *)
(* cannot access a page sends one message and sleeps; copying a page in,   *)
(* or lifting its protection, wakes all the threads that sleep on it and   *)
(* withdraws their messages, so that a copy never finds the page present   *)
(* (EEXIST).  Create, destroy and the statistics are left out, and so is a *)
(* handler that gives up on an error of poll or of an ioctl.               *)
(***************************************************************************)
EXTENDS Integers, FiniteSets

CONSTANTS
    Apps,           \* application threads that read and write
    Manager,        \* the thread that calls the functions of the library
    PageCount,
    PageSize,
    Values,         \* what a byte can be
    Zero,           \* what a byte of a page that cannot be rebuilt is
    HeaderBytes,    \* of a delta (2)
    RunBytes,       \* offset and length of one run of a delta (4)
    Recipes,        \* bound: the recipes the region is created with
    Stores,         \* bound: the bytes <<page, offset>> the application writes
    NoPage,         \* the page of a thread that accesses none
    Allowed         \* what happens that the callers of the library avoid

Pages   == 0 .. PageCount - 1
Offsets == 0 .. PageSize - 1
Content == [Offsets -> Values]
Threads == Apps \cup {Manager}

\* Writers go on while pages are dropped, which the header does not forbid, or
\* readers while the recipe is changed; the kernel refuses to protect the
\* region; the recipe of a page fails.
Breaches == {"write while dropping", "read while rebasing", "protect fails", "recipe fails"}

ASSUME TrackedAssumption ==
    /\ Manager \notin Apps
    /\ PageCount \in Nat \ {0} /\ PageSize \in Nat \ {0}
    /\ HeaderBytes \in Nat /\ RunBytes \in Nat
    /\ Zero \in Values
    /\ Recipes \subseteq [Pages -> Content] /\ Recipes # {}
    /\ Stores \subseteq Pages \X Offsets
    /\ NoPage \notin Pages
    /\ Allowed \subseteq Breaches

VARIABLES
    \* the kernel
    present,    \* pages in memory
    writable,   \* those of them that are not write-protected
    mem,        \* their content
    fault,      \* the message of each sleeping thread
    \* struct stateram9_region
    dirty,      \* pages marked dirty
    rep,        \* the bytes rep[i] lays over the recipe of page i
    \* the application
    recipe,     \* what recipe() makes of each page
    last,       \* what the application last stored in each page
    op,         \* the access each thread is making
    \* handler_main
    hpc,        \* where it is
    serves,     \* the page of the message it has read
    asked,      \* the flags of that message
    image,      \* scratch
    \* the call of the manager
    call,       \* which one
    mpc,        \* where it is
    next,       \* the page it is at
    stop,       \* the end of its range
    run         \* the run of clean pages it is about to drop

kernelVars  == <<present, writable, mem, fault>>
metaVars    == <<dirty, rep>>
appVars     == <<recipe, last, op>>
handlerVars == <<hpc, serves, asked, image>>
callVars    == <<call, mpc, next, stop, run>>
vars == <<kernelVars, metaVars, appVars, handlerVars, callVars>>

Messages == {"read", "write", "protected"}
NoOp     == [kind |-> "none", page |-> NoPage]
Ops      == [kind : {"read", "write"}, page : Pages] \cup {NoOp}
Calls    == {"none", "checkpoint", "drop", "materialize", "rebase"}
Blank    == [o \in Offsets |-> Zero]
Nothing  == [o \in {} |-> Zero]

\* The bytes a representation covers.
Reps == UNION {[S -> Values] : S \in SUBSET Offsets}

Init ==
    /\ present = {} /\ writable = {}
    /\ mem = [p \in Pages |-> Blank]
    /\ fault = [t \in Threads |-> "none"]
    /\ dirty = {} /\ rep = [p \in Pages |-> Nothing]
    /\ recipe \in Recipes /\ last = recipe
    /\ op = [t \in Threads |-> NoOp]
    /\ hpc = "idle" /\ serves = NoPage /\ asked = "read" /\ image = Blank
    /\ call = "none" /\ mpc = "idle" /\ next = 0 /\ stop = 0 /\ run = {}

-----------------------------------------------------------------------------
(***************************************************************************)
(* Representations                                                         *)
(***************************************************************************)
\* encode_delta: runs of bytes that differ, or the page when that is not longer.
Runs(S) == {o \in S : o - 1 \notin S}
Cost(S) == HeaderBytes + RunBytes * Cardinality(Runs(S)) + Cardinality(S)

Encode(base, current) ==
    LET differ == {o \in Offsets : base[o] # current[o]} IN
    [o \in IF differ # {} /\ Cost(differ) >= PageSize THEN Offsets ELSE differ |-> current[o]]

\* apply_rep
Apply(base, r) == [o \in Offsets |-> IF o \in DOMAIN r THEN r[o] ELSE base[o]]

-----------------------------------------------------------------------------
(***************************************************************************)
(* The application and the kernel                                          *)
(***************************************************************************)
WritersWait ==
    {"checkpoint", "rebase"} \cup {c \in {"drop"} : "write while dropping" \notin Allowed}
ReadersWait ==
    {c \in {"rebase"} : "read while rebasing" \notin Allowed}

Request(t, kind, p) ==
    /\ t \in Apps /\ op[t] = NoOp
    /\ kind = "write" => call \notin WritersWait /\ \E o \in Offsets : <<p, o>> \in Stores
    /\ kind = "read"  => call \notin ReadersWait
    /\ op' = [op EXCEPT ![t] = [kind |-> kind, page |-> p]]
    /\ UNCHANGED <<kernelVars, metaVars, recipe, last, handlerVars, callVars>>

CanAccess(t) ==
    /\ op[t].page \in present
    /\ op[t].kind = "write" => op[t].page \in writable

Read(t) ==
    /\ op[t].kind = "read" /\ fault[t] = "none" /\ CanAccess(t)
    /\ op' = [op EXCEPT ![t] = NoOp]
    /\ UNCHANGED <<kernelVars, metaVars, recipe, last, handlerVars, callVars>>

Write(t) ==
    /\ op[t].kind = "write" /\ fault[t] = "none" /\ CanAccess(t)
    /\ \E o \in Offsets, v \in Values :
         /\ <<op[t].page, o>> \in Stores
         /\ mem' = [mem EXCEPT ![op[t].page][o] = v]
         /\ last' = [last EXCEPT ![op[t].page][o] = v]
    /\ op' = [op EXCEPT ![t] = NoOp]
    /\ UNCHANGED <<present, writable, fault, metaVars, recipe, handlerVars, callVars>>

Fault(t) ==
    /\ op[t] # NoOp /\ fault[t] = "none" /\ ~CanAccess(t)
    /\ fault' = [fault EXCEPT ![t] =
                   IF op[t].page \in present THEN "protected" ELSE op[t].kind]
    /\ UNCHANGED <<present, writable, mem, metaVars, appVars, handlerVars, callVars>>

\* UFFDIO_COPY_MODE_DONTWAKE
WakeNobody(p) == UNCHANGED fault

Wake(p) == fault' = [t \in Threads |-> IF op[t].page = p THEN "none" ELSE fault[t]]

\* madvise(MADV_DONTNEED)
Discard(pages) ==
    /\ present' = present \ pages
    /\ writable' = writable \ pages
    /\ mem' = [p \in Pages |-> IF p \in pages THEN Blank ELSE mem[p]]

-----------------------------------------------------------------------------
(***************************************************************************)
(* handler_main                                                            *)
(***************************************************************************)
Mark(p) == dirty' = dirty \cup {p}

\* The first write to a protected page: dirty before the write may go on.
TakeWrite(t) ==
    /\ hpc = "idle" /\ fault[t] = "protected"
    /\ serves' = op[t].page /\ asked' = "write"
    /\ Mark(op[t].page)
    /\ hpc' = "unprotect"
    /\ UNCHANGED <<kernelVars, rep, appVars, image, callVars>>

Unprotect ==
    /\ hpc = "unprotect"
    /\ writable' = writable \cup ({serves} \cap present)
    /\ Wake(serves)
    /\ hpc' = "idle" /\ serves' = NoPage
    /\ UNCHANGED <<present, mem, metaVars, appVars, asked, image, callVars>>

\* materialize_page_image: the recipe, then what rep lays over it.
TakeMissing(t) ==
    /\ hpc = "idle" /\ fault[t] \in {"read", "write"}
    /\ serves' = op[t].page /\ asked' = fault[t]
    /\ image' = recipe[op[t].page]
    /\ hpc' = "apply"
    /\ UNCHANGED <<kernelVars, metaVars, appVars, callVars>>

\* The recipe alone.
ImagesOfRecipe == {image}

\* A page that cannot be made is served as zeroes.
Images == {Apply(image, rep[serves])} \cup {i \in {Blank} : "recipe fails" \in Allowed}

ApplyRep ==
    /\ hpc = "apply"
    /\ image' \in Images
    /\ hpc' = "mark"
    /\ UNCHANGED <<kernelVars, metaVars, appVars, serves, asked, callVars>>

MarkFirstWrite ==
    /\ hpc = "mark"
    /\ IF asked = "write" THEN Mark(serves) ELSE UNCHANGED dirty
    /\ hpc' = "copy"
    /\ UNCHANGED <<kernelVars, rep, appVars, serves, asked, image, callVars>>

\* UFFDIO_COPY_MODE_WP unless the page is about to be written
Install(p) == writable' = IF asked = "write" THEN writable \cup {p} ELSE writable

Copy ==
    /\ hpc = "copy"
    /\ present' = present \cup {serves}
    /\ mem' = [mem EXCEPT ![serves] = image]
    /\ Install(serves)
    /\ Wake(serves)
    /\ hpc' = "idle" /\ serves' = NoPage /\ image' = Blank
    /\ UNCHANGED <<metaVars, appVars, asked, callVars>>

-----------------------------------------------------------------------------
(***************************************************************************)
(* The calls of the manager                                                *)
(***************************************************************************)
\* byte_range_to_pages rounds to whole pages.
Begin(c, first, end) ==
    /\ call = "none"
    /\ c \in WritersWait => \A t \in Threads : op[t].kind # "write"
    /\ c \in ReadersWait => \A t \in Threads : op[t].kind # "read"
    /\ call' = c /\ next' = first /\ stop' = end /\ run' = {}
    /\ mpc' = "page"

Return ==
    /\ call' = "none" /\ mpc' = "idle" /\ next' = 0 /\ stop' = 0 /\ run' = {}

\* checkpoint_range, dematerialize_safe_range and materialize_range; the
\* calls without a range are these on all pages.
BeginRange ==
    /\ \E c \in {"checkpoint", "drop", "materialize"}, first \in Pages, end \in 1 .. PageCount :
         first < end /\ Begin(c, first, end)
    /\ UNCHANGED <<kernelVars, metaVars, appVars, handlerVars>>

\* The application makes recipe() produce the current contents, and calls
\* stateram9_rebase_recipe.
BeginRebase ==
    /\ Begin("rebase", 0, PageCount)
    /\ recipe' = last
    /\ UNCHANGED <<kernelVars, metaVars, last, op, handlerVars>>

Finish ==
    /\ call \in {"checkpoint", "materialize"} /\ mpc = "page" /\ next = stop
    /\ op[Manager] = NoOp
    /\ Return
    /\ UNCHANGED <<kernelVars, metaVars, appVars, handlerVars>>

\* One page too many.
SkipCleanAtEnd ==
    /\ call = "checkpoint" /\ mpc = "page" /\ next <= stop /\ next \notin dirty
    /\ next' = next + 1
    /\ UNCHANGED <<kernelVars, metaVars, appVars, handlerVars, call, mpc, stop, run>>

SkipClean ==
    /\ call = "checkpoint" /\ mpc = "page" /\ next < stop /\ next \notin dirty
    /\ next' = next + 1
    /\ UNCHANGED <<kernelVars, metaVars, appVars, handlerVars, call, mpc, stop, run>>

\* The difference from the page as it was last checkpointed, not from its recipe.
EncodeOverRep(p) == Encode(Apply(recipe[p], rep[p]), mem[p])

Encoded(p) == Encode(recipe[p], mem[p])

Checkpoint ==
    /\ call = "checkpoint" /\ mpc = "page" /\ next < stop /\ next \in dirty
    /\ next \in present /\ op[Manager] = NoOp
    /\ rep' = [rep EXCEPT ![next] = Encoded(next)]
    /\ mpc' = "discard"
    /\ UNCHANGED <<kernelVars, dirty, appVars, handlerVars, call, next, stop, run>>

DiscardPage ==
    /\ mpc = "discard"
    /\ Discard({next})
    /\ mpc' = "clean"
    /\ UNCHANGED <<fault, metaVars, appVars, handlerVars, call, next, stop, run>>

CleanPage ==
    /\ mpc = "clean"
    /\ dirty' = dirty \ {next}
    /\ next' = next + 1 /\ mpc' = "page"
    /\ UNCHANGED <<kernelVars, rep, appVars, handlerVars, call, stop, run>>

\* The recipe, an allocation or madvise fails: the pages before are done.
CheckpointFails ==
    /\ \/ call = "checkpoint" /\ mpc = "page" /\ next < stop /\ next \in dirty
       \/ mpc = "discard"
    /\ Return
    /\ UNCHANGED <<kernelVars, metaVars, appVars, handlerVars>>

\* dematerialize_safe_range looks at one page after another and drops each
\* run of clean ones.
ScanDirty ==
    /\ call = "drop" /\ mpc = "page" /\ next < stop /\ next \in dirty /\ run = {}
    /\ next' = next + 1
    /\ UNCHANGED <<kernelVars, metaVars, appVars, handlerVars, call, mpc, stop, run>>

\* A run that does not stop at a dirty page.
ScanThrough ==
    /\ call = "drop" /\ mpc = "page" /\ next < stop /\ (next \notin dirty \/ run # {})
    /\ run' = run \cup {next}
    /\ next' = next + 1
    /\ UNCHANGED <<kernelVars, metaVars, appVars, handlerVars, call, mpc, stop>>

ScanClean ==
    /\ call = "drop" /\ mpc = "page" /\ next < stop /\ next \notin dirty
    /\ run' = run \cup {next}
    /\ next' = next + 1
    /\ UNCHANGED <<kernelVars, metaVars, appVars, handlerVars, call, mpc, stop>>

DropRun ==
    /\ call = "drop" /\ mpc = "page" /\ run # {}
    /\ next = stop \/ next \in dirty
    /\ Discard(run)
    /\ run' = {}
    /\ UNCHANGED <<fault, metaVars, appVars, handlerVars, call, mpc, next, stop>>

\* The end of the range, or madvise fails.
FinishDrop ==
    /\ call = "drop" /\ mpc = "page"
    /\ \/ next = stop /\ run = {}
       \/ run # {} /\ (next = stop \/ next \in dirty)
    /\ Return
    /\ UNCHANGED <<kernelVars, metaVars, appVars, handlerVars>>

\* materialize_range touches each page, checkpoint_range a dirty one that is
\* not in memory when it comes to compare it.
Touches == \/ call = "materialize"
           \/ call = "checkpoint" /\ next \in dirty \ present

Touch ==
    /\ Touches /\ mpc = "page" /\ next < stop /\ op[Manager] = NoOp
    /\ op' = [op EXCEPT ![Manager] = [kind |-> "read", page |-> next]]
    /\ next' = IF call = "materialize" THEN next + 1 ELSE next
    /\ UNCHANGED <<kernelVars, metaVars, recipe, last, handlerVars, call, mpc, stop, run>>

Rebase ==
    /\ call = "rebase" /\ mpc = "page"
    /\ rep' = [p \in Pages |-> Nothing]
    /\ dirty' = {}
    /\ mpc' = "protect"
    /\ UNCHANGED <<kernelVars, appVars, handlerVars, call, next, stop, run>>

\* set_wp on the region, which returns an error when the kernel refuses.
Protect ==
    /\ mpc = "protect"
    /\ writable' \in {{}} \cup {W \in {writable} : "protect fails" \in Allowed}
    /\ Return
    /\ UNCHANGED <<present, mem, fault, metaVars, appVars, handlerVars>>

-----------------------------------------------------------------------------
Access(t) == Read(t) \/ Write(t) \/ Fault(t)

Take(t) == TakeWrite(t) \/ TakeMissing(t)

Handle == Unprotect \/ ApplyRep \/ MarkFirstWrite \/ Copy

CheckpointRange == SkipClean \/ Checkpoint \/ DiscardPage \/ CleanPage \/ CheckpointFails
DropRange       == ScanDirty \/ ScanClean \/ DropRun \/ FinishDrop
RebaseRecipe    == Rebase \/ Protect

Proceed == CheckpointRange \/ DropRange \/ RebaseRecipe \/ Touch \/ Finish

Next ==
    \/ \E t \in Apps, kind \in {"read", "write"}, p \in Pages : Request(t, kind, p)
    \/ \E t \in Threads : Access(t) \/ Take(t)
    \/ Handle
    \/ BeginRange \/ BeginRebase \/ Proceed

Spec == Init /\ [][Next]_vars

\* Every thread keeps running, and the handler reads messages in the order
\* they were sent, so that it comes to each one.
Fairness ==
    /\ \A t \in Threads : WF_vars(Access(t)) /\ SF_vars(Take(t))
    /\ WF_vars(Handle) /\ WF_vars(Proceed)

FairSpec == Spec /\ Fairness
-----------------------------------------------------------------------------
TypeOK ==
    /\ present \subseteq Pages /\ writable \subseteq present
    /\ mem \in [Pages -> Content]
    /\ fault \in [Threads -> {"none"} \cup Messages]
    /\ dirty \subseteq Pages
    /\ rep \in [Pages -> Reps]
    /\ recipe \in [Pages -> Content] /\ last \in [Pages -> Content]
    /\ op \in [Threads -> Ops]
    /\ hpc \in {"idle", "unprotect", "apply", "mark", "copy"}
    /\ serves \in Pages \cup {NoPage} /\ (hpc # "idle" => serves \in Pages)
    /\ asked \in {"read", "write"} /\ image \in Content
    /\ call \in Calls /\ mpc \in {"idle", "page", "discard", "clean", "protect"}
    /\ next \in 0 .. PageCount /\ stop \in 0 .. PageCount /\ run \subseteq Pages

\* stateram9.h:40-41: "the current logical value is represented by: recipe + at
\* most one per-page delta/snapshot".  A page that is not in memory can be made
\* again with every byte that was last stored in it.
NothingIsLost ==
    \A p \in Pages :
        last[p] = IF p \in present THEN mem[p] ELSE Apply(recipe[p], rep[p])

\* What stateram9_dematerialize_safe relies on: a page that is not dirty may be
\* dropped at any moment, whatever the handler and the manager are doing.
CleanIsRebuildable == \A p \in Pages \ dirty : Apply(recipe[p], rep[p]) = last[p]

\* No write escapes the handler: a page that can be written without a fault is
\* dirty already, but for the moment between the two loops of
\* stateram9_rebase_recipe.
WritesAreSeen == mpc # "protect" => writable \subseteq dirty

\* The handler makes a page, marks it and copies it in three steps, with the
\* manager at work between them: what it copies is current all the same.
ImageIsCurrent == hpc \in {"mark", "copy"} => image = last[serves]

\* Where the content of a page is, for the page in memory, the page that was
\* dropped and the page that may be dropped.
ContentIsKept == NothingIsLost /\ CleanIsRebuildable

\* What the handler does is what the dirty bits and the representations say.
HandlerIsCurrent == WritesAreSeen /\ ImageIsCurrent

\* stateram9.h:46-47, of stateram9_dematerialize_safe: "Drop recipe-clean or
\* already-checkpointed pages. Dirty uncheckpointed pages are preserved."
DirtyIsPreserved ==
    [][call = "drop" => dirty \cap present \subseteq present']_vars

\* A call that touches pages, or that finds the handler busy with the same
\* pages, ends while the application reads and writes: no thread is left asleep
\* on a page.
CallsReturn == call # "none" ~> call = "none"
=============================================================================
