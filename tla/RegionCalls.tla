---------------------------- MODULE RegionCalls ----------------------------
(***************************************************************************)
(* What the calls of the capsule SDK (src/stateram_sdk.h) promise to an    *)
(* application, for one region given as a record: when a call is accepted, *)
(* and what its outcomes are.  The capsule, the write watch and the units  *)
(* are the SDK's own affair and do not appear.                             *)
(***************************************************************************)
CONSTANTS
    Pages,          \* what the application keeps in a region
    CorePages,      \* those that sr_resume_core brings back
    Values          \* what a page can hold

ASSUME CoreAssumption == CorePages \subseteq Pages

\* SR_ACTIVE_NO_CAPSULE to SR_ACTIVE_CAPSULE, and a region that is not there
RegionStates ==
    {"active", "building", "baseline", "dormant", "core", "deep", "capsule", "none"}

\* whole: the capsule will get every page that the application has written.
\* clean: the application has not written since it began to resume.
Regions == [state : RegionStates, builder : {"none", "running", "ended"},
            deep : {"none", "running", "ended"}, content : [Pages -> Values],
            clean : BOOLEAN, whole : BOOLEAN]

\* sr_create
Fresh(content) == [state |-> "active", builder |-> "none", deep |-> "none",
                   content |-> content, clean |-> TRUE, whole |-> TRUE]

\* A step to another state, a thread that starts, ends or is joined, and what
\* becomes of the rest
To(s, r)         == [r EXCEPT !.state = s]
Builder(b, r)    == [r EXCEPT !.builder = b]
Deep(d, r)       == [r EXCEPT !.deep = d]
Holding(c, r)    == [r EXCEPT !.content = c]
Clean(yes, r)    == [r EXCEPT !.clean = yes]
Whole(yes, r)    == [r EXCEPT !.whole = yes]

NoThread(r) == r.builder = "none" /\ r.deep = "none"

\* The pages that are committed and that no thread is writing to
Usable(r) ==
    CASE r.state \in {"active", "building", "baseline", "capsule"} -> Pages
      [] r.state \in {"core", "deep"} -> CorePages
      [] OTHER -> {}

\* The application writes, and this is what the pages hold then.
Written(r, content) ==
    Clean(r.clean /\ r.state \notin {"core", "deep", "capsule"}, Holding(content, r))

\* The first check of every call: is it one for this state?
Accepted(call, r) ==
    CASE call = "begin"         -> NoThread(r) /\ r.state = "active"
      [] call = "wait_baseline" -> r.builder # "none"
      [] call = "cancel"        -> r.builder # "none"
      [] call = "sleep"         -> NoThread(r) /\ r.state = "baseline"
      [] call = "resume"        -> r.state = "dormant"
      [] call = "deep"          -> r.deep = "none" /\ r.state = "core"
      [] call = "wait_deep"     -> r.deep # "none"
      [] call = "rearm"         -> NoThread(r) /\ r.state = "capsule"
      [] call = "release"       -> NoThread(r) /\ r.state \in {"capsule", "baseline"}

\* A region that sleeps on a capsule that misses pages comes back with
\* anything in them.
Slept(r) ==
    {Holding(c, To("dormant", r)) :
        c \in IF r.whole THEN {r.content} ELSE [Pages -> Values]}

\* The outcomes of a call that is accepted and succeeds
Successes(call, r) ==
    CASE call = "begin" ->
            {Builder("running", To("building", r))}
      [] call = "wait_baseline" ->
            IF r.builder = "ended" /\ r.state = "baseline"
            THEN {Builder("none", r)} ELSE {}
      [] call = "cancel" ->
            IF r.builder = "ended" /\ r.state = "active"
            THEN {Builder("none", r)} ELSE {}
      [] call = "sleep"  -> Slept(r)
      [] call = "resume" -> {Clean(TRUE, To("core", r))}
      [] call = "deep"   -> {Deep("running", To("deep", r))}
      [] call = "wait_deep" ->
            IF r.deep = "ended" /\ r.state # "deep"
            THEN {Deep("none", r)} ELSE {}
      [] call = "rearm" -> {Whole(r.whole /\ r.clean, To("baseline", r))}
      [] call = "release" -> {Whole(TRUE, To("active", r))}

\* And of one that fails.  A wait that times out leaves the thread to run; a
\* wait for a thread that has failed, or was not stopped in time, takes it.
\* sr_enter_dormant may have read the write watch, which is reset by that.
Failures(call, r) ==
    CASE call = "wait_baseline" ->
            IF r.builder = "running" THEN {r}
            ELSE IF r.state # "baseline" THEN {Builder("none", r)} ELSE {}
      [] call = "cancel" ->
            IF r.builder = "running" THEN {r}
            ELSE IF r.state # "active" THEN {Builder("none", r)} ELSE {}
      [] call = "wait_deep" ->
            IF r.deep = "running" THEN {r}
            ELSE IF r.state = "deep" THEN {Deep("none", r)} ELSE {}
      [] call = "sleep" -> {r, Whole(FALSE, r)}
      [] call = "release" -> {}
      [] OTHER -> {r}

\* baseline_thread_proc ends: complete, or abandoned.
Built(r) ==
    IF r.builder = "running"
    THEN {Builder("ended", To(s, r)) : s \in {"baseline", "active"}} ELSE {}

\* deep_thread_proc ends.
Restored(r) ==
    IF r.deep = "running"
    THEN {Deep("ended", To(s, r)) : s \in {"capsule", "deep"}} ELSE {}

\* sr_destroy, once both threads have ended
Quiet(r)     == r.builder # "running" /\ r.deep # "running"
Destroyed(r) == Deep("none", Builder("none", To("none", r)))

Calls == {"begin", "wait_baseline", "cancel", "sleep", "resume", "deep", "wait_deep",
          "rearm", "release"}
=============================================================================
