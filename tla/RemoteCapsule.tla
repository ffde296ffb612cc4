---------------------------- MODULE RemoteCapsule ----------------------------
(***************************************************************************)
(* The prototypes before the SDK: stateram_phase3_appaware.cpp to          *)
(* stateram_phase6_packed.cpp.  A parent starts a child, keeps the child's *)
(* memory in a capsule of its own, takes the memory away and writes it     *)
(* back, part of it while the child runs.  The two share a block with one  *)
(* command in it and two events that reset themselves: go wakes the child, *)
(* done answers the parent.                                                *)
(*                                                                         *)
(* The parent's main is a script; a step that fails ends the run, or is    *)
(* remembered and makes those that need it be skipped.  Every wait of the  *)
(* parent has a timeout, and none of the child's has.  Pages stand for the *)
(* units of the region and for the pages of a unit alike.                  *)
(***************************************************************************)
EXTENDS Naturals, Sequences, FiniteSets

CONSTANTS
    Pages,      \* of the child's region
    CorePages,  \* those restored first
    Gone        \* what a decommitted page holds

ASSUME PageAssumption == CorePages \subseteq Pages /\ CorePages # {} /\ Gone \notin {0, 1}

\* What the failure of a step makes of the run: the child is terminated with
\* the code and the parent throws, or the failure is remembered.
Noted == 0

Step(do, needs, code) == [do |-> do, needs |-> needs, code |-> code]

Phase3Script ==
    << Step("start", "none", 99), Step("query", "none", 98), Step("trim", "none", Noted),
       Step("touch", "none", 97), Step("query", "none", 96), Step("trim", "none", Noted),
       Step("prefetch", "none", Noted), Step("touch_again", "none", 95),
       Step("exit", "none", Noted), Step("judge", "none", Noted) >>

Phase4ScriptDecommittingFirst ==
    << Step("start", "none", 90), Step("compressor", "none", 91), Step("decommit", "none", Noted),
       Step("snapshot", "none", Noted), Step("restore", "decommit", Noted),
       Step("verify", "restore", Noted),
       Step("exit", "none", Noted), Step("judge", "none", Noted) >>

Phase4Script ==
    << Step("start", "none", 90), Step("compressor", "none", 91), Step("snapshot", "none", Noted),
       Step("decommit", "snapshot", Noted), Step("restore", "decommit", Noted),
       Step("verify", "restore", Noted),
       Step("exit", "none", Noted), Step("judge", "none", Noted) >>

Phase6ScriptCapturingEarly ==
    << Step("start", "none", 90), Step("compressor", "none", 91), Step("snapshot", "none", 93),
       Step("mutate", "none", 94), Step("capture", "none", 96), Step("report", "none", 95),
       Step("decommit", "none", Noted), Step("core", "decommit", Noted),
       Step("verify_core", "core", Noted), Step("spin", "verify_core", Noted),
       Step("deep", "spin", Noted), Step("stop", "spin", Noted), Step("verify", "deep", Noted),
       Step("exit", "none", Noted), Step("judge", "none", Noted) >>

\* Phases 5 and 6, which differ in where the capsule is kept.  The rest of the
\* region is restored while the child works in the core.
Phase6Script ==
    << Step("start", "none", 90), Step("compressor", "none", 91), Step("snapshot", "none", 93),
       Step("mutate", "none", 94), Step("report", "none", 95), Step("capture", "none", 96),
       Step("decommit", "none", Noted), Step("core", "decommit", Noted),
       Step("verify_core", "core", Noted), Step("spin", "verify_core", Noted),
       Step("deep", "spin", Noted), Step("stop", "spin", Noted), Step("verify", "deep", Noted),
       Step("exit", "none", Noted), Step("judge", "none", Noted) >>

Phase5Script == Phase6Script

Programs == {"phase3", "phase4", "phase5", "phase6"}

ScriptOf(program) ==
    CASE program = "phase3" -> Phase3Script
      [] program = "phase4" -> Phase4Script
      [] program = "phase5" -> Phase5Script
      [] program = "phase6" -> Phase6Script

\* The commands of the child's loop, each with the pages it uses
CommandOf(do) ==
    CASE do \in {"touch", "touch_again", "verify"} -> "verify_full"
      [] OTHER -> do

Used(command) == IF command \in {"verify_core", "spin"} THEN CorePages ELSE Pages

\* The exit code of a child that was killed from outside
Killed == 1001

\* The exit code of a process that runs
StillActive == 259

VARIABLES
    program,
    \* the parent
    at,         \* the step of its script
    sub,        \* how far the exchange with the child is
    missed,     \* what has failed
    exit,       \* what main has returned, once it has
    snap, delta,    \* the capsule
    \* what the two share
    command, go, done, stop,
    expected,   \* the content that the child has hashed to compare with
    observed,   \* and the content it has hashed since
    dirty,      \* the pages it has reported
    passes,     \* core_spin_passes, up to one
    \* the child
    child, task, code,
    arena,      \* its region
    touched,    \* the write watch
    \* assumption and history
    prompt,     \* the child begins to spin before the parent stops it
    carried,    \* the command of the child's last answer
    wrong

parentVars == <<at, sub, missed, exit>>
capsule    == <<snap, delta>>
ipc        == <<command, go, done, stop>>
results    == <<expected, observed, dirty, passes>>
childVars  == <<child, task, code>>
vars == <<program, parentVars, capsule, ipc, results, childVars, arena, touched,
          prompt, carried, wrong>>

Script == ScriptOf(program)
Now    == Script[at]
Zeros  == [p \in Pages |-> 0]
Core(content) == [p \in CorePages |-> content[p]]

Init ==
    /\ program \in Programs
    /\ at = 1 /\ sub = "begin" /\ missed = {} /\ exit = StillActive
    /\ snap = Zeros /\ delta = [p \in Pages |-> Gone]
    /\ command = "none" /\ go = FALSE /\ done = FALSE /\ stop = FALSE
    /\ expected = Zeros /\ observed = Zeros /\ dirty = {} /\ passes = 0
    /\ child = "setup" /\ task = "none" /\ code = 0
    /\ arena = Zeros /\ touched = Pages
    /\ prompt \in BOOLEAN /\ carried = "none" /\ wrong = {}

At(steps) == exit = StillActive /\ Now.do \in steps /\ Now.needs \notin missed

Pass == at' = at + 1 /\ sub' = "begin" /\ UNCHANGED <<missed, exit, childVars>>

\* TerminateProcess and an exception, which main reports; or the run goes on.
Miss ==
    IF Now.code = Noted
    THEN /\ at' = at + 1 /\ sub' = "begin" /\ missed' = missed \cup {Now.do}
         /\ UNCHANGED <<exit, childVars>>
    ELSE /\ exit' = 2 /\ child' = "ended"
         /\ code' = IF child = "ended" THEN code ELSE Now.code
         /\ UNCHANGED <<at, sub, missed, task>>

Skip ==
    /\ exit = StillActive /\ Now.needs \in missed
    /\ at' = at + 1 /\ sub' = "begin" /\ missed' = missed \cup {Now.do}
    /\ UNCHANGED <<program, exit, capsule, ipc, results, childVars, arena, touched,
                   prompt, carried, wrong>>

-----------------------------------------------------------------------------
(***************************************************************************)
(* The parent                                                              *)
(***************************************************************************)
\* The child is ready within 30 seconds, or never.
Start ==
    /\ At({"start"})
    /\ IF child \in {"setup", "ended"} THEN Miss ELSE Pass
    /\ UNCHANGED <<program, capsule, ipc, results, arena, touched, prompt, carried, wrong>>

\* What the parent asks the system for
AsksSystem ==
    /\ At({"compressor", "query", "trim", "prefetch"})
    /\ \/ Pass
       \/ Miss
    /\ UNCHANGED <<program, capsule, ipc, results, arena, touched, prompt, carried, wrong>>

Alive == child # "ended"

\* snapshot_full reads every unit; capture_delta the pages that were reported.
Snapshot ==
    /\ At({"snapshot"})
    /\ \/ Alive /\ snap' = arena /\ Pass
       \/ UNCHANGED snap /\ Miss
    /\ UNCHANGED <<program, delta, ipc, results, arena, touched, prompt, carried, wrong>>

Capture ==
    /\ At({"capture"})
    /\ \/ /\ Alive
          /\ delta' = [p \in Pages |-> IF p \in dirty THEN arena[p] ELSE delta[p]]
          /\ Pass
       \/ UNCHANGED delta /\ Miss
    /\ UNCHANGED <<program, snap, ipc, results, arena, touched, prompt, carried, wrong>>

\* VirtualFreeEx, and whether the region is only reserved now
Decommit ==
    /\ At({"decommit"})
    /\ \/ Alive /\ arena' = [p \in Pages |-> Gone] /\ (Pass \/ Miss)
       \/ UNCHANGED arena /\ Miss
    /\ UNCHANGED <<program, capsule, ipc, results, touched, prompt, carried, wrong>>

\* build_unit
Rebuilt(p) == IF delta[p] # Gone THEN delta[p] ELSE snap[p]

\* restore_units, one at a time
ToRestore ==
    CASE Now.do = "core" -> CorePages
      [] Now.do = "deep" -> Pages \ CorePages
      [] OTHER -> Pages

Missing == {p \in ToRestore : arena[p] = Gone}

Restore ==
    /\ At({"core", "deep", "restore"})
    /\ \/ /\ Alive /\ Missing # {}
          /\ \E p \in Missing :
               /\ arena' = [arena EXCEPT ![p] = Rebuilt(p)]
               /\ touched' = touched \cup {p}
          /\ UNCHANGED <<parentVars, childVars>>
       \/ Missing = {} /\ Pass /\ UNCHANGED <<arena, touched>>
       \/ Missing # {} /\ Miss /\ UNCHANGED <<arena, touched>>
    /\ UNCHANGED <<program, capsule, ipc, results, prompt, carried, wrong>>

-----------------------------------------------------------------------------
\* signal_and_wait, and the beginning of the spin, which is not waited for
Asking == {"touch", "touch_again", "mutate", "report", "verify_core", "verify", "spin"}

SetCommand ==
    /\ At(Asking \cup {"exit"}) /\ sub = "begin"
    /\ command' = CommandOf(Now.do)
    /\ stop' = (stop /\ Now.do # "spin")
    /\ sub' = IF Now.do = "exit" THEN "reset" ELSE "commanded"
    /\ UNCHANGED <<program, at, missed, exit, capsule, go, done, results, childVars,
                   arena, touched, prompt, carried, wrong>>

ResetDone ==
    /\ At(Asking) /\ sub = "commanded"
    /\ done' = FALSE
    /\ sub' = "reset"
    /\ UNCHANGED <<program, at, missed, exit, capsule, command, go, stop, results, childVars,
                   arena, touched, prompt, carried, wrong>>

SetGo ==
    /\ At(Asking \cup {"exit"}) /\ sub = "reset"
    /\ \/ /\ go' = TRUE
          /\ IF Now.do = "spin" THEN Pass
             ELSE sub' = "sent" /\ UNCHANGED <<at, missed, exit, childVars>>
       \/ Now.do # "exit" /\ Miss /\ UNCHANGED go
    /\ UNCHANGED <<program, capsule, command, done, stop, results, arena, touched,
                   prompt, carried, wrong>>

\* The end of the spin; the parent has slept 5 ms and restored the rest.
StopWithoutWaiting ==
    /\ At({"stop"}) /\ sub = "begin"
    /\ prompt => child \in {"spinning", "ended"}
    /\ stop' = TRUE
    /\ Pass
    /\ UNCHANGED <<program, capsule, command, go, done, results, arena, touched,
                   prompt, carried, wrong>>

Stop ==
    /\ At({"stop"}) /\ sub = "begin"
    /\ prompt => child \in {"spinning", "ended"}
    /\ stop' = TRUE
    /\ sub' = "sent"
    /\ UNCHANGED <<program, at, missed, exit, capsule, command, go, done, results, childVars,
                   arena, touched, prompt, carried, wrong>>

\* Comparing the hashes, or in phase 3 the sums of two rounds
Agrees ==
    CASE Now.do = "verify_core" -> Core(observed) = Core(expected)
      [] Now.do \in {"verify", "touch_again"} -> observed = expected
      [] OTHER -> TRUE

Asked == IF Now.do = "stop" THEN "spin" ELSE CommandOf(Now.do)

Answered ==
    /\ At(Asking \cup {"stop"}) /\ sub = "sent" /\ done
    /\ done' = FALSE
    /\ IF Agrees THEN Pass ELSE Miss
    /\ expected' = IF Now.do = "touch" THEN observed ELSE expected
    /\ wrong' = wrong \cup (IF carried # Asked THEN {"answer"} ELSE {})
                      \cup (IF ~Agrees THEN {"mismatch"} ELSE {})
    /\ UNCHANGED <<program, capsule, command, go, stop, observed, dirty, passes,
                   arena, touched, prompt, carried>>

NeverTimesOut == FALSE

TimesOut == ~done

\* A spin that is not answered counts as a failed restore.
Unanswered ==
    /\ At(Asking \cup {"stop"}) /\ sub = "sent" /\ TimesOut
    /\ IF Now.do = "stop"
       THEN /\ at' = at + 1 /\ sub' = "begin" /\ missed' = missed \cup {"stop", "deep"}
            /\ UNCHANGED <<exit, childVars>>
       ELSE Miss
    /\ UNCHANGED <<program, capsule, ipc, results, arena, touched, prompt, carried, wrong>>

\* The parent waits 10 seconds for the child to end.
Parts ==
    /\ At({"exit"}) /\ sub = "sent"
    /\ IF child = "ended" /\ code = 0 THEN Pass ELSE Miss
    /\ UNCHANGED <<program, capsule, ipc, results, arena, touched, prompt, carried, wrong>>

Good == missed = {} /\ (program \in {"phase5", "phase6"} => passes > 0)

\* Times and sizes can only make a run fail.
Judge ==
    /\ At({"judge"})
    /\ \/ Good /\ exit' = 0
       \/ exit' = 10
    /\ UNCHANGED <<program, at, sub, missed, capsule, ipc, results, childVars, arena, touched,
                   prompt, carried, wrong>>

\* Memory for the capsule cannot be had: main reports the exception, and does
\* nothing about the child.
Throws ==
    /\ At({"snapshot", "capture", "core", "deep", "restore"}) /\ program # "phase3"
    /\ exit' = 2 /\ missed' = missed \cup {"memory"}
    /\ UNCHANGED <<program, at, sub, capsule, ipc, results, childVars, arena, touched,
                   prompt, carried, wrong>>

ParentStep ==
    \/ Skip \/ Start \/ AsksSystem \/ Snapshot \/ Capture \/ Decommit \/ Restore
    \/ SetCommand \/ ResetDone \/ SetGo \/ Stop \/ Answered \/ Unanswered \/ Parts \/ Judge

-----------------------------------------------------------------------------
(***************************************************************************)
(* The child                                                               *)
(***************************************************************************)
ChildFails(n) == child' = "ended" /\ code' = n /\ UNCHANGED task

\* The region is filled; then the parent is told where it is.
SetUp ==
    /\ child = "setup"
    /\ \/ child' = "waiting" /\ UNCHANGED <<task, code>>
       \/ \E n \in 20 .. 22 : ChildFails(n)
    /\ UNCHANGED <<program, parentVars, capsule, ipc, results, arena, touched,
                   prompt, carried, wrong>>

Wake ==
    /\ child = "waiting" /\ go
    /\ go' = FALSE
    /\ child' = "woken"
    /\ UNCHANGED <<program, parentVars, capsule, command, done, stop, results, task, code,
                   arena, touched, prompt, carried, wrong>>

ReadCommand ==
    /\ child = "woken"
    /\ task' = command
    /\ child' = IF command = "exit" THEN "ended" ELSE "working"
    /\ code' = 0
    /\ UNCHANGED <<program, parentVars, capsule, ipc, results, arena, touched,
                   prompt, carried, wrong>>

Working(tasks) == child = "working" /\ task \in tasks

Finish == child' = "answering" /\ UNCHANGED <<task, code>>

\* The write watch is reset, some pages are written, and the result is hashed.
Mutate ==
    /\ Working({"mutate"})
    /\ \/ \E pages \in SUBSET Pages \ {{}} :
            /\ arena' = [p \in Pages |-> IF p \in pages THEN 1 - arena[p] ELSE arena[p]]
            /\ touched' = pages
            /\ expected' = arena'
            /\ Finish
       \/ ChildFails(24) /\ UNCHANGED <<arena, touched, expected>>
    /\ UNCHANGED <<program, parentVars, capsule, ipc, observed, dirty, passes,
                   prompt, carried, wrong>>

Report ==
    /\ Working({"report"})
    /\ \/ dirty' = touched /\ touched' = {} /\ Finish
       \/ ChildFails(25) /\ UNCHANGED <<dirty, touched>>
    /\ UNCHANGED <<program, parentVars, capsule, ipc, expected, observed, passes, arena,
                   prompt, carried, wrong>>

Verify ==
    /\ Working({"verify_core", "verify_full"})
    /\ observed' = IF task = "verify_full" THEN arena
                   ELSE [p \in Pages |-> IF p \in CorePages THEN arena[p] ELSE observed[p]]
    /\ Finish
    /\ UNCHANGED <<program, parentVars, capsule, ipc, expected, dirty, passes, arena, touched,
                   prompt, carried, wrong>>

\* The child itself clears the flag that ends the spin.
BeginSpin ==
    /\ Working({"spin"})
    /\ stop' = FALSE
    /\ child' = "spinning" /\ UNCHANGED <<task, code>>
    /\ UNCHANGED <<program, parentVars, capsule, command, go, done, results, arena, touched,
                   prompt, carried, wrong>>

Spin ==
    /\ child = "spinning" /\ ~stop
    /\ passes' = 1
    /\ UNCHANGED <<program, parentVars, capsule, ipc, expected, observed, dirty, childVars,
                   arena, touched, prompt, carried, wrong>>

EndSpin ==
    /\ child = "spinning" /\ stop
    /\ Finish
    /\ UNCHANGED <<program, parentVars, capsule, ipc, results, arena, touched,
                   prompt, carried, wrong>>

Answer ==
    /\ child = "answering"
    /\ done' = TRUE
    /\ carried' = task
    /\ child' = "waiting" /\ UNCHANGED <<task, code>>
    /\ UNCHANGED <<program, parentVars, capsule, command, go, stop, results, arena, touched,
                   prompt, wrong>>

\* Somebody kills the child.
Dies ==
    /\ exit = StillActive /\ child # "ended"
    /\ ChildFails(Killed)
    /\ UNCHANGED <<program, parentVars, capsule, ipc, results, arena, touched,
                   prompt, carried, wrong>>

ChildStep ==
    \/ SetUp \/ Wake \/ ReadCommand \/ Mutate \/ Report \/ Verify
    \/ BeginSpin \/ Spin \/ EndSpin \/ Answer

Next == ParentStep \/ Throws \/ ChildStep \/ Dies

Spec == Init /\ [][Next]_vars

\* Both processes are scheduled; a wait with a timeout ends.
FairSpec == Spec /\ WF_vars(ParentStep) /\ WF_vars(ChildStep)

-----------------------------------------------------------------------------
TypeOK ==
    /\ program \in Programs
    /\ at \in 1 .. Len(Script) /\ sub \in {"begin", "commanded", "reset", "sent"}
    /\ missed \subseteq {"memory"} \cup {Script[i].do : i \in 1 .. Len(Script)}
    /\ exit \in {0, 2, 10, StillActive}
    /\ snap \in [Pages -> {0, 1}] /\ delta \in [Pages -> {0, 1, Gone}]
    /\ command \in {"none", "exit", "mutate", "report", "spin", "verify_core", "verify_full"}
    /\ go \in BOOLEAN /\ done \in BOOLEAN /\ stop \in BOOLEAN
    /\ expected \in [Pages -> {0, 1}] /\ observed \in [Pages -> {0, 1}]
    /\ dirty \subseteq Pages /\ passes \in 0 .. 1
    /\ child \in {"setup", "waiting", "woken", "working", "spinning", "answering", "ended"}
    /\ code \in 0 .. Killed /\ arena \in [Pages -> {0, 1, Gone}] /\ touched \subseteq Pages
    /\ prompt \in BOOLEAN /\ wrong \subseteq {"answer", "mismatch"}

\* An answer is one to the command that was asked last: never a late answer to
\* a command whose wait timed out, or the end of the spin taken for a hash.
AnswersBelong == "answer" \notin wrong

\* The child is given back what it had, in phases 5 and 6 the core while the
\* rest is on its way: no comparison of hashes fails.
ContentComesBack == "mismatch" \notin wrong

\* What is decommitted is in the parent's capsule as the child left it.
CapsuleIsWhole ==
    program # "phase3" /\ child # "ended" =>
        \A p \in Pages : arena[p] = Gone => Rebuilt(p) = expected[p]

\* The child is not asked for what needs memory that is not back yet: an access
\* violation would end it.
UsesWhatIsThere ==
    child \in {"working", "spinning"} => \A p \in Used(task) : arena[p] # Gone

\* The parent reads and takes away the child's memory only while the child waits.
ChildKeepsStill ==
    At({"snapshot", "capture", "decommit", "core", "restore"}) =>
        child \in {"waiting", "ended"} /\ ~go

\* A parent that passes leaves no child, and the child was content.
PassIsEarned ==
    exit = 0 => child = "ended" /\ code = 0 /\ observed = expected /\ carried = "verify_full"

\* The parent always returns, whatever becomes of the child.
ParentReturns == <>(exit # StillActive)

\* And the child ends with it, unless memory has run out for the parent, or the
\* child was so late that it cleared the parent's order to stop.
ChildEnds ==
    (exit \in {0, 10} /\ prompt) \/ (exit = 2 /\ "memory" \notin missed) ~> child = "ended"
\* What the parent judges by is the child's answer to the last command, so a
\* pass is one of the memory as it is at the end.
VerdictIsEarned == AnswersBelong /\ PassIsEarned

\* The child's memory is taken away, kept and given back under a child that
\* keeps still and does not miss it.
MemoryIsKept == ContentComesBack /\ CapsuleIsWhole /\ UsesWhatIsThere /\ ChildKeepsStill

\* The parent and the child both come to their end.
BothEnd == ParentReturns /\ ChildEnds
=============================================================================
