------------------------------ MODULE Launcher ------------------------------
(***************************************************************************)
(* The guarded launchers: phase10_local.cpp to phase14_governor.cpp, the   *)
(* evaluator's and the workbench's.  Each starts one child suspended, puts *)
(* it into a job object that limits it and dies with the launcher, lets it *)
(* run, polls the machine and the child until the child ends or something  *)
(* is wrong, and tells in a file and an exit code how it went.             *)
(*                                                                         *)
(* The seven programs differ in data, which the records below hold; the    *)
(* actions are the same for all.  The child is any program: it runs, may   *)
(* write its result file, and ends with 0 or with another code.  The file  *)
(* of an earlier run is still there when the next run begins.              *)
(***************************************************************************)
EXTENDS Integers, Sequences

CONSTANTS
    Programs,           \* the launchers considered
    SustainedSamples,   \* samples in a row that make a load sustained (8)
    SafetyTicks,        \* 250 ms, in the ticks of the fastest poll (25)
    Timeout,            \* the hard timeout, in ticks
    ClockSize,          \* GetTickCount counts modulo this (2^32)
    BootTicks,          \* what it says when a launcher begins
    MaxLateness,        \* ticks by which a poll may come late
    MaxRuns             \* launches of the program, one after the other

ASSUME LauncherAssumption ==
    /\ SustainedSamples \in Nat \ {0} /\ SafetyTicks \in Nat \ {0}
    /\ Timeout \in Nat \ {0} /\ MaxLateness \in Nat /\ MaxRuns \in Nat \ {0}
    /\ ClockSize \in Nat /\ ClockSize > Timeout + SafetyTicks + MaxLateness
    /\ BootTicks \in 0 .. ClockSize - 1

\* GetExitCodeProcess of a process that has not ended; what a child that is
\* not content with itself ends with; what an exception in a launcher gives
StillActive == 259
WorkerFail  == 40
Died        == 99
SafetyAbort == 50

-----------------------------------------------------------------------------
(***************************************************************************)
(* The programs.  A step of a launch that fails makes the launcher return  *)
(* one more than the step's position.                                      *)
(***************************************************************************)
Screening  == <<"privilege", "status", "headroom">>
Containing == <<"create", "assign", "notification", "resume">>

CappedResumedEarly == Screening \o <<"job", "limits", "rate", "create", "resume",
                                     "assign", "notification">>

Capped   == Screening \o <<"job", "limits", "rate">> \o Containing
Uncapped == Screening \o <<"job", "limits">> \o Containing

\* The codes a child gets that cannot be assigned, or watched
Phase10Launch   == [steps |-> Capped,   unassigned |-> 70, unwatched |-> 71]
Phase11Launch   == [steps |-> Capped,   unassigned |-> 90, unwatched |-> 91]
Phase12Launch   == [steps |-> Capped,   unassigned |-> 90, unwatched |-> 91]
Phase13Launch   == [steps |-> Capped,   unassigned |-> 90, unwatched |-> 91]
Phase14Launch   == [steps |-> Uncapped, unassigned |-> 90, unwatched |-> 91]
EvaluatorLaunch == [steps |-> Uncapped, unassigned |-> 90, unwatched |-> 91]
WorkbenchLaunch == [steps |-> Uncapped, unassigned |-> 90, unwatched |-> 91]

\* How long a poll waits, what it looks at and in which order, what it looks
\* at only every 250 ms, and the code the child is stopped with
MemoryChecks == <<"wait", "status", "query", "memory", "timeout">>

Phase10Watch == [period |-> SafetyTicks, checks |-> MemoryChecks, rested |-> {}, killed |-> 72]
Phase11Watch == [period |-> SafetyTicks, checks |-> MemoryChecks, rested |-> {}, killed |-> 92]
Phase12Watch == [period |-> SafetyTicks, checks |-> MemoryChecks, rested |-> {}, killed |-> 92]
\* A failed memory status is not noticed, it reads as no memory at all.
Phase13Watch == [period |-> 1, checks |-> <<"wait", "query", "memory", "timeout">>,
                 rested |-> {"query", "memory"}, killed |-> 92]
Phase14Watch == [period |-> SafetyTicks, rested |-> {}, killed |-> 92,
                 checks |-> <<"wait", "child_cpu", "system_cpu", "status", "query",
                              "memory", "timeout">>]
EvaluatorWatch == [period |-> SafetyTicks, rested |-> {}, killed |-> 92,
                   checks |-> <<"wait", "status", "query", "memory", "child_cpu",
                                "system_cpu", "timeout">>]
WorkbenchWatch == [period |-> SafetyTicks, rested |-> {}, killed |-> 92,
                   checks |-> <<"wait", "status", "query", "memory", "child_cpu",
                                "system_cpu">>]

\* The exit code assumed of a child that cannot be asked, and whether a guard
\* file is written
Phase10Report   == [assumed |-> 999, writes |-> TRUE]
Phase11Report   == [assumed |-> 999, writes |-> TRUE]
Phase12Report   == [assumed |-> 999, writes |-> TRUE]
Phase13Report   == [assumed |-> 999, writes |-> TRUE]
Phase14Report   == [assumed |-> 999, writes |-> TRUE]
EvaluatorReport == [assumed |-> 999, writes |-> TRUE]
WorkbenchReport == [assumed |-> 0,   writes |-> FALSE]

Launch == [phase10 |-> Phase10Launch, phase11 |-> Phase11Launch, phase12 |-> Phase12Launch,
           phase13 |-> Phase13Launch, phase14 |-> Phase14Launch,
           evaluator |-> EvaluatorLaunch, workbench |-> WorkbenchLaunch]
Watch  == [phase10 |-> Phase10Watch, phase11 |-> Phase11Watch, phase12 |-> Phase12Watch,
           phase13 |-> Phase13Watch, phase14 |-> Phase14Watch,
           evaluator |-> EvaluatorWatch, workbench |-> WorkbenchWatch]
Final  == [phase10 |-> Phase10Report, phase11 |-> Phase11Report, phase12 |-> Phase12Report,
           phase13 |-> Phase13Report, phase14 |-> Phase14Report,
           evaluator |-> EvaluatorReport, workbench |-> WorkbenchReport]

ASSUME ProgramsAssumption == Programs \subseteq DOMAIN Launch

-----------------------------------------------------------------------------
VARIABLES
    program,    \* which launcher this is
    run,        \* the launch, of MaxRuns
    stage,      \* a step of the launch, or of what follows it
    job,        \* what the job object does: it limits, and kills when closed
    child,      \* the child process: life, whether it is in the job, exit code
    exit,       \* what the launcher returned
    now,        \* GetTickCount
    started,    \* when the child was resumed
    lastCheck,  \* last_safety_check
    streaks,    \* samples in a row over the limits: of the child, of the machine
    sampled,    \* the counters of which a first sample has been taken
    reason,     \* abort_reason
    guard,      \* the guard file
    result,     \* the launch whose child wrote the result file
    \* history
    elapsed,    \* ticks since the child was resumed, if there is a timeout
    lowFor,     \* ticks that memory has been low with the child running
    recent      \* the last SustainedSamples samples

clockVars == <<now, started, lastCheck, elapsed, lowFor>>
cpuVars   == <<streaks, sampled, recent>>
vars == <<program, run, stage, job, child, exit, clockVars, cpuVars,
          reason, guard, result>>

Steps  == Launch[program].steps
Checks == Watch[program].checks

Looks(check) == \E i \in DOMAIN Checks : Checks[i] = check

Position(step)    == CHOOSE i \in DOMAIN Steps : Steps[i] = step
FailureCode(step) == Position(step) + 1
After(step)       == IF Position(step) = Len(Steps) THEN "watch"
                     ELSE Steps[Position(step) + 1]

\* The variables of the loop before it begins, and once nothing reads them
FreshLoop ==
    /\ now' = BootTicks /\ started' = BootTicks /\ lastCheck' = BootTicks
    /\ elapsed' = 0 /\ lowFor' = 0
    /\ streaks' = [child |-> 0, system |-> 0] /\ sampled' = {} /\ recent' = <<>>

NoChild == [life |-> "none", contained |-> FALSE, code |-> 0]

Init ==
    /\ program \in Programs
    /\ run = 1 /\ stage = Steps[1]
    /\ job = {} /\ child = NoChild /\ exit = 0
    /\ now = BootTicks /\ started = BootTicks /\ lastCheck = BootTicks
    /\ streaks = [child |-> 0, system |-> 0] /\ sampled = {} /\ recent = <<>>
    /\ reason = "none"
    /\ guard = [run |-> 0, status |-> "none"]
    /\ result = 0
    /\ elapsed = 0 /\ lowFor = 0

-----------------------------------------------------------------------------
(***************************************************************************)
(* The launch, one step after the other                                    *)
(***************************************************************************)
\* A process that is told to end is dead only later, and its first code stands.
Kill(code) ==
    IF child.life \in {"suspended", "running"}
    THEN [child EXCEPT !.life = "dying", !.code = code] ELSE child

\* The last handle of the job is closed, by the launcher or by its end.
Orphaned == IF child.contained /\ "kill" \in job THEN Kill(0) ELSE child

WriteGuard(status) ==
    guard' = IF Final[program].writes THEN [run |-> run, status |-> status] ELSE guard

\* What a step does when it succeeds
Done(step) ==
    /\ job' = CASE step = "limits" -> job \cup {"memory", "kill"}
                [] step = "rate"   -> job \cup {"rate"}
                [] OTHER           -> job
    /\ CASE step = "create" ->
              child' = [life |-> "suspended", contained |-> FALSE, code |-> StillActive]
         [] step = "assign" -> child' = [child EXCEPT !.contained = TRUE]
         [] step = "resume" -> child' = [child EXCEPT !.life = "running"]
         [] OTHER -> UNCHANGED child

LaunchStep(step) ==
    /\ stage = step /\ step # "resume"
    /\ Done(step)
    /\ stage' = After(step)
    /\ UNCHANGED <<program, run, exit, clockVars, cpuVars, reason, guard, result>>

\* The step fails; what has been made is undone and the launcher returns.
LaunchFails(step) ==
    /\ stage = step /\ step # "resume"
    /\ child' = CASE step = "assign"       -> Kill(Launch[program].unassigned)
                  [] step = "notification" -> Kill(Launch[program].unwatched)
                  [] OTHER                 -> child
    /\ IF step = "headroom" THEN WriteGuard("not_started") ELSE UNCHANGED guard
    /\ exit' = FailureCode(step)
    /\ job' = {}
    /\ stage' = "gone"
    /\ UNCHANGED <<program, run, clockVars, cpuVars, reason, result>>

\* The result of ResumeThread is not looked at.
Resume ==
    /\ stage = "resume"
    /\ Done("resume") \/ UNCHANGED <<job, child>>
    /\ stage' = After("resume")
    /\ FreshLoop
    /\ UNCHANGED <<program, run, exit, reason, guard, result>>

-----------------------------------------------------------------------------
(***************************************************************************)
(* The watchdog                                                            *)
(***************************************************************************)
SeesContentChild ==
    /\ stage = "watch" /\ child.life = "dead" /\ child.code = 0
    /\ stage' = "report"
    /\ FreshLoop
    /\ UNCHANGED <<program, run, job, child, exit, reason, guard, result>>

SeesChildEnd ==
    /\ stage = "watch" /\ child.life = "dead"
    /\ stage' = "report"
    /\ FreshLoop
    /\ UNCHANGED <<program, run, job, child, exit, reason, guard, result>>

Since(then, t) == (t - then) % ClockSize

TimedOut == Since(started, now') >= Timeout

\* The checks that this poll leaves out
Rested == IF Since(lastCheck, now') >= SafetyTicks THEN {} ELSE Watch[program].rested

\* The poll comes after its period, or somewhat later.
Tick(low) ==
    /\ \E late \in 0 .. MaxLateness :
         LET ticks == Watch[program].period + late IN
         /\ now' = (now + ticks) % ClockSize
         /\ elapsed' = IF Looks("timeout") THEN elapsed + ticks ELSE 0
         /\ lowFor' = IF low THEN lowFor + ticks ELSE 0
    /\ lastCheck' = IF Rested = {} /\ Watch[program].rested # {} THEN now' ELSE lastCheck
    /\ UNCHANGED started

\* sample_child_cpu_pct and sample_system_busy: the first sample of a counter
\* is 0 %, and a failure is -1.  Above 70 % the child is hot, above 25 % warm;
\* above 95 % the machine is busy.
ChildSamples  == IF "child" \in sampled THEN {"failed", "cool", "warm", "hot"}
                 ELSE {"failed", "cool"}
SystemSamples == IF "system" \in sampled THEN {"failed", "calm", "busy"}
                 ELSE {"failed", "calm"}

StreakKept(n, over) == IF over THEN n + 1 ELSE n

\* A sample within the limit, and one that failed, ends the streak.
Streak(n, over) == IF over THEN n + 1 ELSE 0

Remember(sample) ==
    IF Len(recent) < SustainedSamples THEN Append(recent, sample)
    ELSE Append(Tail(recent), sample)

SampleCpu ==
    IF Looks("child_cpu")
    THEN \E c \in ChildSamples, s \in SystemSamples :
           LET over == [child  |-> c = "hot",
                        system |-> s = "busy" /\ c \in {"warm", "hot"}]
           IN  /\ streaks' = [w \in {"child", "system"} |-> Streak(streaks[w], over[w])]
               /\ sampled' = sampled \cup (IF c = "failed" THEN {} ELSE {"child"})
                                     \cup (IF s = "failed" THEN {} ELSE {"system"})
               /\ recent' = Remember(over)
    ELSE UNCHANGED cpuVars

SustainedLonger(n) == n > SustainedSamples

SustainedSince(n) == n >= SustainedSamples

\* What is wrong at this poll, with memory low or not; at most one of the system calls fails.
Wrong(low, fault) ==
    {check \in {"wait", "status", "query"} : check = fault}
    \cup (IF low \/ fault = "status" THEN {"memory"} ELSE {})
    \cup (IF SustainedSince(streaks'.child) THEN {"child_cpu"} ELSE {})
    \cup (IF SustainedSince(streaks'.system) THEN {"system_cpu"} ELSE {})
    \cup (IF TimedOut THEN {"timeout"} ELSE {})

Faults == {"none", "wait", "status", "query"}

\* One turn of the loop while the child has not ended.  The reason is the
\* first check, in the program's order, that finds something.
Poll ==
    /\ stage = "watch" /\ child.life # "dead"
    /\ SampleCpu
    /\ \E low \in BOOLEAN, fault \in Faults :
         /\ Tick(low)
         /\ LET found == {i \in DOMAIN Checks : Checks[i] \in Wrong(low, fault) \ Rested}
            IN  IF found = {} THEN UNCHANGED <<stage, reason>>
                ELSE /\ stage' = "stop"
                     /\ reason' = Checks[CHOOSE i \in found : \A j \in found : i <= j]
    /\ UNCHANGED <<program, run, job, child, exit, guard, result>>

-----------------------------------------------------------------------------
(***************************************************************************)
(* The end                                                                 *)
(***************************************************************************)
\* TerminateJobObject; the child may have ended since the poll.
Stop ==
    /\ stage = "stop"
    /\ child' = Kill(Watch[program].killed)
    /\ stage' = "settle"
    /\ FreshLoop
    /\ UNCHANGED <<program, run, job, exit, reason, guard, result>>

\* The child has ended, or five seconds are over.
Settle ==
    /\ stage = "settle"
    /\ stage' = "report"
    /\ UNCHANGED <<program, run, job, child, exit, clockVars, cpuVars,
                   reason, guard, result>>

\* GetExitCodeProcess
ExitCodes == {IF child.life = "dead" THEN child.code ELSE StillActive,
              Final[program].assumed}

StatusByCode(code) ==
    IF code = 0 THEN "pass" ELSE IF reason # "none" THEN "aborted" ELSE "fail"

Status(code) ==
    IF reason # "none" THEN "aborted" ELSE IF code = 0 THEN "pass" ELSE "fail"

Report ==
    /\ stage = "report"
    /\ \E code \in ExitCodes :
         /\ WriteGuard(Status(code))
         /\ exit' = IF reason # "none" THEN SafetyAbort ELSE code
    /\ stage' = "leave"
    /\ UNCHANGED <<program, run, job, child, clockVars, cpuVars, reason, result>>

CloseHandles ==
    /\ child' = Orphaned
    /\ job' = {}
    /\ stage' = "gone"
    /\ reason' = "none"
    /\ FreshLoop

Leave ==
    /\ stage = "leave"
    /\ CloseHandles
    /\ UNCHANGED <<program, run, exit, guard, result>>

\* The launcher is closed by its user, or throws: the system closes its handles.
Dies ==
    /\ stage # "gone"
    /\ CloseHandles
    /\ exit' = Died
    /\ UNCHANGED <<program, run, guard, result>>

\* The program is launched again.
Again ==
    /\ stage = "gone" /\ run < MaxRuns /\ child.life \in {"none", "dead"}
    /\ run' = run + 1
    /\ stage' = Steps[1]
    /\ child' = NoChild /\ exit' = 0
    /\ UNCHANGED <<program, job, clockVars, cpuVars, reason, guard, result>>

-----------------------------------------------------------------------------
(***************************************************************************)
(* The child                                                               *)
(***************************************************************************)
ChildReports ==
    /\ child.life = "running" /\ result # run
    /\ result' = run
    /\ UNCHANGED <<program, run, stage, job, child, exit, clockVars, cpuVars,
                   reason, guard>>

\* A worker returns 0 only after it has written its result.
ChildEnds ==
    /\ child.life = "running"
    /\ \E code \in {0, WorkerFail} :
         /\ code = 0 => result = run
         /\ child' = [child EXCEPT !.life = "dead", !.code = code]
    /\ UNCHANGED <<program, run, stage, job, exit, clockVars, cpuVars,
                   reason, guard, result>>

KernelKills ==
    /\ child.life = "dying"
    /\ child' = [child EXCEPT !.life = "dead"]
    /\ UNCHANGED <<program, run, stage, job, exit, clockVars, cpuVars,
                   reason, guard, result>>

Launching == \E i \in DOMAIN Steps : LaunchStep(Steps[i]) \/ LaunchFails(Steps[i])

Launcher == Launching \/ Resume \/ SeesChildEnd \/ Poll \/ Stop \/ Settle \/ Report \/ Leave

Next ==
    \/ Launcher \/ Dies \/ Again
    \/ ChildReports \/ ChildEnds \/ KernelKills

Spec == Init /\ [][Next]_vars

\* The launcher is scheduled, and a process that is killed ends.
FairSpec == Spec /\ WF_vars(Launcher) /\ WF_vars(KernelKills)

-----------------------------------------------------------------------------
TypeOK ==
    /\ program \in Programs /\ run \in 1 .. MaxRuns
    /\ stage \in {Steps[i] : i \in DOMAIN Steps}
                   \cup {"watch", "stop", "settle", "report", "leave", "gone"}
    /\ job \subseteq {"memory", "kill", "rate"}
    /\ child \in [life : {"none", "suspended", "running", "dying", "dead"},
                  contained : BOOLEAN, code : Nat]
    /\ exit \in Nat
    /\ now \in 0 .. ClockSize - 1 /\ started \in 0 .. ClockSize - 1
    /\ lastCheck \in 0 .. ClockSize - 1
    /\ streaks \in [{"child", "system"} -> 0 .. SustainedSamples]
    /\ sampled \subseteq {"child", "system"}
    /\ recent \in Seq([child : BOOLEAN, system : BOOLEAN])
    /\ reason \in {"none"} \cup {Checks[i] : i \in DOMAIN Checks}
    /\ guard \in [run : 0 .. MaxRuns,
                  status : {"none", "not_started", "aborted", "pass", "fail"}]
    /\ result \in 0 .. MaxRuns
    /\ elapsed \in Nat /\ lowFor \in Nat

\* "Containment installed BEFORE the test starts": the child runs only under
\* every limit its launcher sets, in a job that dies with the launcher, and
\* while the launcher is there.
RunsContained ==
    child.life = "running" =>
        /\ child.contained /\ stage # "gone"
        /\ {"memory", "kill"} \subseteq job
        /\ (\E i \in DOMAIN Steps : Steps[i] = "rate") => "rate" \in job

\* A launcher that has returned, been closed or thrown leaves behind no
\* process but one that is ending, or one that never was resumed because the
\* launcher was closed between CreateProcessW and AssignProcessToJobObject.
NothingIsLeftRunning ==
    stage = "gone" => \/ child.life \in {"none", "dying", "dead"}
                      \/ child.life = "suspended" /\ ~child.contained /\ exit = Died

\* The child does not run on under a memory shortage for longer than one
\* poll and, where the checks rest, their 250 ms.
ShortageIsBounded ==
    stage = "watch" =>
        IF Watch[program].rested = {} THEN lowFor = 0
        ELSE lowFor < Watch[program].period + MaxLateness + SafetyTicks

\* "They require sustained violation over multiple 250 ms samples": an abort
\* for CPU comes exactly when the last SustainedSamples samples were all over
\* the limit, in spite of failed samples and of the first that says nothing.
CpuAbortIsEarned ==
    LET all(who) == Len(recent) = SustainedSamples /\ \A i \in DOMAIN recent : recent[i][who]
    IN  /\ stage = "watch" => ~all("child") /\ ~all("system")
        /\ stage = "stop" /\ reason = "child_cpu" => all("child")
        /\ stage = "stop" /\ reason = "system_cpu" => all("system")

\* The hard timeout holds although GetTickCount starts again at 0.
TimeoutHolds ==
    stage = "watch" /\ Looks("timeout") => elapsed < Timeout

\* A launcher that came as far as to watch its child leaves a guard file that
\* is of this run and agrees with the exit code; it says COMPLETED_PASS only
\* of a child that ended by itself, content, after it wrote its result.
GuardTellsTheRun ==
    /\ stage \in {"leave", "gone"} /\ Final[program].writes
    /\ exit \notin {Died} \cup {FailureCode(Steps[i]) : i \in DOMAIN Steps}
    => /\ guard.run = run
       /\ guard.status = "aborted" <=> exit = SafetyAbort
       /\ guard.status = "pass" => exit = 0 /\ child.code = 0 /\ result = run

\* A launcher with a timeout returns, whatever the child does.
LauncherReturns ==
    Looks("timeout") => (stage = "watch" ~> stage = "gone")

\* "Closing this launcher also closes" the child, once it is in the job.
ChildIsClosed == (stage = "gone" /\ child.contained) ~> (child.life \in {"none", "dead"})
\* The child is contained from its first instruction to the end of its job.
ChildIsContained == RunsContained /\ NothingIsLeftRunning

\* The watchdog stops the child for each of its limits when it says it does:
\* neither late, nor for a load that was not sustained.
AbortsAreEarned == ShortageIsBounded /\ CpuAbortIsEarned /\ TimeoutHolds

\* The launcher and its child both come to their end.
BothEnd == LauncherReturns /\ ChildIsClosed
=============================================================================
