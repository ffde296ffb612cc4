--------------------------- MODULE Launcher_proofs ---------------------------
(***************************************************************************)
(* Theorems about Launcher, for every set of launchers, every clock long   *)
(* enough for the timeout and every number of samples, with their proofs.  *)
(*                                                                         *)
(* LaunchInv is the inductive invariant.  How far the launch is tells what *)
(* the child and the job must be (ChildFollowsLaunch, JobFollowsLaunch);   *)
(* the child's code tells whether it wrote its result (ChildTellsItsEnd),  *)
(* which makes the guard file true (GuardAgrees); the ticks that have been *)
(* counted are those the clock shows, although it comes round              *)
(* (LowIsCounted, TimeIsCounted); and a streak is as long as the samples   *)
(* over the limit at the end of those remembered (StreaksTrail).           *)
(***************************************************************************)
EXTENDS Launcher, SequenceTheorems, TLAPS

-----------------------------------------------------------------------------
(***************************************************************************)
(* The programs' data                                                      *)
(***************************************************************************)
\* The two orders of a launch, written out
LaunchSteps == {"privilege", "status", "headroom", "job", "limits", "rate", "create",
                "assign", "notification", "resume"}

CappedOrder == <<"privilege", "status", "headroom", "job", "limits", "rate",
                 "create", "assign", "notification", "resume">>
UncappedOrder == <<"privilege", "status", "headroom", "job", "limits",
                   "create", "assign", "notification", "resume">>

\* The model joins the parts that the programs share.
LEMMA OrderIsLaunch == Capped = CappedOrder /\ Uncapped = UncappedOrder
<1> USE DEF Screening, Containing
<1>1. /\ Capped \in Seq(LaunchSteps) /\ CappedOrder \in Seq(LaunchSteps)
      /\ Uncapped \in Seq(LaunchSteps) /\ UncappedOrder \in Seq(LaunchSteps)
  <2> USE DEF LaunchSteps
  <2>1. Screening \in Seq(LaunchSteps) /\ Containing \in Seq(LaunchSteps)
    OBVIOUS
  <2>2. /\ <<"job", "limits", "rate">> \in Seq(LaunchSteps)
        /\ <<"job", "limits">> \in Seq(LaunchSteps)
    OBVIOUS
  <2>3. /\ Screening \o <<"job", "limits", "rate">> \in Seq(LaunchSteps)
        /\ Screening \o <<"job", "limits">> \in Seq(LaunchSteps)
    BY <2>1, <2>2, ConcatProperties, Zenon
  <2>4. Capped \in Seq(LaunchSteps) /\ Uncapped \in Seq(LaunchSteps)
    BY <2>1, <2>3, ConcatProperties, Zenon DEF Capped, Uncapped
  <2> QED BY <2>4 DEF CappedOrder, UncappedOrder
<1>2. Len(Capped) = 10 /\ Len(Uncapped) = 9
  BY DEF Capped, Uncapped
<1>3. \A i \in 1 .. 10 : Capped[i] = CappedOrder[i]
  BY DEF Capped, CappedOrder
<1>4. \A i \in 1 .. 9 : Uncapped[i] = UncappedOrder[i]
  BY DEF Uncapped, UncappedOrder
<1>5. Len(CappedOrder) = 10 /\ Len(UncappedOrder) = 9
  BY DEF CappedOrder, UncappedOrder
<1> QED BY <1>1, <1>2, <1>3, <1>4, <1>5, SeqEqual

\* Which order a program follows, and the codes of a child it cannot guard.
LEMMA LaunchData ==
    ASSUME NEW p \in Programs
    PROVE  /\ Launch[p].steps \in {CappedOrder, UncappedOrder}
           /\ Launch[p].unassigned \in {70, 90} /\ Launch[p].unwatched \in {71, 91}
<1>1. p \in {"phase10", "phase11", "phase12", "phase13", "phase14", "evaluator", "workbench"}
  BY ProgramsAssumption DEF Launch
<1> QED
  BY <1>1, OrderIsLaunch DEF Launch, Phase10Launch, Phase11Launch, Phase12Launch,
     Phase13Launch,
     Phase14Launch, EvaluatorLaunch, WorkbenchLaunch

HasRate == \E i \in DOMAIN Steps : Steps[i] = "rate"

\* The step after each, for either order
Following(step) ==
    CASE step = "privilege"    -> "status"
      [] step = "status"       -> "headroom"
      [] step = "headroom"     -> "job"
      [] step = "job"          -> "limits"
      [] step = "limits"       -> IF HasRate THEN "rate" ELSE "create"
      [] step = "rate"         -> "create"
      [] step = "create"       -> "assign"
      [] step = "assign"       -> "notification"
      [] step = "notification" -> "resume"
      [] OTHER                 -> "watch"

\* No step of a launch comes twice, so its name tells its position.
LEMMA PositionOfStep ==
    ASSUME program \in Programs, NEW i \in DOMAIN Steps
    PROVE  Position(Steps[i]) = i
<1>1. Steps \in {CappedOrder, UncappedOrder}
  BY LaunchData DEF Steps
<1>2. ASSUME NEW j \in DOMAIN Steps, NEW k \in DOMAIN Steps, Steps[j] = Steps[k]
      PROVE  j = k
  <2>1. CASE Steps = CappedOrder
    <3>1. j \in 1 .. 10 /\ k \in 1 .. 10
      BY <2>1 DEF CappedOrder
    <3> QED BY <1>2, <2>1, <3>1 DEF CappedOrder
  <2>2. CASE Steps = UncappedOrder
    <3>1. j \in 1 .. 9 /\ k \in 1 .. 9
      BY <2>2 DEF UncappedOrder
    <3> QED BY <1>2, <2>2, <3>1 DEF UncappedOrder
  <2> QED BY <1>1, <2>1, <2>2
<1> QED BY <1>2 DEF Position

\* What a step of a launch is followed by, and returns when it fails.
LEMMA StepTable ==
    ASSUME program \in Programs, NEW i \in DOMAIN Steps
    PROVE  /\ Steps[i] \in LaunchSteps
           /\ After(Steps[i]) = Following(Steps[i])
           /\ After(Steps[i]) = "watch" \/ After(Steps[i]) \in {Steps[j] : j \in DOMAIN Steps}
           /\ FailureCode(Steps[i]) \in Nat
<1>1. Steps \in {CappedOrder, UncappedOrder}
  BY LaunchData DEF Steps
<1>2. Position(Steps[i]) = i
  BY PositionOfStep
<1>3. CASE Steps = CappedOrder
  <2>1. i \in 1 .. 10 /\ DOMAIN Steps = 1 .. 10 /\ Len(Steps) = 10
    BY <1>3 DEF CappedOrder
  <2>2. HasRate
    <3>1. Steps[6] = "rate"
      BY <1>3 DEF CappedOrder
    <3> QED BY <2>1, <3>1 DEF HasRate
  <2>3. Steps[i] \in LaunchSteps
    BY <1>3, <2>1 DEF CappedOrder, LaunchSteps
  <2>4. After(Steps[i]) = IF i = 10 THEN "watch" ELSE Steps[i + 1]
    BY <1>2, <2>1 DEF After
  <2>5. After(Steps[i]) = Following(Steps[i])
    BY <1>3, <2>1, <2>2, <2>4 DEF CappedOrder, Following
  <2> QED BY <1>2, <2>1, <2>3, <2>4, <2>5 DEF FailureCode
<1>4. CASE Steps = UncappedOrder
  <2>1. i \in 1 .. 9 /\ DOMAIN Steps = 1 .. 9 /\ Len(Steps) = 9
    BY <1>4 DEF UncappedOrder
  <2>2. ~HasRate
    BY <1>4, <2>1 DEF HasRate, UncappedOrder
  <2>3. Steps[i] \in LaunchSteps
    BY <1>4, <2>1 DEF UncappedOrder, LaunchSteps
  <2>4. After(Steps[i]) = IF i = 9 THEN "watch" ELSE Steps[i + 1]
    BY <1>2, <2>1 DEF After
  <2>5. After(Steps[i]) = Following(Steps[i])
    BY <1>4, <2>1, <2>2, <2>4 DEF UncappedOrder, Following
  <2> QED BY <1>2, <2>1, <2>3, <2>4, <2>5 DEF FailureCode
<1> QED BY <1>1, <1>3, <1>4

CheckNames == {"wait", "status", "query", "memory", "child_cpu", "system_cpu", "timeout"}

\* Every watchdog looks at the memory; only phase 13 lets checks rest, and
\* none of those that keep the time.
LEMMA WatchData ==
    ASSUME NEW p \in Programs
    PROVE  /\ Watch[p].period \in {1, SafetyTicks} /\ Watch[p].killed \in {72, 92}
           /\ Watch[p].rested \in {{}, {"query", "memory"}}
           /\ Watch[p].rested # {} => Watch[p].period = 1
           /\ DOMAIN Watch[p].checks \subseteq 1 .. 7
           /\ \A i \in DOMAIN Watch[p].checks : Watch[p].checks[i] \in CheckNames
           /\ \E i \in DOMAIN Watch[p].checks : Watch[p].checks[i] = "memory"
           /\ (\E i \in DOMAIN Watch[p].checks : Watch[p].checks[i] = "child_cpu")
              => \E i \in DOMAIN Watch[p].checks : Watch[p].checks[i] = "system_cpu"
<1>1. p \in {"phase10", "phase11", "phase12", "phase13", "phase14", "evaluator", "workbench"}
  BY ProgramsAssumption DEF Launch
<1> DEFINE w == Watch[p]
<1>2. /\ w.period \in {1, SafetyTicks} /\ w.killed \in {72, 92}
      /\ w.rested \in {{}, {"query", "memory"}}
      /\ w.rested # {} => w.period = 1
  BY <1>1 DEF Watch, Phase10Watch, Phase11Watch, Phase12Watch, Phase13Watch, Phase14Watch,
     EvaluatorWatch, WorkbenchWatch
<1>3. w.checks \in {MemoryChecks, Phase13Watch.checks, Phase14Watch.checks,
                    EvaluatorWatch.checks, WorkbenchWatch.checks}
  BY <1>1 DEF Watch, Phase10Watch, Phase11Watch, Phase12Watch
<1>4. /\ DOMAIN MemoryChecks = 1 .. 5 /\ DOMAIN Phase13Watch.checks = 1 .. 4
      /\ DOMAIN Phase14Watch.checks = 1 .. 7 /\ DOMAIN EvaluatorWatch.checks = 1 .. 7
      /\ DOMAIN WorkbenchWatch.checks = 1 .. 6
  BY DEF MemoryChecks, Phase13Watch, Phase14Watch, EvaluatorWatch, WorkbenchWatch
<1>5. \A i \in DOMAIN w.checks : w.checks[i] \in CheckNames
  BY <1>3, <1>4 DEF MemoryChecks, Phase13Watch, Phase14Watch, EvaluatorWatch,
     WorkbenchWatch,
     CheckNames
<1>6. \E i \in DOMAIN w.checks : w.checks[i] = "memory"
  <2>1. /\ MemoryChecks[4] = "memory" /\ Phase13Watch.checks[3] = "memory"
        /\ Phase14Watch.checks[6] = "memory" /\ EvaluatorWatch.checks[4] = "memory"
        /\ WorkbenchWatch.checks[4] = "memory"
    BY DEF MemoryChecks, Phase13Watch, Phase14Watch, EvaluatorWatch, WorkbenchWatch
  <2> QED BY <1>3, <1>4, <2>1
<1>7. CASE w.checks \in {MemoryChecks, Phase13Watch.checks}
  <2>1. \A i \in DOMAIN w.checks : w.checks[i] # "child_cpu"
    BY <1>4, <1>7 DEF MemoryChecks, Phase13Watch
  <2> QED BY <1>2, <1>3, <1>4, <1>5, <1>6, <2>1
<1>8. CASE w.checks \in {Phase14Watch.checks, EvaluatorWatch.checks, WorkbenchWatch.checks}
  <2>1. /\ Phase14Watch.checks[3] = "system_cpu" /\ EvaluatorWatch.checks[6] = "system_cpu"
        /\ WorkbenchWatch.checks[6] = "system_cpu"
    BY DEF Phase14Watch, EvaluatorWatch, WorkbenchWatch
  <2>2. \E i \in DOMAIN w.checks : w.checks[i] = "system_cpu"
    BY <1>4, <1>8, <2>1
  <2> QED BY <1>2, <1>3, <1>4, <1>5, <1>6, <2>2
<1> QED BY <1>3, <1>7, <1>8

\* What is assumed of a child that cannot be asked.
LEMMA FinalData ==
    ASSUME NEW p \in Programs
    PROVE  /\ Final[p].assumed \in {0, 999}
           /\ Final[p].writes => Final[p].assumed = 999
<1>1. p \in {"phase10", "phase11", "phase12", "phase13", "phase14", "evaluator", "workbench"}
  BY ProgramsAssumption DEF Launch
<1> QED
  BY <1>1 DEF Final, Phase10Report, Phase11Report, Phase12Report, Phase13Report,
     Phase14Report,
     EvaluatorReport, WorkbenchReport

\* The program's checks are few: the first that finds something exists.
LEMMA Smallest ==
    ASSUME NEW S \in SUBSET (1 .. 7), S # {}
    PROVE  \E i \in S : \A j \in S : i <= j
<1> SUFFICES ASSUME \A i \in S : \E j \in S : j < i
             PROVE  FALSE
  OBVIOUS
<1>1. 1 \notin S
  OBVIOUS
<1>2. 2 \notin S
  BY <1>1
<1>3. 3 \notin S
  BY <1>1, <1>2
<1>4. 4 \notin S
  BY <1>1, <1>2, <1>3
<1>5. 5 \notin S
  BY <1>1, <1>2, <1>3, <1>4
<1>6. 6 \notin S
  BY <1>1, <1>2, <1>3, <1>4, <1>5
<1>7. 7 \notin S
  BY <1>1, <1>2, <1>3, <1>4, <1>5, <1>6
<1>8. \A i \in S : i \in {1, 2, 3, 4, 5, 6, 7}
  OBVIOUS
<1> QED BY <1>1, <1>2, <1>3, <1>4, <1>5, <1>6, <1>7, <1>8

\* A turn of the loop either finds nothing and goes on, or stops for something
\* that it found.
LEMMA PollFinds ==
    ASSUME program \in Programs, Poll
    PROVE  \E low \in BOOLEAN, fault \in Faults :
             /\ Tick(low)
             /\ \/ /\ stage' = "watch" /\ reason' = reason
                   /\ \A i \in DOMAIN Checks : Checks[i] \notin Wrong(low, fault) \ Rested
                \/ /\ stage' = "stop"
                   /\ \E i \in DOMAIN Checks :
                        reason' = Checks[i] /\ Checks[i] \in Wrong(low, fault) \ Rested
<1>1. PICK low \in BOOLEAN, fault \in Faults :
        /\ Tick(low)
        /\ LET found == {i \in DOMAIN Checks : Checks[i] \in Wrong(low, fault) \ Rested}
           IN  IF found = {} THEN UNCHANGED <<stage, reason>>
               ELSE /\ stage' = "stop"
                    /\ reason' = Checks[CHOOSE i \in found : \A j \in found : i <= j]
  BY DEF Poll
<1> DEFINE found == {i \in DOMAIN Checks : Checks[i] \in Wrong(low, fault) \ Rested}
<1>2. CASE found = {}
  BY <1>1, <1>2 DEF Poll
<1>3. CASE found # {}
  <2>1. found \in SUBSET (1 .. 7)
    BY WatchData DEF Checks
  <2>2. \E i \in found : \A j \in found : i <= j
    BY <1>3, <2>1, Smallest
  <2> DEFINE first == CHOOSE i \in found : \A j \in found : i <= j
  <2>3. first \in found
    BY <2>2
  <2>4. stage' = "stop" /\ reason' = Checks[first]
    BY <1>1, <1>3
  <2> QED BY <1>1, <2>3, <2>4
<1> QED BY <1>2, <1>3

-----------------------------------------------------------------------------
(***************************************************************************)
(* Types                                                                   *)
(***************************************************************************)
Children == [life : {"none", "suspended", "running", "dying", "dead"},
             contained : BOOLEAN, code : Nat]

StepNames == {Steps[i] : i \in DOMAIN Steps}
LoopStages == {"watch", "stop", "settle", "report", "leave"}

RunTypes ==
    /\ program \in Programs /\ run \in 1 .. MaxRuns /\ result \in 0 .. MaxRuns
    /\ stage \in StepNames \cup LoopStages \cup {"gone"}
    /\ job \subseteq {"memory", "kill", "rate"}
    /\ exit \in Nat
    /\ reason \in {"none"} \cup {Checks[i] : i \in DOMAIN Checks}

ChildTypes == child \in Children

GuardTypes ==
    guard \in [run : 0 .. MaxRuns, status : {"none", "not_started", "aborted", "pass", "fail"}]

ClockTypes ==
    /\ now \in 0 .. ClockSize - 1 /\ started \in 0 .. ClockSize - 1
    /\ lastCheck \in 0 .. ClockSize - 1
    /\ elapsed \in Nat /\ lowFor \in Nat

SampleTypes ==
    /\ streaks \in [{"child", "system"} -> Nat]
    /\ sampled \subseteq {"child", "system"}
    /\ recent \in Seq([child : BOOLEAN, system : BOOLEAN])

\* What becomes of a child that is told to end.
LEMMA KillOutcome ==
    ASSUME ChildTypes, NEW code \in Nat
    PROVE  /\ Kill(code) \in Children
           /\ Kill(code).contained = child.contained
           /\ child.life \in {"suspended", "running"} =>
                Kill(code).life = "dying" /\ Kill(code).code = code
           /\ child.life \notin {"suspended", "running"} => Kill(code) = child
<1>1. CASE child.life \in {"suspended", "running"}
  <2>1. Kill(code) = [child EXCEPT !.life = "dying", !.code = code]
    BY <1>1 DEF Kill
  <2>2. Kill(code) \in Children
    BY <2>1 DEF ChildTypes, Children
  <2>3. Kill(code).contained = child.contained
    BY <2>1 DEF ChildTypes, Children
  <2>4. Kill(code).life = "dying" /\ Kill(code).code = code
    BY <2>1 DEF ChildTypes, Children
  <2> QED BY <1>1, <2>2, <2>3, <2>4
<1>2. CASE child.life \notin {"suspended", "running"}
  BY <1>2 DEF Kill, ChildTypes
<1> QED BY <1>1, <1>2

\* And when the last handle of its job is closed.
LEMMA OrphanedOutcome ==
    ASSUME ChildTypes
    PROVE  /\ Orphaned \in Children /\ Orphaned.contained = child.contained
           /\ Orphaned = Kill(0) \/ Orphaned = child
           /\ child.contained /\ "kill" \in job => Orphaned = Kill(0)
<1>1. Kill(0) \in Children /\ Kill(0).contained = child.contained
  BY KillOutcome
<1> QED BY <1>1 DEF Orphaned, ChildTypes

\* The child stays a process.
LEMMA ChildTypesStay ==
    ASSUME RunTypes, ChildTypes, Next
    PROVE  ChildTypes'
<1> USE DEF clockVars, cpuVars
<1>1. ASSUME NEW i \in DOMAIN Steps, LaunchStep(Steps[i])
      PROVE  ChildTypes'
  <2>1. CASE Steps[i] = "create"
    <3>1. child' = [life |-> "suspended", contained |-> FALSE, code |-> StillActive]
      BY <1>1, <2>1 DEF LaunchStep, Done
    <3> QED BY <3>1 DEF ChildTypes, Children, StillActive
  <2>2. CASE Steps[i] = "assign"
    BY <1>1, <2>2 DEF LaunchStep, Done, ChildTypes, Children
  <2>3. CASE Steps[i] \notin {"create", "assign"}
    BY <1>1, <2>3 DEF LaunchStep, Done, ChildTypes
  <2> QED BY <2>1, <2>2, <2>3
<1>2. ASSUME NEW i \in DOMAIN Steps, LaunchFails(Steps[i])
      PROVE  ChildTypes'
  <2>1. Launch[program].unassigned \in Nat /\ Launch[program].unwatched \in Nat
    BY LaunchData DEF RunTypes
  <2> QED BY <1>2, <2>1, KillOutcome DEF LaunchFails, ChildTypes
<1>3. CASE Resume
  <2>1. CASE Done("resume")
    BY <2>1 DEF Done, ChildTypes, Children
  <2> QED BY <1>3, <2>1 DEF Resume, ChildTypes
<1>4. CASE SeesChildEnd
  BY <1>4 DEF SeesChildEnd, ChildTypes
<1>5. CASE Poll
  BY <1>5 DEF Poll, ChildTypes
<1>6. CASE Stop
  <2>1. Watch[program].killed \in Nat
    BY WatchData DEF RunTypes
  <2> QED BY <1>6, <2>1, KillOutcome DEF Stop, ChildTypes
<1>7. CASE Settle
  BY <1>7 DEF Settle, ChildTypes
<1>8. CASE Report
  BY <1>8 DEF Report, ChildTypes
<1>9. CASE Leave
  BY <1>9, OrphanedOutcome DEF Leave, CloseHandles, ChildTypes
<1>10. CASE Dies
  BY <1>10, OrphanedOutcome DEF Dies, CloseHandles, ChildTypes
<1>11. CASE Again
  BY <1>11 DEF Again, NoChild, Children, ChildTypes
<1>12. CASE ChildReports
  BY <1>12 DEF ChildReports, ChildTypes
<1>13. CASE ChildEnds
  <2>1. PICK code \in {0, WorkerFail} : child' = [child EXCEPT !.life = "dead", !.code = code]
    BY <1>13 DEF ChildEnds
  <2>2. code \in Nat
    BY DEF WorkerFail
  <2> QED BY <2>1, <2>2 DEF ChildTypes, Children
<1>14. CASE KernelKills
  BY <1>14 DEF KernelKills, Children, ChildTypes
<1> QED
  BY <1>1, <1>2, <1>3, <1>4, <1>5, <1>6, <1>7, <1>8, <1>9, <1>10, <1>11, <1>12, <1>13,
     <1>14 DEF Next, Launcher, Launching

\* So does what tells how far the run is.
LEMMA RunTypesStay ==
    ASSUME RunTypes, ChildTypes, Next
    PROVE  RunTypes'
<1> USE DEF clockVars, cpuVars
<1>1. ASSUME NEW i \in DOMAIN Steps, LaunchStep(Steps[i])
      PROVE  RunTypes'
  <2>1. stage' = After(Steps[i]) /\ program' = program /\ UNCHANGED <<run, exit, reason, result>>
    BY <1>1 DEF LaunchStep
  <2>2. stage' \in StepNames \cup LoopStages
    BY <2>1, StepTable DEF RunTypes, StepNames, LoopStages
  <2>3. job' \subseteq {"memory", "kill", "rate"}
    BY <1>1 DEF LaunchStep, Done, RunTypes
  <2> QED BY <2>1, <2>2, <2>3 DEF RunTypes, StepNames, Steps, Checks
<1>2. ASSUME NEW i \in DOMAIN Steps, LaunchFails(Steps[i])
      PROVE  RunTypes'
  <2>1. FailureCode(Steps[i]) \in Nat
    BY StepTable DEF RunTypes
  <2> QED BY <1>2, <2>1 DEF LaunchFails, RunTypes, StepNames, Steps, Checks
<1>3. CASE Resume
  <2>1. stage' = After("resume") /\ program' = program /\ UNCHANGED <<run, exit, reason, result>>
    BY <1>3 DEF Resume
  <2>2. PICK i \in DOMAIN Steps : Steps[i] = "resume"
    BY <1>3 DEF Resume, RunTypes, StepNames, LoopStages
  <2>3. stage' \in StepNames \cup LoopStages
    BY <2>1, <2>2, StepTable DEF RunTypes, StepNames, LoopStages
  <2>4. job' \subseteq {"memory", "kill", "rate"}
    BY <1>3 DEF Resume, Done, RunTypes
  <2> QED BY <2>1, <2>3, <2>4 DEF RunTypes, StepNames, Steps, Checks
<1>4. CASE SeesChildEnd
  BY <1>4 DEF SeesChildEnd, RunTypes, StepNames, LoopStages, Steps, Checks
<1>5. CASE Poll
  <2>1. UNCHANGED <<program, run, job, child, exit, guard, result>>
    BY <1>5 DEF Poll
  <2>2. stage' \in LoopStages /\ reason' \in {reason} \cup {Checks[i] : i \in DOMAIN Checks}
    BY <1>5, PollFinds DEF RunTypes, LoopStages
  <2> QED BY <2>1, <2>2 DEF RunTypes, StepNames, Steps, Checks
<1>6. CASE Stop
  BY <1>6 DEF Stop, RunTypes, StepNames, LoopStages, Steps, Checks
<1>7. CASE Settle
  BY <1>7 DEF Settle, RunTypes, StepNames, LoopStages, Steps, Checks
<1>8. CASE Report
  <2>1. exit' \in Nat
    BY <1>8, FinalData DEF Report, ExitCodes, StillActive, SafetyAbort, RunTypes,
       ChildTypes, Children
  <2> QED BY <1>8, <2>1 DEF Report, RunTypes, StepNames, LoopStages, Steps, Checks
<1>9. CASE Leave
  BY <1>9 DEF Leave, CloseHandles, RunTypes, StepNames, LoopStages, Steps, Checks
<1>10. CASE Dies
  BY <1>10 DEF Dies, CloseHandles, Died, RunTypes, StepNames, LoopStages, Steps, Checks
<1>11. CASE Again
  <2>1. run' \in 1 .. MaxRuns
    BY <1>11, LauncherAssumption DEF Again, RunTypes
  <2>2. 1 \in DOMAIN Steps
    <3>1. Steps \in {CappedOrder, UncappedOrder}
      BY LaunchData DEF Steps, RunTypes
    <3> QED BY <3>1 DEF CappedOrder, UncappedOrder
  <2> QED BY <1>11, <2>1, <2>2 DEF Again, RunTypes, StepNames, Steps, Checks
<1>12. CASE ChildReports
  BY <1>12 DEF ChildReports, RunTypes, StepNames, LoopStages, Steps, Checks
<1>13. CASE ChildEnds
  BY <1>13 DEF ChildEnds, RunTypes, StepNames, LoopStages, Steps, Checks
<1>14. CASE KernelKills
  BY <1>14 DEF KernelKills, RunTypes, StepNames, LoopStages, Steps, Checks
<1> QED
  BY <1>1, <1>2, <1>3, <1>4, <1>5, <1>6, <1>7, <1>8, <1>9, <1>10, <1>11, <1>12, <1>13,
     <1>14 DEF Next, Launcher, Launching

\* And the guard file.
LEMMA GuardTypesStay ==
    ASSUME RunTypes, GuardTypes, Next
    PROVE  GuardTypes'
<1> USE DEF clockVars, cpuVars
<1>1. ASSUME NEW i \in DOMAIN Steps, LaunchStep(Steps[i])
      PROVE  GuardTypes'
  BY <1>1 DEF LaunchStep, GuardTypes
<1>2. ASSUME NEW i \in DOMAIN Steps, LaunchFails(Steps[i])
      PROVE  GuardTypes'
  BY <1>2, LauncherAssumption DEF LaunchFails, WriteGuard, RunTypes, GuardTypes
<1>3. CASE Resume
  BY <1>3 DEF Resume, GuardTypes
<1>4. CASE SeesChildEnd
  BY <1>4 DEF SeesChildEnd, GuardTypes
<1>5. CASE Poll
  BY <1>5 DEF Poll, GuardTypes
<1>6. CASE Stop
  BY <1>6 DEF Stop, GuardTypes
<1>7. CASE Settle
  BY <1>7 DEF Settle, GuardTypes
<1>8. CASE Report
  <2>1. PICK code \in ExitCodes : WriteGuard(Status(code))
    BY <1>8 DEF Report
  <2>2. Status(code) \in {"aborted", "pass", "fail"}
    BY DEF Status
  <2> QED BY <2>1, <2>2, LauncherAssumption DEF WriteGuard, RunTypes, GuardTypes
<1>9. CASE Leave
  BY <1>9 DEF Leave, CloseHandles, GuardTypes
<1>10. CASE Dies
  BY <1>10 DEF Dies, CloseHandles, GuardTypes
<1>11. CASE Again
  BY <1>11 DEF Again, GuardTypes
<1>12. CASE ChildReports
  BY <1>12 DEF ChildReports, GuardTypes
<1>13. CASE ChildEnds
  BY <1>13 DEF ChildEnds, GuardTypes
<1>14. CASE KernelKills
  BY <1>14 DEF KernelKills, GuardTypes
<1> QED
  BY <1>1, <1>2, <1>3, <1>4, <1>5, <1>6, <1>7, <1>8, <1>9, <1>10, <1>11, <1>12, <1>13,
     <1>14 DEF Next, Launcher, Launching

\* The clock stays within its size.
LEMMA ClockTypesStay ==
    ASSUME RunTypes, ClockTypes, Next
    PROVE  ClockTypes'
<1> USE DEF clockVars, cpuVars
<1>1. ASSUME NEW i \in DOMAIN Steps, LaunchStep(Steps[i])
      PROVE  ClockTypes'
  BY <1>1 DEF LaunchStep, ClockTypes
<1>2. ASSUME NEW i \in DOMAIN Steps, LaunchFails(Steps[i])
      PROVE  ClockTypes'
  BY <1>2 DEF LaunchFails, ClockTypes
<1>3. CASE Resume
  BY <1>3, LauncherAssumption DEF Resume, FreshLoop, ClockTypes
<1>4. CASE SeesChildEnd
  BY <1>4, LauncherAssumption DEF SeesChildEnd, FreshLoop, ClockTypes
<1>5. CASE Poll
  <2>1. PICK low \in BOOLEAN : Tick(low)
    BY <1>5 DEF Poll
  <2>2. PICK late \in 0 .. MaxLateness :
          LET ticks == Watch[program].period + late
          IN  /\ now' = (now + ticks) % ClockSize
              /\ elapsed' = IF Looks("timeout") THEN elapsed + ticks ELSE 0
              /\ lowFor' = IF low THEN lowFor + ticks ELSE 0
    BY <2>1 DEF Tick
  <2>3. Watch[program].period + late \in Nat
    BY WatchData, LauncherAssumption DEF RunTypes
  <2>4. now' \in 0 .. ClockSize - 1
    BY <2>2, <2>3, LauncherAssumption DEF ClockTypes
  <2>5. elapsed' \in Nat /\ lowFor' \in Nat
    BY <2>2, <2>3 DEF ClockTypes
  <2>6. lastCheck' \in {now', lastCheck} /\ started' = started
    BY <2>1 DEF Tick
  <2> QED BY <2>4, <2>5, <2>6 DEF ClockTypes
<1>6. CASE Stop
  BY <1>6, LauncherAssumption DEF Stop, FreshLoop, ClockTypes
<1>7. CASE Settle
  BY <1>7 DEF Settle, ClockTypes
<1>8. CASE Report
  BY <1>8 DEF Report, ClockTypes
<1>9. CASE Leave
  BY <1>9, LauncherAssumption DEF Leave, CloseHandles, FreshLoop, ClockTypes
<1>10. CASE Dies
  BY <1>10, LauncherAssumption DEF Dies, CloseHandles, FreshLoop, ClockTypes
<1>11. CASE Again
  BY <1>11 DEF Again, ClockTypes
<1>12. CASE ChildReports
  BY <1>12 DEF ChildReports, ClockTypes
<1>13. CASE ChildEnds
  BY <1>13 DEF ChildEnds, ClockTypes
<1>14. CASE KernelKills
  BY <1>14 DEF KernelKills, ClockTypes
<1> QED
  BY <1>1, <1>2, <1>3, <1>4, <1>5, <1>6, <1>7, <1>8, <1>9, <1>10, <1>11, <1>12, <1>13,
     <1>14 DEF Next, Launcher, Launching

-----------------------------------------------------------------------------
(***************************************************************************)
(* Containment                                                             *)
(***************************************************************************)
\* The child comes into being when it is created, into the job when it is
\* assigned, and runs only from its resumption on; what is left when the
\* launcher is gone is ending, or was never in the job.
ChildFollowsLaunch ==
    /\ stage \in {"privilege", "status", "headroom", "job", "limits", "rate", "create"} =>
         child.life = "none"
    /\ stage = "assign" => child.life = "suspended" /\ ~child.contained
    /\ stage \in {"notification", "resume"} => child.life = "suspended" /\ child.contained
    /\ stage \in LoopStages => child.life # "none" /\ child.contained
    /\ NothingIsLeftRunning

\* The job limits and kills once "limits" is done, and caps once "rate" is.
JobFollowsLaunch ==
    /\ stage \in {"rate", "create", "assign", "notification", "resume"} \cup LoopStages =>
         {"memory", "kill"} \subseteq job
    /\ stage \in {"create", "assign", "notification", "resume"} \cup LoopStages =>
         (HasRate => "rate" \in job)

\* A launcher is launching, in its loop or what follows it, or gone.
LEMMA StageIsKnown ==
    ASSUME RunTypes
    PROVE  stage \in LaunchSteps \cup LoopStages \cup {"gone"}
  BY StepTable DEF RunTypes, StepNames

\* The step the launch begins with.
LEMMA FirstStep ==
    ASSUME program \in Programs
    PROVE  1 \in DOMAIN Steps /\ Steps[1] = "privilege"
<1>1. Steps \in {CappedOrder, UncappedOrder}
  BY LaunchData DEF Steps
<1> QED BY <1>1 DEF CappedOrder, UncappedOrder

\* ResumeThread is the last step.
LEMMA AfterResume ==
    ASSUME RunTypes, stage = "resume"
    PROVE  After("resume") = "watch"
<1>1. PICK i \in DOMAIN Steps : Steps[i] = "resume"
  BY DEF RunTypes, StepNames, LoopStages
<1> QED BY <1>1, StepTable DEF RunTypes, Following

\* A step takes the child along.
LEMMA ChildFollows ==
    ASSUME RunTypes, ChildTypes, ChildFollowsLaunch, JobFollowsLaunch, Next
    PROVE  ChildFollowsLaunch'
<1> USE DEF clockVars, cpuVars
<1>1. ASSUME NEW i \in DOMAIN Steps, LaunchStep(Steps[i])
      PROVE  ChildFollowsLaunch'
  <2>1. stage' = Following(stage) /\ exit' = exit /\ stage = Steps[i] /\ stage # "resume"
    BY <1>1, StepTable DEF LaunchStep, RunTypes
  <2>2. stage \in LaunchSteps
    BY <2>1, StepTable DEF RunTypes
  <2>3. CASE stage = "create"
    <3>1. child' = [life |-> "suspended", contained |-> FALSE, code |-> StillActive]
      BY <1>1, <2>1, <2>3 DEF LaunchStep, Done
    <3>2. stage' = "assign"
      BY <2>1, <2>3 DEF Following
    <3> QED BY <3>1, <3>2 DEF ChildFollowsLaunch, NothingIsLeftRunning, LoopStages
  <2>4. CASE stage = "assign"
    <3>1. child' = [child EXCEPT !.contained = TRUE]
      BY <1>1, <2>1, <2>4 DEF LaunchStep, Done
    <3>2. stage' = "notification"
      BY <2>1, <2>4 DEF Following
    <3>3. child'.contained /\ child'.life = child.life
      BY <3>1 DEF ChildTypes, Children
    <3> QED BY <2>4, <3>2, <3>3 DEF ChildFollowsLaunch, NothingIsLeftRunning, LoopStages
  <2>5. CASE stage \notin {"create", "assign"}
    <3>1. child' = child
      BY <1>1, <2>1, <2>5 DEF LaunchStep, Done
    <3>2. stage \in {"privilege", "status", "headroom", "job", "limits", "rate", "notification"}
      BY <2>1, <2>2, <2>5 DEF LaunchSteps
    <3>3. stage = "notification" => stage' = "resume"
      BY <2>1 DEF Following
    <3>4. stage # "notification" =>
            stage' \in {"status", "headroom", "job", "limits", "rate", "create"}
      BY <2>1, <3>2 DEF Following
    <3> QED
      BY <3>1, <3>2, <3>3, <3>4 DEF ChildFollowsLaunch, NothingIsLeftRunning, LoopStages
  <2> QED BY <2>3, <2>4, <2>5
<1>2. ASSUME NEW i \in DOMAIN Steps, LaunchFails(Steps[i])
      PROVE  ChildFollowsLaunch'
  <2>1. Launch[program].unassigned \in Nat /\ Launch[program].unwatched \in Nat
    BY LaunchData DEF RunTypes
  <2>2. stage = Steps[i] /\ stage # "resume" /\ stage \in LaunchSteps /\ stage' = "gone"
    BY <1>2, StepTable DEF LaunchFails, RunTypes
  <2>3. CASE stage \in {"assign", "notification"}
    <3>1. child.life = "suspended"
      BY <2>3 DEF ChildFollowsLaunch
    <3>2. child'.life = "dying"
      BY <1>2, <2>1, <2>2, <2>3, <3>1, KillOutcome DEF LaunchFails
    <3> QED BY <2>2, <3>2 DEF ChildFollowsLaunch, NothingIsLeftRunning, LoopStages
  <2>4. CASE stage \notin {"assign", "notification"}
    <3>1. child' = child
      BY <1>2, <2>2, <2>4 DEF LaunchFails
    <3>2. child.life = "none"
      BY <2>2, <2>4 DEF ChildFollowsLaunch, LaunchSteps
    <3> QED BY <2>2, <3>1, <3>2 DEF ChildFollowsLaunch, NothingIsLeftRunning, LoopStages
  <2> QED BY <2>3, <2>4
<1>3. CASE Resume
  <2>1. stage' = "watch"
    BY <1>3, AfterResume DEF Resume
  <2>2. child.life = "suspended" /\ child.contained
    BY <1>3 DEF Resume, ChildFollowsLaunch
  <2>3. child' = child \/ child' = [child EXCEPT !.life = "running"]
    BY <1>3 DEF Resume, Done
  <2>4. child'.life # "none" /\ child'.contained = child.contained
    BY <2>2, <2>3 DEF ChildTypes, Children
  <2> QED BY <2>1, <2>2, <2>4 DEF ChildFollowsLaunch, NothingIsLeftRunning, LoopStages
<1>4. CASE SeesChildEnd
  BY <1>4 DEF SeesChildEnd, ChildFollowsLaunch, NothingIsLeftRunning, LoopStages
<1>5. CASE Poll
  <2>1. stage = "watch" /\ stage' \in LoopStages /\ child' = child
    BY <1>5, PollFinds DEF Poll, RunTypes, LoopStages
  <2> QED BY <2>1 DEF ChildFollowsLaunch, NothingIsLeftRunning, LoopStages
<1>6. CASE Stop
  <2>1. Watch[program].killed \in Nat
    BY WatchData DEF RunTypes
  <2>2. child'.life # "none" /\ child'.contained = child.contained
    BY <1>6, <2>1, KillOutcome DEF Stop, ChildFollowsLaunch, LoopStages, ChildTypes,
       Children
  <2> QED BY <1>6, <2>2 DEF Stop, ChildFollowsLaunch, NothingIsLeftRunning, LoopStages
<1>7. CASE Settle
  BY <1>7 DEF Settle, ChildFollowsLaunch, NothingIsLeftRunning, LoopStages
<1>8. CASE Report
  BY <1>8 DEF Report, ChildFollowsLaunch, NothingIsLeftRunning, LoopStages
<1>9. CASE Leave
  <2>1. stage' = "gone" /\ child' = Orphaned /\ child.contained /\ "kill" \in job
    BY <1>9 DEF Leave, CloseHandles, ChildFollowsLaunch, JobFollowsLaunch, LoopStages
  <2>2. child'.life \in {"none", "dying", "dead"}
    BY <2>1, OrphanedOutcome, KillOutcome DEF ChildTypes, Children
  <2> QED BY <2>1, <2>2 DEF ChildFollowsLaunch, NothingIsLeftRunning, LoopStages
<1>10. CASE Dies
  <2>1. stage' = "gone" /\ child' = Orphaned /\ exit' = Died /\ stage # "gone"
    BY <1>10 DEF Dies, CloseHandles
  <2>2. CASE child.contained /\ "kill" \in job
    <3>1. child'.life \in {"none", "dying", "dead"}
      BY <2>1, <2>2, OrphanedOutcome, KillOutcome DEF ChildTypes, Children
    <3> QED BY <2>1, <3>1 DEF ChildFollowsLaunch, NothingIsLeftRunning, LoopStages
  <2>3. CASE ~(child.contained /\ "kill" \in job)
    <3>1. child' = child
      BY <2>1, <2>3 DEF Orphaned
    <3>2. child.life = "none" \/ (child.life = "suspended" /\ ~child.contained)
      BY <2>1, <2>3, StageIsKnown DEF ChildFollowsLaunch, JobFollowsLaunch, LoopStages,
         LaunchSteps
    <3> QED BY <2>1, <3>1, <3>2 DEF ChildFollowsLaunch, NothingIsLeftRunning, LoopStages
  <2> QED BY <2>2, <2>3
<1>11. CASE Again
  <2>1. stage' = "privilege" /\ child'.life = "none"
    BY <1>11, FirstStep DEF Again, NoChild, RunTypes
  <2> QED BY <2>1 DEF ChildFollowsLaunch, NothingIsLeftRunning, LoopStages
<1>12. CASE ChildReports
  BY <1>12 DEF ChildReports, ChildFollowsLaunch, NothingIsLeftRunning, LoopStages
<1>13. CASE ChildEnds
  <2>1. stage' = stage /\ exit' = exit
    BY <1>13 DEF ChildEnds
  <2>2. child'.contained = child.contained
    BY <1>13 DEF ChildEnds, ChildTypes, Children
  <2>3. child.life = "running" /\ child'.life = "dead"
    BY <1>13 DEF ChildEnds, ChildTypes, Children
  <2> QED BY <2>1, <2>2, <2>3 DEF ChildFollowsLaunch, NothingIsLeftRunning, LoopStages
<1>14. CASE KernelKills
  <2>1. stage' = stage /\ exit' = exit
    BY <1>14 DEF KernelKills
  <2>2. child'.contained = child.contained
    BY <1>14 DEF KernelKills, ChildTypes, Children
  <2>3. child.life = "dying" /\ child'.life = "dead"
    BY <1>14 DEF KernelKills, ChildTypes, Children
  <2> QED BY <2>1, <2>2, <2>3 DEF ChildFollowsLaunch, NothingIsLeftRunning, LoopStages
<1> QED
  BY <1>1, <1>2, <1>3, <1>4, <1>5, <1>6, <1>7, <1>8, <1>9, <1>10, <1>11, <1>12, <1>13,
     <1>14 DEF Next, Launcher, Launching

\* A step keeps the limits that have been installed.
LEMMA JobFollows ==
    ASSUME RunTypes, JobFollowsLaunch, Next
    PROVE  JobFollowsLaunch'
<1> USE DEF clockVars, cpuVars
<1>1. ASSUME NEW i \in DOMAIN Steps, LaunchStep(Steps[i])
      PROVE  JobFollowsLaunch'
  <2>1. stage' = Following(stage) /\ stage = Steps[i] /\ stage # "resume" /\ program' = program
    BY <1>1, StepTable DEF LaunchStep, RunTypes
  <2>2. stage \in LaunchSteps /\ HasRate' = HasRate
    BY <2>1, StepTable DEF RunTypes, HasRate, Steps
  <2>3. CASE stage \in {"privilege", "status", "headroom", "job"}
    BY <2>1, <2>3 DEF Following, JobFollowsLaunch, LoopStages
  <2>4. CASE stage = "limits"
    <3>1. job' = job \cup {"memory", "kill"}
      BY <1>1, <2>1, <2>4 DEF LaunchStep, Done
    <3>2. stage' = IF HasRate THEN "rate" ELSE "create"
      BY <2>1, <2>4 DEF Following
    <3> QED BY <2>2, <3>1, <3>2 DEF JobFollowsLaunch, LoopStages
  <2>5. CASE stage = "rate"
    <3>1. job' = job \cup {"rate"}
      BY <1>1, <2>1, <2>5 DEF LaunchStep, Done
    <3> QED BY <2>5, <3>1 DEF JobFollowsLaunch
  <2>6. CASE stage \in {"create", "assign", "notification"}
    <3>1. job' = job
      BY <1>1, <2>1, <2>6 DEF LaunchStep, Done
    <3> QED BY <2>2, <2>6, <3>1 DEF JobFollowsLaunch
  <2> QED BY <2>1, <2>2, <2>3, <2>4, <2>5, <2>6 DEF LaunchSteps
<1>2. ASSUME NEW i \in DOMAIN Steps, LaunchFails(Steps[i])
      PROVE  JobFollowsLaunch'
  BY <1>2 DEF LaunchFails, JobFollowsLaunch, HasRate, Steps, LoopStages
<1>3. CASE Resume
  <2>1. stage' = "watch" /\ job' = job /\ stage = "resume"
    BY <1>3, AfterResume DEF Resume, Done
  <2>2. HasRate' = HasRate
    BY <1>3 DEF Resume, HasRate, Steps
  <2> QED BY <2>1, <2>2 DEF JobFollowsLaunch
<1>4. CASE SeesChildEnd
  BY <1>4 DEF SeesChildEnd, JobFollowsLaunch, HasRate, Steps, LoopStages
<1>5. CASE Poll
  <2>1. stage = "watch" /\ stage' \in LoopStages /\ job' = job
    BY <1>5, PollFinds DEF Poll, RunTypes, LoopStages
  <2>2. HasRate' = HasRate
    BY <1>5 DEF Poll, HasRate, Steps
  <2> QED BY <2>1, <2>2 DEF JobFollowsLaunch, LoopStages
<1>6. CASE Stop
  BY <1>6 DEF Stop, JobFollowsLaunch, HasRate, Steps, LoopStages
<1>7. CASE Settle
  BY <1>7 DEF Settle, JobFollowsLaunch, HasRate, Steps, LoopStages
<1>8. CASE Report
  BY <1>8 DEF Report, JobFollowsLaunch, HasRate, Steps, LoopStages
<1>9. CASE Leave
  BY <1>9 DEF Leave, CloseHandles, JobFollowsLaunch, HasRate, Steps, LoopStages
<1>10. CASE Dies
  BY <1>10 DEF Dies, CloseHandles, JobFollowsLaunch, HasRate, Steps, LoopStages
<1>11. CASE Again
  <2>1. stage' = "privilege"
    BY <1>11, FirstStep DEF Again, RunTypes
  <2> QED BY <2>1 DEF JobFollowsLaunch, LoopStages
<1>12. CASE ChildReports
  BY <1>12 DEF ChildReports, JobFollowsLaunch, HasRate, Steps, LoopStages
<1>13. CASE ChildEnds
  BY <1>13 DEF ChildEnds, JobFollowsLaunch, HasRate, Steps, LoopStages
<1>14. CASE KernelKills
  BY <1>14 DEF KernelKills, JobFollowsLaunch, HasRate, Steps, LoopStages
<1> QED
  BY <1>1, <1>2, <1>3, <1>4, <1>5, <1>6, <1>7, <1>8, <1>9, <1>10, <1>11, <1>12, <1>13,
     <1>14 DEF Next, Launcher, Launching

-----------------------------------------------------------------------------
(***************************************************************************)
(* The guard file                                                          *)
(***************************************************************************)
\* No child ends with the code of an abort, and one that is content has
\* written its result.
ChildTellsItsEnd ==
    /\ child.code # SafetyAbort
    /\ child.life \in {"dying", "dead"} /\ child.code = 0 /\ stage # "gone" => result = run

FailureCodes == {FailureCode(Steps[i]) : i \in DOMAIN Steps}

\* What the guard file says, until the child of the next run: GuardTellsTheRun
\* needs that a child that passed has ended, so that its code stands.
GuardAgrees ==
    /\ stage \in {"leave", "gone"} /\ Final[program].writes
    /\ exit \notin {Died} \cup FailureCodes
    => /\ guard.run = run
       /\ guard.status = "aborted" <=> exit = SafetyAbort
       /\ guard.status = "pass" =>
            /\ exit = 0 /\ result = run
            /\ child.life = "dead" /\ child.code = 0

\* A child's code is its own, or that of the launcher that stopped it.
LEMMA EndIsTold ==
    ASSUME RunTypes, ChildTypes, ChildFollowsLaunch, ChildTellsItsEnd, Next
    PROVE  ChildTellsItsEnd'
<1> USE DEF clockVars, cpuVars
<1>1. ASSUME NEW i \in DOMAIN Steps, LaunchStep(Steps[i])
      PROVE  ChildTellsItsEnd'
  <2>1. CASE Steps[i] = "create"
    <3>1. child' = [life |-> "suspended", contained |-> FALSE, code |-> StillActive]
      BY <1>1, <2>1 DEF LaunchStep, Done
    <3> QED BY <3>1 DEF ChildTellsItsEnd, StillActive, SafetyAbort
  <2>2. CASE Steps[i] # "create"
    <3>1. child' \in {child, [child EXCEPT !.contained = TRUE]}
      BY <1>1, <2>2 DEF LaunchStep, Done
    <3>2. child'.life = child.life /\ child'.code = child.code
      BY <3>1 DEF ChildTypes, Children
    <3>3. stage # "gone" /\ UNCHANGED <<run, result>>
      BY <1>1, StepTable DEF LaunchStep, RunTypes, LaunchSteps
    <3> QED BY <3>2, <3>3 DEF ChildTellsItsEnd
  <2> QED BY <2>1, <2>2
<1>2. ASSUME NEW i \in DOMAIN Steps, LaunchFails(Steps[i])
      PROVE  ChildTellsItsEnd'
  <2>1. /\ Launch[program].unassigned \in Nat \ {SafetyAbort}
        /\ Launch[program].unwatched \in Nat \ {SafetyAbort}
    BY LaunchData DEF RunTypes, SafetyAbort
  <2>2. child'.code # SafetyAbort
    BY <1>2, <2>1, KillOutcome DEF LaunchFails, ChildTellsItsEnd
  <2> QED BY <1>2, <2>2 DEF LaunchFails, ChildTellsItsEnd
<1>3. CASE Resume
  <2>1. stage = "resume" /\ child.life = "suspended" /\ result' = result /\ run' = run
    BY <1>3 DEF Resume, ChildFollowsLaunch
  <2>2. child' = child \/ child' = [child EXCEPT !.life = "running"]
    BY <1>3 DEF Resume, Done
  <2>3. child'.life \in {"suspended", "running"} /\ child'.code = child.code
    BY <2>1, <2>2 DEF ChildTypes, Children
  <2> QED BY <2>1, <2>3 DEF ChildTellsItsEnd
<1>4. CASE SeesChildEnd
  BY <1>4 DEF SeesChildEnd, ChildTellsItsEnd
<1>5. CASE Poll
  <2>1. UNCHANGED <<child, result, run>> /\ stage = "watch"
    BY <1>5 DEF Poll
  <2> QED BY <2>1 DEF ChildTellsItsEnd
<1>6. CASE Stop
  <2>1. Watch[program].killed \in Nat \ {0, SafetyAbort}
    BY WatchData DEF RunTypes, SafetyAbort
  <2>2. \/ child' = child
        \/ child'.code = Watch[program].killed
    BY <1>6, <2>1, KillOutcome DEF Stop
  <2> QED BY <1>6, <2>1, <2>2 DEF Stop, ChildTellsItsEnd
<1>7. CASE Settle
  BY <1>7 DEF Settle, ChildTellsItsEnd
<1>8. CASE Report
  BY <1>8 DEF Report, ChildTellsItsEnd
<1>9. CASE Leave
  <2>1. child'.code \in {0, child.code} /\ stage' = "gone"
    BY <1>9, OrphanedOutcome, KillOutcome DEF Leave, CloseHandles
  <2> QED BY <2>1 DEF ChildTellsItsEnd, SafetyAbort
<1>10. CASE Dies
  <2>1. child'.code \in {0, child.code} /\ stage' = "gone"
    BY <1>10, OrphanedOutcome, KillOutcome DEF Dies, CloseHandles
  <2> QED BY <2>1 DEF ChildTellsItsEnd, SafetyAbort
<1>11. CASE Again
  BY <1>11 DEF Again, NoChild, SafetyAbort, ChildTellsItsEnd
<1>12. CASE ChildReports
  BY <1>12 DEF ChildReports, ChildTellsItsEnd
<1>13. CASE ChildEnds
  <2>1. PICK code \in {0, WorkerFail} :
          (code = 0 => result = run) /\ child' = [child EXCEPT !.life = "dead", !.code = code]
    BY <1>13 DEF ChildEnds
  <2>2. child'.code = code
    BY <2>1 DEF ChildTypes, Children
  <2> QED BY <1>13, <2>1, <2>2 DEF ChildEnds, ChildTellsItsEnd, WorkerFail, SafetyAbort
<1>14. CASE KernelKills
  <2>1. child.life = "dying" /\ child'.code = child.code
    BY <1>14 DEF KernelKills, ChildTypes, Children
  <2> QED BY <1>14, <2>1 DEF KernelKills, ChildTellsItsEnd
<1> QED
  BY <1>1, <1>2, <1>3, <1>4, <1>5, <1>6, <1>7, <1>8, <1>9, <1>10, <1>11, <1>12, <1>13,
     <1>14 DEF Next, Launcher, Launching

\* The guard file and the exit code agree from the report to the end.
LEMMA GuardAgreement ==
    ASSUME RunTypes, ChildTypes, GuardTypes, ChildFollowsLaunch, ChildTellsItsEnd, GuardAgrees, Next
    PROVE  GuardAgrees'
<1> USE DEF clockVars, cpuVars
<1>1. ASSUME NEW i \in DOMAIN Steps, LaunchStep(Steps[i])
      PROVE  GuardAgrees'
  <2>1. stage' \notin {"leave", "gone"}
    <3>1. stage' = After(Steps[i]) /\ After(Steps[i]) \in LaunchSteps \cup {"watch"}
      BY <1>1, StepTable DEF LaunchStep, RunTypes
    <3> QED BY <3>1 DEF LaunchSteps
  <2> QED BY <2>1 DEF GuardAgrees
<1>2. ASSUME NEW i \in DOMAIN Steps, LaunchFails(Steps[i])
      PROVE  GuardAgrees'
  <2>1. exit' \in FailureCodes'
    BY <1>2 DEF LaunchFails, FailureCodes, FailureCode, Position, Steps
  <2> QED BY <2>1 DEF GuardAgrees
<1>3. CASE Resume
  <2>1. stage' \notin {"leave", "gone"}
    BY <1>3, AfterResume DEF Resume
  <2> QED BY <2>1 DEF GuardAgrees
<1>4. CASE SeesChildEnd
  <2>1. stage' \notin {"leave", "gone"}
    BY <1>4 DEF SeesChildEnd
  <2> QED BY <2>1 DEF GuardAgrees
<1>5. CASE Poll
  <2>1. stage' \notin {"leave", "gone"}
    BY <1>5, PollFinds DEF RunTypes
  <2> QED BY <2>1 DEF GuardAgrees
<1>6. CASE Stop
  <2>1. stage' \notin {"leave", "gone"}
    BY <1>6 DEF Stop
  <2> QED BY <2>1 DEF GuardAgrees
<1>7. CASE Settle
  <2>1. stage' \notin {"leave", "gone"}
    BY <1>7 DEF Settle
  <2> QED BY <2>1 DEF GuardAgrees
<1>8. CASE Report
  <2>1. PICK code \in ExitCodes :
          /\ WriteGuard(Status(code))
          /\ exit' = IF reason # "none" THEN SafetyAbort ELSE code
    BY <1>8 DEF Report
  <2>2. UNCHANGED <<program, run, child, result>> /\ stage = "report"
    BY <1>8 DEF Report
  <2> SUFFICES ASSUME Final[program].writes
               PROVE  /\ guard'.run = run
                      /\ guard'.status = "aborted" <=> exit' = SafetyAbort
                      /\ guard'.status = "pass" =>
                           /\ exit' = 0 /\ result = run
                           /\ child.life = "dead" /\ child.code = 0
    BY <2>2 DEF GuardAgrees
  <2>3. guard' = [run |-> run, status |-> Status(code)]
    BY <2>1 DEF WriteGuard
  <2>4. (code = child.code /\ child.life = "dead") \/ code \in {StillActive, 999}
    BY FinalData DEF ExitCodes, RunTypes
  <2>5. code # SafetyAbort
    BY <2>4 DEF ChildTellsItsEnd, StillActive, SafetyAbort
  <2>6. code = 0 => child.code = 0 /\ child.life = "dead" /\ result = run
    BY <2>2, <2>4 DEF ChildTellsItsEnd, StillActive
  <2> QED BY <2>1, <2>3, <2>5, <2>6 DEF Status
<1>9. CASE Leave
  <2>1. child.life = "dead" => child' = child
    BY <1>9, OrphanedOutcome, KillOutcome DEF Leave, CloseHandles
  <2>2. /\ UNCHANGED <<program, run, exit, guard, result>> /\ stage = "leave"
        /\ FailureCodes' = FailureCodes
    BY <1>9 DEF Leave, FailureCodes, FailureCode, Position, Steps
  <2> QED BY <2>1, <2>2 DEF GuardAgrees
<1>10. CASE Dies
  <2>1. exit' = Died
    BY <1>10 DEF Dies
  <2> QED BY <2>1 DEF GuardAgrees
<1>11. CASE Again
  <2>1. stage' = "privilege"
    BY <1>11, FirstStep DEF Again, RunTypes
  <2> QED BY <2>1 DEF GuardAgrees
<1>12. CASE ChildReports
  <2>1. child.life = "running" /\ FailureCodes' = FailureCodes
    BY <1>12 DEF ChildReports, FailureCodes, FailureCode, Position, Steps
  <2> QED BY <1>12, <2>1 DEF ChildReports, GuardAgrees
<1>13. CASE ChildEnds
  <2>1. child.life = "running" /\ FailureCodes' = FailureCodes
    BY <1>13 DEF ChildEnds, FailureCodes, FailureCode, Position, Steps
  <2> QED BY <1>13, <2>1 DEF ChildEnds, GuardAgrees
<1>14. CASE KernelKills
  <2>1. child.life = "dying" /\ FailureCodes' = FailureCodes
    BY <1>14 DEF KernelKills, FailureCodes, FailureCode, Position, Steps
  <2> QED BY <1>14, <2>1 DEF KernelKills, GuardAgrees
<1> QED
  BY <1>1, <1>2, <1>3, <1>4, <1>5, <1>6, <1>7, <1>8, <1>9, <1>10, <1>11, <1>12, <1>13,
     <1>14 DEF Next, Launcher, Launching

-----------------------------------------------------------------------------
(***************************************************************************)
(* Shortage and timeout                                                    *)
(*                                                                         *)
(* Only a poll moves the clock while the launcher watches, and the clock   *)
(* is long enough for the time since the child was resumed, or since the   *)
(* last check, not to come round.                                          *)
(***************************************************************************)
\* Ticks that are added to a time are added to what has passed since, unless
\* the clock has come round.
LEMMA TimeAdds ==
    ASSUME NEW then \in 0 .. ClockSize - 1, NEW t \in 0 .. ClockSize - 1, NEW ticks \in Nat,
           Since(then, t) + ticks < ClockSize
    PROVE  Since(then, (t + ticks) % ClockSize) = Since(then, t) + ticks
<1> USE LauncherAssumption DEF Since
<1>0. ClockSize \in Nat \ {0}
  OBVIOUS
<1>1. ticks < ClockSize
  <2>1. (t - then) % ClockSize \in 0 .. ClockSize - 1
    BY <1>0
  <2> QED BY <2>1
<1>2. (t - then) % ClockSize = IF t >= then THEN t - then ELSE t - then + ClockSize
  BY <1>0
<1>3. (t + ticks) % ClockSize = IF t + ticks < ClockSize THEN t + ticks ELSE t + ticks - ClockSize
  BY <1>0, <1>1
<1> DEFINE u == (t + ticks) % ClockSize
<1>4. u \in 0 .. ClockSize - 1
  BY <1>0
<1>5. (u - then) % ClockSize = IF u >= then THEN u - then ELSE u - then + ClockSize
  BY <1>0, <1>4
<1> QED BY <1>0, <1>1, <1>2, <1>3, <1>4, <1>5

\* No time has passed since now.
LEMMA NoTimeSince ==
    ASSUME NEW t \in 0 .. ClockSize - 1
    PROVE  Since(t, t) = 0
<1>1. t - t = 0 /\ ClockSize \in Nat \ {0}
  BY LauncherAssumption
<1> QED BY <1>1 DEF Since

\* The clock does not go back.
LEMMA SinceIsNat ==
    ASSUME NEW then \in 0 .. ClockSize - 1, NEW t \in 0 .. ClockSize - 1
    PROVE  Since(then, t) \in Nat
<1>1. t - then \in Int /\ ClockSize \in Nat \ {0}
  BY LauncherAssumption
<1> QED BY <1>1 DEF Since

LowIsCounted ==
    stage = "watch" =>
        /\ Watch[program].rested = {} => lowFor = 0
        /\ Watch[program].rested # {} =>
             lowFor <= Since(lastCheck, now) /\ Since(lastCheck, now) < SafetyTicks

TimeIsCounted ==
    stage = "watch" /\ Looks("timeout") => elapsed = Since(started, now) /\ elapsed < Timeout

\* A poll comes soon enough for the clock not to come round.
LEMMA TickOutcome ==
    ASSUME RunTypes, ClockTypes, NEW low \in BOOLEAN, Tick(low)
    PROVE  \E ticks \in Nat :
             /\ ticks <= Watch[program].period + MaxLateness
             /\ now' = (now + ticks) % ClockSize
             /\ elapsed' = IF Looks("timeout") THEN elapsed + ticks ELSE 0
             /\ lowFor' = IF low THEN lowFor + ticks ELSE 0
<1>1. PICK late \in 0 .. MaxLateness :
        LET ticks == Watch[program].period + late
        IN  /\ now' = (now + ticks) % ClockSize
            /\ elapsed' = IF Looks("timeout") THEN elapsed + ticks ELSE 0
            /\ lowFor' = IF low THEN lowFor + ticks ELSE 0
  BY DEF Tick
<1> DEFINE ticks == Watch[program].period + late
<1>2. ticks \in Nat /\ ticks <= Watch[program].period + MaxLateness
  BY WatchData, LauncherAssumption DEF RunTypes
<1>3. /\ now' = (now + ticks) % ClockSize
      /\ elapsed' = IF Looks("timeout") THEN elapsed + ticks ELSE 0
      /\ lowFor' = IF low THEN lowFor + ticks ELSE 0
  BY <1>1
<1> HIDE DEF ticks
<1> QED BY <1>2, <1>3

\* Memory that is low is looked at before 250 ms are over.
LEMMA PollKeepsLow ==
    ASSUME RunTypes, ClockTypes, LowIsCounted, Poll
    PROVE  LowIsCounted'
<1>1. PICK low \in BOOLEAN, fault \in Faults :
        /\ Tick(low)
        /\ \/ /\ stage' = "watch" /\ reason' = reason
              /\ \A i \in DOMAIN Checks : Checks[i] \notin Wrong(low, fault) \ Rested
           \/ /\ stage' = "stop"
              /\ \E i \in DOMAIN Checks :
                   reason' = Checks[i] /\ Checks[i] \in Wrong(low, fault) \ Rested
  BY PollFinds DEF RunTypes
<1>2. PICK ticks \in Nat :
        /\ ticks <= Watch[program].period + MaxLateness
        /\ now' = (now + ticks) % ClockSize
        /\ lowFor' = IF low THEN lowFor + ticks ELSE 0
  BY <1>1, TickOutcome
<1>3. stage = "watch" /\ program' = program
  BY DEF Poll
<1>4. now' \in 0 .. ClockSize - 1
  BY <1>2, LauncherAssumption DEF ClockTypes
<1> SUFFICES ASSUME stage' = "watch"
             PROVE  /\ Watch[program].rested = {} => lowFor' = 0
                    /\ Watch[program].rested # {} =>
                         /\ lowFor' <= Since(lastCheck', now')
                         /\ Since(lastCheck', now') < SafetyTicks
  BY <1>3 DEF LowIsCounted, Since
<1>5. \A i \in DOMAIN Checks : Checks[i] \notin Wrong(low, fault) \ Rested
  BY <1>1
<1>6. "memory" \in Rested \/ ~low
  <2>1. PICK i \in DOMAIN Checks : Checks[i] = "memory"
    BY WatchData DEF Checks, RunTypes
  <2>2. low => "memory" \in Wrong(low, fault)
    BY DEF Wrong
  <2> QED BY <1>5, <2>1, <2>2
<1>7. CASE Watch[program].rested = {}
  BY <1>2, <1>6, <1>7 DEF Rested
<1>8. CASE Watch[program].rested # {}
  <2>1. CASE Since(lastCheck, now') >= SafetyTicks
    <3>1. Rested = {} /\ lastCheck' = now'
      BY <1>1, <1>8, <2>1 DEF Rested, Tick
    <3>2. lowFor' = 0 /\ Since(lastCheck', now') = 0
      BY <1>2, <1>4, <1>6, <3>1, NoTimeSince
    <3> QED BY <1>8, <3>2, LauncherAssumption
  <2>2. CASE ~(Since(lastCheck, now') >= SafetyTicks)
    <3>1. Rested # {}
      BY <1>8, <2>2 DEF Rested
    <3>2. lastCheck' = lastCheck
      BY <1>1, <3>1 DEF Tick
    <3>3. lowFor <= Since(lastCheck, now) /\ Since(lastCheck, now) < SafetyTicks
      BY <1>3, <1>8 DEF LowIsCounted
    <3>4. Since(lastCheck, now) \in Nat /\ Since(lastCheck, now') \in Nat
      BY <1>4, SinceIsNat DEF ClockTypes
    <3>5. Since(lastCheck, now') = Since(lastCheck, now) + ticks
      <4>1. Since(lastCheck, now) + ticks < ClockSize
        BY <1>2, <1>8, <3>3, <3>4, WatchData, LauncherAssumption DEF RunTypes
      <4> QED BY <1>2, <4>1, TimeAdds DEF ClockTypes
    <3>6. lowFor' <= Since(lastCheck, now')
      BY <1>2, <3>3, <3>4, <3>5 DEF ClockTypes
    <3> QED BY <1>8, <2>2, <3>2, <3>4, <3>6, LauncherAssumption
  <2> QED BY <2>1, <2>2
<1> QED BY <1>7, <1>8

\* The timeout ends the loop when it is over.
LEMMA PollKeepsTime ==
    ASSUME RunTypes, ClockTypes, TimeIsCounted, Poll
    PROVE  TimeIsCounted'
<1>1. PICK low \in BOOLEAN, fault \in Faults :
        /\ Tick(low)
        /\ \/ /\ stage' = "watch" /\ reason' = reason
              /\ \A i \in DOMAIN Checks : Checks[i] \notin Wrong(low, fault) \ Rested
           \/ /\ stage' = "stop"
              /\ \E i \in DOMAIN Checks :
                   reason' = Checks[i] /\ Checks[i] \in Wrong(low, fault) \ Rested
  BY PollFinds DEF RunTypes
<1>2. PICK ticks \in Nat :
        /\ ticks <= Watch[program].period + MaxLateness
        /\ now' = (now + ticks) % ClockSize
        /\ elapsed' = IF Looks("timeout") THEN elapsed + ticks ELSE 0
  BY <1>1, TickOutcome
<1>3. stage = "watch" /\ program' = program /\ started' = started
  BY <1>1 DEF Poll, Tick
<1> SUFFICES ASSUME stage' = "watch", Looks("timeout")
             PROVE  elapsed' = Since(started, now') /\ elapsed' < Timeout
  BY <1>3 DEF TimeIsCounted, Since, Looks, Checks
<1>4. elapsed = Since(started, now) /\ elapsed < Timeout
  BY <1>3 DEF TimeIsCounted
<1>5. elapsed' = Since(started, now')
  <2>1. Since(started, now) + ticks < ClockSize
    BY <1>2, <1>4, WatchData, LauncherAssumption DEF ClockTypes, RunTypes
  <2> QED BY <1>2, <1>4, <2>1, TimeAdds DEF ClockTypes
<1>6. "timeout" \notin Wrong(low, fault)
  <2>1. PICK i \in DOMAIN Checks : Checks[i] = "timeout"
    BY DEF Looks
  <2>2. "timeout" \notin Rested
    BY WatchData DEF Rested, RunTypes
  <2> QED BY <1>1, <2>1, <2>2
<1>7. ~(Since(started, now') >= Timeout)
  BY <1>6 DEF Wrong, TimedOut
<1>8. elapsed' \in Nat
  BY <1>2 DEF ClockTypes
<1> QED BY <1>5, <1>7, <1>8, LauncherAssumption

\* Low memory and the time since the resumption stay counted.
LEMMA TimesAreCounted ==
    ASSUME RunTypes, ClockTypes, LowIsCounted, TimeIsCounted, Next
    PROVE  LowIsCounted' /\ TimeIsCounted'
<1> USE DEF clockVars, cpuVars
<1>1. ASSUME NEW i \in DOMAIN Steps, LaunchStep(Steps[i])
      PROVE  LowIsCounted' /\ TimeIsCounted'
  <2>1. stage' # "watch"
    <3>1. stage' = Following(stage) /\ stage \in LaunchSteps \ {"resume"}
      BY <1>1, StepTable DEF LaunchStep, RunTypes
    <3> QED BY <3>1 DEF Following, LaunchSteps
  <2> QED BY <2>1 DEF LowIsCounted, TimeIsCounted
<1>2. ASSUME NEW i \in DOMAIN Steps, LaunchFails(Steps[i])
      PROVE  LowIsCounted' /\ TimeIsCounted'
  <2>1. stage' # "watch"
    BY <1>2 DEF LaunchFails
  <2> QED BY <2>1 DEF LowIsCounted, TimeIsCounted
<1>3. CASE Resume
  <2>1. /\ lowFor' = 0 /\ elapsed' = 0
        /\ now' = BootTicks /\ lastCheck' = BootTicks /\ started' = BootTicks
    BY <1>3 DEF Resume, FreshLoop
  <2>2. Since(BootTicks, BootTicks) = 0
    BY NoTimeSince, LauncherAssumption
  <2>3. Since(lastCheck, now)' = 0 /\ Since(started, now)' = 0
    BY <2>1, <2>2 DEF Since
  <2> QED BY <2>1, <2>3, LauncherAssumption DEF LowIsCounted, TimeIsCounted
<1>4. CASE SeesChildEnd
  <2>1. stage' # "watch"
    BY <1>4 DEF SeesChildEnd
  <2> QED BY <2>1 DEF LowIsCounted, TimeIsCounted
<1>5. CASE Poll
  BY <1>5, PollKeepsLow, PollKeepsTime
<1>6. CASE Stop
  <2>1. stage' # "watch"
    BY <1>6 DEF Stop
  <2> QED BY <2>1 DEF LowIsCounted, TimeIsCounted
<1>7. CASE Settle
  <2>1. stage' # "watch"
    BY <1>7 DEF Settle
  <2> QED BY <2>1 DEF LowIsCounted, TimeIsCounted
<1>8. CASE Report
  <2>1. stage' # "watch"
    BY <1>8 DEF Report
  <2> QED BY <2>1 DEF LowIsCounted, TimeIsCounted
<1>9. CASE Leave
  <2>1. stage' # "watch"
    BY <1>9 DEF Leave, CloseHandles
  <2> QED BY <2>1 DEF LowIsCounted, TimeIsCounted
<1>10. CASE Dies
  <2>1. stage' # "watch"
    BY <1>10 DEF Dies, CloseHandles
  <2> QED BY <2>1 DEF LowIsCounted, TimeIsCounted
<1>11. CASE Again
  <2>1. stage' # "watch"
    BY <1>11, FirstStep DEF Again, RunTypes
  <2> QED BY <2>1 DEF LowIsCounted, TimeIsCounted
<1>12. CASE ChildReports
  <2>1. UNCHANGED <<program, stage, now, lastCheck, started, lowFor, elapsed>>
    BY <1>12 DEF ChildReports
  <2> QED BY <2>1 DEF LowIsCounted, TimeIsCounted, Since, Looks, Checks
<1>13. CASE ChildEnds
  <2>1. UNCHANGED <<program, stage, now, lastCheck, started, lowFor, elapsed>>
    BY <1>13 DEF ChildEnds
  <2> QED BY <2>1 DEF LowIsCounted, TimeIsCounted, Since, Looks, Checks
<1>14. CASE KernelKills
  <2>1. UNCHANGED <<program, stage, now, lastCheck, started, lowFor, elapsed>>
    BY <1>14 DEF KernelKills
  <2> QED BY <2>1 DEF LowIsCounted, TimeIsCounted, Since, Looks, Checks
<1> QED
  BY <1>1, <1>2, <1>3, <1>4, <1>5, <1>6, <1>7, <1>8, <1>9, <1>10, <1>11, <1>12, <1>13,
     <1>14 DEF Next, Launcher, Launching

-----------------------------------------------------------------------------
(***************************************************************************)
(* Sustained load                                                          *)
(***************************************************************************)
Samples == [child : BOOLEAN, system : BOOLEAN]

\* The last n samples are over the limit, and the one before is not.
Trails(n, s, who) ==
    /\ n \in 0 .. Len(s)
    /\ \A i \in 1 .. Len(s) : i > Len(s) - n => s[i][who]
    /\ n < Len(s) => ~s[Len(s) - n][who]

StreaksTrail ==
    /\ Len(recent) <= SustainedSamples
    /\ Trails(streaks.child, recent, "child") /\ Trails(streaks.system, recent, "system")

\* The launcher does not wait on once a streak is long enough.
StreaksStop ==
    /\ stage = "watch" => streaks.child < SustainedSamples /\ streaks.system < SustainedSamples
    /\ stage = "stop" /\ reason = "child_cpu" => streaks.child >= SustainedSamples
    /\ stage = "stop" /\ reason = "system_cpu" => streaks.system >= SustainedSamples

\* A sample is added to those remembered.
LEMMA TrailGrows ==
    ASSUME NEW s \in Seq(Samples), NEW x \in Samples, NEW n \in Nat,
           NEW who \in {"child", "system"}, Len(s) < SustainedSamples, Trails(n, s, who)
    PROVE  Trails(Streak(n, x[who]), Append(s, x), who)
<1> DEFINE t == Append(s, x)
<1>1. /\ Len(t) = Len(s) + 1 /\ t[Len(s) + 1] = x
      /\ \A i \in 1 .. Len(s) : t[i] = s[i]
  OBVIOUS
<1>2. Len(s) \in Nat
  OBVIOUS
<1> HIDE DEF t
<1>3. CASE x[who]
  <2>1. Streak(n, x[who]) = n + 1
    BY <1>3 DEF Streak
  <2>2. \A i \in 1 .. Len(t) : i > Len(t) - (n + 1) => t[i][who]
    BY <1>1, <1>2, <1>3 DEF Trails
  <2>3. n + 1 < Len(t) => ~t[Len(t) - (n + 1)][who]
    <3>1. SUFFICES ASSUME n + 1 < Len(t) PROVE ~t[Len(t) - (n + 1)][who]
      OBVIOUS
    <3>2. Len(t) - (n + 1) = Len(s) - n /\ Len(s) - n \in 1 .. Len(s) /\ n < Len(s)
      BY <1>1, <1>2, <3>1
    <3>3. ~s[Len(s) - n][who]
      BY <3>2 DEF Trails
    <3> QED BY <1>1, <3>2, <3>3
  <2>4. n + 1 \in 0 .. Len(t)
    BY <1>1, <1>2 DEF Trails
  <2> QED BY <2>1, <2>2, <2>3, <2>4 DEF Trails, t
<1>4. CASE ~x[who]
  <2>1. Streak(n, x[who]) = 0
    BY <1>4 DEF Streak
  <2>2. ~t[Len(t) - 0][who]
    BY <1>1, <1>2, <1>4
  <2>3. \A i \in 1 .. Len(t) : ~(i > Len(t) - 0)
    BY <1>1, <1>2
  <2> QED BY <1>1, <1>2, <2>1, <2>2, <2>3 DEF Trails, t
<1> QED BY <1>3, <1>4

\* The oldest sample is forgotten; it is not of a streak that goes on.
LEMMA TrailShifts ==
    ASSUME NEW s \in Seq(Samples), NEW n \in Nat, NEW who \in {"child", "system"},
           s # <<>>, n < Len(s), Trails(n, s, who)
    PROVE  Tail(s) \in Seq(Samples) /\ Len(Tail(s)) = Len(s) - 1 /\ Trails(n, Tail(s), who)
<1> DEFINE t == Tail(s)
<1>1. /\ t \in Seq(Samples) /\ Len(t) = Len(s) - 1
      /\ \A i \in 1 .. Len(t) : t[i] = s[i + 1]
  BY HeadTailProperties
<1>2. Len(s) \in Nat
  OBVIOUS
<1> HIDE DEF t
<1>3. \A i \in 1 .. Len(t) : i > Len(t) - n => t[i][who]
  BY <1>1, <1>2 DEF Trails
<1>4. n < Len(t) => ~t[Len(t) - n][who]
  <2>1. SUFFICES ASSUME n < Len(t) PROVE ~t[Len(t) - n][who]
    OBVIOUS
  <2>2. Len(t) - n \in 1 .. Len(t) /\ Len(t) - n + 1 = Len(s) - n
    BY <1>1, <1>2, <2>1
  <2>3. ~s[Len(s) - n][who]
    BY DEF Trails
  <2> QED BY <1>1, <2>2, <2>3
<1>5. n \in 0 .. Len(t)
  BY <1>1, <1>2
<1> QED BY <1>1, <1>3, <1>4, <1>5 DEF Trails, t

\* What is remembered of the samples agrees with the streaks.
LEMMA TrailsAreRemembered ==
    ASSUME SampleTypes, StreaksTrail, NEW x \in Samples,
           streaks.child < SustainedSamples, streaks.system < SustainedSamples
    PROVE  /\ Remember(x) \in Seq(Samples) /\ Len(Remember(x)) <= SustainedSamples
           /\ \A who \in {"child", "system"} :
                Trails(Streak(streaks[who], x[who]), Remember(x), who)
<1>0. recent \in Seq(Samples) /\ Len(recent) \in Nat /\ SustainedSamples \in Nat \ {0}
  BY LauncherAssumption DEF SampleTypes, Samples
<1>1. CASE Len(recent) < SustainedSamples
  <2>1. Remember(x) = Append(recent, x)
    BY <1>1 DEF Remember
  <2>2. Append(recent, x) \in Seq(Samples) /\ Len(Append(recent, x)) = Len(recent) + 1
    BY <1>0
  <2>3. ASSUME NEW who \in {"child", "system"}
        PROVE  Trails(Streak(streaks[who], x[who]), Append(recent, x), who)
    <3>1. streaks[who] \in Nat /\ Trails(streaks[who], recent, who)
      BY DEF SampleTypes, StreaksTrail
    <3> QED BY <1>0, <1>1, <3>1, TrailGrows
  <2> QED BY <1>0, <1>1, <2>1, <2>2, <2>3
<1>2. CASE Len(recent) = SustainedSamples
  <2>1. Remember(x) = Append(Tail(recent), x)
    BY <1>0, <1>2 DEF Remember
  <2>2. ASSUME NEW who \in {"child", "system"}
        PROVE  /\ Tail(recent) \in Seq(Samples) /\ Len(Tail(recent)) = Len(recent) - 1
               /\ Trails(streaks[who], Tail(recent), who) /\ streaks[who] \in Nat
    <3>1. streaks[who] \in Nat /\ Trails(streaks[who], recent, who)
          /\ streaks[who] < SustainedSamples
      BY DEF SampleTypes, StreaksTrail
    <3> QED BY <1>0, <1>2, <3>1, TrailShifts
  <2>3. ASSUME NEW who \in {"child", "system"}
        PROVE  Trails(Streak(streaks[who], x[who]), Append(Tail(recent), x), who)
    <3>1. /\ Tail(recent) \in Seq(Samples) /\ Trails(streaks[who], Tail(recent), who)
          /\ streaks[who] \in Nat
      BY <2>2
    <3>2. Len(Tail(recent)) < SustainedSamples
      BY <1>0, <1>2, <2>2
    <3> QED BY <3>1, <3>2, TrailGrows
  <2>4. /\ Append(Tail(recent), x) \in Seq(Samples)
        /\ Len(Append(Tail(recent), x)) = Len(recent)
    <3>1. Tail(recent) \in Seq(Samples) /\ Len(Tail(recent)) = Len(recent) - 1
      BY <2>2
    <3> QED BY <1>0, <3>1
  <2> QED BY <1>0, <1>2, <2>1, <2>3, <2>4
<1> QED BY <1>0, <1>1, <1>2 DEF StreaksTrail

\* So a turn of the loop that samples keeps the streaks true.
LEMMA SampleOutcome ==
    ASSUME SampleTypes, StreaksTrail, SampleCpu,
           streaks.child < SustainedSamples, streaks.system < SustainedSamples
    PROVE  SampleTypes' /\ StreaksTrail' /\ (Looks("child_cpu") \/ streaks' = streaks)
<1>1. CASE Looks("child_cpu")
  <2>1. PICK c \in ChildSamples, s \in SystemSamples :
          LET over == [child  |-> c = "hot", system |-> s = "busy" /\ c \in {"warm", "hot"}]
          IN  /\ streaks' = [w \in {"child", "system"} |-> Streak(streaks[w], over[w])]
              /\ sampled' = sampled \cup (IF c = "failed" THEN {} ELSE {"child"})
                                    \cup (IF s = "failed" THEN {} ELSE {"system"})
              /\ recent' = Remember(over)
    BY <1>1, Zenon DEF SampleCpu
  <2> DEFINE over == [child  |-> c = "hot", system |-> s = "busy" /\ c \in {"warm", "hot"}]
  <2>2. over \in Samples
    BY Zenon DEF Samples
  <2>3. /\ streaks' = [w \in {"child", "system"} |-> Streak(streaks[w], over[w])]
        /\ recent' = Remember(over)
    BY <2>1, Zenon
  <2>4. sampled' \subseteq {"child", "system"}
    BY <2>1 DEF SampleTypes
  <2> HIDE DEF over
  <2>5. /\ recent' \in Seq(Samples) /\ Len(recent') <= SustainedSamples
        /\ \A who \in {"child", "system"} :
             Trails(Streak(streaks[who], over[who]), recent', who)
    BY <2>2, <2>3, TrailsAreRemembered
  <2>6. /\ streaks'.child = Streak(streaks["child"], over["child"])
        /\ streaks'.system = Streak(streaks["system"], over["system"])
    BY <2>3
  <2>7. Trails(streaks'.child, recent', "child") /\ Trails(streaks'.system, recent', "system")
    BY <2>5, <2>6
  <2>8. streaks' \in [{"child", "system"} -> Nat]
    BY <2>3 DEF SampleTypes, Streak
  <2> QED BY <1>1, <2>4, <2>5, <2>7, <2>8 DEF SampleTypes, StreaksTrail, Samples, Trails
<1>2. CASE ~Looks("child_cpu")
  BY <1>2 DEF SampleCpu, SampleTypes, StreaksTrail, Trails, cpuVars
<1> QED BY <1>1, <1>2

\* A turn of the loop samples, and stops for a streak when it is long enough.
LEMMA PollKeepsStreaks ==
    ASSUME RunTypes, SampleTypes, StreaksTrail, StreaksStop, Poll
    PROVE  SampleTypes' /\ StreaksTrail' /\ StreaksStop'
<1>1. PICK low \in BOOLEAN, fault \in Faults :
        \/ /\ stage' = "watch" /\ reason' = reason
           /\ \A i \in DOMAIN Checks : Checks[i] \notin Wrong(low, fault) \ Rested
        \/ /\ stage' = "stop"
           /\ \E i \in DOMAIN Checks :
                reason' = Checks[i] /\ Checks[i] \in Wrong(low, fault) \ Rested
  BY PollFinds DEF RunTypes
<1>2. streaks.child < SustainedSamples /\ streaks.system < SustainedSamples
  BY DEF Poll, StreaksStop
<1>3. SampleTypes' /\ StreaksTrail' /\ (Looks("child_cpu") \/ streaks' = streaks)
  BY <1>2, SampleOutcome DEF Poll
<1>4. /\ streaks'.child \in Nat /\ streaks'.system \in Nat
  BY <1>3 DEF SampleTypes
<1>5. "child_cpu" \in Wrong(low, fault) <=> streaks'.child >= SustainedSamples
  BY DEF Wrong, SustainedSince
<1>6. "system_cpu" \in Wrong(low, fault) <=> streaks'.system >= SustainedSamples
  BY DEF Wrong, SustainedSince
<1>7. CASE stage' = "watch"
  <2>1. \A i \in DOMAIN Checks : Checks[i] \notin Wrong(low, fault) \ Rested
    BY <1>1, <1>7
  <2>2. "child_cpu" \notin Rested /\ "system_cpu" \notin Rested
    BY WatchData DEF Rested, RunTypes
  <2>3. CASE Looks("child_cpu")
    <3>1. Looks("system_cpu")
      BY <2>3, WatchData DEF Looks, Checks, RunTypes
    <3>2. "child_cpu" \notin Wrong(low, fault) /\ "system_cpu" \notin Wrong(low, fault)
      BY <2>1, <2>2, <2>3, <3>1 DEF Looks
    <3>3. streaks'.child < SustainedSamples /\ streaks'.system < SustainedSamples
      BY <1>4, <1>5, <1>6, <3>2, LauncherAssumption
    <3> QED BY <1>3, <1>7, <3>3 DEF StreaksStop
  <2>4. CASE streaks' = streaks
    BY <1>2, <1>3, <1>7, <2>4 DEF StreaksStop
  <2> QED BY <1>3, <2>3, <2>4
<1>8. CASE stage' = "stop"
  BY <1>1, <1>3, <1>5, <1>6, <1>8 DEF StreaksStop
<1> QED BY <1>1, <1>7, <1>8

\* Nothing is remembered when a loop begins, nor after it.
LEMMA NoStreak ==
    ASSUME streaks' = [child |-> 0, system |-> 0], sampled' = {}, recent' = <<>>, stage' # "stop"
    PROVE  SampleTypes' /\ StreaksTrail' /\ StreaksStop'
<1>1. streaks'.child = 0 /\ streaks'.system = 0 /\ Len(recent') = 0
  OBVIOUS
<1>2. SampleTypes'
  <2>1. streaks' \in [{"child", "system"} -> Nat]
    OBVIOUS
  <2> QED BY <2>1 DEF SampleTypes
<1>3. StreaksTrail'
  BY <1>1, LauncherAssumption DEF StreaksTrail, Trails
<1> QED BY <1>1, <1>2, <1>3, LauncherAssumption DEF StreaksStop

\* The streaks stay true.
LEMMA StreaksAreTrue ==
    ASSUME RunTypes, SampleTypes, StreaksTrail, StreaksStop, Next
    PROVE  SampleTypes' /\ StreaksTrail' /\ StreaksStop'
<1> USE DEF clockVars, cpuVars
<1>1. ASSUME NEW i \in DOMAIN Steps, LaunchStep(Steps[i])
      PROVE  SampleTypes' /\ StreaksTrail' /\ StreaksStop'
  <2>1. stage' \notin {"watch", "stop"}
    <3>1. stage' = Following(stage) /\ stage \in LaunchSteps \ {"resume"}
      BY <1>1, StepTable DEF LaunchStep, RunTypes
    <3> QED BY <3>1 DEF Following, LaunchSteps
  <2>2. UNCHANGED <<streaks, sampled, recent>>
    BY <1>1 DEF LaunchStep
  <2> QED BY <2>1, <2>2 DEF SampleTypes, StreaksTrail, StreaksStop, Trails
<1>2. ASSUME NEW i \in DOMAIN Steps, LaunchFails(Steps[i])
      PROVE  SampleTypes' /\ StreaksTrail' /\ StreaksStop'
  <2>1. stage' \notin {"watch", "stop"} /\ UNCHANGED <<streaks, sampled, recent>>
    BY <1>2 DEF LaunchFails
  <2> QED BY <2>1 DEF SampleTypes, StreaksTrail, StreaksStop, Trails
<1>3. CASE Resume
  <2>1. streaks' = [child |-> 0, system |-> 0] /\ sampled' = {} /\ recent' = <<>> /\ stage' # "stop"
    BY <1>3, AfterResume DEF Resume, FreshLoop
  <2> QED BY <2>1, NoStreak
<1>4. CASE SeesChildEnd
  <2>1. streaks' = [child |-> 0, system |-> 0] /\ sampled' = {} /\ recent' = <<>> /\ stage' # "stop"
    BY <1>4 DEF SeesChildEnd, FreshLoop
  <2> QED BY <2>1, NoStreak
<1>5. CASE Poll
  BY <1>5, PollKeepsStreaks
<1>6. CASE Stop
  <2>1. streaks' = [child |-> 0, system |-> 0] /\ sampled' = {} /\ recent' = <<>> /\ stage' # "stop"
    BY <1>6 DEF Stop, FreshLoop
  <2> QED BY <2>1, NoStreak
<1>7. CASE Settle
  <2>1. stage' \notin {"watch", "stop"} /\ UNCHANGED <<streaks, sampled, recent>>
    BY <1>7 DEF Settle
  <2> QED BY <2>1 DEF SampleTypes, StreaksTrail, StreaksStop, Trails
<1>8. CASE Report
  <2>1. stage' \notin {"watch", "stop"} /\ UNCHANGED <<streaks, sampled, recent>>
    BY <1>8 DEF Report
  <2> QED BY <2>1 DEF SampleTypes, StreaksTrail, StreaksStop, Trails
<1>9. CASE Leave
  <2>1. streaks' = [child |-> 0, system |-> 0] /\ sampled' = {} /\ recent' = <<>> /\ stage' # "stop"
    BY <1>9 DEF Leave, CloseHandles, FreshLoop
  <2> QED BY <2>1, NoStreak
<1>10. CASE Dies
  <2>1. streaks' = [child |-> 0, system |-> 0] /\ sampled' = {} /\ recent' = <<>> /\ stage' # "stop"
    BY <1>10 DEF Dies, CloseHandles, FreshLoop
  <2> QED BY <2>1, NoStreak
<1>11. CASE Again
  <2>1. stage' \notin {"watch", "stop"} /\ UNCHANGED <<streaks, sampled, recent>>
    BY <1>11, FirstStep DEF Again, RunTypes
  <2> QED BY <2>1 DEF SampleTypes, StreaksTrail, StreaksStop, Trails
<1>12. CASE ChildReports
  <2>1. UNCHANGED <<streaks, sampled, recent, stage, reason>>
    BY <1>12 DEF ChildReports
  <2> QED BY <2>1 DEF SampleTypes, StreaksTrail, StreaksStop, Trails
<1>13. CASE ChildEnds
  <2>1. UNCHANGED <<streaks, sampled, recent, stage, reason>>
    BY <1>13 DEF ChildEnds
  <2> QED BY <2>1 DEF SampleTypes, StreaksTrail, StreaksStop, Trails
<1>14. CASE KernelKills
  <2>1. UNCHANGED <<streaks, sampled, recent, stage, reason>>
    BY <1>14 DEF KernelKills
  <2> QED BY <2>1 DEF SampleTypes, StreaksTrail, StreaksStop, Trails
<1> QED
  BY <1>1, <1>2, <1>3, <1>4, <1>5, <1>6, <1>7, <1>8, <1>9, <1>10, <1>11, <1>12, <1>13,
     <1>14 DEF Next, Launcher, Launching

-----------------------------------------------------------------------------
(***************************************************************************)
(* The theorems                                                            *)
(***************************************************************************)
Types == RunTypes /\ ChildTypes /\ GuardTypes /\ ClockTypes /\ SampleTypes

LaunchInv ==
    /\ Types
    /\ ChildFollowsLaunch /\ JobFollowsLaunch
    /\ ChildTellsItsEnd /\ GuardAgrees
    /\ LowIsCounted /\ TimeIsCounted
    /\ StreaksTrail /\ StreaksStop

\* The invariant, which TypeOK and the safety properties follow from
LEMMA InitInv == Init => LaunchInv
<1> SUFFICES ASSUME Init PROVE LaunchInv
  OBVIOUS
<1> USE LauncherAssumption
<1>1. stage = "privilege" /\ stage \in StepNames /\ program \in Programs
  BY FirstStep DEF Init, StepNames
<1>2. RunTypes
  BY <1>1 DEF RunTypes, Init
<1>3. ChildTypes
  BY DEF ChildTypes, Children, Init, NoChild
<1>4. GuardTypes
  BY DEF GuardTypes, Init
<1>5. ClockTypes
  BY DEF ClockTypes, Init
<1>6. SampleTypes /\ StreaksTrail
  <2>1. streaks.child = 0 /\ streaks.system = 0 /\ Len(recent) = 0
    BY DEF Init
  <2>2. SampleTypes
    BY DEF Init, SampleTypes
  <2> QED BY <2>1, <2>2 DEF StreaksTrail, Trails
<1>7. ChildFollowsLaunch
  BY <1>1 DEF Init, ChildFollowsLaunch, NothingIsLeftRunning, LoopStages, NoChild
<1>8. JobFollowsLaunch /\ GuardAgrees /\ LowIsCounted /\ TimeIsCounted /\ StreaksStop
  BY <1>1 DEF JobFollowsLaunch, GuardAgrees, LowIsCounted, TimeIsCounted, StreaksStop,
     LoopStages
<1>9. ChildTellsItsEnd
  BY DEF Init, ChildTellsItsEnd, NoChild, SafetyAbort
<1> QED
  BY <1>2, <1>3, <1>4, <1>5, <1>6, <1>7, <1>8, <1>9 DEF LaunchInv, Types

LEMMA StutterInv == LaunchInv /\ UNCHANGED vars => LaunchInv'
<1> SUFFICES ASSUME LaunchInv, UNCHANGED vars PROVE LaunchInv'
  OBVIOUS
<1> USE DEF vars, clockVars, cpuVars
<1>1. Types'
  BY DEF LaunchInv, Types, RunTypes, ChildTypes, GuardTypes, ClockTypes, SampleTypes,
     StepNames,
     Steps, Checks
<1>2. ChildFollowsLaunch' /\ JobFollowsLaunch'
  BY DEF LaunchInv, ChildFollowsLaunch, JobFollowsLaunch, NothingIsLeftRunning, HasRate,
     Steps
<1>3. ChildTellsItsEnd' /\ GuardAgrees'
  BY DEF LaunchInv, ChildTellsItsEnd, GuardAgrees, FailureCodes, FailureCode, Position,
     Steps
<1>4. LowIsCounted' /\ TimeIsCounted'
  BY DEF LaunchInv, LowIsCounted, TimeIsCounted, Since, Looks, Checks
<1>5. StreaksTrail' /\ StreaksStop'
  BY DEF LaunchInv, StreaksTrail, StreaksStop, Trails
<1> QED BY <1>1, <1>2, <1>3, <1>4, <1>5 DEF LaunchInv

LEMMA NextInv == LaunchInv /\ [Next]_vars => LaunchInv'
<1>1. CASE LaunchInv /\ Next
  <2>1. RunTypes' /\ ChildTypes' /\ GuardTypes' /\ ClockTypes'
    BY <1>1, RunTypesStay, ChildTypesStay, GuardTypesStay, ClockTypesStay DEF LaunchInv,
       Types
  <2>2. ChildFollowsLaunch' /\ JobFollowsLaunch'
    BY <1>1, ChildFollows, JobFollows DEF LaunchInv, Types
  <2>3. ChildTellsItsEnd' /\ GuardAgrees'
    BY <1>1, EndIsTold, GuardAgreement DEF LaunchInv, Types
  <2>4. LowIsCounted' /\ TimeIsCounted'
    BY <1>1, TimesAreCounted DEF LaunchInv, Types
  <2>5. SampleTypes' /\ StreaksTrail' /\ StreaksStop'
    BY <1>1, StreaksAreTrue DEF LaunchInv, Types
  <2> QED BY <2>1, <2>2, <2>3, <2>4, <2>5 DEF LaunchInv, Types
<1> QED BY <1>1, StutterInv

LEMMA Invariance == Spec => []LaunchInv
  BY InitInv, NextInv, PTL DEF Spec

\* Every variable keeps its type: the streaks of the CPU guard do not pass the
\* number of samples that makes a load sustained.
THEOREM TypeCorrect == Spec => []TypeOK
<1>1. LaunchInv => TypeOK
  <2> SUFFICES ASSUME LaunchInv PROVE TypeOK
    OBVIOUS
  <2>1. streaks \in [{"child", "system"} -> 0 .. SustainedSamples]
    <3>1. /\ streaks.child \in 0 .. SustainedSamples
          /\ streaks.system \in 0 .. SustainedSamples
      BY LauncherAssumption DEF LaunchInv, Types, SampleTypes, StreaksTrail, Trails
    <3> QED BY <3>1 DEF LaunchInv, Types, SampleTypes
  <2> QED
    BY <2>1 DEF TypeOK, LaunchInv, Types, RunTypes, ChildTypes, Children, GuardTypes,
       ClockTypes,
       SampleTypes, StepNames, LoopStages
<1> QED BY <1>1, Invariance, PTL

\* The child runs only in a job that limits it and dies with the launcher, and
\* nothing runs on when the launcher is gone, whichever step of a launch fails
\* and whenever the launcher is closed.
THEOREM ChildStaysContained == Spec => []ChildIsContained
<1>1. LaunchInv => ChildIsContained
  <2> SUFFICES ASSUME LaunchInv PROVE ChildIsContained
    OBVIOUS
  <2>1. NothingIsLeftRunning
    BY DEF LaunchInv, ChildFollowsLaunch
  <2>2. ASSUME child.life = "running"
        PROVE  stage \in LoopStages
    BY <2>2, <2>1, StageIsKnown DEF LaunchInv, Types, ChildFollowsLaunch, LaunchSteps,
       LoopStages,
       NothingIsLeftRunning
  <2>3. RunsContained
    BY <2>2 DEF LaunchInv, RunsContained, ChildFollowsLaunch, JobFollowsLaunch, HasRate,
       LoopStages
  <2> QED BY <2>1, <2>3 DEF ChildIsContained
<1> QED BY <1>1, Invariance, PTL

\* The watchdog stops the child in time, for a memory shortage and for the
\* hard timeout, over every wrap of the clock; and for CPU exactly when the
\* last samples were all over the limit.
THEOREM AbortsStayEarned == Spec => []AbortsAreEarned
<1>1. LaunchInv => AbortsAreEarned
  <2> SUFFICES ASSUME LaunchInv PROVE AbortsAreEarned
    OBVIOUS
  <2>1. ShortageIsBounded
    <3>1. CASE Watch[program].rested = {}
      BY <3>1 DEF LaunchInv, LowIsCounted, ShortageIsBounded
    <3>2. CASE stage = "watch" /\ Watch[program].rested # {}
      <4>1. lowFor \in Nat /\ Watch[program].period \in Nat
        BY WatchData, LauncherAssumption DEF LaunchInv, Types, ClockTypes, RunTypes
      <4>2. lowFor < SafetyTicks
        <5>1. Since(lastCheck, now) \in Nat
          BY SinceIsNat DEF LaunchInv, Types, ClockTypes
        <5> QED BY <3>2, <4>1, <5>1, LauncherAssumption DEF LaunchInv, LowIsCounted
      <4> QED BY <3>2, <4>1, <4>2, LauncherAssumption DEF ShortageIsBounded
    <3> QED BY <3>1, <3>2 DEF ShortageIsBounded
  <2>2. TimeoutHolds
    BY DEF LaunchInv, TimeIsCounted, TimeoutHolds
  <2>3. CpuAbortIsEarned
    <3> DEFINE all(who) == Len(recent) = SustainedSamples /\ \A i \in DOMAIN recent : recent[i][who]
    <3>0. Len(recent) \in Nat /\ DOMAIN recent = 1 .. Len(recent)
      BY DEF LaunchInv, Types, SampleTypes
    <3>1. ASSUME NEW who \in {"child", "system"}, NEW n, Trails(n, recent, who),
                 n < SustainedSamples
          PROVE  ~all(who)
      <4>1. SUFFICES ASSUME all(who) PROVE FALSE
        OBVIOUS
      <4>2. n \in Nat /\ Len(recent) - n \in DOMAIN recent /\ n < Len(recent)
        BY <3>0, <3>1, <4>1 DEF Trails
      <4> QED BY <3>1, <4>1, <4>2 DEF Trails
    <3>2. ASSUME NEW who \in {"child", "system"}, NEW n, Trails(n, recent, who),
                 n >= SustainedSamples
          PROVE  all(who)
      <4>1. n \in 0 .. Len(recent) /\ Len(recent) <= SustainedSamples
        BY <3>2 DEF LaunchInv, StreaksTrail, Trails
      <4> DEFINE length == Len(recent)
      <4>2. n = length /\ length = SustainedSamples
        <5>1. /\ length \in Nat /\ SustainedSamples \in Nat
              /\ n \in 0 .. length /\ length <= SustainedSamples /\ n >= SustainedSamples
          BY <3>0, <3>2, <4>1, LauncherAssumption
        <5> HIDE DEF length
        <5> QED BY <5>1
      <4>3. \A i \in 1 .. Len(recent) : i > Len(recent) - n
        BY <3>0, <4>2
      <4> QED BY <3>0, <3>2, <4>2, <4>3 DEF Trails
    <3>3. Trails(streaks.child, recent, "child") /\ Trails(streaks.system, recent, "system")
      BY DEF LaunchInv, StreaksTrail
    <3>4. stage = "watch" => ~all("child") /\ ~all("system")
      BY <3>1, <3>3 DEF LaunchInv, StreaksStop
    <3>5. stage = "stop" /\ reason = "child_cpu" => all("child")
      BY <3>2, <3>3 DEF LaunchInv, StreaksStop
    <3>6. stage = "stop" /\ reason = "system_cpu" => all("system")
      BY <3>2, <3>3 DEF LaunchInv, StreaksStop
    <3> QED BY <3>4, <3>5, <3>6 DEF CpuAbortIsEarned
  <2> QED BY <2>1, <2>2, <2>3 DEF AbortsAreEarned
<1> QED BY <1>1, Invariance, PTL

\* The guard file of a run that was watched is of this run, agrees with the
\* exit code, and says COMPLETED_PASS only of a child that ended content after
\* it wrote its result.
THEOREM GuardStaysTrue == Spec => []GuardTellsTheRun
<1>1. LaunchInv => GuardTellsTheRun
  BY DEF LaunchInv, GuardAgrees, GuardTellsTheRun, FailureCodes
<1> QED BY <1>1, Invariance, PTL
=============================================================================
