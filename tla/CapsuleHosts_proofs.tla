------------------------ MODULE CapsuleHosts_proofs ------------------------
(***************************************************************************)
(* Theorems about CapsuleHosts, for regions of any pages, any core and any *)
(* values, and any version of the SDK, with their proofs.                  *)
(*                                                                         *)
(* ScriptAssumption says what the order of the steps is in the text of the *)
(* scripts; proved here is what becomes of it when calls fail, are noted   *)
(* or not, and threads end at any moment.  HostInv is the inductive        *)
(* invariant.  The last move of each workspace tells its state             *)
(* (PromisesHold), unless a failure has been noted; its content is what    *)
(* was hashed, or has been scribbled on (ContentsAreHashed); and if no     *)
(* step is left out, the gate's counters are those of the text             *)
(* (StepsAreCounted, WaitsHaveWoken, ChecksHaveVerified).                  *)
(***************************************************************************)
EXTENDS CapsuleHosts, FiniteSetTheorems, WellFoundedInduction, TLAPS

-----------------------------------------------------------------------------
(***************************************************************************)
(* The invariant, but for the types                                        *)
(***************************************************************************)
\* A thread of the SDK runs only in the state it belongs to.
Sound(r) ==
    /\ r.builder = "running" <=> r.state = "building"
    /\ r.builder = "ended" => r.state \in {"baseline", "active"}
    /\ r.deep = "running" => r.state = "deep"
    /\ r.deep = "ended" => r.state \in {"deep", "capsule"}

\* What a move that has succeeded makes of a region, up to the next one
Promise(call, r) ==
    CASE call \in {"create", "cancel", "release"} -> NoThread(r) /\ r.state = "active"
      [] call = "begin" -> r.builder # "none"
      [] call \in {"wait_baseline", "rearm"} -> NoThread(r) /\ r.state = "baseline"
      [] call = "sleep" -> r.state = "dormant"
      [] call = "resume" -> r.state = "core"
      [] call = "deep" -> r.deep # "none"
      [] call = "wait_deep" -> NoThread(r) /\ r.state = "capsule"

\* The script has not come to its end.
Running == stage = "script" /\ at < Len(Script)

\* The script has not been left, nor the rest of it been given up.
OnCourse == stage = "script" /\ (at < Len(Script) \/ ~noted)

\* The host goes on after a failure only where it remembers it.
Forgone(step, r) ==
    /\ step.code = Noted
    /\ step.call = "wait_deep" => r.state \in {"deep", "capsule"}

RegionsAreSound == \A w \in Workspaces : Sound(region[w])

\* What was last asked of a region holds, unless it failed and the failure is
\* noted.
PromisesHold ==
    Running => \A w \in Workspaces : \A j \in 1 .. at - 1 :
        LastMove(Script, w, at, j) =>
            Promise(Script[j].call, region[w]) \/ (noted /\ Forgone(Script[j], region[w]))

\* No capsule misses a page: there is no write between sr_resume_core and
\* sr_rearm_existing_capsule, and a failed sr_enter_dormant is the last call.
CapsulesAreWhole == Running => \A w \in Workspaces : region[w].clean /\ region[w].whole

\* A region holds what was hashed last, or the foreground has written since.
ContentsAreHashed ==
    OnCourse =>
        \A w \in Workspaces : region[w].content = expected[w] \/ Scribbled(Script, w, at)

\* Nothing goes wrong but the one thing that does in phase 7.
WrongIsNothing ==
    wrong \subseteq {"fault"} /\ ("fault" \in wrong => host = "phase7" /\ noted)

\* The script is not broken off while all goes well.
Straight == \A i \in DOMAIN Script : Script[i].call # "unless_slow"

\* The later hosts have looked at the version when they have loaded the SDK.
SdkIsKnown ==
    /\ host \notin {"phase7", "phase8", "phase9"} /\ stage = "script" /\ at > 2
         => sdk = Host[host].version

\* The counters the gate looks at are the numbers of steps done.
StepsAreCounted ==
    stage = "script" /\ ~noted /\ Straight =>
        /\ checks = Cardinality(Steps(Script, at, "check"))
        /\ rearms = Cardinality(Steps(Script, at, "rearm"))

\* A capsule has come back by a thread, which is remembered; a wait has seen it.
CapsulesAreWoken == \A w \in Workspaces : region[w].state = "capsule" => w \in woken
WaitsHaveWoken ==
    stage = "script" /\ ~noted /\ Straight =>
        \A i \in 1 .. at - 1 : Script[i].call = "wait_deep" => Script[i].on \in woken

\* A workspace that was checked and has not slept since is verified.
ChecksHaveVerified ==
    stage = "script" /\ ~noted /\ Straight =>
        \A i \in 1 .. at - 1 :
           /\ Script[i].call \in Checking \ {"check_core"}
           /\ \A k \in i + 1 .. at - 1 : ~(Script[k].on = Script[i].on /\ Script[k].call = "sleep")
           => Script[i].on \in verified

\* The exit code tells of the end, and only some ends leave regions.
EndIsTrue ==
    /\ stage = "script" => exit = 0
    /\ PassIsEarned
    /\ stage = "ended" => \/ Left = {} \/ exit \in {41, Crashed}
                          \/ ~Host[host].tidy /\ at < Len(Script)

-----------------------------------------------------------------------------
(***************************************************************************)
(* Regions: what the calls of RegionCalls keep                             *)
(***************************************************************************)
\* A call that succeeds keeps its promise, and the content of a capsule that
\* is whole.
LEMMA CallSucceeds ==
    ASSUME NEW r \in Regions, Sound(r), NEW call \in Calls, Accepted(call, r),
           NEW new \in Successes(call, r)
    PROVE  /\ new \in Regions /\ Sound(new) /\ Promise(call, new)
           /\ r.whole => new.content = r.content
           /\ r.clean => new.clean
           /\ r.clean /\ r.whole => new.whole
           /\ new.state = "capsule" => r.state = "capsule"
<1> USE DEF Regions, RegionStates, Sound, Promise, NoThread
<1>1. CASE call = "begin"
  BY <1>1 DEF Accepted, Successes, To, Builder
<1>2. CASE call = "wait_baseline"
  BY <1>2 DEF Accepted, Successes, Builder
<1>3. CASE call = "cancel"
  BY <1>3 DEF Accepted, Successes, Builder
<1>4. CASE call = "sleep"
  <2>1. NoThread(r) /\ r.state = "baseline"
    BY <1>4 DEF Accepted
  <2>2. new \in Slept(r)
    BY <1>4 DEF Successes
  <2>3. PICK c \in [Pages -> Values] :
          new = Holding(c, To("dormant", r)) /\ (r.whole => c = r.content)
    BY <2>2 DEF Slept
  <2> QED BY <1>4, <2>1, <2>3 DEF Holding, To
<1>5. CASE call = "resume"
  BY <1>5 DEF Accepted, Successes, To, Clean
<1>6. CASE call = "deep"
  BY <1>6 DEF Accepted, Successes, To, Deep
<1>7. CASE call = "wait_deep"
  BY <1>7 DEF Accepted, Successes, Deep
<1>8. CASE call = "rearm"
  BY <1>8 DEF Accepted, Successes, To, Whole
<1>9. CASE call = "release"
  BY <1>9 DEF Accepted, Successes, To, Whole
<1> QED
  BY <1>1, <1>2, <1>3, <1>4, <1>5, <1>6, <1>7, <1>8, <1>9 DEF Calls

\* A call that fails leaves the region as it is, but for a thread that has
\* ended and the write watch.
LEMMA CallFails ==
    ASSUME NEW r \in Regions, Sound(r), NEW call \in Calls, Accepted(call, r),
           NEW new \in Failures(call, r)
    PROVE  /\ new \in Regions /\ Sound(new)
           /\ new.content = r.content /\ new.state = r.state /\ new.clean = r.clean
           /\ call # "sleep" => new.whole = r.whole
           /\ call # "release"
<1> USE DEF Regions, RegionStates, Sound, NoThread
<1>1. CASE call \in {"wait_baseline", "cancel"}
  BY <1>1 DEF Accepted, Failures, Builder
<1>2. CASE call = "wait_deep"
  BY <1>2 DEF Accepted, Failures, Deep
<1>3. CASE call = "sleep"
  BY <1>3 DEF Accepted, Failures, Whole
<1>4. CASE call = "release"
  BY <1>4 DEF Failures
<1>5. CASE call \in {"begin", "resume", "deep", "rearm"}
  <2>1. new \in {r}
    BY <1>5 DEF Failures
  <2> QED BY <1>5, <2>1
<1> QED BY <1>1, <1>2, <1>3, <1>4, <1>5 DEF Calls

\* The threads end without breaking a promise.
LEMMA ThreadOutcome ==
    ASSUME NEW r \in Regions, Sound(r), NEW new \in Built(r) \cup Restored(r)
    PROVE  /\ new \in Regions /\ Sound(new)
           /\ new.content = r.content /\ new.clean = r.clean /\ new.whole = r.whole
           /\ \A call \in Moves : Promise(call, r) => Promise(call, new)
           /\ r.state \in {"deep", "capsule"} => new.state \in {"deep", "capsule"}
           /\ r.state # "none"
<1> USE DEF Regions, RegionStates, Sound, NoThread
<1>1. CASE r.builder = "running" /\ new \in Built(r)
  <2>1. PICK s \in {"baseline", "active"} : new = Builder("ended", To(s, r))
    BY <1>1 DEF Built
  <2> QED BY <1>1, <2>1 DEF Builder, To, Promise, Moves, Calls
<1>2. CASE r.deep = "running" /\ new \in Restored(r)
  <2>1. PICK s \in {"capsule", "deep"} : new = Deep("ended", To(s, r))
    BY <1>2 DEF Restored
  <2> QED BY <1>2, <2>1 DEF Deep, To, Promise, Moves, Calls
<1> QED BY <1>1, <1>2 DEF Built, Restored

\* The application may write wherever it can.
LEMMA WriteOutcome ==
    ASSUME NEW r \in Regions, Sound(r), NEW content \in [Pages -> Values]
    PROVE  /\ Written(r, content) \in Regions /\ Sound(Written(r, content))
           /\ Written(r, content).content = content
           /\ Written(r, content).state = r.state
           /\ Written(r, content).builder = r.builder
           /\ Written(r, content).deep = r.deep
           /\ Written(r, content).whole = r.whole
           /\ r.state \notin {"core", "deep", "capsule"} => Written(r, content).clean = r.clean
  BY DEF Written, Clean, Holding, Regions, RegionStates, Sound

\* A region that has just been created
LEMMA CreateOutcome ==
    ASSUME NEW content \in [Pages -> Values]
    PROVE  /\ Fresh(content) \in Regions /\ Sound(Fresh(content))
           /\ Promise("create", Fresh(content))
           /\ Fresh(content).content = content
           /\ Fresh(content).clean /\ Fresh(content).whole
           /\ Fresh(content).state = "active"
  BY DEF Fresh, Regions, RegionStates, Sound, Promise, NoThread

\* A region that is destroyed keeps what it held.
LEMMA DestroyOutcome ==
    ASSUME NEW r \in Regions
    PROVE  /\ Destroyed(r) \in Regions /\ Sound(Destroyed(r))
           /\ Destroyed(r).content = r.content /\ Destroyed(r).state = "none"
           /\ Destroyed(r).clean = r.clean /\ Destroyed(r).whole = r.whole
  BY DEF Destroyed, Deep, Builder, To, Regions, RegionStates, Sound

-----------------------------------------------------------------------------
(***************************************************************************)
(* Scripts: what ScriptAssumption says of the present step                 *)
(***************************************************************************)
\* The assumption, of the host there is
LEMMA HostFacts ==
    ASSUME host \in Considered
    PROVE  /\ FailsWell(host) /\ InOrder(host) /\ Hashed(host) /\ TakesTurns(host)
           /\ CanPass(host)
  BY ScriptAssumption, HostAssumption

\* The steps of its script
LEMMA ScriptFacts ==
    ASSUME host \in Considered
    PROVE  /\ Len(Script) \in Nat /\ Len(Script) > 0 /\ DOMAIN Script = 1 .. Len(Script)
           /\ \A i \in 1 .. Len(Script) :
                /\ Script[i].call \in StepCalls /\ Script[i].on \in Workspaces
                /\ Script[i].code \in Nat \cup {Abandon}
                /\ Script[i].call = "judge" <=> i = Len(Script)
                /\ Script[i].call \in {"load", "version", "create", "judge"} => Script[i].code > 0
                /\ Script[i].call \in Calls /\ Script[i].code = Noted
                     => Script[i].call \in {"wait_deep", "release"}
<1>1. FailsWell(host)
  BY HostFacts
<1> DEFINE S == [call : StepCalls, on : Workspaces, code : Nat \cup {Abandon}]
<1>2. Script \in Seq(S)
  BY <1>1 DEF FailsWell, Script, Workspaces
<1>3. Len(Script) \in Nat /\ DOMAIN Script = 1 .. Len(Script)
  BY <1>2
<1>4. \A i \in 1 .. Len(Script) : Script[i] \in S
  <2> HIDE DEF S
  <2> QED BY <1>2, <1>3
<1>5. /\ Len(Script) > 0
      /\ \A i \in DOMAIN Script :
           /\ Script[i].call = "judge" <=> i = Len(Script)
           /\ Script[i].call \in {"load", "version", "create", "judge"} => Script[i].code > 0
           /\ Script[i].call \in Calls /\ Script[i].code = Noted
                => Script[i].call \in {"wait_deep", "release"}
  BY <1>1, Zenon DEF FailsWell, Script
<1>6. \A i \in 1 .. Len(Script) :
        /\ Script[i].call \in StepCalls /\ Script[i].on \in Workspaces
        /\ Script[i].code \in Nat \cup {Abandon}
  BY <1>4
<1> QED BY <1>3, <1>5, <1>6, Zenon

\* Where the host is in its script
Placed == host \in Considered /\ at \in 1 .. Len(Script)

\* The present step
LEMMA NowFacts ==
    ASSUME Placed
    PROVE  /\ Now.call \in StepCalls /\ Now.on \in Workspaces
           /\ Now.code \in Nat \cup {Abandon}
           /\ Now.call = "judge" <=> at = Len(Script)
           /\ Now.call \in {"load", "version", "create", "judge"} => Now.code > 0
           /\ Now.call \in Calls /\ Now.code = Noted => Now.call \in {"wait_deep", "release"}
           /\ at \in Nat /\ Len(Script) \in Nat /\ 1 <= at /\ at <= Len(Script)
<1>1. host \in Considered /\ at \in 1 .. Len(Script)
  BY DEF Placed
<1>2. at \in Nat /\ Len(Script) \in Nat /\ 1 <= at /\ at <= Len(Script)
  <2>1. Len(Script) \in Nat
    BY <1>1, ScriptFacts
  <2> QED BY <1>1, <2>1
<1> QED BY <1>1, <1>2, ScriptFacts, Zenon DEF Now

\* The last move of a workspace after one more step
LEMMA NextLast ==
    ASSUME Placed, NEW w, NEW j \in 1 .. at, LastMove(Script, w, at + 1, j)
    PROVE  IF Now.on = w /\ Now.call \in Moves THEN j = at
           ELSE j \in 1 .. at - 1 /\ LastMove(Script, w, at, j)
<1>1. at \in Nat /\ j \in Nat /\ j <= at /\ 1 <= j
  BY NowFacts
<1>2. CASE j = at
  BY <1>1, <1>2 DEF LastMove, Now
<1>3. CASE j < at
  <2>1. at \in j + 1 .. (at + 1) - 1
    BY <1>1, <1>3
  <2>2. ~(Now.on = w /\ Now.call \in Moves)
    BY <2>1 DEF LastMove, Now
  <2>3. \A k \in j + 1 .. at - 1 : k \in j + 1 .. (at + 1) - 1
    BY <1>1
  <2> QED BY <1>1, <1>3, <2>2, <2>3 DEF LastMove
<1> QED BY <1>1, <1>2, <1>3

\* What may have been written stays so until the workspace is hashed again.
LEMMA NextScribbled ==
    ASSUME Placed, NEW w, ~(Now.on = w /\ Now.call = "mutate"), Scribbled(Script, w, at)
    PROVE  Scribbled(Script, w, at + 1)
<1>1. at \in Nat
  BY NowFacts
<1>2. PICK j \in 1 .. at :
        /\ Script[j].on = w /\ Script[j].call = "poll_baseline"
        /\ \A k \in j + 1 .. at - 1 : ~(Script[k].on = w /\ Script[k].call = "mutate")
  BY DEF Scribbled
<1>3. j \in 1 .. at + 1
  BY <1>1
<1>4. \A k \in j + 1 .. (at + 1) - 1 : ~(Script[k].on = w /\ Script[k].call = "mutate")
  <2>1. \A k \in j + 1 .. (at + 1) - 1 : k = at \/ k \in j + 1 .. at - 1
    BY <1>1
  <2> QED BY <1>2, <2>1 DEF Now
<1> QED BY <1>2, <1>3, <1>4 DEF Scribbled

\* The foreground writes during the very step.
LEMMA NowScribbled ==
    ASSUME Placed, Now.call = "poll_baseline"
    PROVE  Scribbled(Script, Now.on, at)
<1>1. at \in Nat /\ at \in 1 .. at
  BY NowFacts
<1>2. \A k \in at + 1 .. at - 1 : FALSE
  BY <1>1
<1> QED BY <1>1, <1>2 DEF Scribbled, Now

\* What is known of the region a step needs
Fit ==
    /\ Now.call \in {"wait_baseline", "cancel", "probe", "poll_baseline"} => Mine.builder # "none"
    /\ Now.call \in {"sleep", "mutate"} => NoThread(Mine) /\ Mine.state = "baseline"
    /\ Now.call = "resume" => Mine.state = "dormant"
    /\ Now.call \in {"deep", "check_core"} => Mine.state = "core"
    /\ Now.call \in {"wait_deep", "poll_deep"} => Mine.deep # "none"
    /\ Now.call = "begin" => noted \/ (NoThread(Mine) /\ Mine.state = "active")
    /\ Now.call \in {"rearm", "release"} => noted \/ (NoThread(Mine) /\ Mine.state = "capsule")
    /\ Now.call = "check_if_restored" => Mine.state \in {"deep", "capsule"}
    /\ Now.call \in {"check", "interact"} =>
         (noted /\ host = "phase7") \/ Mine.state \in {"baseline", "capsule"}

\* The order of the script makes every step fit.
LEMMA EveryStepFits ==
    ASSUME Placed, RegionsAreSound, PromisesHold, stage = "script", Now.call \notin Free
    PROVE  Running /\ Fit
<1>1. Running
  <2>1. at # Len(Script)
    BY NowFacts DEF Free
  <2> QED BY <2>1, NowFacts DEF Running
<1>2. PICK j \in 1 .. at - 1 :
        /\ LastMove(Script, Now.on, at, j) /\ Script[j].call \in After(Now.call)
        /\ Script[j].code = Noted /\ Now.call \in {"check", "interact"} => host = "phase7"
  <2>1. InOrder(host) /\ at \in DOMAIN Script
    BY HostFacts, ScriptFacts DEF Placed
  <2> QED BY <2>1 DEF InOrder, Script, Now
<1>3. /\ j \in 1 .. Len(Script) /\ Script[j].call \in Moves
  <2>1. j \in 1 .. Len(Script)
    BY NowFacts
  <2> QED BY <1>2, <2>1 DEF LastMove
<1>4. Now.on \in Workspaces
  BY NowFacts
<1>5. Promise(Script[j].call, Mine) \/ (noted /\ Forgone(Script[j], Mine))
  BY <1>1, <1>2, <1>4 DEF PromisesHold, Mine
<1>6. CASE Promise(Script[j].call, Mine)
  <2> DEFINE last == Script[j].call
  <2>1. last \in After(Now.call) /\ Promise(last, Mine)
    BY <1>2, <1>6
  <2> HIDE DEF last
  <2>2. Now.call \in {"wait_baseline", "cancel", "probe", "poll_baseline"} => Mine.builder # "none"
    BY <2>1 DEF After, Promise
  <2>3. Now.call \in {"sleep", "mutate"} => NoThread(Mine) /\ Mine.state = "baseline"
    BY <2>1 DEF After, Promise
  <2>4. Now.call = "resume" => Mine.state = "dormant"
    BY <2>1 DEF After, Promise
  <2>5. Now.call \in {"deep", "check_core"} => Mine.state = "core"
    BY <2>1 DEF After, Promise
  <2>6. Now.call \in {"wait_deep", "poll_deep"} => Mine.deep # "none"
    BY <2>1 DEF After, Promise
  <2>7. Now.call = "begin" => NoThread(Mine) /\ Mine.state = "active"
    BY <2>1 DEF After, Promise
  <2>8. Now.call \in {"rearm", "release", "check_if_restored"} =>
          NoThread(Mine) /\ Mine.state = "capsule"
    BY <2>1 DEF After, Promise
  <2>9. Now.call \in {"check", "interact"} => Mine.state \in {"baseline", "capsule"}
    BY <2>1 DEF After, Promise
  <2>10. Now.call = "check_if_restored" => Mine.state \in {"deep", "capsule"}
    BY <2>8
  <2>11. Now.call \in {"rearm", "release"} => NoThread(Mine) /\ Mine.state = "capsule"
    BY <2>8
  <2> QED
    BY <1>1, <2>2, <2>3, <2>4, <2>5, <2>6, <2>7, <2>9, <2>10, <2>11, Zenon DEF Fit
<1>7. CASE noted /\ Forgone(Script[j], Mine)
  <2>1. host \in Considered
    BY DEF Placed
  <2>2. Script[j].call \in {"wait_deep", "release"}
    <3>1. Script[j].code = Noted
      BY <1>7 DEF Forgone
    <3>2. Script[j].call # "create"
      <4>1. Script[j].call = "create" => Script[j].code > 0
        BY <1>3, <2>1, ScriptFacts
      <4> QED BY <3>1, <4>1 DEF Noted
    <3>3. Script[j].call \in Calls
      BY <1>3, <3>2 DEF Moves
    <3> QED BY <1>3, <2>1, <3>1, <3>3, ScriptFacts
  <2>3. noted /\ (Script[j].call = "wait_deep" => Mine.state \in {"deep", "capsule"})
    BY <1>7 DEF Forgone
  <2>4. Now.call \in {"check", "interact"} => host = "phase7"
    BY <1>2, <1>7 DEF Forgone
  <2>5. Now.call \in {"begin", "rearm", "release", "check_if_restored", "check", "interact"}
    BY <1>2, <2>2, NowFacts DEF After, StepCalls, Free, Calls, Checking
  <2>6. Now.call = "check_if_restored" => Script[j].call = "wait_deep"
    BY <1>2 DEF After
  <2>7. Now.call = "check_if_restored" => Mine.state \in {"deep", "capsule"}
    BY <2>3, <2>6
  <2>8. /\ Now.call \notin {"wait_baseline", "cancel", "probe", "poll_baseline"}
        /\ Now.call \notin {"sleep", "mutate"} /\ Now.call # "resume"
        /\ Now.call \notin {"deep", "check_core"} /\ Now.call \notin {"wait_deep", "poll_deep"}
    BY <2>5
  <2> QED BY <1>1, <2>3, <2>4, <2>7, <2>8, Zenon DEF Fit
<1> QED BY <1>1, <1>5, <1>6, <1>7

-----------------------------------------------------------------------------
(***************************************************************************)
(* Steps of a script: where they lead, and what they do                    *)
(***************************************************************************)
RegionTypes ==
    /\ region \in [Workspaces -> Regions]
    /\ expected \in [Workspaces -> [Pages -> Values]]

RestTypes ==
    /\ sdk \in Nat /\ checks \in Nat /\ rearms \in Nat /\ noted \in BOOLEAN
    /\ woken \subseteq Workspaces /\ verified \subseteq Workspaces
    /\ stage \in {"script", "cleanup", "ended"} /\ exit \in Nat

\* What a step may rely on
Known ==
    /\ Placed /\ RegionTypes /\ RestTypes
    /\ RegionsAreSound /\ PromisesHold /\ CapsulesAreWhole /\ ContentsAreHashed
    /\ WrongIsNothing

\* The host goes on to the next step, or to the end, or returns.
Onward == at' = at + 1 /\ UNCHANGED <<stage, exit>>
Skips ==
    /\ at' = Len(Script) /\ UNCHANGED <<stage, exit>>
    /\ \/ Now.code = Abandon /\ noted' = TRUE
       \/ Now.call = "unless_slow" /\ noted' = noted
Leaves ==
    /\ UNCHANGED <<at, noted>>
    /\ exit' \in Nat \ {0} /\ stage' \in {"cleanup", "ended"}
    /\ stage' = "ended" => \/ exit' \in {41, Crashed}
                           \/ ~Host[host].tidy /\ at < Len(Script)

Goes ==
    /\ noted' \in BOOLEAN /\ (noted => noted')
    /\ (Onward \/ Skips \/ Leaves)

\* What a step makes of the region it is about, which is new then
Effect(new) ==
    /\ new \in Regions /\ Sound(new) /\ region' = [region EXCEPT ![Now.on] = new]
    /\ new.state = "capsule" => Mine.state = "capsule"
    /\ OnCourse' =>
         /\ IF Now.call \in Moves THEN Promise(Now.call, new) \/ (noted' /\ Forgone(Now, new))
            ELSE new.state = Mine.state /\ new.builder = Mine.builder /\ new.deep = Mine.deep
         /\ new.clean /\ new.whole

\* What it makes of what the host remembers
Memory(new) ==
    /\ expected' \in [Workspaces -> [Pages -> Values]]
    /\ \A w \in Workspaces \ {Now.on} : expected'[w] = expected[w]
    /\ OnCourse' =>
         \/ expected'[Now.on] = new.content
         \/ /\ Now.call # "mutate" /\ expected'[Now.on] = expected[Now.on]
            /\ new.content = Mine.content

Record ==
    /\ checks' \in Nat /\ rearms' \in Nat
    /\ OnCourse' =>
         /\ checks' = IF Now.call = "check" THEN checks + 1 ELSE checks
         /\ ~noted' => rearms' = IF Now.call = "rearm" THEN rearms + 1 ELSE rearms
         /\ ~noted' /\ Now.call \in Checking \ {"check_core"} => Now.on \in verified'
         /\ Now.call = "version" => sdk = Host[host].version
    /\ verified' \subseteq Workspaces
    /\ verified \ (IF Now.call = "sleep" THEN {Now.on} ELSE {}) \subseteq verified'
    /\ WrongIsNothing'

ScriptStep ==
    /\ stage = "script" /\ at < Len(Script) /\ UNCHANGED <<host, sdk, woken>>
    /\ Goes
    /\ \E new \in Regions : Effect(new) /\ Memory(new)
    /\ Record

\* A step that passes goes on.
LEMMA PassGoes ==
    ASSUME Known, stage = "script", at < Len(Script), host' = host, Pass
    PROVE  Goes /\ Onward /\ noted' = noted
  BY DEF Known, RestTypes, Pass, Continue, Goes, Onward

\* One that fails stays on course only if the failure is to be noted.
LEMMA FailGoes ==
    ASSUME Known, stage = "script", at < Len(Script), host' = host, Fail
    PROVE  Goes /\ (OnCourse' => Now.code = Noted /\ noted' = TRUE)
<1>0. noted \in BOOLEAN /\ Script' = Script
  BY DEF Known, RestTypes, Script
<1>1. CASE Now.code = Noted
  <2>1. noted' = TRUE /\ Continue
    BY <1>1 DEF Fail, Noted, Abandon
  <2>2. Onward
    BY <2>1 DEF Continue, Onward
  <2> QED BY <1>1, <2>1, <2>2 DEF Goes
<1>2. CASE Now.code = Abandon
  <2>1. Now.code # Noted
    BY <1>2 DEF Noted, Abandon
  <2>2. noted' = TRUE /\ at' = Len(Script) /\ UNCHANGED <<stage, exit>>
    BY <1>2, <2>1 DEF Fail
  <2>3. Len(Script) \in Nat
    BY NowFacts DEF Known
  <2>4. ~OnCourse'
    BY <1>0, <2>2, <2>3 DEF OnCourse
  <2> QED BY <1>2, <2>2, <2>4 DEF Goes, Skips
<1>3. CASE Now.code \notin {Noted, Abandon}
  <2>1. Now.code \in Nat \ {0}
    BY <1>3, NowFacts DEF Known, Noted
  <2>2. Return(Now.code, Host[host].tidy) /\ UNCHANGED noted
    BY <1>3 DEF Fail
  <2>3. Leaves /\ stage' # "script"
    BY <2>1, <2>2 DEF Return, Leaves
  <2> QED BY <1>0, <2>2, <2>3 DEF Goes, OnCourse
<1> QED BY <1>1, <1>2, <1>3

\* A step that has nothing to do with the regions
LEMMA IdleStep ==
    ASSUME Known, stage = "script", at < Len(Script),
           UNCHANGED <<host, sdk, woken, region, expected, checks, rearms, wrong, verified>>,
           Goes, Now.call \notin Moves \cup Checking \cup {"mutate"},
           OnCourse' => (Now.call = "version" => sdk = Host[host].version)
    PROVE  ScriptStep
<1>1. Mine \in Regions /\ Sound(Mine) /\ Now.on \in Workspaces
  <2>1. Now.on \in Workspaces
    BY NowFacts DEF Known
  <2> QED BY <2>1 DEF Known, RegionTypes, RegionsAreSound, Mine
<1>2. region' = [region EXCEPT ![Now.on] = Mine]
  BY <1>1 DEF Known, RegionTypes, Mine
<1>3. Running
  BY DEF Running
<1>4. Mine.clean /\ Mine.whole
  BY <1>1, <1>3 DEF Known, CapsulesAreWhole, Mine
<1>5. Effect(Mine)
  BY <1>1, <1>2, <1>4, Zenon DEF Effect
<1>6. Memory(Mine)
  BY DEF Memory, Known, RegionTypes
<1>7. Record
  <2>1. Now.call \notin {"check", "rearm", "sleep"}
    BY DEF Moves, Calls, Checking
  <2>2. WrongIsNothing'
    BY DEF Known, WrongIsNothing, Goes
  <2>3. Now.call \notin Checking
    OBVIOUS
  <2> QED BY <2>1, <2>2, <2>3 DEF Record, Known, RestTypes
<1> QED BY <1>1, <1>5, <1>6, <1>7 DEF ScriptStep

\* One lemma for each action of a script
LEMMA LoadSdkStep == ASSUME Known, LoadSdk PROVE ScriptStep
<1>1. stage = "script" /\ Now.call = "load"
  BY DEF LoadSdk, At
<1>2. at < Len(Script)
  BY <1>1, NowFacts DEF Known
<1>3. Goes
  BY <1>1, <1>2, PassGoes, FailGoes DEF LoadSdk
<1>4. Now.call \notin Moves \cup Checking \cup {"mutate"}
  BY <1>1 DEF Moves, Calls, Checking
<1> QED BY <1>1, <1>2, <1>3, <1>4, IdleStep DEF LoadSdk

LEMMA CheckVersionStep == ASSUME Known, CheckVersion PROVE ScriptStep
<1>1. stage = "script" /\ Now.call = "version"
  BY DEF CheckVersion, At
<1>2. at < Len(Script) /\ Now.code > 0
  BY <1>1, NowFacts DEF Known
<1>3. Goes /\ (OnCourse' => sdk = Host[host].version)
  <2>1. CASE sdk = Host[host].version
    BY <1>1, <1>2, <2>1, PassGoes DEF CheckVersion
  <2>2. CASE sdk # Host[host].version
    <3>1. Fail /\ host' = host
      BY <2>2 DEF CheckVersion
    <3>2. Now.code # Noted
      BY <1>2 DEF Noted
    <3> QED BY <1>1, <1>2, <3>1, <3>2, FailGoes
  <2> QED BY <2>1, <2>2
<1>4. Now.call \notin Moves \cup Checking \cup {"mutate"}
  BY <1>1 DEF Moves, Calls, Checking
<1> QED BY <1>1, <1>2, <1>3, <1>4, IdleStep DEF CheckVersion

LEMMA BranchStep == ASSUME Known, Branch PROVE ScriptStep
<1>1. stage = "script" /\ Now.call \in {"go_on", "unless_slow"}
  BY DEF Branch, At
<1>2. at < Len(Script)
  BY <1>1, NowFacts DEF Known
<1>3. Goes
  <2>1. CASE Fail
    BY <1>1, <1>2, <2>1, FailGoes DEF Branch
  <2>2. CASE Pass
    BY <1>1, <1>2, <2>2, PassGoes DEF Branch
  <2>3. CASE Now.call = "unless_slow" /\ at' = Len(Script) /\ UNCHANGED <<noted, stage, exit>>
    BY <2>3 DEF Goes, Skips, Known, RestTypes
  <2> QED BY <2>1, <2>2, <2>3 DEF Branch
<1>4. Now.call \notin Moves \cup Checking \cup {"mutate"}
  BY <1>1 DEF Moves, Calls, Checking
<1> QED BY <1>1, <1>2, <1>3, <1>4, IdleStep DEF Branch

\* The region of the present step, when the script is not at its end
LEMMA MineFacts ==
    ASSUME Known, stage = "script", at < Len(Script)
    PROVE  /\ Now.on \in Workspaces /\ Mine \in Regions /\ Sound(Mine) /\ Mine.clean /\ Mine.whole
           /\ Mine.content = expected[Now.on] \/ Scribbled(Script, Now.on, at)
           /\ Mine.content \in [Pages -> Values] /\ expected[Now.on] \in [Pages -> Values]
           /\ \A r \in Regions : [region EXCEPT ![Now.on] = r] \in [Workspaces -> Regions]
           /\ region = [region EXCEPT ![Now.on] = Mine]
<1>1. Now.on \in Workspaces
  BY NowFacts DEF Known
<1>2. Running
  BY DEF Running
<1>3. Mine \in Regions /\ Sound(Mine) /\ Mine.clean /\ Mine.whole
  BY <1>1, <1>2 DEF Known, RegionTypes, RegionsAreSound, CapsulesAreWhole, Mine
<1>4. Mine.content = expected[Now.on] \/ Scribbled(Script, Now.on, at)
  BY <1>1, <1>2 DEF Known, ContentsAreHashed, OnCourse, Running, Mine
<1>5. Mine.content \in [Pages -> Values]
  BY <1>3 DEF Regions
<1> QED BY <1>1, <1>3, <1>4, <1>5 DEF Known, RegionTypes, Mine

LEMMA CreateStep == ASSUME Known, Create PROVE ScriptStep
<1>1. stage = "script" /\ Now.call = "create"
  BY DEF Create, At
<1>2. at < Len(Script) /\ Now.code > 0
  BY <1>1, NowFacts DEF Known
<1>3. /\ Now.call \in Moves /\ Now.call # "mutate"
      /\ Now.call \notin Checking /\ Now.call \notin {"check", "rearm", "sleep", "version"}
  BY <1>1 DEF Moves, Checking
<1>4. Record
  <2>1. noted => noted'
    BY <1>1, <1>2, PassGoes, FailGoes DEF Create, Goes
  <2>2. WrongIsNothing'
    BY <2>1 DEF Known, WrongIsNothing, Create
  <2> QED BY <1>3, <2>2 DEF Record, Create, Known, RestTypes
<1>5. CASE Pass /\ region' = [region EXCEPT ![Now.on] = Fresh(expected[Now.on])]
  <2> DEFINE new == Fresh(expected[Now.on])
  <2>1. Goes
    BY <1>1, <1>2, <1>5, PassGoes DEF Create
  <2>2. /\ new \in Regions /\ Sound(new) /\ Promise(Now.call, new)
        /\ new.content = expected[Now.on] /\ new.clean /\ new.whole /\ new.state # "capsule"
    BY <1>1, <1>2, MineFacts, CreateOutcome
  <2>3. Effect(new)
    <3> HIDE DEF new
    <3> QED BY <1>3, <1>5, <2>2, Zenon DEF Effect, new
  <2>4. Memory(new)
    BY <1>1, <1>2, <2>2, MineFacts DEF Memory, Known, RegionTypes, Create
  <2> HIDE DEF new
  <2> QED BY <1>1, <1>2, <1>4, <2>1, <2>2, <2>3, <2>4 DEF ScriptStep, Create
<1>6. CASE Fail /\ UNCHANGED region
  <2>1. Goes /\ ~OnCourse'
    <3>1. Now.code # Noted
      BY <1>2 DEF Noted
    <3> QED BY <1>1, <1>2, <1>6, <3>1, FailGoes DEF Create
  <2>2. Effect(Mine)
    BY <1>1, <1>2, <1>6, <2>1, MineFacts DEF Effect
  <2>3. Memory(Mine)
    BY <1>1, <1>2, <2>1 DEF Memory, Known, RegionTypes, Create
  <2> QED BY <1>1, <1>2, <1>4, <2>1, <2>2, <2>3, MineFacts DEF ScriptStep, Create
<1> QED BY <1>5, <1>6 DEF Create

LEMMA PollStep == ASSUME Known, Poll PROVE ScriptStep
<1>1. stage = "script" /\ Now.call \in {"probe", "poll_baseline", "poll_deep"}
  BY DEF Poll, At
<1>2. at < Len(Script) /\ Now.call \notin Free
  BY <1>1, NowFacts DEF Known, Free
<1>3. Now.call \notin Moves \cup Checking \cup {"mutate"} /\ Now.call # "version"
  BY <1>1 DEF Moves, Calls, Checking
<1>4. Mine \in Regions /\ Sound(Mine)
  BY <1>1, <1>2, MineFacts
<1>5. Uses(CorePages)
  <2>1. Mine.builder # "none" \/ Mine.deep # "none"
    BY <1>1, <1>2, EveryStepFits DEF Known, Fit
  <2>2. Mine.state \in {"building", "baseline", "active", "deep", "capsule"}
    BY <1>4, <2>1 DEF Sound, Regions
  <2> QED BY <2>2, CoreAssumption DEF Uses, Usable
<1>6. Pass /\ UNCHANGED wrong
  BY <1>5 DEF Poll
<1>7. Goes
  BY <1>1, <1>2, <1>6, PassGoes DEF Poll
<1> QED BY <1>1, <1>2, <1>3, <1>6, <1>7, IdleStep DEF Poll

\* What mutate_workspace makes of a content
LEMMA OtherIsContent ==
    ASSUME NEW content \in [Pages -> Values] PROVE Other(content) \in [Pages -> Values]
  BY HostAssumption DEF Other

LEMMA MutateStep == ASSUME Known, Mutate PROVE ScriptStep
<1>1. stage = "script" /\ Now.call = "mutate"
  BY DEF Mutate, At
<1>2. at < Len(Script) /\ Now.call \notin Free
  BY <1>1, NowFacts DEF Known, Free
<1>3. /\ Now.call \notin Moves /\ Now.call \notin Checking
      /\ Now.call \notin {"check", "rearm", "sleep", "version"}
  BY <1>1 DEF Moves, Calls, Checking
<1>4. Mine.state = "baseline"
  BY <1>1, <1>2, EveryStepFits DEF Known, Fit
<1>5. Uses(Pages)
  BY <1>4 DEF Uses, Usable
<1> DEFINE content == Other(Mine.content)
           new     == Written(Mine, content)
<1>6. /\ region' = [region EXCEPT ![Now.on] = new]
      /\ expected' = [expected EXCEPT ![Now.on] = content]
      /\ Pass /\ UNCHANGED wrong
  BY <1>5 DEF Mutate
<1>7. Goes /\ noted' = noted
  BY <1>1, <1>2, <1>6, PassGoes DEF Mutate
<1>8. content \in [Pages -> Values]
  BY <1>1, <1>2, MineFacts, OtherIsContent
<1>9. /\ new \in Regions /\ Sound(new) /\ new.content = content /\ new.state = Mine.state
      /\ new.builder = Mine.builder /\ new.deep = Mine.deep /\ new.clean /\ new.whole
  <2> HIDE DEF content
  <2> QED BY <1>1, <1>2, <1>4, <1>8, MineFacts, WriteOutcome DEF new
<1>10. Effect(new)
  BY <1>3, <1>4, <1>6, <1>9 DEF Effect
<1>11. Memory(new)
  <2> HIDE DEF new, content
  <2>1. Now.on \in Workspaces
    BY <1>1, <1>2, MineFacts
  <2> QED BY <1>6, <1>8, <1>9, <2>1 DEF Memory, Known, RegionTypes
<1>12. Record
  <2>1. WrongIsNothing'
    BY <1>6, <1>7 DEF Known, WrongIsNothing, Mutate
  <2> QED BY <1>3, <2>1 DEF Record, Mutate, Known, RestTypes
<1> QED BY <1>1, <1>2, <1>7, <1>9, <1>10, <1>11, <1>12 DEF ScriptStep, Mutate

\* What is read is there, but for phase 7 after a failure, and as it was hashed.
LEMMA ChecksAreFit ==
    ASSUME Known, stage = "script", Now.call \in Checking
    PROVE  /\ Uses(ReadPages) \/ (noted /\ host = "phase7")
           /\ Matches /\ at < Len(Script)
           /\ Now.call # "check_core" /\ ReadPages # {} => ReadPages = Pages
<1>1. at < Len(Script) /\ Now.call \notin Free
  BY NowFacts DEF Known, Free, Checking
<1>2. Fit
  BY <1>1, EveryStepFits DEF Known
<1>3. Mine.content = expected[Now.on]
  <2>1. at \in DOMAIN Script /\ host \in Considered
    BY ScriptFacts DEF Known, Placed
  <2>2. ~Scribbled(Script, Now.on, at)
    BY <2>1, HostFacts DEF Hashed, Script, Now
  <2> QED BY <1>1, <2>2, MineFacts
<1>4. CASE Now.call = "check_core"
  <2>1. ReadPages = CorePages /\ Mine.state = "core"
    BY <1>2, <1>4 DEF ReadPages, Fit
  <2> QED BY <1>1, <1>3, <1>4, <2>1, CoreAssumption DEF Uses, Usable, Matches
<1>5. CASE Now.call = "check_if_restored"
  <2>1. Mine.state \in {"deep", "capsule"}
    BY <1>2, <1>5 DEF Fit
  <2>2. ReadPages = IF Mine.state = "deep" THEN {} ELSE Pages
    BY <1>5 DEF ReadPages
  <2> QED BY <1>1, <1>3, <2>1, <2>2 DEF Uses, Usable, Matches
<1>6. CASE Now.call \in {"check", "interact"}
  <2>1. (noted /\ host = "phase7") \/ Mine.state \in {"baseline", "capsule"}
    BY <1>2, <1>6 DEF Fit
  <2>2. ReadPages = Pages
    BY <1>6 DEF ReadPages
  <2>3. Mine.state \in {"baseline", "capsule"} => Uses(ReadPages)
    BY <2>2 DEF Uses, Usable
  <2>4. Matches
    BY <1>3, <2>2 DEF Matches
  <2> QED BY <1>1, <2>1, <2>2, <2>3, <2>4, Zenon
<1> QED BY <1>4, <1>5, <1>6 DEF Checking

LEMMA CheckStep == ASSUME Known, Check PROVE ScriptStep
<1>1. /\ stage = "script" /\ Now.call \in Checking
      /\ UNCHANGED <<host, sdk, region, expected, rearms, woken>>
      /\ checks' = IF Now.call = "check" THEN checks + 1 ELSE checks
  BY DEF Check, At
<1>2. /\ at < Len(Script) /\ Matches
      /\ Uses(ReadPages) \/ (noted /\ host = "phase7")
      /\ Now.call # "check_core" /\ ReadPages # {} => ReadPages = Pages
  BY <1>1, ChecksAreFit
<1>3. Now.call \notin Moves /\ Now.call \notin {"rearm", "sleep", "version", "mutate"}
  BY <1>1 DEF Moves, Calls, Checking
<1>4. ASSUME Goes
      PROVE  \E new \in Regions : Effect(new) /\ Memory(new)
  <2>1. Effect(Mine)
    BY <1>1, <1>2, <1>3, MineFacts DEF Effect
  <2>2. Memory(Mine)
    BY <1>1, <1>2, <1>3, MineFacts DEF Memory, Known, RegionTypes
  <2> QED BY <1>1, <1>2, <2>1, <2>2, MineFacts
<1>5. checks' \in Nat /\ rearms' \in Nat /\ rearms' = rearms
  BY <1>1 DEF Known, RestTypes
<1>6. CASE ~Uses(ReadPages)
  <2>1. Fault /\ UNCHANGED verified
    BY <1>6 DEF Check
  <2>2. Leaves /\ Goes /\ stage' # "script"
    BY <2>1 DEF Fault, Return, Leaves, Goes, Crashed, Known, RestTypes
  <2>3. WrongIsNothing'
    BY <1>1, <1>2, <1>6, <2>1 DEF Fault, WrongIsNothing, Known
  <2>4. Record
    BY <1>1, <1>3, <1>5, <2>1, <2>2, <2>3 DEF Record, OnCourse, Known, RestTypes
  <2> QED BY <1>1, <1>2, <1>4, <2>2, <2>4 DEF ScriptStep
<1>7. CASE Uses(ReadPages)
  <2>1. /\ IF ReadPages = {} THEN Fail ELSE Pass
        /\ verified' = IF ReadPages = Pages THEN verified \cup {Now.on} ELSE verified
        /\ UNCHANGED wrong
    BY <1>2, <1>7 DEF Check
  <2>2. Goes /\ (ReadPages = {} => (OnCourse' => noted' = TRUE))
    BY <1>1, <1>2, <2>1, PassGoes, FailGoes
  <2>3. WrongIsNothing'
    BY <1>1, <2>1, <2>2 DEF Goes, WrongIsNothing, Known
  <2>4. OnCourse' /\ ~noted' /\ Now.call \in Checking \ {"check_core"} => Now.on \in verified'
    BY <1>2, <2>1, <2>2
  <2>5. verified \subseteq verified' /\ verified' \subseteq Workspaces
    BY <1>1, <1>2, <2>1, MineFacts DEF Known, RestTypes
  <2>6. Workspaces' = Workspaces
    BY <1>1 DEF Workspaces
  <2>7. Record
    BY <1>1, <1>3, <1>5, <2>3, <2>4, <2>5, <2>6 DEF Record
  <2> QED BY <1>1, <1>2, <1>4, <2>2, <2>7 DEF ScriptStep
<1> QED BY <1>6, <1>7

\* The SDK accepts every call, unless something has been noted.
LEMMA CallsAreFit ==
    ASSUME Known, stage = "script", Now.call \in Calls, ~noted
    PROVE  Accepted(Now.call, Mine)
<1>1. at < Len(Script) /\ Now.call \notin Free
  BY NowFacts DEF Known, Free, Calls
<1>2. Fit /\ Sound(Mine) /\ Mine \in Regions
  BY <1>1, EveryStepFits, MineFacts DEF Known
<1>3. CASE Now.call = "begin"
  BY <1>2, <1>3 DEF Fit, Accepted
<1>4. CASE Now.call \in {"wait_baseline", "cancel"}
  BY <1>2, <1>4 DEF Fit, Accepted
<1>5. CASE Now.call = "sleep"
  BY <1>2, <1>5 DEF Fit, Accepted
<1>6. CASE Now.call = "resume"
  BY <1>2, <1>6 DEF Fit, Accepted
<1>7. CASE Now.call = "deep"
  BY <1>2, <1>7 DEF Fit, Accepted, Sound, Regions
<1>8. CASE Now.call = "wait_deep"
  BY <1>2, <1>8 DEF Fit, Accepted
<1>9. CASE Now.call \in {"rearm", "release"}
  BY <1>2, <1>9 DEF Fit, Accepted
<1> QED BY <1>3, <1>4, <1>5, <1>6, <1>7, <1>8, <1>9 DEF Calls

LEMMA CallSdkStep == ASSUME Known, CallSdk PROVE ScriptStep
<1>1. /\ stage = "script" /\ Now.call \in Calls
      /\ UNCHANGED <<host, sdk, expected, checks, woken>>
  BY DEF CallSdk, At
<1>2. at < Len(Script) /\ Now.call \notin Free
  BY <1>1, NowFacts DEF Known, Free, Calls
<1>3. /\ Now.call \in Moves /\ Now.call # "mutate"
      /\ Now.call \notin Checking /\ Now.call \notin {"check", "version"}
  BY <1>1 DEF Moves, Calls, Checking
<1>4. /\ Mine \in Regions /\ Sound(Mine) /\ Mine.clean /\ Mine.whole
      /\ Now.on \in Workspaces
  BY <1>1, <1>2, MineFacts
<1>5. Script' = Script /\ Workspaces' = Workspaces
  BY <1>1 DEF Script, Workspaces
<1>6. ASSUME NEW new, new.content = Mine.content
      PROVE  Memory(new)
  BY <1>1, <1>3, <1>5, <1>6 DEF Memory, Known, RegionTypes
<1>7. CASE /\ Accepted(Now.call, Mine)
           /\ \E r \in Successes(Now.call, Mine) : region' = [region EXCEPT ![Now.on] = r]
           /\ Pass
           /\ rearms' = IF Now.call = "rearm" THEN rearms + 1 ELSE rearms
           /\ verified' = IF Now.call = "sleep" THEN verified \ {Now.on} ELSE verified
           /\ UNCHANGED wrong
  <2>1. PICK new \in Successes(Now.call, Mine) : region' = [region EXCEPT ![Now.on] = new]
    BY <1>7
  <2>2. /\ new \in Regions /\ Sound(new) /\ Promise(Now.call, new)
        /\ new.content = Mine.content /\ new.clean /\ new.whole
        /\ new.state = "capsule" => Mine.state = "capsule"
    BY <1>1, <1>4, <1>7, CallSucceeds
  <2>3. Goes /\ noted' = noted
    BY <1>1, <1>2, <1>7, PassGoes
  <2>4. Effect(new)
    BY <1>3, <2>1, <2>2, Zenon DEF Effect
  <2>5. Record
    <3>1. WrongIsNothing'
      BY <1>1, <1>7, <2>3 DEF WrongIsNothing, Known
    <3>2. checks' \in Nat /\ rearms' \in Nat /\ checks' = checks
      BY <1>1, <1>7 DEF Known, RestTypes
    <3>3. /\ verified' \subseteq Workspaces
          /\ verified \ (IF Now.call = "sleep" THEN {Now.on} ELSE {}) \subseteq verified'
      BY <1>7 DEF Known, RestTypes
    <3> QED BY <1>3, <1>5, <1>7, <3>1, <3>2, <3>3 DEF Record
  <2> QED BY <1>1, <1>2, <1>6, <2>2, <2>3, <2>4, <2>5 DEF ScriptStep
<1>8. ASSUME Fail, UNCHANGED <<rearms, verified>>,
             wrong' \subseteq wrong,
             NEW new \in Regions, region' = [region EXCEPT ![Now.on] = new], Sound(new),
             new.content = Mine.content, new.state = Mine.state, new.clean,
             Now.call # "sleep" => new.whole
      PROVE  ScriptStep
  <2>1. Goes /\ (OnCourse' => Now.code = Noted /\ noted' = TRUE)
    BY <1>1, <1>2, <1>8, FailGoes
  <2>2. OnCourse' => Now.call \in {"wait_deep", "release"}
    BY <1>1, <2>1, NowFacts DEF Known
  <2>3. Now.call = "wait_deep" => new.state \in {"deep", "capsule"}
    <3>1. Now.call = "wait_deep" => Mine.deep # "none"
      BY <1>1, <1>2, EveryStepFits DEF Known, Fit
    <3> QED BY <1>4, <1>8, <3>1 DEF Sound, Regions
  <2>4. Effect(new)
    <3>1. OnCourse' => noted' /\ Forgone(Now, new) /\ new.clean /\ new.whole
      BY <1>8, <2>1, <2>2, <2>3 DEF Forgone
    <3> QED BY <1>3, <1>8, <3>1, Zenon DEF Effect
  <2>5. Record
    <3>1. WrongIsNothing'
      BY <1>1, <1>8, <2>1 DEF WrongIsNothing, Known, Goes
    <3>2. checks' \in Nat /\ rearms' \in Nat /\ checks' = checks /\ verified' \subseteq Workspaces
      BY <1>1, <1>8 DEF Known, RestTypes
    <3> QED BY <1>3, <1>5, <1>8, <2>1, <3>1, <3>2 DEF Record
  <2> QED BY <1>1, <1>2, <1>6, <1>8, <2>1, <2>4, <2>5 DEF ScriptStep
<1>9. CASE /\ Accepted(Now.call, Mine)
           /\ \E r \in Failures(Now.call, Mine) : region' = [region EXCEPT ![Now.on] = r]
           /\ Fail
           /\ UNCHANGED <<rearms, verified, wrong>>
  <2>1. PICK new \in Failures(Now.call, Mine) : region' = [region EXCEPT ![Now.on] = new]
    BY <1>9
  <2>2. /\ new \in Regions /\ Sound(new)
        /\ new.content = Mine.content /\ new.state = Mine.state /\ new.clean
        /\ Now.call # "sleep" => new.whole
    BY <1>1, <1>4, <1>9, CallFails
  <2> QED BY <1>8, <1>9, <2>1, <2>2
<1>10. CASE /\ ~Accepted(Now.call, Mine)
            /\ Fail
            /\ wrong' = IF noted THEN wrong ELSE wrong \cup {"refused"}
            /\ UNCHANGED <<region, rearms, verified>>
  <2>1. noted
    BY <1>1, <1>10, CallsAreFit
  <2>2. region' = [region EXCEPT ![Now.on] = Mine]
    BY <1>1, <1>2, <1>10, MineFacts
  <2> QED BY <1>4, <1>8, <1>10, <2>1, <2>2
<1> QED BY <1>7, <1>9, <1>10 DEF CallSdk

LEMMA PressureStep == ASSUME Known, CancelledByPressure PROVE ScriptStep
<1>1. stage = "script" /\ Now.call = "cancel"
  BY DEF CancelledByPressure, At
<1>2. at < Len(Script) /\ Now.call \notin Free
  BY <1>1, NowFacts DEF Known, Free
<1>3. /\ Now.call \in Moves /\ Now.call \in Calls /\ Now.call # "mutate"
      /\ Now.call \notin Checking /\ Now.call \notin {"check", "version", "sleep", "rearm"}
  BY <1>1 DEF Moves, Calls, Checking
<1>4. Mine \in Regions /\ Sound(Mine) /\ Mine.clean /\ Mine.whole
  BY <1>1, <1>2, MineFacts
<1>5. Accepted(Now.call, Mine)
  <2>1. Mine.builder # "none"
    BY <1>1, <1>2, EveryStepFits DEF Known, Fit
  <2> QED BY <1>1, <2>1 DEF Accepted
<1>6. PICK new \in Successes(Now.call, Mine) : region' = [region EXCEPT ![Now.on] = new]
  BY <1>1 DEF CancelledByPressure
<1>7. /\ new \in Regions /\ Sound(new) /\ Promise(Now.call, new)
      /\ new.content = Mine.content /\ new.clean /\ new.whole
      /\ new.state = "capsule" => Mine.state = "capsule"
  BY <1>3, <1>4, <1>5, CallSucceeds
<1>8. Goes /\ noted' = TRUE
  <2>1. Onward /\ noted' = TRUE
    BY DEF CancelledByPressure, Continue, Onward
  <2> QED BY <2>1, Zenon DEF Goes
<1>9. Effect(new)
  BY <1>3, <1>6, <1>7, Zenon DEF Effect
<1>10. Memory(new)
  BY <1>3, <1>7 DEF Memory, Known, RegionTypes, CancelledByPressure
<1>11. Record
  <2>1. WrongIsNothing'
    BY <1>8 DEF WrongIsNothing, Known, CancelledByPressure
  <2> QED BY <1>3, <1>8, <2>1 DEF Record, CancelledByPressure, Known, RestTypes
<1> QED BY <1>1, <1>2, <1>7, <1>8, <1>9, <1>10, <1>11 DEF ScriptStep, CancelledByPressure

-----------------------------------------------------------------------------
(***************************************************************************)
(* The other steps: the end of the script, the clean-up, the foreground's  *)
(* writes and the threads of the SDK                                       *)
(***************************************************************************)
Ending ==
    /\ stage = "script"
    /\ UNCHANGED <<host, sdk, at, region, expected, checks, rearms, woken, noted, wrong, verified>>
    /\ exit' \in Nat /\ stage' \in {"cleanup", "ended"}
    /\ exit' = 0 => Now.call = "judge" /\ Gate
    /\ stage' = "ended" => exit' \in {41, Crashed}

\* What happens to the region of w while the host stays where it is
Change(w, new) ==
    /\ new \in Regions /\ Sound(new) /\ region' = [region EXCEPT ![w] = new]
    /\ region[w].state # "none"
    /\ new.state = "capsule" => w \in woken'
    /\ new.clean = region[w].clean /\ new.whole = region[w].whole
    /\ new.content = region[w].content \/ (stage = "script" /\ Scribbled(Script, w, at))
    /\ stage = "script" =>
         /\ \A call \in Moves : Promise(call, region[w]) => Promise(call, new)
         /\ region[w].state \in {"deep", "capsule"} => new.state \in {"deep", "capsule"}

Background ==
    /\ UNCHANGED <<host, sdk, at, expected, checks, rearms, noted, exit, wrong, verified>>
    /\ woken' \subseteq Workspaces /\ woken \subseteq woken'
    /\ \/ stage' = stage /\ \E w \in Workspaces : \E new \in Regions : Change(w, new)
       \/ stage = "cleanup" /\ stage' = "ended" /\ Left = {} /\ UNCHANGED region

\* And one for each of the other actions
LEMMA ThrowsStep == ASSUME Known, Throws PROVE Ending
<1>1. FailsWell(host)
  BY HostFacts DEF Known, Placed
<1>2. /\ Host[host].thrown \in Nat \ {0} /\ Host[host].catches \in BOOLEAN
      /\ Host[host].catches \/ Host[host].thrown \in {41, Crashed}
  BY <1>1 DEF FailsWell
<1> QED BY <1>2 DEF Throws, Return, Ending

LEMMA JudgeStep == ASSUME Known, Judge PROVE Ending
<1>1. stage = "script" /\ Now.call = "judge"
  BY DEF Judge, At
<1>2. Now.code \in Nat /\ Now.code # 0
  BY <1>1, NowFacts DEF Known, Abandon
<1> QED BY <1>1, <1>2 DEF Judge, Return, Ending

LEMMA WriteStep == ASSUME Known, ConcurrentWrite PROVE Background
<1>1. stage = "script" /\ Now.call = "poll_baseline" /\ Mine.builder = "running"
  BY DEF ConcurrentWrite, At
<1>2. at < Len(Script)
  BY <1>1, NowFacts DEF Known
<1>3. /\ Now.on \in Workspaces /\ Mine \in Regions /\ Sound(Mine)
      /\ Mine.content \in [Pages -> Values]
  BY <1>1, <1>2, MineFacts
<1>4. PICK p \in Pages :
        region' = [region EXCEPT ![Now.on] =
                     Written(Mine, [Mine.content EXCEPT ![p] = 1 - Mine.content[p]])]
  BY DEF ConcurrentWrite
<1> DEFINE content == [Mine.content EXCEPT ![p] = 1 - Mine.content[p]]
           new     == Written(Mine, content)
<1>5. content \in [Pages -> Values]
  BY <1>3, HostAssumption
<1>6. Mine.state = "building"
  BY <1>1, <1>3 DEF Sound
<1>7. /\ new \in Regions /\ Sound(new) /\ new.state = Mine.state
      /\ new.builder = Mine.builder /\ new.deep = Mine.deep
      /\ new.clean = Mine.clean /\ new.whole = Mine.whole
  <2> HIDE DEF content
  <2> QED BY <1>3, <1>5, <1>6, WriteOutcome DEF new
<1>8. \A call \in Moves : Promise(call, Mine) => Promise(call, new)
  <2> HIDE DEF new
  <2> QED BY <1>7 DEF Promise, NoThread, Moves, Calls
<1>9. Scribbled(Script, Now.on, at)
  BY <1>1, NowScribbled DEF Known
<1>10. Change(Now.on, new)
  <2>1. region' = [region EXCEPT ![Now.on] = new] /\ Mine = region[Now.on]
    BY <1>4 DEF Mine
  <2> HIDE DEF new
  <2> QED BY <1>1, <1>6, <1>7, <1>8, <1>9, <2>1 DEF Change
<1> HIDE DEF new
<1> QED BY <1>3, <1>7, <1>10 DEF Background, ConcurrentWrite, Known, RestTypes

LEMMA ThreadStep == ASSUME Known, SdkStep PROVE Background
<1>1. PICK w \in Workspaces : ThreadEnds(w)
  BY DEF SdkStep
<1>2. PICK new \in Built(region[w]) \cup Restored(region[w]) : region' = [region EXCEPT ![w] = new]
  BY <1>1 DEF ThreadEnds
<1>3. region[w] \in Regions /\ Sound(region[w])
  BY DEF Known, RegionTypes, RegionsAreSound
<1>4. /\ new \in Regions /\ Sound(new)
      /\ new.content = region[w].content
      /\ new.clean = region[w].clean /\ new.whole = region[w].whole
      /\ \A call \in Moves : Promise(call, region[w]) => Promise(call, new)
      /\ region[w].state \in {"deep", "capsule"} => new.state \in {"deep", "capsule"}
      /\ region[w].state # "none"
  BY <1>2, <1>3, ThreadOutcome
<1>5. region'[w] = new
  BY <1>2 DEF Known, RegionTypes
<1>6. woken' = IF new.state = "capsule" THEN woken \cup {w} ELSE woken
  BY <1>1, <1>5 DEF ThreadEnds
<1>7. Change(w, new)
  BY <1>2, <1>4, <1>6 DEF Change
<1>8. woken' \subseteq Workspaces /\ woken \subseteq woken'
  BY <1>6 DEF Known, RestTypes
<1> QED BY <1>1, <1>4, <1>7, <1>8 DEF Background, ThreadEnds

\* Of the regions left there is a first.
LEMMA LeastNatural ==
    ASSUME NEW S \in SUBSET Nat, S # {}
    PROVE  \E v \in S : \A u \in S : v <= u
<1> DEFINE less == {ss \in Nat \X Nat : ss[1] < ss[2]}
<1>1. PICK v \in S : \A u \in S : <<u, v>> \notin less
  <2> HIDE DEF less
  <2>1. IsWellFoundedOn(less, Nat)
    BY NatLessThanWellFounded, Zenon DEF less, OpToRel
  <2> QED BY <2>1, WFMin
<1>2. \A u \in S : ~(u < v)
  <2> SUFFICES ASSUME NEW u \in S, u < v PROVE FALSE
    OBVIOUS
  <2>1. <<u, v>> \in Nat \X Nat
    OBVIOUS
  <2>2. <<u, v>> \in less
    BY <2>1
  <2> QED BY <1>1, <2>2
<1> QED BY <1>2

LEMMA DestroyStep == ASSUME Known, Destroy PROVE Background
<1>1. CASE Left = {}
  BY <1>1 DEF Destroy, Background, Known, RestTypes
<1>2. CASE Left # {}
  <2> DEFINE w == CHOOSE w \in Left : \A v \in Left : w <= v
             new == Destroyed(region[w])
  <2>1. w \in Left
    <3>1. Left \subseteq Nat
      <4>1. FailsWell(host)
        BY HostFacts DEF Known, Placed
      <4> QED BY <4>1 DEF FailsWell, Left, Workspaces
    <3>2. \E v \in Left : \A u \in Left : v <= u
      BY <1>2, <3>1, LeastNatural
    <3> QED BY <3>2
  <2>2. stage = "cleanup" /\ stage' = stage /\ region' = [region EXCEPT ![w] = new]
    BY <1>2 DEF Destroy
  <2>3. w \in Workspaces /\ region[w] \in Regions /\ region[w].state # "none"
    <3> HIDE DEF w
    <3> QED BY <2>1 DEF Left, Known, RegionTypes
  <2>4. /\ new \in Regions /\ Sound(new) /\ new.content = region[w].content
        /\ new.state = "none" /\ new.clean = region[w].clean /\ new.whole = region[w].whole
    <3> HIDE DEF w
    <3> QED BY <2>3, DestroyOutcome
  <2>5. Change(w, new)
    <3> HIDE DEF w, new
    <3> QED BY <2>2, <2>3, <2>4 DEF Change
  <2> HIDE DEF w, new
  <2> QED BY <2>2, <2>3, <2>4, <2>5 DEF Background, Destroy, Known, RestTypes
<1> QED BY <1>1, <1>2

\* Every step of the program is one of the three kinds.
LEMMA KindsOfStep == ASSUME Known, Next PROVE ScriptStep \/ Ending \/ Background
  BY LoadSdkStep, CheckVersionStep, CreateStep, CallSdkStep, PressureStep, CheckStep,
     MutateStep, PollStep, BranchStep, JudgeStep, ThrowsStep, DestroyStep, WriteStep,
     ThreadStep
  DEF Next, HostStep

-----------------------------------------------------------------------------
(***************************************************************************)
(* Regions and contents are as the last moves have left them               *)
(***************************************************************************)
\* The host and its script never change.
LEMMA SameHost ==
    ASSUME Known, ScriptStep \/ Ending \/ Background
    PROVE  host' = host /\ Script' = Script /\ Workspaces' = Workspaces
  BY DEF ScriptStep, Ending, Background, Script, Workspaces

\* Where a step of the script leads, by numbers
LEMMA NextPlace ==
    ASSUME Known, ScriptStep
    PROVE  /\ at \in Nat /\ Len(Script) \in Nat /\ 1 <= at /\ at < Len(Script)
           /\ at' \in 1 .. Len(Script)
           /\ at' = at + 1 \/ at' = at \/ at' = Len(Script)
           /\ Running' => Onward
           /\ OnCourse' => Onward \/ (Skips /\ Now.call = "unless_slow")
<1>1. at \in Nat /\ Len(Script) \in Nat /\ 1 <= at /\ at < Len(Script)
  BY NowFacts DEF Known, ScriptStep
<1>2. Len(Script)' = Len(Script)
  BY SameHost
<1>3. Onward \/ Skips \/ Leaves
  BY DEF ScriptStep, Goes
<1>4. CASE Onward
  BY <1>1, <1>4 DEF Onward
<1>5. CASE Skips
  <2>1. at' = Len(Script) /\ (noted' = TRUE \/ Now.call = "unless_slow")
    BY <1>5 DEF Skips
  <2>2. ~Running' /\ (OnCourse' => ~noted')
    BY <1>1, <1>2, <2>1 DEF Running, OnCourse
  <2> QED BY <1>1, <1>5, <2>1, <2>2
<1>6. CASE Leaves
  <2>1. at' = at /\ stage' # "script"
    BY <1>6 DEF Leaves
  <2> QED BY <1>1, <2>1 DEF Running, OnCourse
<1> QED BY <1>3, <1>4, <1>5, <1>6

\* Every variable keeps its type, and every region is sound.
LEMMA TypesStay ==
    ASSUME Known, ScriptStep \/ Ending \/ Background
    PROVE  Placed' /\ RegionTypes' /\ RestTypes' /\ RegionsAreSound' /\ WrongIsNothing'
<1> USE SameHost
<1>1. CASE ScriptStep
  <2>1. Placed'
    BY <1>1, NextPlace DEF Known, Placed
  <2>2. PICK new \in Regions : Effect(new) /\ Memory(new)
    BY <1>1 DEF ScriptStep
  <2>3. RegionTypes' /\ RegionsAreSound'
    BY <1>1, <2>2 DEF Known, RegionTypes, RegionsAreSound, Effect, Memory
  <2>4. stage' \in {"script", "cleanup", "ended"} /\ exit' \in Nat
    BY <1>1 DEF ScriptStep, Goes, Onward, Skips, Leaves, Known, RestTypes
  <2>5. RestTypes'
    BY <1>1, <2>4 DEF ScriptStep, Goes, Record, Known, RestTypes
  <2> QED BY <1>1, <2>1, <2>3, <2>5 DEF ScriptStep, Record
<1>2. CASE Ending
  BY <1>2 DEF Ending, Known, Placed, RegionTypes, RestTypes, RegionsAreSound, WrongIsNothing
<1>3. CASE Background
  <2>1. Placed' /\ WrongIsNothing'
    BY <1>3 DEF Background, Known, Placed, WrongIsNothing
  <2>2. RestTypes'
    BY <1>3 DEF Background, Known, RestTypes
  <2>3. CASE UNCHANGED region
    BY <1>3, <2>1, <2>2, <2>3 DEF Background, Known, RegionTypes, RegionsAreSound
  <2>4. CASE \E w \in Workspaces : \E new \in Regions : Change(w, new)
    <3>1. PICK w \in Workspaces, new \in Regions : Change(w, new)
      BY <2>4
    <3>2. RegionTypes' /\ RegionsAreSound'
      BY <1>3, <3>1 DEF Background, Known, RegionTypes, RegionsAreSound, Change
    <3> QED BY <2>1, <2>2, <3>2
  <2> QED BY <1>3, <2>3, <2>4 DEF Background
<1> QED BY <1>1, <1>2, <1>3

\* A move keeps its own promise and those of the other workspaces.
LEMMA PromisesStay ==
    ASSUME Known, ScriptStep \/ Ending \/ Background
    PROVE  PromisesHold'
<1> USE SameHost
<1>1. CASE ScriptStep
  <2>1. SUFFICES ASSUME Running', NEW w \in Workspaces, NEW j \in 1 .. at' - 1,
                        LastMove(Script, w, at', j)
                 PROVE  \/ Promise(Script[j].call, region'[w])
                        \/ noted' /\ Forgone(Script[j], region'[w])
    BY DEF PromisesHold
  <2>2. at' = at + 1 /\ at \in Nat /\ 1 <= at /\ at < Len(Script)
    BY <1>1, <2>1, NextPlace DEF Onward
  <2>3. j \in 1 .. at
    BY <2>2
  <2>4. PICK new \in Regions : Effect(new)
    BY <1>1 DEF ScriptStep
  <2>5. Running /\ Now.on \in Workspaces /\ (noted => noted')
    BY <1>1, <2>2, NowFacts DEF Running, ScriptStep, Goes, Known
  <2>6. OnCourse'
    BY <2>1 DEF Running, OnCourse
  <2>7. region' = [region EXCEPT ![Now.on] = new] /\ region'[Now.on] = new
    BY <2>4, <2>5 DEF Effect, Known, RegionTypes
  <2>8. CASE Now.on = w /\ Now.call \in Moves
    <3>1. j = at /\ Script[j] = Now
      BY <2>2, <2>3, <2>1, <2>8, NextLast DEF Known, Now
    <3>2. Promise(Now.call, new) \/ (noted' /\ Forgone(Now, new))
      BY <2>4, <2>6, <2>8 DEF Effect
    <3> QED BY <2>7, <2>8, <3>1, <3>2
  <2>9. CASE ~(Now.on = w /\ Now.call \in Moves)
    <3>1. j \in 1 .. at - 1 /\ LastMove(Script, w, at, j)
      BY <2>2, <2>3, <2>1, <2>9, NextLast DEF Known
    <3>2. Promise(Script[j].call, region[w]) \/ (noted /\ Forgone(Script[j], region[w]))
      BY <2>5, <3>1 DEF Known, PromisesHold
    <3>3. CASE Now.on # w
      <4>1. region'[w] = region[w]
        BY <2>7, <3>3 DEF Known, RegionTypes
      <4> QED BY <2>5, <3>2, <4>1
    <3>4. CASE Now.on = w
      <4>1. Now.call \notin Moves
        BY <2>9, <3>4
      <4>2. /\ new.state = region[w].state /\ new.builder = region[w].builder
            /\ new.deep = region[w].deep
        BY <2>4, <2>6, <3>4, <4>1 DEF Effect, Mine
      <4>3. Script[j].call \in Moves
        BY <3>1 DEF LastMove
      <4>4. Promise(Script[j].call, region[w]) => Promise(Script[j].call, new)
        BY <4>2, <4>3 DEF Promise, NoThread, Moves, Calls
      <4>5. Forgone(Script[j], region[w]) => Forgone(Script[j], new)
        BY <4>2 DEF Forgone
      <4> QED BY <2>5, <2>7, <3>2, <3>4, <4>4, <4>5
    <3> QED BY <3>3, <3>4
  <2> QED BY <2>8, <2>9
<1>2. CASE Ending
  BY <1>2 DEF Ending, PromisesHold, Running
<1>3. CASE Background
  <2>1. CASE stage' # "script"
    BY <2>1 DEF PromisesHold, Running
  <2>2. CASE stage' = "script"
    <3>1. /\ stage = "script" /\ at' = at /\ noted' = noted
          /\ \E w \in Workspaces : \E new \in Regions : Change(w, new)
      BY <1>3, <2>2 DEF Background
    <3>2. PICK v \in Workspaces, new \in Regions : Change(v, new)
      BY <3>1
    <3>3. SUFFICES ASSUME Running, NEW w \in Workspaces, NEW j \in 1 .. at - 1,
                          LastMove(Script, w, at, j)
                   PROVE  \/ Promise(Script[j].call, region'[w])
                          \/ noted /\ Forgone(Script[j], region'[w])
      BY <3>1 DEF PromisesHold, Running
    <3>4. Promise(Script[j].call, region[w]) \/ (noted /\ Forgone(Script[j], region[w]))
      BY <3>3 DEF Known, PromisesHold
    <3>5. Script[j].call \in Moves
      BY <3>3 DEF LastMove
    <3>6. region'[w] = IF w = v THEN new ELSE region[w]
      BY <3>2 DEF Change, Known, RegionTypes
    <3>7. CASE w = v
      <4>1. Promise(Script[j].call, region[w]) => Promise(Script[j].call, new)
        BY <3>1, <3>2, <3>5, <3>7 DEF Change
      <4>2. Forgone(Script[j], region[w]) => Forgone(Script[j], new)
        BY <3>1, <3>2, <3>7 DEF Change, Forgone
      <4> QED BY <3>4, <3>6, <3>7, <4>1, <4>2
    <3>8. CASE w # v
      BY <3>4, <3>6, <3>8
    <3> QED BY <3>7, <3>8
  <2> QED BY <2>1, <2>2
<1> QED BY <1>1, <1>2, <1>3

\* Every capsule stays whole.
LEMMA WholenessStays ==
    ASSUME Known, ScriptStep \/ Ending \/ Background
    PROVE  CapsulesAreWhole'
<1> USE SameHost
<1>1. SUFFICES ASSUME Running', NEW w \in Workspaces
               PROVE  region'[w].clean /\ region'[w].whole
  BY DEF CapsulesAreWhole
<1>2. CASE ScriptStep
  <2>1. Running /\ OnCourse'
    BY <1>1, <1>2 DEF Running, OnCourse, ScriptStep
  <2>2. PICK new \in Regions : Effect(new)
    BY <1>2 DEF ScriptStep
  <2>3. new.clean /\ new.whole /\ region' = [region EXCEPT ![Now.on] = new]
    BY <2>1, <2>2 DEF Effect
  <2> QED BY <2>1, <2>3 DEF Known, RegionTypes, CapsulesAreWhole
<1>3. CASE Ending
  BY <1>1, <1>3 DEF Ending, Running
<1>4. CASE Background
  <2>1. stage' = "script" /\ stage' = stage /\ at' = at
    BY <1>1, <1>4 DEF Running, Background
  <2>2. Running
    BY <1>1, <2>1 DEF Running
  <2>3. PICK v \in Workspaces, new \in Regions : Change(v, new)
    BY <1>4, <2>1 DEF Background
  <2> QED BY <2>2, <2>3 DEF Change, Known, RegionTypes, CapsulesAreWhole
<1> QED BY <1>2, <1>3, <1>4

\* Contents change with what is hashed, or where they may be scribbled on.
LEMMA ContentsStay ==
    ASSUME Known, ScriptStep \/ Ending \/ Background
    PROVE  ContentsAreHashed'
<1> USE SameHost
<1>1. SUFFICES ASSUME OnCourse', NEW w \in Workspaces
               PROVE  region'[w].content = expected'[w] \/ Scribbled(Script, w, at')
  BY DEF ContentsAreHashed
<1>2. CASE ScriptStep
  <2>1. OnCourse
    BY <1>2 DEF OnCourse, ScriptStep
  <2>2. PICK new \in Regions : Effect(new) /\ Memory(new)
    BY <1>2 DEF ScriptStep
  <2>3. region' = [region EXCEPT ![Now.on] = new] /\ Now.on \in Workspaces
    BY <1>2, <2>2, NowFacts DEF Effect, Known
  <2>4. region[w].content = expected[w] \/ Scribbled(Script, w, at)
    BY <2>1 DEF Known, ContentsAreHashed
  <2>5. CASE Now.on = w /\ expected'[Now.on] = new.content
    BY <2>3, <2>5 DEF Known, RegionTypes
  <2>6. CASE ~(Now.on = w /\ expected'[Now.on] = new.content)
    <3>1. region'[w].content = region[w].content /\ expected'[w] = expected[w]
      <4>1. CASE Now.on # w
        BY <2>2, <2>3, <4>1 DEF Memory, Known, RegionTypes
      <4>2. CASE Now.on = w
        <5>1. expected'[Now.on] = expected[Now.on] /\ new.content = Mine.content
          BY <1>1, <2>2, <2>6, <4>2 DEF Memory
        <5> QED BY <2>3, <4>2, <5>1 DEF Mine, Known, RegionTypes
      <4> QED BY <4>1, <4>2
    <3>2. ~(Now.on = w /\ Now.call = "mutate")
      BY <1>1, <2>2, <2>6 DEF Memory
    <3>3. CASE Onward
      <4>1. Scribbled(Script, w, at) => Scribbled(Script, w, at + 1)
        BY <3>2, NextScribbled DEF Known
      <4> QED BY <2>4, <3>1, <3>3, <4>1 DEF Onward
    <3>4. CASE Now.call = "unless_slow"
      <4>1. Hashed(host) /\ at \in DOMAIN Script
        BY HostFacts, ScriptFacts DEF Known, Placed
      <4>2. ~Scribbled(Script, w, at)
        BY <3>4, <4>1 DEF Hashed, Script, Now, Workspaces
      <4> QED BY <2>4, <3>1, <4>2
    <3> QED BY <1>1, <1>2, <3>3, <3>4, NextPlace
  <2> QED BY <2>5, <2>6
<1>3. CASE Ending
  BY <1>1, <1>3 DEF Ending, OnCourse
<1>4. CASE Background
  <2>1. stage' = "script" /\ stage' = stage /\ at' = at /\ expected' = expected
    BY <1>1, <1>4 DEF OnCourse, Background
  <2>2. OnCourse
    BY <1>1, <1>4, <2>1 DEF OnCourse, Background
  <2>3. PICK v \in Workspaces, new \in Regions : Change(v, new)
    BY <1>4, <2>1 DEF Background
  <2>4. region[w].content = expected[w] \/ Scribbled(Script, w, at)
    BY <2>2 DEF Known, ContentsAreHashed
  <2>5. region'[w] = IF w = v THEN new ELSE region[w]
    BY <2>3 DEF Change, Known, RegionTypes
  <2>6. w = v => new.content = region[w].content \/ Scribbled(Script, w, at)
    BY <2>3 DEF Change
  <2> QED BY <2>1, <2>4, <2>5, <2>6
<1> QED BY <1>2, <1>3, <1>4

-----------------------------------------------------------------------------
(***************************************************************************)
(* What has been counted, woken and verified                               *)
(***************************************************************************)
\* A script is finite.
LEMMA CountIsNatural ==
    ASSUME Placed, NEW call
    PROVE  /\ IsFiniteSet(Steps(Script, at, call))
           /\ Cardinality(Steps(Script, at, call)) \in Nat
<1>1. at \in Nat
  BY NowFacts
<1>2. IsFiniteSet(1 .. at - 1)
  BY <1>1, FS_Interval
<1>3. Steps(Script, at, call) \subseteq 1 .. at - 1
  BY DEF Steps
<1>4. IsFiniteSet(Steps(Script, at, call))
  BY <1>2, <1>3, FS_Subset
<1> QED BY <1>4, FS_CardinalityType

\* One more step is one more of its kind.
LEMMA NextCount ==
    ASSUME Placed, NEW call
    PROVE  Cardinality(Steps(Script, at + 1, call)) =
             IF Now.call = call THEN Cardinality(Steps(Script, at, call)) + 1
             ELSE Cardinality(Steps(Script, at, call))
<1>1. at \in Nat /\ 1 <= at
  BY NowFacts
<1>2. \A k : k \in 1 .. (at + 1) - 1 <=> k \in 1 .. at - 1 \/ k = at
  BY <1>1
<1>3. at \notin Steps(Script, at, call)
  BY <1>1 DEF Steps
<1>4. CASE Now.call = call
  <2>1. Steps(Script, at + 1, call) = Steps(Script, at, call) \cup {at}
    BY <1>2, <1>4 DEF Steps, Now
  <2> QED BY <1>3, <1>4, <2>1, CountIsNatural, FS_AddElement
<1>5. CASE Now.call # call
  <2>1. Steps(Script, at + 1, call) = Steps(Script, at, call)
    BY <1>2, <1>5 DEF Steps, Now
  <2> QED BY <1>5, <2>1
<1> QED BY <1>4, <1>5

\* Nothing is wrong, and no step has been or will be left out.
InFull == stage = "script" /\ ~noted /\ Straight

\* What has gone well so far went well before.
LEMMA FullStep ==
    ASSUME Known, ScriptStep, InFull'
    PROVE  InFull /\ at' = at + 1 /\ OnCourse' /\ ~noted'
<1>1. Straight /\ OnCourse' /\ ~noted'
  BY SameHost DEF InFull, Straight, OnCourse
<1>2. InFull
  BY <1>1 DEF ScriptStep, Goes, InFull
<1>3. Now.call # "unless_slow"
  <2>1. at \in DOMAIN Script
    BY ScriptFacts DEF Known, Placed
  <2> QED BY <1>1, <2>1 DEF Straight, Now
<1> QED BY <1>1, <1>2, <1>3, NextPlace DEF Onward

\* And only other threads act in between.
LEMMA FullRest ==
    ASSUME Known, Ending \/ Background, InFull'
    PROVE  InFull /\ Background /\ at' = at
  BY SameHost DEF InFull, Straight, Ending, Background

\* The version is looked at in the second step.
LEMMA SdkStaysKnown ==
    ASSUME Known, SdkIsKnown, ScriptStep \/ Ending \/ Background
    PROVE  SdkIsKnown'
<1> USE SameHost
<1>1. SUFFICES ASSUME host \notin {"phase7", "phase8", "phase9"}, stage' = "script", at' > 2
               PROVE  sdk' = Host[host].version
  BY DEF SdkIsKnown
<1>2. CASE ScriptStep
  <2>1. Len(Script) > 3 /\ Script[1].call = "load" /\ Script[2].call = "version"
    <3>1. CanPass(host)
      BY HostFacts DEF Known, Placed
    <3> QED BY <1>1, <3>1 DEF CanPass, Script
  <2>2. sdk' = sdk /\ stage = "script"
    BY <1>2 DEF ScriptStep
  <2>3. CASE at > 2
    BY <1>1, <2>2, <2>3 DEF SdkIsKnown
  <2>4. CASE at \in {1, 2}
    <3>1. Now.call \in {"load", "version"} /\ (at = 2 => Now.call = "version")
      BY <2>1, <2>4 DEF Now
    <3>2. Now.code > 0
      BY <3>1, NowFacts DEF Known
    <3>3. ~Skips
      BY <3>1, <3>2 DEF Skips, Abandon
    <3>4. Onward
      BY <1>1, <1>2, <3>3 DEF ScriptStep, Goes, Leaves
    <3>5. at = 2
      BY <1>1, <2>4, <3>4 DEF Onward
    <3>6. OnCourse'
      BY <1>1, <2>1, <3>4, <3>5, NextPlace, <1>2 DEF OnCourse, Onward
    <3> QED BY <1>2, <2>2, <3>1, <3>5, <3>6 DEF ScriptStep, Record
  <2>5. at \in Nat /\ 1 <= at
    BY NowFacts DEF Known
  <2> QED BY <2>3, <2>4, <2>5
<1>3. CASE Ending
  BY <1>1, <1>3 DEF Ending
<1>4. CASE Background
  BY <1>1, <1>4 DEF Background, SdkIsKnown
<1> QED BY <1>2, <1>3, <1>4

\* A check and a rearm that pass are counted, once.
LEMMA CountsStay ==
    ASSUME Known, StepsAreCounted, ScriptStep \/ Ending \/ Background
    PROVE  StepsAreCounted'
<1> USE SameHost
<1>1. SUFFICES ASSUME InFull'
               PROVE  /\ checks' = Cardinality(Steps(Script, at', "check"))
                      /\ rearms' = Cardinality(Steps(Script, at', "rearm"))
  BY DEF StepsAreCounted, InFull
<1>2. CASE ScriptStep
  <2>1. InFull /\ at' = at + 1 /\ OnCourse' /\ ~noted'
    BY <1>1, <1>2, FullStep
  <2>2. /\ checks = Cardinality(Steps(Script, at, "check"))
        /\ rearms = Cardinality(Steps(Script, at, "rearm"))
    BY <2>1 DEF StepsAreCounted, InFull
  <2>3. /\ checks' = IF Now.call = "check" THEN checks + 1 ELSE checks
        /\ rearms' = IF Now.call = "rearm" THEN rearms + 1 ELSE rearms
    BY <1>2, <2>1 DEF ScriptStep, Record
  <2> QED BY <2>1, <2>2, <2>3, NextCount DEF Known
<1>3. CASE Ending \/ Background
  <2>1. InFull /\ Background /\ at' = at
    BY <1>1, <1>3, FullRest
  <2> QED BY <2>1 DEF StepsAreCounted, InFull, Background
<1> QED BY <1>2, <1>3

\* A wait that passes has seen the capsule of a thread that has ended.
LEMMA WokenStay ==
    ASSUME Known, CapsulesAreWoken, WaitsHaveWoken, ScriptStep \/ Ending \/ Background
    PROVE  CapsulesAreWoken' /\ WaitsHaveWoken'
<1> USE SameHost
<1>1. CASE ScriptStep
  <2>1. PICK new \in Regions : Effect(new)
    BY <1>1 DEF ScriptStep
  <2>2. woken' = woken /\ Now.on \in Workspaces
    BY <1>1, NowFacts DEF ScriptStep, Known
  <2>3. new.state = "capsule" => Now.on \in woken
    BY <2>1, <2>2 DEF Effect, CapsulesAreWoken, Mine
  <2>4. CapsulesAreWoken'
    BY <2>1, <2>2, <2>3 DEF Effect, CapsulesAreWoken, Known, RegionTypes
  <2>5. WaitsHaveWoken'
    <3>1. SUFFICES ASSUME InFull', NEW i \in 1 .. at' - 1, Script[i].call = "wait_deep"
                   PROVE  Script[i].on \in woken
      BY <2>2 DEF WaitsHaveWoken, InFull
    <3>2. InFull /\ at' = at + 1 /\ OnCourse' /\ ~noted' /\ at \in Nat
      BY <1>1, <3>1, FullStep, NowFacts DEF Known
    <3>3. CASE i = at
      <4>1. Now.call = "wait_deep" /\ Script[i].on = Now.on
        BY <3>1, <3>3 DEF Now
      <4>2. new.state = "capsule"
        BY <2>1, <3>2, <4>1 DEF Effect, Promise, Moves, Calls
      <4> QED BY <2>3, <4>1, <4>2
    <3>4. CASE i # at
      <4>1. i \in 1 .. at - 1
        BY <3>1, <3>2, <3>4
      <4> QED BY <3>1, <3>2, <4>1 DEF WaitsHaveWoken, InFull
    <3> QED BY <3>3, <3>4
  <2> QED BY <2>4, <2>5
<1>2. CASE Ending
  BY <1>2 DEF Ending, CapsulesAreWoken, WaitsHaveWoken
<1>3. CASE Background
  <2>1. woken \subseteq woken'
    BY <1>3 DEF Background
  <2>2. CapsulesAreWoken'
    <3>1. CASE UNCHANGED region
      BY <2>1, <3>1 DEF CapsulesAreWoken
    <3>2. CASE \E w \in Workspaces : \E new \in Regions : Change(w, new)
      BY <2>1, <3>2 DEF CapsulesAreWoken, Change, Known, RegionTypes
    <3> QED BY <1>3, <3>1, <3>2 DEF Background
  <2>3. WaitsHaveWoken'
    <3>1. SUFFICES ASSUME InFull', NEW i \in 1 .. at' - 1, Script[i].call = "wait_deep"
                   PROVE  Script[i].on \in woken
      BY <2>1 DEF WaitsHaveWoken, InFull
    <3>2. InFull /\ at' = at
      BY <1>3, <3>1, FullRest
    <3> QED BY <3>1, <3>2 DEF WaitsHaveWoken, InFull
  <2> QED BY <2>2, <2>3
<1> QED BY <1>1, <1>2, <1>3

\* A check that passes verifies; only the workspace's own sleep undoes it.
LEMMA VerifiedStay ==
    ASSUME Known, ChecksHaveVerified, ScriptStep \/ Ending \/ Background
    PROVE  ChecksHaveVerified'
<1> USE SameHost
<1>1. SUFFICES ASSUME InFull', NEW i \in 1 .. at' - 1,
                      Script[i].call \in Checking \ {"check_core"},
                      \A k \in i + 1 .. at' - 1 :
                        ~(Script[k].on = Script[i].on /\ Script[k].call = "sleep")
               PROVE  Script[i].on \in verified'
  BY DEF ChecksHaveVerified, InFull
<1>2. CASE ScriptStep
  <2>1. InFull /\ at' = at + 1 /\ OnCourse' /\ ~noted' /\ at \in Nat
    BY <1>1, <1>2, FullStep, NowFacts DEF Known
  <2>2. /\ Now.call \in Checking \ {"check_core"} => Now.on \in verified'
        /\ verified \ (IF Now.call = "sleep" THEN {Now.on} ELSE {}) \subseteq verified'
    BY <1>2, <2>1 DEF ScriptStep, Record
  <2>3. CASE i = at
    BY <1>1, <2>2, <2>3 DEF Now
  <2>4. CASE i # at
    <3>1. i \in 1 .. at - 1 /\ at \in i + 1 .. at' - 1
      BY <1>1, <2>1, <2>4
    <3>2. \A k \in i + 1 .. at - 1 : k \in i + 1 .. at' - 1
      BY <2>1, <3>1
    <3>3. Script[i].on \in verified
      BY <1>1, <2>1, <3>1, <3>2 DEF ChecksHaveVerified, InFull
    <3>4. ~(Now.call = "sleep" /\ Now.on = Script[i].on)
      BY <1>1, <3>1 DEF Now
    <3> QED BY <2>2, <3>3, <3>4
  <2> QED BY <2>3, <2>4
<1>3. CASE Ending \/ Background
  <2>1. InFull /\ Background /\ at' = at
    BY <1>1, <1>3, FullRest
  <2> QED BY <1>1, <2>1 DEF ChecksHaveVerified, InFull, Background
<1> QED BY <1>2, <1>3

-----------------------------------------------------------------------------
(***************************************************************************)
(* The end                                                                 *)
(***************************************************************************)
\* At the gate nothing of the script is missing.
LEMMA AtTheGate ==
    ASSUME Known, SdkIsKnown, StepsAreCounted, WaitsHaveWoken, ChecksHaveVerified,
           stage = "script", Now.call = "judge", ~noted
    PROVE  /\ at = Len(Script)
           /\ host \notin {"phase7", "phase8", "phase9"} => sdk = Host[host].version
           /\ \A w \in Workspaces : region[w].content = expected[w]
           /\ Host[host].switches = 0 \/ host \in Phase11 => Workspaces = verified
           /\ host \in Phase11 => /\ checks >= Host[host].switches + Host[host].size
                                  /\ rearms >= Host[host].switches + 1
           /\ host \in Phase14 => checks = Host[host].switches + 1 /\ woken = Workspaces
<1>1. at = Len(Script) /\ at \in Nat /\ at \in DOMAIN Script
  BY NowFacts, ScriptFacts DEF Known, Placed
<1>2. CanPass(host) /\ Hashed(host)
  BY HostFacts DEF Known, Placed
<1>3. host \notin {"phase7", "phase8", "phase9"} => sdk = Host[host].version
  <2>1. host \notin {"phase7", "phase8", "phase9"} => Len(Script) > 3
    BY <1>2 DEF CanPass, Script
  <2>2. Len(Script) > 3 => at > 2
    BY <1>1
  <2> QED BY <2>1, <2>2 DEF SdkIsKnown
<1>4. \A w \in Workspaces : region[w].content = expected[w]
  <2>1. \A w \in Workspaces : ~Scribbled(Script, w, at)
    BY <1>1, <1>2 DEF Hashed, Script, Now, Workspaces
  <2> QED BY <2>1 DEF Known, ContentsAreHashed, OnCourse
<1>5. ASSUME host \in Phase11 \cup Phase14 \/ Host[host].switches = 0
      PROVE  InFull
  <2>1. Straight
    BY <1>2, <1>5 DEF CanPass, Straight, Script
  <2> QED BY <2>1 DEF InFull
<1>6. ASSUME Host[host].switches = 0 \/ host \in Phase11
      PROVE  Workspaces = verified
  <2>1. InFull
    BY <1>5, <1>6
  <2>2. ASSUME NEW w \in Workspaces PROVE w \in verified
    <3>1. PICK i \in DOMAIN Script :
            /\ Script[i].on = w /\ Script[i].call \in Checking \ {"check_core"}
            /\ \A k \in i + 1 .. Len(Script) : ~(Script[k].on = w /\ Script[k].call = "sleep")
      BY <1>2, <1>6 DEF CanPass, Script, Workspaces
    <3>2. i \in 1 .. at - 1
      <4>1. i \in 1 .. Len(Script)
        BY <3>1, ScriptFacts DEF Known, Placed
      <4>2. i # at
        BY <3>1 DEF Now, Checking
      <4> QED BY <1>1, <4>1, <4>2
    <3>3. \A k \in i + 1 .. at - 1 : k \in i + 1 .. Len(Script)
      BY <1>1, <3>2
    <3> QED BY <2>1, <3>1, <3>2, <3>3 DEF ChecksHaveVerified, InFull
  <2> QED BY <2>2 DEF Known, RestTypes
<1>7. ASSUME host \in Phase11 \cup Phase14
      PROVE  /\ checks = Cardinality(Steps(Script, Len(Script), "check"))
             /\ rearms = Cardinality(Steps(Script, Len(Script), "rearm"))
  BY <1>1, <1>5, <1>7 DEF StepsAreCounted, InFull
<1>8. ASSUME host \in Phase11
      PROVE  /\ checks >= Host[host].switches + Host[host].size
             /\ rearms >= Host[host].switches + 1
  BY <1>2, <1>7, <1>8 DEF CanPass, Script
<1>9. ASSUME host \in Phase14
      PROVE  checks = Host[host].switches + 1 /\ woken = Workspaces
  <2>1. checks = Host[host].switches + 1
    BY <1>2, <1>7, <1>9 DEF CanPass, Script
  <2>2. ASSUME NEW w \in Workspaces PROVE w \in woken
    <3>1. PICK i \in DOMAIN Script : Script[i].on = w /\ Script[i].call = "wait_deep"
      BY <1>2, <1>9 DEF CanPass, Script, Workspaces
    <3>2. i \in 1 .. at - 1
      <4>1. i \in 1 .. Len(Script)
        BY <3>1, ScriptFacts DEF Known, Placed
      <4>2. i # at
        BY <3>1 DEF Now
      <4> QED BY <1>1, <4>1, <4>2
    <3> QED BY <1>5, <1>9, <3>1, <3>2 DEF WaitsHaveWoken, InFull
  <2> QED BY <2>1, <2>2 DEF Known, RestTypes
<1> QED BY <1>1, <1>3, <1>4, <1>6, <1>8, <1>9

\* The end is reached from the gate, from a failure or from a clean-up.
LEMMA EndStays ==
    ASSUME Known, SdkIsKnown, StepsAreCounted, WaitsHaveWoken, ChecksHaveVerified, EndIsTrue,
           ScriptStep \/ Ending \/ Background
    PROVE  EndIsTrue'
<1> USE SameHost
<1>1. CASE ScriptStep
  <2>1. stage = "script" /\ exit = 0
    BY <1>1 DEF ScriptStep, EndIsTrue
  <2>2. CASE Onward \/ Skips
    <3>1. stage' = "script" /\ exit' = 0
      BY <2>1, <2>2 DEF Onward, Skips
    <3> QED BY <3>1 DEF EndIsTrue, PassIsEarned
  <2>3. CASE Leaves
    <3>1. stage' # "script" /\ exit' # 0 /\ at' = at
      BY <2>3 DEF Leaves
    <3>2. stage' = "ended" => exit' \in {41, Crashed} \/ (~Host[host].tidy /\ at < Len(Script))
      BY <2>3 DEF Leaves
    <3> QED BY <3>1, <3>2 DEF EndIsTrue, PassIsEarned
  <2> QED BY <1>1, <2>2, <2>3 DEF ScriptStep, Goes
<1>2. CASE Ending
  <2>1. PassIsEarned'
    <3>1. SUFFICES ASSUME exit' = 0 PROVE PassIsEarned'
      BY DEF PassIsEarned
    <3>2. Now.call = "judge" /\ Gate /\ stage = "script"
      BY <1>2, <3>1 DEF Ending
    <3>3. ~noted
      BY <3>2 DEF Gate
    <3>4. sdk = Host[host].version
      <4>1. CASE host \in {"phase7", "phase8", "phase9"}
        BY <3>2, <4>1 DEF Gate, Phase11, Phase14
      <4>2. CASE host \notin {"phase7", "phase8", "phase9"}
        BY <3>2, <3>3, <4>2, AtTheGate
      <4> QED BY <4>1, <4>2
    <3>5. /\ \A w \in Workspaces : region[w].content = expected[w]
          /\ Host[host].switches = 0 \/ host \in Phase11 => Workspaces = verified
      BY <3>2, <3>3, AtTheGate
    <3> QED BY <1>2, <3>3, <3>4, <3>5 DEF Ending, PassIsEarned
  <2> QED BY <1>2, <2>1 DEF Ending, EndIsTrue
<1>3. CASE Background
  <2>1. /\ UNCHANGED <<host, sdk, at, expected, noted, exit, verified>>
        /\ stage' = "script" <=> stage = "script"
    BY <1>3 DEF Background
  <2>2. CASE stage' = stage /\ \E w \in Workspaces : \E new \in Regions : Change(w, new)
    <3>1. PICK w \in Workspaces, new \in Regions : Change(w, new)
      BY <2>2
    <3>2. stage # "script" => \A v \in Workspaces : region'[v].content = region[v].content
      BY <3>1 DEF Change, Known, RegionTypes
    <3>3. Left # {}
      BY <3>1 DEF Change, Left
    <3>4. PassIsEarned'
      BY <2>1, <3>2 DEF EndIsTrue, PassIsEarned
    <3> QED BY <2>1, <2>2, <3>3, <3>4 DEF EndIsTrue
  <2>3. CASE stage' = "ended" /\ Left = {} /\ UNCHANGED region
    <3>1. PassIsEarned' /\ Left' = {}
      BY <2>1, <2>3 DEF EndIsTrue, PassIsEarned, Left
    <3> QED BY <2>1, <2>3, <3>1 DEF EndIsTrue
  <2> QED BY <1>3, <2>2, <2>3 DEF Background
<1> QED BY <1>1, <1>2, <1>3

-----------------------------------------------------------------------------
\* The invariant, which TypeOK and the safety properties follow from
HostInv ==
    /\ Known /\ SdkIsKnown /\ EndIsTrue
    /\ StepsAreCounted /\ CapsulesAreWoken /\ WaitsHaveWoken /\ ChecksHaveVerified

\* The invariant holds at first and is kept.
LEMMA InitInv == Init => HostInv
<1> SUFFICES ASSUME Init PROVE HostInv
  OBVIOUS
<1>1. host \in Considered /\ at = 1 /\ stage = "script" /\ noted = FALSE /\ exit = 0
  BY DEF Init
<1>2. /\ FailsWell(host) /\ Len(Script) \in Nat /\ Len(Script) > 0
  BY <1>1, HostFacts, ScriptFacts
<1>3. Placed
  BY <1>1, <1>2 DEF Placed
<1>4. /\ NoRegion \in Regions /\ Sound(NoRegion) /\ NoRegion.state = "none"
      /\ NoRegion.clean /\ NoRegion.whole /\ NoRegion.content \in [Pages -> Values]
  <2> DEFINE empty == [p \in Pages |-> 0]
  <2>1. empty \in [Pages -> Values]
    BY HostAssumption
  <2> HIDE DEF empty
  <2>2. NoRegion = Destroyed(Fresh(empty))
    BY DEF NoRegion, empty
  <2> QED BY <2>1, <2>2, CreateOutcome, DestroyOutcome
<1>5. RegionTypes /\ RegionsAreSound /\ CapsulesAreWhole /\ CapsulesAreWoken
  BY <1>4 DEF Init, RegionTypes, RegionsAreSound, CapsulesAreWhole, CapsulesAreWoken
<1>6. ContentsAreHashed
  BY DEF Init, ContentsAreHashed
<1>7. RestTypes
  BY <1>2, HostAssumption DEF Init, RestTypes, FailsWell
<1>8. \A i \in 1 .. at - 1 : FALSE
  BY <1>1
<1>9. PromisesHold /\ WaitsHaveWoken /\ ChecksHaveVerified
  BY <1>8 DEF PromisesHold, WaitsHaveWoken, ChecksHaveVerified
<1>10. StepsAreCounted
  <2>1. \A call : Steps(Script, at, call) = {}
    BY <1>8 DEF Steps
  <2> QED BY <2>1, FS_EmptySet DEF StepsAreCounted, Init
<1>11. WrongIsNothing /\ SdkIsKnown /\ EndIsTrue
  BY <1>1 DEF Init, WrongIsNothing, SdkIsKnown, EndIsTrue, PassIsEarned
<1> QED BY <1>3, <1>5, <1>6, <1>7, <1>9, <1>10, <1>11 DEF HostInv, Known

LEMMA StutterInv == HostInv /\ UNCHANGED vars => HostInv'
<1> SUFFICES ASSUME HostInv, UNCHANGED vars PROVE HostInv'
  OBVIOUS
<1> USE DEF vars
<1>1. Script' = Script /\ Workspaces' = Workspaces /\ (Straight' <=> Straight)
  BY DEF Script, Workspaces, Straight
<1>2. Placed' /\ RegionTypes' /\ RestTypes' /\ RegionsAreSound' /\ WrongIsNothing'
  BY <1>1 DEF HostInv, Known, Placed, RegionTypes, RestTypes, RegionsAreSound, WrongIsNothing
<1>3. PromisesHold' /\ CapsulesAreWhole'
  BY <1>1 DEF HostInv, Known, PromisesHold, CapsulesAreWhole, Running
<1>4. ContentsAreHashed'
  BY <1>1 DEF HostInv, Known, ContentsAreHashed, OnCourse
<1>5. SdkIsKnown' /\ CapsulesAreWoken'
  BY <1>1 DEF HostInv, SdkIsKnown, CapsulesAreWoken
<1>6. StepsAreCounted' /\ WaitsHaveWoken' /\ ChecksHaveVerified'
  BY <1>1 DEF HostInv, StepsAreCounted, WaitsHaveWoken, ChecksHaveVerified
<1>7. EndIsTrue'
  BY <1>1 DEF HostInv, EndIsTrue, PassIsEarned, Left
<1> QED BY <1>2, <1>3, <1>4, <1>5, <1>6, <1>7 DEF HostInv, Known

LEMMA NextInv == HostInv /\ [Next]_vars => HostInv'
<1>1. CASE HostInv /\ Next
  <2>1. ScriptStep \/ Ending \/ Background
    BY <1>1, KindsOfStep DEF HostInv
  <2>2. Known'
    BY <1>1, <2>1, TypesStay, PromisesStay, WholenessStays, ContentsStay DEF HostInv, Known
  <2>3. SdkIsKnown' /\ StepsAreCounted'
    BY <1>1, <2>1, SdkStaysKnown, CountsStay DEF HostInv
  <2>4. CapsulesAreWoken' /\ WaitsHaveWoken' /\ ChecksHaveVerified'
    BY <1>1, <2>1, WokenStay, VerifiedStay DEF HostInv
  <2>5. EndIsTrue'
    BY <1>1, <2>1, EndStays DEF HostInv
  <2> QED BY <2>2, <2>3, <2>4, <2>5 DEF HostInv
<1> QED BY <1>1, StutterInv

LEMMA Invariance == Spec => []HostInv
  BY InitInv, NextInv, PTL DEF Spec

\* Every variable keeps its type: no host runs past the end of its script.
THEOREM TypeCorrect == Spec => []TypeOK
<1>1. HostInv => TypeOK
  BY DEF HostInv, Known, Placed, RegionTypes, RestTypes, WrongIsNothing, TypeOK
<1> QED BY <1>1, Invariance, PTL

\* Whichever calls have failed and wherever the threads are, the SDK accepts
\* every call of a host that has noted no failure.
THEOREM CallsStayAccepted == Spec => []CallsAreAccepted
<1>1. HostInv => CallsAreAccepted
  BY DEF HostInv, Known, WrongIsNothing, CallsAreAccepted
<1> QED BY <1>1, Invariance, PTL

\* What is read is in memory and is what was hashed last, and from the first
\* switch on one workspace is in memory.
THEOREM ContentStaysThere == Spec => []ContentIsThere
<1>1. HostInv => ContentComesBack /\ UsesWhatIsThere
  BY DEF HostInv, Known, WrongIsNothing, ContentComesBack, UsesWhatIsThere
<1>2. HostInv => OneAwake
  <2>1. SUFFICES ASSUME HostInv, Between
                 PROVE  Cardinality({w \in Workspaces : region[w].state # "dormant"}) <= 1
    BY DEF OneAwake
  <2> DEFINE Awake == {w \in Workspaces : region[w].state # "dormant"}
  <2>2. Known /\ host \in Considered /\ at \in DOMAIN Script /\ TakesTurns(host)
    BY <2>1, HostFacts, ScriptFacts DEF HostInv, Known, Placed
  <2>3. PICK k \in at .. Len(Script) : Script[k].call = "sleep"
    BY <2>1 DEF Between
  <2>4. Running
    <3>1. at # Len(Script)
      <4>1. at = Len(Script) => k = at
        BY <2>2, <2>3, ScriptFacts
      <4>2. Now.call = "judge" => Now.call # "sleep"
        OBVIOUS
      <4> QED BY <2>2, <2>3, <4>1, <4>2, NowFacts DEF Now, Known
    <3> QED BY <2>1, <2>2, <3>1, NowFacts DEF Running, Between, Known
  <2>5. \E front \in Workspaces : \A w \in Workspaces \ {front} :
          \E j \in 1 .. at - 1 : Script[j].call = "sleep" /\ LastMove(Script, w, at, j)
    BY <2>1, <2>2, <2>3 DEF Between, TakesTurns, Script, Workspaces
  <2>6. PICK front \in Workspaces : \A w \in Workspaces \ {front} :
          \E j \in 1 .. at - 1 : Script[j].call = "sleep" /\ LastMove(Script, w, at, j)
    BY <2>5
  <2>7. ASSUME NEW w \in Workspaces \ {front}
        PROVE  region[w].state = "dormant"
    <3>1. PICK j \in 1 .. at - 1 : Script[j].call = "sleep" /\ LastMove(Script, w, at, j)
      BY <2>6, <2>7
    <3>2. Promise(Script[j].call, region[w]) \/ (noted /\ Forgone(Script[j], region[w]))
      BY <2>2, <2>4, <3>1 DEF Known, PromisesHold
    <3>3. Script[j].code # Noted
      <4>1. j \in 1 .. Len(Script)
        BY <2>2, <3>1, NowFacts DEF Known
      <4> QED BY <2>2, <3>1, <4>1, ScriptFacts DEF Calls
    <3> QED BY <3>1, <3>2, <3>3 DEF Promise, Forgone
  <2>8. Awake \subseteq {front}
    BY <2>7
  <2>9. IsFiniteSet({front}) /\ Cardinality({front}) = 1
    BY FS_Singleton
  <2>10. /\ IsFiniteSet(Awake) /\ Cardinality(Awake) \in Nat
         /\ Cardinality(Awake) <= Cardinality({front})
    <3> HIDE DEF Awake
    <3> QED BY <2>8, <2>9, FS_Subset, FS_CardinalityType
  <2> QED BY <2>9, <2>10
<1> QED BY <1>1, <1>2, Invariance, PTL DEF ContentIsThere

\* A host passes only when it should, passes when all went well, and leaves
\* nothing of the SDK behind.
THEOREM EndStaysEarned == Spec => []EndIsEarned
<1>1. HostInv => PassIsEarned
  BY DEF HostInv, EndIsTrue
<1>2. HostInv => NothingIsLeft
  <2> SUFFICES ASSUME HostInv PROVE NothingIsLeft
    OBVIOUS
  <2>1. at = Len(Script) => ~(at < Len(Script))
    BY NowFacts DEF HostInv, Known
  <2> QED BY <2>1 DEF HostInv, EndIsTrue, NothingIsLeft
<1>3. HostInv => GatesAreMet
  <2>1. SUFFICES ASSUME HostInv, At({"judge"}), ~noted, sdk = Host[host].version
                 PROVE  Gate
    BY DEF GatesAreMet
  <2>2. stage = "script" /\ Now.call = "judge"
    BY <2>1 DEF At
  <2> QED BY <2>1, <2>2, AtTheGate DEF HostInv, Gate
<1> QED BY <1>1, <1>2, <1>3, Invariance, PTL DEF EndIsEarned
=============================================================================
