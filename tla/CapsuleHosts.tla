---------------------------- MODULE CapsuleHosts ----------------------------
(***************************************************************************)
(* The hosts of the capsule SDK: phase7_host.cpp to phase9_host.cpp and    *)
(* the workers of phase10_local.cpp to phase14_governor.cpp.  Each creates *)
(* one region, or one for every workspace, and takes it through sleep and  *)
(* restoration, hashing what comes back.  The regions behave as            *)
(* RegionCalls says, which CapsuleRegion keeps.                            *)
(*                                                                         *)
(* What a host does is a fixed sequence of calls, its script; what differs *)
(* from run to run is which call fails, how far the threads of the SDK are *)
(* and what the foreground writes meanwhile.  Times and sizes are measured *)
(* and can only make a host refuse to pass.                                *)
(***************************************************************************)
EXTENDS RegionCalls, Integers, Sequences, FiniteSets, SequencesExt

CONSTANTS
    SdkVersion,     \* the upper half of what sr_api_version returns (14)
    Considered      \* the hosts considered

\* What a call that fails makes of the host: it returns the code, or it
\* remembers the failure, or it drops the rest of the script.
Noted   == 0
Abandon == -1

\* An exception that nobody catches, or an access violation
Crashed == 1000

Step(call, w, code) == [call |-> call, on |-> w, code |-> code]

\* A region's way back, as far as the host waits for it at once
Wake(w, code) == << Step("resume", w, code), Step("deep", w, code), Step("wait_deep", w, code) >>

-----------------------------------------------------------------------------
(***************************************************************************)
(* phase7_host.cpp to phase10_local.cpp: one region                        *)
(***************************************************************************)
\* The whole arena is hashed, whatever sr_wait_deep has said.
Phase7Script ==
    << Step("load", 1, 2), Step("create", 1, 3),
       Step("begin", 1, 5), Step("wait_baseline", 1, 5),
       Step("mutate", 1, Noted), Step("sleep", 1, 6),
       Step("resume", 1, 7), Step("check_core", 1, Noted),
       Step("deep", 1, 8), Step("poll_deep", 1, Noted), Step("wait_deep", 1, Noted),
       Step("check", 1, Noted), Step("judge", 1, 10) >>

Phase8Cycle ==
    << Step("begin", 1, Abandon), Step("wait_baseline", 1, Abandon),
       Step("mutate", 1, Noted), Step("sleep", 1, Abandon),
       Step("resume", 1, Abandon), Step("check_core", 1, Noted),
       Step("deep", 1, Abandon), Step("poll_deep", 1, Noted), Step("wait_deep", 1, Noted),
       Step("check_if_restored", 1, Noted), Step("release", 1, Noted),
       Step("go_on", 1, Abandon) >>

Phase8Script ==
    << Step("load", 1, 2), Step("create", 1, 3) >> \o Phase8Cycle \o Phase8Cycle
    \o << Step("judge", 1, 10) >>

\* The first baseline is cancelled, the second built while the host writes.
Phase9Script ==
    << Step("load", 1, 2), Step("create", 1, 3),
       Step("begin", 1, 5), Step("probe", 1, Noted), Step("cancel", 1, 6),
       Step("begin", 1, 8), Step("poll_baseline", 1, Noted), Step("wait_baseline", 1, 9),
       Step("mutate", 1, Noted), Step("sleep", 1, 11),
       Step("resume", 1, 12), Step("check_core", 1, Noted),
       Step("deep", 1, 13), Step("poll_deep", 1, Noted), Step("wait_deep", 1, Noted),
       Step("check_if_restored", 1, Noted), Step("release", 1, 14), Step("judge", 1, 10) >>

Phase10Check == Step("check_if_restored", 1, Noted)

Phase10Script ==
    << Step("load", 1, 20), Step("version", 1, 21), Step("create", 1, 22),
       Step("begin", 1, 24), Step("poll_baseline", 1, Noted), Step("wait_baseline", 1, 25),
       Step("mutate", 1, Noted), Step("sleep", 1, 26),
       Step("resume", 1, 27), Step("check_core", 1, Noted),
       Step("deep", 1, 28), Step("poll_deep", 1, Noted), Step("wait_deep", 1, Noted),
       Phase10Check, Step("release", 1, 29), Step("judge", 1, 40) >>

-----------------------------------------------------------------------------
(***************************************************************************)
(* The workspaces of phase11_workspace.cpp to phase14_governor.cpp, one of *)
(* them in the foreground and the others asleep                            *)
(***************************************************************************)
Pattern == << 1,2,3,4,5,0, 3,1,4,2,5,0, 2,4,1,5,3,0, 4,2,0,5,1,3 >>

\* The workspace, of n, that is in the foreground after the switch
Foreground(n) ==
    LET front[s \in Nat] ==
          IF s = 0 THEN 0
          ELSE LET current == front[s - 1]
                   target  == Pattern[((s - 1) % 24) + 1] % n
               IN  IF target = current THEN (target + 1) % n ELSE target
    IN  [s \in 0 .. 96 |-> front[s] + 1]

Loading == << Step("load", 1, 99), Step("version", 1, 99) >>

Phase11Create(w)  == << Step("create", w, 60) >>
Phase11Prepare(w) == << Step("begin", w, 62), Step("wait_baseline", w, 63), Step("sleep", w, 64) >>
Phase11First ==
    Wake(1, 65) \o << Step("check", 1, 66), Step("rearm", 1, 67), Step("mutate", 1, Noted) >>
Phase11Switch(from, to) ==
    << Step("sleep", from, 68), Step("resume", to, 69), Step("deep", to, 70),
       Step("poll_deep", to, Noted), Step("wait_deep", to, 71), Step("check", to, Noted),
       Step("rearm", to, 72), Step("interact", to, Noted), Step("mutate", to, Noted) >>
Phase11Verify(w) == Wake(w, 74) \o << Step("check", w, Noted) >>

\* The steps of the later phases up to the first switch
Prepare(w) == << Step("begin", w, 62), Step("wait_baseline", w, 62), Step("sleep", w, 62) >>
First ==
    Wake(1, 63) \o << Step("rearm", 1, 63), Step("check", 1, 64), Step("mutate", 1, Noted) >>

Phase12Switch(from, to) ==
    << Step("sleep", from, 65), Step("resume", to, 67), Step("deep", to, 69),
       Step("poll_deep", to, Noted), Step("wait_deep", to, 70), Step("check", to, 71),
       Step("rearm", to, 72), Step("mutate", to, Noted) >>

\* The first switch that takes too long is the last.
Phase13Switch(from, to) ==
    << Step("sleep", from, 65), Step("resume", to, 67), Step("deep", to, 69),
       Step("poll_deep", to, Noted), Step("wait_deep", to, 70), Step("check", to, 71),
       Step("rearm", to, 72), Step("mutate", to, Noted), Step("unless_slow", to, Noted) >>

Phase14Switch(from, to) ==
    << Step("sleep", from, 65), Step("resume", to, 67), Step("deep", to, 69),
       Step("poll_deep", to, Noted), Step("wait_deep", to, 70), Step("check", to, Noted),
       Step("rearm", to, 71), Step("mutate", to, Noted) >>

Creating(n) == FlattenSeq([w \in 1 .. n |-> Phase11Create(w)])

Phase11Script(n, count) ==
    LET front == Foreground(n) IN
    Loading \o Creating(n) \o FlattenSeq([w \in 1 .. n |-> Phase11Prepare(w)]) \o Phase11First
    \o FlattenSeq([s \in 1 .. count |-> Phase11Switch(front[s - 1], front[s])])
    \o << Step("sleep", front[count], 73) >>
    \o FlattenSeq([w \in 1 .. n |-> Phase11Verify(w)]) \o << Step("judge", 1, 80) >>

\* The later phases leave the workspaces as the last switch does.
LaterScript(n, switches) ==
    Loading \o Creating(n) \o FlattenSeq([w \in 1 .. n |-> Prepare(w)]) \o First
    \o FlattenSeq(switches) \o << Step("judge", 1, 80) >>

Phase12Script(n, count) ==
    LET front == Foreground(n) IN
    LaterScript(n, [s \in 1 .. count |-> Phase12Switch(front[s - 1], front[s])])

Phase13Script(n, count) ==
    LET front == Foreground(n) IN
    LaterScript(n, [s \in 1 .. count |-> Phase13Switch(front[s - 1], front[s])])

Phase14Script(n, count) ==
    LET front == Foreground(n) IN
    LaterScript(n, [s \in 1 .. count |-> Phase14Switch(front[s - 1], front[s])])

\* The SDK a host was written for, what it returns on an exception, and
\* whether it destroys its regions then, and when a call fails
Single(script, version, tidy, thrown) ==
    [size |-> 1, script |-> script, version |-> version, thrown |-> thrown,
     tidy |-> tidy, catches |-> FALSE, switches |-> 0]

Switching(script, n, count, version) ==
    [size |-> n, script |-> script, version |-> version, thrown |-> 99,
     tidy |-> TRUE, catches |-> TRUE, switches |-> count]

Host ==
    [phase7 |-> Single(Phase7Script, 7, FALSE, Crashed),
     phase8 |-> Single(Phase8Script, 8, FALSE, Crashed),
     phase9 |-> Single(Phase9Script, 9, FALSE, Crashed),
     phase10 |-> Single(Phase10Script, 9, TRUE, 41),
     phase11_cloud |-> Switching(Phase11Script(4, 8), 4, 8, 11),
     phase11_local |-> Switching(Phase11Script(6, 18), 6, 18, 11),
     phase12_cloud |-> Switching(Phase12Script(4, 8), 4, 8, 11),
     phase12_local |-> Switching(Phase12Script(6, 18), 6, 18, 11),
     phase13_cloud |-> Switching(Phase13Script(4, 12), 4, 12, 11),
     phase13_local |-> Switching(Phase13Script(6, 96), 6, 96, 11),
     phase14_cloud |-> Switching(Phase14Script(4, 24), 4, 24, 14),
     phase14_local |-> Switching(Phase14Script(6, 96), 6, 96, 14)]

\* A new arena holds zeros, and the hosts write what was not there.
ASSUME HostAssumption ==
    /\ Considered \subseteq DOMAIN Host /\ SdkVersion \in Nat
    /\ 0 \in Values /\ \A v \in Values : 1 - v \in Values

-----------------------------------------------------------------------------
(***************************************************************************)
(* What is asked of the text of the twelve scripts, whatever fails in them *)
(* when they run.  Nothing below depends on a constant.                    *)
(***************************************************************************)
\* The steps after which a region is known to be in another state
Moves == {"create"} \cup Calls

\* The steps that need no region
Free == {"load", "version", "create", "go_on", "unless_slow", "judge"}

\* The steps that hash what a region holds and compare it
Checking == {"check_core", "check", "check_if_restored", "interact"}

\* The steps there are
StepCalls == Calls \cup Free \cup Checking \cup {"probe", "poll_baseline", "poll_deep", "mutate"}

\* The moves, one of which must be the region's last before the step
After(call) ==
    CASE call = "begin" -> {"create", "cancel", "release"}
      [] call \in {"wait_baseline", "cancel", "probe", "poll_baseline"} -> {"begin"}
      [] call \in {"sleep", "mutate"} -> {"wait_baseline", "rearm"}
      [] call = "resume" -> {"sleep"}
      [] call \in {"deep", "check_core"} -> {"resume"}
      [] call \in {"wait_deep", "poll_deep"} -> {"deep"}
      [] call \in {"rearm", "release", "check_if_restored"} -> {"wait_deep"}
      [] call \in {"check", "interact"} -> {"wait_deep", "rearm"}

\* Step j is the last move of workspace w before step i.
LastMove(s, w, i, j) ==
    /\ s[j].on = w /\ s[j].call \in Moves
    /\ \A k \in j + 1 .. i - 1 : ~(s[k].on = w /\ s[k].call \in Moves)

\* The foreground may have written to w, without a hash since.
Scribbled(s, w, i) ==
    \E j \in 1 .. i :
        /\ s[j].on = w /\ s[j].call = "poll_baseline"
        /\ \A k \in j + 1 .. i - 1 : ~(s[k].on = w /\ s[k].call = "mutate")

\* Only the last step judges.  A failure that is only remembered is one of the
\* two calls nothing but a check depends on.
FailsWell(h) ==
    LET s == Host[h].script IN
    /\ s \in Seq([call : StepCalls, on : 1 .. Host[h].size, code : Nat \cup {Abandon}])
    /\ Len(s) > 0
    /\ \A i \in DOMAIN s :
         /\ s[i].call = "judge" <=> i = Len(s)
         /\ s[i].call \in {"load", "version", "create", "judge"} => s[i].code > 0
         /\ s[i].call \in Calls /\ s[i].code = Noted => s[i].call \in {"wait_deep", "release"}
    /\ Host[h].thrown \in Nat \ {0} /\ Host[h].version \in Nat
    /\ Host[h].tidy \in BOOLEAN /\ Host[h].catches \in BOOLEAN
    /\ Host[h].size \in Nat /\ Host[h].switches \in Nat
    /\ Host[h].catches \/ Host[h].thrown \in {41, Crashed}

\* Every step comes after one that leaves the region fit for it.
InOrder(h) ==
    LET s == Host[h].script IN
    \A i \in DOMAIN s :
        s[i].call \notin Free =>
          \E j \in 1 .. i - 1 :
            /\ LastMove(s, s[i].on, i, j) /\ s[j].call \in After(s[i].call)
            /\ s[j].code = Noted /\ s[i].call \in {"check", "interact"} => h = "phase7"

\* What is checked, or is to be right at the end, has been hashed.
Hashed(h) ==
    LET s == Host[h].script IN
    \A i \in DOMAIN s :
        /\ s[i].call \in Checking => ~Scribbled(s, s[i].on, i)
        /\ s[i].call \in {"unless_slow", "judge"} =>
              \A w \in 1 .. Host[h].size : ~Scribbled(s, w, i)

\* From the first switch on one workspace sleeps before the next is woken.
TakesTurns(h) ==
    LET s == Host[h].script IN
    \A i \in DOMAIN s :
        (/\ \E k \in 1 .. i - 1 : s[k].call = "mutate"
         /\ \E k \in i .. Len(s) : s[k].call = "sleep")
        => \E front \in 1 .. Host[h].size : \A w \in 1 .. Host[h].size \ {front} :
              \E j \in 1 .. i - 1 : s[j].call = "sleep" /\ LastMove(s, w, i, j)

\* The hosts whose gates count
Phase11 == {"phase11_cloud", "phase11_local"}
Phase14 == {"phase14_cloud", "phase14_local"}

\* The steps of a kind before step i
Steps(s, i, call) == {k \in 1 .. i - 1 : s[k].call = call}

\* The gates can be met by the steps there are, if no step is left out.
CanPass(h) ==
    LET s == Host[h].script IN
    /\ h \notin {"phase7", "phase8", "phase9"} =>
         Len(s) > 3 /\ s[1].call = "load" /\ s[2].call = "version"
    /\ h \in Phase11 \cup Phase14 \/ Host[h].switches = 0 =>
         \A i \in DOMAIN s : s[i].call # "unless_slow"
    /\ h \in Phase11 \/ Host[h].switches = 0 => \A w \in 1 .. Host[h].size : \E i \in DOMAIN s :
         /\ s[i].on = w /\ s[i].call \in Checking \ {"check_core"}
         /\ \A k \in i + 1 .. Len(s) : ~(s[k].on = w /\ s[k].call = "sleep")
    /\ h \in Phase11 =>
         /\ Cardinality(Steps(s, Len(s), "check")) >= Host[h].switches + Host[h].size
         /\ Cardinality(Steps(s, Len(s), "rearm")) >= Host[h].switches + 1
    /\ h \in Phase14 =>
         /\ Cardinality(Steps(s, Len(s), "check")) = Host[h].switches + 1
         /\ \A w \in 1 .. Host[h].size : \E i \in DOMAIN s : s[i].on = w /\ s[i].call = "wait_deep"

\* The scripts are data: to evaluate this is to decide it.
ASSUME ScriptAssumption ==
    \A h \in DOMAIN Host :
        FailsWell(h) /\ InOrder(h) /\ Hashed(h) /\ TakesTurns(h) /\ CanPass(h)

-----------------------------------------------------------------------------
VARIABLES
    host,       \* which host this is
    sdk,        \* the version of the SDK it finds
    at,         \* the step of its script
    region,     \* the region of each workspace
    expected,   \* the content that was hashed last
    checks,     \* integrity_checks
    rearms,     \* capsule_rearms of all regions
    woken,      \* the workspaces a deep thread has restored in the background
    noted,      \* something it remembers is wrong, or not as it must be
    stage,      \* the script, the regions' destruction, the end
    exit,       \* what it returned
    \* history
    wrong,      \* what it did that it should not
    verified    \* the workspaces whose content was checked since they slept

vars == <<host, sdk, at, region, expected, checks, rearms, woken, noted, stage, exit,
          wrong, verified>>

Script     == Host[host].script
Workspaces == 1 .. Host[host].size
Now        == Script[at]
Mine       == region[Now.on]

NoRegion == Destroyed(Fresh([p \in Pages |-> 0]))

Init ==
    /\ host \in Considered
    /\ sdk \in {SdkVersion, Host[host].version}
    /\ at = 1
    /\ region = [w \in Workspaces |-> NoRegion]
    /\ expected = [w \in Workspaces |-> NoRegion.content]
    /\ checks = 0 /\ rearms = 0 /\ woken = {} /\ noted = FALSE
    /\ stage = "script" /\ exit = 0
    /\ wrong = {} /\ verified = {}

At(calls) == stage = "script" /\ Now.call \in calls

\* The next step
Continue == at' = at + 1 /\ UNCHANGED <<stage, exit>>

Return(code, cleaning) ==
    /\ exit' = code
    /\ stage' = IF cleaning THEN "cleanup" ELSE "ended"
    /\ UNCHANGED at

FailAbandoningAll ==
    CASE Now.code = Noted -> noted' = TRUE /\ Continue
      [] Now.code = Abandon -> noted' = TRUE /\ at' = Len(Script) + 1 /\ UNCHANGED <<stage, exit>>
      [] OTHER -> Return(Now.code, Host[host].tidy) /\ UNCHANGED noted

FailForgotten ==
    CASE Now.code = Noted -> Continue /\ UNCHANGED noted
      [] Now.code = Abandon -> noted' = TRUE /\ at' = Len(Script) /\ UNCHANGED <<stage, exit>>
      [] OTHER -> Return(Now.code, Host[host].tidy) /\ UNCHANGED noted

Fail ==
    CASE Now.code = Noted -> noted' = TRUE /\ Continue
      [] Now.code = Abandon -> noted' = TRUE /\ at' = Len(Script) /\ UNCHANGED <<stage, exit>>
      [] OTHER -> Return(Now.code, Host[host].tidy) /\ UNCHANGED noted

Pass == Continue /\ UNCHANGED noted

-----------------------------------------------------------------------------
\* LoadLibraryW and GetProcAddress
LoadSdk ==
    /\ At({"load"})
    /\ Pass \/ Fail
    /\ UNCHANGED <<host, sdk, region, expected, checks, rearms, woken, wrong, verified>>

CheckVersion ==
    /\ At({"version"})
    /\ IF sdk = Host[host].version THEN Pass ELSE Fail
    /\ UNCHANGED <<host, sdk, region, expected, checks, rearms, woken, wrong, verified>>

\* sr_create and fill_page
Create ==
    /\ At({"create"})
    /\ \/ Pass /\ region' = [region EXCEPT ![Now.on] = Fresh(expected[Now.on])]
       \/ Fail /\ UNCHANGED region
    /\ UNCHANGED <<host, sdk, expected, checks, rearms, woken, wrong, verified>>

\* A call of the SDK.  One that is not for this state is refused; to be refused
\* after something has been noted is no surprise.
CallSdk ==
    /\ At(Calls)
    /\ \/ /\ Accepted(Now.call, Mine)
          /\ \E r \in Successes(Now.call, Mine) : region' = [region EXCEPT ![Now.on] = r]
          /\ Pass
          /\ rearms' = IF Now.call = "rearm" THEN rearms + 1 ELSE rearms
          /\ verified' = IF Now.call = "sleep" THEN verified \ {Now.on} ELSE verified
          /\ UNCHANGED wrong
       \/ /\ Accepted(Now.call, Mine)
          /\ \E r \in Failures(Now.call, Mine) : region' = [region EXCEPT ![Now.on] = r]
          /\ Fail
          /\ UNCHANGED <<rearms, verified, wrong>>
       \/ /\ ~Accepted(Now.call, Mine)
          /\ Fail
          /\ wrong' = IF noted THEN wrong ELSE wrong \cup {"refused"}
          /\ UNCHANGED <<region, rearms, verified>>
    /\ UNCHANGED <<host, sdk, expected, checks, woken>>

\* The baseline was not stopped by the host but by memory pressure, as the
\* metrics tell.
CancelledByPressure ==
    /\ At({"cancel"})
    /\ \E r \in Successes("cancel", Mine) : region' = [region EXCEPT ![Now.on] = r]
    /\ noted' = TRUE /\ Continue
    /\ UNCHANGED <<host, sdk, expected, checks, rearms, woken, wrong, verified>>

-----------------------------------------------------------------------------
\* Memory that is not committed, or that a thread is just filling in, cannot be
\* used: the host crashes, or hashes what it should not.
Uses(pages) == pages \subseteq Usable(Mine)

Fault ==
    /\ Return(Crashed, FALSE)
    /\ wrong' = wrong \cup {"fault"}
    /\ UNCHANGED noted

ReadPagesAnyway ==
    CASE Now.call \in {"check", "check_if_restored", "interact"} -> Pages
      [] Now.call = "check_core" -> CorePages

ReadPages ==
    CASE Now.call \in {"check", "interact"} -> Pages
      [] Now.call = "check_if_restored" -> IF Mine.state = "deep" THEN {} ELSE Pages
      [] Now.call = "check_core" -> CorePages

Matches == \A p \in ReadPages : Mine.content[p] = expected[Now.on][p]

\* The content is hashed and compared.
Check ==
    /\ At(Checking)
    /\ IF ~Uses(ReadPages) THEN Fault /\ UNCHANGED verified
       ELSE IF Matches
       THEN /\ IF ReadPages = {} THEN Fail ELSE Pass
            /\ verified' = IF ReadPages = Pages THEN verified \cup {Now.on} ELSE verified
            /\ UNCHANGED wrong
       ELSE Fail /\ wrong' = wrong \cup {"mismatch"} /\ UNCHANGED verified
    /\ checks' = IF Now.call = "check" THEN checks + 1 ELSE checks
    /\ UNCHANGED <<host, sdk, region, expected, rearms, woken>>

Other(content) == [p \in Pages |-> 1 - content[p]]

\* mutate_workspace, with the hash that follows it
Mutate ==
    /\ At({"mutate"})
    /\ IF ~Uses(Pages) THEN Fault /\ UNCHANGED <<region, expected>>
       ELSE /\ region' = [region EXCEPT ![Now.on] = Written(Mine, Other(Mine.content))]
            /\ expected' = [expected EXCEPT ![Now.on] = Other(Mine.content)]
            /\ Pass /\ UNCHANGED wrong
    /\ UNCHANGED <<host, sdk, checks, rearms, woken, verified>>

\* The foreground of phases 9 and 10 writes while the baseline is built.
ConcurrentWrite ==
    /\ At({"poll_baseline"}) /\ Mine.builder = "running"
    /\ \E p \in Pages :
         region' = [region EXCEPT ![Now.on] =
                      Written(Mine, [Mine.content EXCEPT ![p] = 1 - Mine.content[p]])]
    /\ UNCHANGED <<host, sdk, at, expected, checks, rearms, woken, noted, stage, exit,
                   wrong, verified>>

\* A loop that polls leaves off when the thread has ended; the probe of phase 9
\* also when the baseline is a fifth complete.
LoopEndsWhenRestored ==
    CASE Now.call = "probe" -> TRUE
      [] Now.call = "poll_baseline" -> Mine.builder # "running"
      [] Now.call = "poll_deep" -> Mine.state = "capsule"

LoopEnds ==
    CASE Now.call = "probe" -> TRUE
      [] Now.call = "poll_baseline" -> Mine.builder # "running"
      [] Now.call = "poll_deep" -> Mine.deep # "running"

Poll ==
    /\ At({"probe", "poll_baseline", "poll_deep"})
    /\ IF ~Uses(CorePages) THEN Fault
       ELSE LoopEnds /\ Pass /\ UNCHANGED wrong
    /\ UNCHANGED <<host, sdk, region, expected, checks, rearms, woken, verified>>

\* Phase 8 goes on only if the cycle was good; phase 13 until a switch is slow.
Branch ==
    /\ At({"go_on", "unless_slow"})
    /\ \/ Now.call = "go_on" /\ noted /\ Fail
       \/ Now.call = "go_on" /\ ~noted /\ Pass
       \/ Now.call = "unless_slow" /\ Pass
       \/ Now.call = "unless_slow" /\ at' = Len(Script) /\ UNCHANGED <<noted, stage, exit>>
    /\ UNCHANGED <<host, sdk, region, expected, checks, rearms, woken, wrong, verified>>

-----------------------------------------------------------------------------
GateForgiving ==
    host \in {"phase7", "phase8", "phase9"} => sdk = Host[host].version

\* What the gates ask for, but for times and sizes.  The first check and the
\* last ones count in phase 11; the first does not in phase 14.
Gate ==
    /\ ~noted
    /\ CASE host \in Phase11 ->
              /\ checks >= Host[host].switches + Host[host].size
              /\ rearms >= Host[host].switches + 1
         [] host \in Phase14 ->
              checks = Host[host].switches + 1 /\ woken = Workspaces
         [] host \in {"phase7", "phase8", "phase9"} -> sdk = Host[host].version
         [] OTHER -> TRUE

\* Phases 12 and 13 diagnose: no measurement makes them fail.
Measures == host \notin {"phase12_cloud", "phase12_local", "phase13_cloud", "phase13_local"}

Judge ==
    /\ At({"judge"})
    /\ \/ Gate /\ Return(0, TRUE)
       \/ (~Gate \/ Measures) /\ Return(Now.code, TRUE)
    /\ UNCHANGED <<host, sdk, region, expected, checks, rearms, woken, noted, wrong, verified>>

\* An exception, std::bad_alloc for one, anywhere in the script
Throws ==
    /\ stage = "script"
    /\ Return(Host[host].thrown, Host[host].catches)
    /\ UNCHANGED <<host, sdk, region, expected, checks, rearms, woken, noted, wrong, verified>>

Left == {w \in Workspaces : region[w].state # "none"}

\* sr_destroy of the next region waits for its threads.
Destroy ==
    /\ stage = "cleanup"
    /\ LET w == CHOOSE w \in Left : \A v \in Left : w <= v IN
       IF Left = {} THEN stage' = "ended" /\ UNCHANGED region
       ELSE /\ Quiet(region[w])
            /\ region' = [region EXCEPT ![w] = Destroyed(@)]
            /\ UNCHANGED stage
    /\ UNCHANGED <<host, sdk, at, expected, checks, rearms, woken, noted, exit, wrong, verified>>

ThreadEnds(w) ==
    /\ \E r \in Built(region[w]) \cup Restored(region[w]) : region' = [region EXCEPT ![w] = r]
    /\ woken' = IF region'[w].state = "capsule" THEN woken \cup {w} ELSE woken
    /\ UNCHANGED <<host, sdk, at, expected, checks, rearms, noted, stage, exit,
                   wrong, verified>>

HostStep ==
    \/ LoadSdk \/ CheckVersion \/ Create \/ CallSdk \/ CancelledByPressure
    \/ Check \/ Mutate \/ Poll \/ Branch \/ Judge \/ Destroy

SdkStep == \E w \in Workspaces : ThreadEnds(w)

Next == HostStep \/ ConcurrentWrite \/ Throws \/ SdkStep

Spec == Init /\ [][Next]_vars

\* The host is scheduled, and the threads of the SDK end (RegionContract).
FairSpec == Spec /\ WF_vars(HostStep) /\ WF_vars(SdkStep)

-----------------------------------------------------------------------------
TypeOK ==
    /\ host \in Considered /\ sdk \in Nat
    /\ at \in 1 .. Len(Script)
    /\ region \in [Workspaces -> Regions]
    /\ expected \in [Workspaces -> [Pages -> Values]]
    /\ checks \in Nat /\ rearms \in Nat /\ woken \subseteq Workspaces /\ noted \in BOOLEAN
    /\ stage \in {"script", "cleanup", "ended"} /\ exit \in Nat
    /\ wrong \subseteq {"refused", "fault", "mismatch"}
    /\ verified \subseteq Workspaces

\* Every host calls the SDK in the order the SDK accepts, whichever calls have
\* failed before; only after a failure it has noted is one of its calls refused.
CallsAreAccepted == "refused" \notin wrong

\* What a workspace holds when it is checked is what was last hashed: no host
\* writes between sr_wait_deep and sr_rearm_existing_capsule, or sleeps again
\* on a capsule that a failed sr_enter_dormant has left incomplete.
ContentComesBack == "mismatch" \notin wrong

\* No host uses memory that is not there.  Only phase 7 does: it hashes the
\* whole arena also when the deep restore has failed.
UsesWhatIsThere == "fault" \in wrong => host = "phase7" /\ noted

\* While workspaces are switched only one is in memory.
Between ==
    /\ stage = "script" /\ Host[host].switches > 0
    /\ \E i \in 1 .. at - 1 : Script[i].call = "mutate"
    /\ \E i \in at .. Len(Script) : Script[i].call = "sleep"

OneAwake ==
    Between => Cardinality({w \in Workspaces : region[w].state # "dormant"}) <= 1

\* Phases 10 to 14 leave no region, and no thread of the SDK, on any way out,
\* before the SDK is unloaded; the one way that forgets is the exception
\* handler of phase 10.  The earlier hosts clean up when they come to an end.
NothingIsLeft ==
    stage = "ended" /\ (Host[host].tidy \/ at = Len(Script)) /\ exit \notin {41, Crashed}
        => Left = {}

\* A host passes only with the SDK it was written for, if nothing it noted was
\* wrong, and with every region as it was left.  Phase 11 has then checked each
\* workspace after its last sleep, and phases 12 and 14 each but those asleep.
PassIsEarned ==
    (stage # "script" /\ exit = 0) =>
        /\ ~noted /\ sdk = Host[host].version
        /\ \A w \in Workspaces : region[w].content = expected[w]
        /\ Host[host].switches = 0 => Workspaces = verified
        /\ host \in Phase11 => Workspaces = verified

\* A run in which everything went well satisfies the gates, whatever the order
\* of the switches: enough checks and rearms, and each workspace woken.
GatesAreMet ==
    (At({"judge"}) /\ ~noted /\ sdk = Host[host].version) => Gate

\* Every host returns, also when a thread fails, as the polls without a timeout
\* depend on.
HostReturns == <>(stage = "ended")
\* The workspace that is read is in memory, alone there while workspaces are
\* switched, and holds what was last hashed.
ContentIsThere == ContentComesBack /\ UsesWhatIsThere /\ OneAwake

\* The exit code of a host that has ended tells what it did: it passes when all
\* went well and only then, and nothing of it goes on.
EndIsEarned == PassIsEarned /\ GatesAreMet /\ NothingIsLeft
=============================================================================
