------------------------ MODULE RemoteCapsule_proofs ------------------------
(***************************************************************************)
(* Theorems about RemoteCapsule, for a region of any number of pages and   *)
(* any choice of the core: what the child is asked for is there, what is   *)
(* given back is what was taken, and the parent judges by the answer to    *)
(* its last command.                                                       *)
(***************************************************************************)
EXTENDS RemoteCapsule, TLAPS

-----------------------------------------------------------------------------
(***************************************************************************)
(* The invariant                                                           *)
(***************************************************************************)
Packed == program \in {"phase5", "phase6"}

\* The parent is at a step that it does not skip.
Doing == exit = StillActive /\ Now.needs \notin missed

Present(pages) == \A p \in pages : arena[p] # Gone

Still == child \in {"waiting", "ended"} /\ ~go /\ ~done

\* Command c is on its way to the child, with it, or answered.
Exchange(c) ==
    /\ command = c
    /\ \/ child = "waiting" /\ go /\ ~done
       \/ child = "woken" /\ ~go /\ ~done
       \/ child \in {"working", "spinning", "answering"} /\ task = c /\ ~go /\ ~done
       \/ child = "waiting" /\ ~go /\ done /\ carried = c
       \/ child = "ended" /\ (done => ~go /\ carried = c)

\* Woken, or about to be
Called == child = "woken" \/ (child = "waiting" /\ go)

\* The child is through with its command.
Told == child = "answering" \/ done

Quietly == {"compressor", "query", "trim", "prefetch", "snapshot", "capture",
            "decommit", "core", "restore"}

\* At a step that asks nothing of the child it keeps still; at one that does,
\* the exchange is about that step's command.
Protocol ==
    /\ child = "setup" => exit = StillActive /\ Now.do = "start"
    /\ Doing =>
         /\ Now.do = "start" => /\ sub = "begin" /\ ~go /\ ~done
                                /\ child \in {"setup", "waiting", "ended"}
         /\ Now.do \in Quietly => Still
         /\ Now.do \in Asking =>
              /\ sub # "sent" => Still
              /\ sub \in {"commanded", "reset"} => command = CommandOf(Now.do)
              /\ sub = "sent" => Exchange(CommandOf(Now.do))
         /\ Now.do = "spin" => sub # "sent"
         /\ Now.do \in {"deep", "stop"} => Exchange("spin")
         /\ (Now.do = "exit" /\ sub # "begin") => command = "exit"

Early == {"start", "compressor", "snapshot", "mutate", "report", "capture", "decommit"}

\* What is there at each step
Presence ==
    /\ (program = "phase3" \/ Now.do \in Early) => Present(Pages)
    /\ (Doing /\ Now.do \in {"verify_core", "spin", "deep", "stop"}) => Present(CorePages)
    /\ (Doing /\ Now.do = "verify") => Present(Pages)
    /\ (Now.do = "stop" /\ "deep" \notin missed) => Present(Pages)
    /\ (Packed /\ Now.do \in {"stop", "verify"} /\ "spin" \in missed) => "deep" \in missed

\* The child uses only what is there.
Uses ==
    /\ child \in {"working", "spinning"} => Present(Used(task))
    /\ Called => command = "exit" \/ Present(Used(command))
    /\ child = "spinning" => task = "spin"
    /\ (child \notin {"setup", "waiting", "ended"} /\ go) => command = "exit"

\* The child writes only at the parent's step for it.
Writes ==
    /\ (Called /\ command \in {"mutate", "report"})
         => exit = StillActive /\ Now.do = command /\ Packed
    /\ (child \in {"working", "answering"} /\ task \in {"mutate", "report"})
         => exit = StillActive /\ Now.do = task /\ Packed

\* Where the content of the region is
Contents ==
    /\ \A p \in Pages : arena[p] \in {expected[p], Gone}
    /\ snap = Zeros
    /\ ~Packed => expected = Zeros /\ observed = Zeros
    /\ (Now.do \in {"start", "compressor", "snapshot"}) => expected = Zeros
    /\ (Doing /\ Now.do = "mutate" /\ child \in {"waiting", "woken", "working"} /\ ~done)
         => expected = Zeros
    /\ (~Packed \/ Now.do \in Early \ {"decommit"}) => \A p \in Pages : delta[p] = Gone
    /\ (Packed /\ Now.do \notin Early \ {"decommit"}) => \A p \in Pages : Rebuilt(p) = expected[p]

\* The child's writes are in the write watch, or in its report.
Unreported ==
    /\ Doing
    /\ Now.do = "mutate" \/ (Now.do = "report" /\ ~Told /\ child # "ended")

Reported == Doing /\ ((Now.do = "report" /\ Told) \/ Now.do = "capture")

\* What has been written since the snapshot is in the one, then in the other.
Watched ==
    /\ Unreported => \A p \in Pages : expected[p] = 0 \/ p \in touched
    /\ Reported => \A p \in Pages : expected[p] = 0 \/ p \in dirty

\* What has been hashed is what was expected.
Hashed ==
    /\ (Doing /\ Now.do = "verify_core" /\ Told) => Core(observed) = Core(expected)
    /\ (Doing /\ Now.do = "verify" /\ Told) => observed = expected
    /\ wrong = {}

\* What the parent knows at the end
Ended ==
    /\ (Now.do \in {"exit", "judge"} /\ "verify" \notin missed) =>
         /\ observed = expected /\ carried = "verify_full"
         /\ child \in {"waiting", "woken", "ended"}
         /\ Called => command = "exit"
    /\ (Now.do = "judge" /\ "exit" \notin missed) => child = "ended" /\ code = 0
    /\ exit = 0 => Now.do = "judge" /\ missed = {}

RemoteInv ==
    /\ TypeOK /\ Protocol /\ Presence /\ Uses /\ Writes
    /\ Contents /\ Watched /\ Hashed /\ Ended

-----------------------------------------------------------------------------
(***************************************************************************)
(* The scripts                                                             *)
(***************************************************************************)
\* The step after the present one
After == Script[at + 1]

\* The present step and the one that follows it
Stage(do, needs, fatal, next, itNeeds) ==
    /\ Now.do = do /\ Now.needs = needs
    /\ IF fatal THEN Now.code \in 1 .. 99 ELSE Now.code = Noted
    /\ After.do = next /\ After.needs = itNeeds

Last == Now.do = "judge" /\ Now.needs = "none" /\ Now.code = Noted

Watching ==
    \/ Stage("start", "none", TRUE, "query", "none")
    \/ Stage("query", "none", TRUE, "trim", "none")
    \/ Stage("trim", "none", FALSE, "touch", "none")
    \/ Stage("touch", "none", TRUE, "query", "none")
    \/ Stage("trim", "none", FALSE, "prefetch", "none")
    \/ Stage("prefetch", "none", FALSE, "touch_again", "none")
    \/ Stage("touch_again", "none", TRUE, "exit", "none")
    \/ Stage("exit", "none", FALSE, "judge", "none")

Keeping ==
    \/ Stage("start", "none", TRUE, "compressor", "none")
    \/ Stage("compressor", "none", TRUE, "snapshot", "none")
    \/ Stage("snapshot", "none", FALSE, "decommit", "snapshot")
    \/ Stage("decommit", "snapshot", FALSE, "restore", "decommit")
    \/ Stage("restore", "decommit", FALSE, "verify", "restore")
    \/ Stage("verify", "restore", FALSE, "exit", "none")
    \/ Stage("exit", "none", FALSE, "judge", "none")

Packing ==
    \/ Stage("start", "none", TRUE, "compressor", "none")
    \/ Stage("compressor", "none", TRUE, "snapshot", "none")
    \/ Stage("snapshot", "none", TRUE, "mutate", "none")
    \/ Stage("mutate", "none", TRUE, "report", "none")
    \/ Stage("report", "none", TRUE, "capture", "none")
    \/ Stage("capture", "none", TRUE, "decommit", "none")
    \/ Stage("decommit", "none", FALSE, "core", "decommit")
    \/ Stage("core", "decommit", FALSE, "verify_core", "core")
    \/ Stage("verify_core", "core", FALSE, "spin", "verify_core")
    \/ Stage("spin", "verify_core", FALSE, "deep", "spin")
    \/ Stage("deep", "spin", FALSE, "stop", "spin")
    \/ Stage("stop", "spin", FALSE, "verify", "deep")
    \/ Stage("verify", "deep", FALSE, "exit", "none")
    \/ Stage("exit", "none", FALSE, "judge", "none")

\* Where a run can be
Course ==
    /\ \/ program = "phase3" /\ (Watching \/ Last)
       \/ program = "phase4" /\ (Keeping \/ Last)
       \/ Packed /\ (Packing \/ Last)
    /\ "none" \notin missed
    /\ at \in 1 .. Len(Script) /\ (Now.do # "judge" => at + 1 \in 1 .. Len(Script))

\* The steps of the scripts, one by one
LEMMA Phase3Steps ==
    /\ Len(Phase3Script) = 10
    /\ Phase3Script[1] = Step("start", "none", 99)
    /\ Phase3Script[2] = Step("query", "none", 98)
    /\ Phase3Script[3] = Step("trim", "none", Noted)
    /\ Phase3Script[4] = Step("touch", "none", 97)
    /\ Phase3Script[5] = Step("query", "none", 96)
    /\ Phase3Script[6] = Step("trim", "none", Noted)
    /\ Phase3Script[7] = Step("prefetch", "none", Noted)
    /\ Phase3Script[8] = Step("touch_again", "none", 95)
    /\ Phase3Script[9] = Step("exit", "none", Noted)
    /\ Phase3Script[10] = Step("judge", "none", Noted)
BY DEF Phase3Script

\* At each step of a script stands one of its stages, or the last.
LEMMA Phase3Runs ==
    ASSUME Script = Phase3Script, at \in 1 .. 10
    PROVE  /\ (Now.do # "judge" /\ Watching /\ at < 10) \/ (Now.do = "judge" /\ Last /\ at = 10)
           /\ \A i \in 1 .. 10 : Script[i].do # "none"
<1>1. Now = Script[at] /\ After = Script[at + 1]
  BY DEF Now, After
<1>2. \A i \in 1 .. 10 : Script[i].do # "none"
  <2> SUFFICES ASSUME NEW i \in 1 .. 10 PROVE Script[i].do # "none"
    OBVIOUS
  <2>1. i = 1 \/ i = 2 \/ i = 3 \/ i = 4 \/ i = 5 \/ i = 6 \/ i = 7 \/ i = 8 \/ i = 9 \/ i = 10
    OBVIOUS
  <2> QED
    BY <2>1, Phase3Steps DEF Step
<1>3. CASE at = 1
  <2>1. Stage("start", "none", TRUE, "query", "none")
    BY <1>1, <1>3, Phase3Steps DEF Step, Stage, Noted
  <2>2. Now.do # "judge"
    BY <2>1 DEF Stage
  <2>3. Watching
    BY <2>1, Zenon DEF Watching
  <2> QED
    BY <1>2, <1>3, <2>2, <2>3
<1>4. CASE at = 2
  <2>1. Stage("query", "none", TRUE, "trim", "none")
    BY <1>1, <1>4, Phase3Steps DEF Step, Stage, Noted
  <2>2. Now.do # "judge"
    BY <2>1 DEF Stage
  <2>3. Watching
    BY <2>1, Zenon DEF Watching
  <2> QED
    BY <1>2, <1>4, <2>2, <2>3
<1>5. CASE at = 3
  <2>1. Stage("trim", "none", FALSE, "touch", "none")
    BY <1>1, <1>5, Phase3Steps DEF Step, Stage, Noted
  <2>2. Now.do # "judge"
    BY <2>1 DEF Stage
  <2>3. Watching
    BY <2>1, Zenon DEF Watching
  <2> QED
    BY <1>2, <1>5, <2>2, <2>3
<1>6. CASE at = 4
  <2>1. Stage("touch", "none", TRUE, "query", "none")
    BY <1>1, <1>6, Phase3Steps DEF Step, Stage, Noted
  <2>2. Now.do # "judge"
    BY <2>1 DEF Stage
  <2>3. Watching
    BY <2>1, Zenon DEF Watching
  <2> QED
    BY <1>2, <1>6, <2>2, <2>3
<1>7. CASE at = 5
  <2>1. Stage("query", "none", TRUE, "trim", "none")
    BY <1>1, <1>7, Phase3Steps DEF Step, Stage, Noted
  <2>2. Now.do # "judge"
    BY <2>1 DEF Stage
  <2>3. Watching
    BY <2>1, Zenon DEF Watching
  <2> QED
    BY <1>2, <1>7, <2>2, <2>3
<1>8. CASE at = 6
  <2>1. Stage("trim", "none", FALSE, "prefetch", "none")
    BY <1>1, <1>8, Phase3Steps DEF Step, Stage, Noted
  <2>2. Now.do # "judge"
    BY <2>1 DEF Stage
  <2>3. Watching
    BY <2>1, Zenon DEF Watching
  <2> QED
    BY <1>2, <1>8, <2>2, <2>3
<1>9. CASE at = 7
  <2>1. Stage("prefetch", "none", FALSE, "touch_again", "none")
    BY <1>1, <1>9, Phase3Steps DEF Step, Stage, Noted
  <2>2. Now.do # "judge"
    BY <2>1 DEF Stage
  <2>3. Watching
    BY <2>1, Zenon DEF Watching
  <2> QED
    BY <1>2, <1>9, <2>2, <2>3
<1>10. CASE at = 8
  <2>1. Stage("touch_again", "none", TRUE, "exit", "none")
    BY <1>1, <1>10, Phase3Steps DEF Step, Stage, Noted
  <2>2. Now.do # "judge"
    BY <2>1 DEF Stage
  <2>3. Watching
    BY <2>1, Zenon DEF Watching
  <2> QED
    BY <1>2, <1>10, <2>2, <2>3
<1>11. CASE at = 9
  <2>1. Stage("exit", "none", FALSE, "judge", "none")
    BY <1>1, <1>11, Phase3Steps DEF Step, Stage, Noted
  <2>2. Now.do # "judge"
    BY <2>1 DEF Stage
  <2>3. Watching
    BY <2>1, Zenon DEF Watching
  <2> QED
    BY <1>2, <1>11, <2>2, <2>3
<1>12. CASE at = 10
  BY <1>1, <1>2, <1>12, Phase3Steps DEF Step, Last, Noted
<1> QED
  BY <1>2, <1>3, <1>4, <1>5, <1>6, <1>7, <1>8, <1>9, <1>10, <1>11, <1>12

\* The same for phase 4
LEMMA Phase4Steps ==
    /\ Len(Phase4Script) = 8
    /\ Phase4Script[1] = Step("start", "none", 90)
    /\ Phase4Script[2] = Step("compressor", "none", 91)
    /\ Phase4Script[3] = Step("snapshot", "none", Noted)
    /\ Phase4Script[4] = Step("decommit", "snapshot", Noted)
    /\ Phase4Script[5] = Step("restore", "decommit", Noted)
    /\ Phase4Script[6] = Step("verify", "restore", Noted)
    /\ Phase4Script[7] = Step("exit", "none", Noted)
    /\ Phase4Script[8] = Step("judge", "none", Noted)
BY DEF Phase4Script

\* And for its stages
LEMMA Phase4Runs ==
    ASSUME Script = Phase4Script, at \in 1 .. 8
    PROVE  /\ (Now.do # "judge" /\ Keeping /\ at < 8) \/ (Now.do = "judge" /\ Last /\ at = 8)
           /\ \A i \in 1 .. 8 : Script[i].do # "none"
<1>1. Now = Script[at] /\ After = Script[at + 1]
  BY DEF Now, After
<1>2. \A i \in 1 .. 8 : Script[i].do # "none"
  <2> SUFFICES ASSUME NEW i \in 1 .. 8 PROVE Script[i].do # "none"
    OBVIOUS
  <2>1. i = 1 \/ i = 2 \/ i = 3 \/ i = 4 \/ i = 5 \/ i = 6 \/ i = 7 \/ i = 8
    OBVIOUS
  <2> QED
    BY <2>1, Phase4Steps DEF Step
<1>3. CASE at = 1
  <2>1. Stage("start", "none", TRUE, "compressor", "none")
    BY <1>1, <1>3, Phase4Steps DEF Step, Stage, Noted
  <2>2. Now.do # "judge"
    BY <2>1 DEF Stage
  <2>3. Keeping
    BY <2>1, Zenon DEF Keeping
  <2> QED
    BY <1>2, <1>3, <2>2, <2>3
<1>4. CASE at = 2
  <2>1. Stage("compressor", "none", TRUE, "snapshot", "none")
    BY <1>1, <1>4, Phase4Steps DEF Step, Stage, Noted
  <2>2. Now.do # "judge"
    BY <2>1 DEF Stage
  <2>3. Keeping
    BY <2>1, Zenon DEF Keeping
  <2> QED
    BY <1>2, <1>4, <2>2, <2>3
<1>5. CASE at = 3
  <2>1. Stage("snapshot", "none", FALSE, "decommit", "snapshot")
    BY <1>1, <1>5, Phase4Steps DEF Step, Stage, Noted
  <2>2. Now.do # "judge"
    BY <2>1 DEF Stage
  <2>3. Keeping
    BY <2>1, Zenon DEF Keeping
  <2> QED
    BY <1>2, <1>5, <2>2, <2>3
<1>6. CASE at = 4
  <2>1. Stage("decommit", "snapshot", FALSE, "restore", "decommit")
    BY <1>1, <1>6, Phase4Steps DEF Step, Stage, Noted
  <2>2. Now.do # "judge"
    BY <2>1 DEF Stage
  <2>3. Keeping
    BY <2>1, Zenon DEF Keeping
  <2> QED
    BY <1>2, <1>6, <2>2, <2>3
<1>7. CASE at = 5
  <2>1. Stage("restore", "decommit", FALSE, "verify", "restore")
    BY <1>1, <1>7, Phase4Steps DEF Step, Stage, Noted
  <2>2. Now.do # "judge"
    BY <2>1 DEF Stage
  <2>3. Keeping
    BY <2>1, Zenon DEF Keeping
  <2> QED
    BY <1>2, <1>7, <2>2, <2>3
<1>8. CASE at = 6
  <2>1. Stage("verify", "restore", FALSE, "exit", "none")
    BY <1>1, <1>8, Phase4Steps DEF Step, Stage, Noted
  <2>2. Now.do # "judge"
    BY <2>1 DEF Stage
  <2>3. Keeping
    BY <2>1, Zenon DEF Keeping
  <2> QED
    BY <1>2, <1>8, <2>2, <2>3
<1>9. CASE at = 7
  <2>1. Stage("exit", "none", FALSE, "judge", "none")
    BY <1>1, <1>9, Phase4Steps DEF Step, Stage, Noted
  <2>2. Now.do # "judge"
    BY <2>1 DEF Stage
  <2>3. Keeping
    BY <2>1, Zenon DEF Keeping
  <2> QED
    BY <1>2, <1>9, <2>2, <2>3
<1>10. CASE at = 8
  BY <1>1, <1>2, <1>10, Phase4Steps DEF Step, Last, Noted
<1> QED
  BY <1>2, <1>3, <1>4, <1>5, <1>6, <1>7, <1>8, <1>9, <1>10

\* The same for phases 5 and 6
LEMMA Phase6Steps ==
    /\ Len(Phase6Script) = 15
    /\ Phase6Script[1] = Step("start", "none", 90)
    /\ Phase6Script[2] = Step("compressor", "none", 91)
    /\ Phase6Script[3] = Step("snapshot", "none", 93)
    /\ Phase6Script[4] = Step("mutate", "none", 94)
    /\ Phase6Script[5] = Step("report", "none", 95)
    /\ Phase6Script[6] = Step("capture", "none", 96)
    /\ Phase6Script[7] = Step("decommit", "none", Noted)
    /\ Phase6Script[8] = Step("core", "decommit", Noted)
    /\ Phase6Script[9] = Step("verify_core", "core", Noted)
    /\ Phase6Script[10] = Step("spin", "verify_core", Noted)
    /\ Phase6Script[11] = Step("deep", "spin", Noted)
    /\ Phase6Script[12] = Step("stop", "spin", Noted)
    /\ Phase6Script[13] = Step("verify", "deep", Noted)
    /\ Phase6Script[14] = Step("exit", "none", Noted)
    /\ Phase6Script[15] = Step("judge", "none", Noted)
BY DEF Phase6Script

\* And for their stages
LEMMA Phase6Runs ==
    ASSUME Script = Phase6Script, at \in 1 .. 15
    PROVE  /\ (Now.do # "judge" /\ Packing /\ at < 15) \/ (Now.do = "judge" /\ Last /\ at = 15)
           /\ \A i \in 1 .. 15 : Script[i].do # "none"
<1>1. Now = Script[at] /\ After = Script[at + 1]
  BY DEF Now, After
<1>2. \A i \in 1 .. 15 : Script[i].do # "none"
  <2> SUFFICES ASSUME NEW i \in 1 .. 15 PROVE Script[i].do # "none"
    OBVIOUS
  <2>1. i = 1 \/ i = 2 \/ i = 3 \/ i = 4 \/ i = 5 \/ i = 6 \/ i = 7 \/ i = 8
        \/ i = 9 \/ i = 10 \/ i = 11 \/ i = 12 \/ i = 13 \/ i = 14 \/ i = 15
    OBVIOUS
  <2> QED
    BY <2>1, Phase6Steps DEF Step
<1>3. CASE at = 1
  <2>1. Stage("start", "none", TRUE, "compressor", "none")
    BY <1>1, <1>3, Phase6Steps DEF Step, Stage, Noted
  <2>2. Now.do # "judge"
    BY <2>1 DEF Stage
  <2>3. Packing
    BY <2>1, Zenon DEF Packing
  <2> QED
    BY <1>2, <1>3, <2>2, <2>3
<1>4. CASE at = 2
  <2>1. Stage("compressor", "none", TRUE, "snapshot", "none")
    BY <1>1, <1>4, Phase6Steps DEF Step, Stage, Noted
  <2>2. Now.do # "judge"
    BY <2>1 DEF Stage
  <2>3. Packing
    BY <2>1, Zenon DEF Packing
  <2> QED
    BY <1>2, <1>4, <2>2, <2>3
<1>5. CASE at = 3
  <2>1. Stage("snapshot", "none", TRUE, "mutate", "none")
    BY <1>1, <1>5, Phase6Steps DEF Step, Stage, Noted
  <2>2. Now.do # "judge"
    BY <2>1 DEF Stage
  <2>3. Packing
    BY <2>1, Zenon DEF Packing
  <2> QED
    BY <1>2, <1>5, <2>2, <2>3
<1>6. CASE at = 4
  <2>1. Stage("mutate", "none", TRUE, "report", "none")
    BY <1>1, <1>6, Phase6Steps DEF Step, Stage, Noted
  <2>2. Now.do # "judge"
    BY <2>1 DEF Stage
  <2>3. Packing
    BY <2>1, Zenon DEF Packing
  <2> QED
    BY <1>2, <1>6, <2>2, <2>3
<1>7. CASE at = 5
  <2>1. Stage("report", "none", TRUE, "capture", "none")
    BY <1>1, <1>7, Phase6Steps DEF Step, Stage, Noted
  <2>2. Now.do # "judge"
    BY <2>1 DEF Stage
  <2>3. Packing
    BY <2>1, Zenon DEF Packing
  <2> QED
    BY <1>2, <1>7, <2>2, <2>3
<1>8. CASE at = 6
  <2>1. Stage("capture", "none", TRUE, "decommit", "none")
    BY <1>1, <1>8, Phase6Steps DEF Step, Stage, Noted
  <2>2. Now.do # "judge"
    BY <2>1 DEF Stage
  <2>3. Packing
    BY <2>1, Zenon DEF Packing
  <2> QED
    BY <1>2, <1>8, <2>2, <2>3
<1>9. CASE at = 7
  <2>1. Stage("decommit", "none", FALSE, "core", "decommit")
    BY <1>1, <1>9, Phase6Steps DEF Step, Stage, Noted
  <2>2. Now.do # "judge"
    BY <2>1 DEF Stage
  <2>3. Packing
    BY <2>1, Zenon DEF Packing
  <2> QED
    BY <1>2, <1>9, <2>2, <2>3
<1>10. CASE at = 8
  <2>1. Stage("core", "decommit", FALSE, "verify_core", "core")
    BY <1>1, <1>10, Phase6Steps DEF Step, Stage, Noted
  <2>2. Now.do # "judge"
    BY <2>1 DEF Stage
  <2>3. Packing
    BY <2>1, Zenon DEF Packing
  <2> QED
    BY <1>2, <1>10, <2>2, <2>3
<1>11. CASE at = 9
  <2>1. Stage("verify_core", "core", FALSE, "spin", "verify_core")
    BY <1>1, <1>11, Phase6Steps DEF Step, Stage, Noted
  <2>2. Now.do # "judge"
    BY <2>1 DEF Stage
  <2>3. Packing
    BY <2>1, Zenon DEF Packing
  <2> QED
    BY <1>2, <1>11, <2>2, <2>3
<1>12. CASE at = 10
  <2>1. Stage("spin", "verify_core", FALSE, "deep", "spin")
    BY <1>1, <1>12, Phase6Steps DEF Step, Stage, Noted
  <2>2. Now.do # "judge"
    BY <2>1 DEF Stage
  <2>3. Packing
    BY <2>1, Zenon DEF Packing
  <2> QED
    BY <1>2, <1>12, <2>2, <2>3
<1>13. CASE at = 11
  <2>1. Stage("deep", "spin", FALSE, "stop", "spin")
    BY <1>1, <1>13, Phase6Steps DEF Step, Stage, Noted
  <2>2. Now.do # "judge"
    BY <2>1 DEF Stage
  <2>3. Packing
    BY <2>1, Zenon DEF Packing
  <2> QED
    BY <1>2, <1>13, <2>2, <2>3
<1>14. CASE at = 12
  <2>1. Stage("stop", "spin", FALSE, "verify", "deep")
    BY <1>1, <1>14, Phase6Steps DEF Step, Stage, Noted
  <2>2. Now.do # "judge"
    BY <2>1 DEF Stage
  <2>3. Packing
    BY <2>1, Zenon DEF Packing
  <2> QED
    BY <1>2, <1>14, <2>2, <2>3
<1>15. CASE at = 13
  <2>1. Stage("verify", "deep", FALSE, "exit", "none")
    BY <1>1, <1>15, Phase6Steps DEF Step, Stage, Noted
  <2>2. Now.do # "judge"
    BY <2>1 DEF Stage
  <2>3. Packing
    BY <2>1, Zenon DEF Packing
  <2> QED
    BY <1>2, <1>15, <2>2, <2>3
<1>16. CASE at = 14
  <2>1. Stage("exit", "none", FALSE, "judge", "none")
    BY <1>1, <1>16, Phase6Steps DEF Step, Stage, Noted
  <2>2. Now.do # "judge"
    BY <2>1 DEF Stage
  <2>3. Packing
    BY <2>1, Zenon DEF Packing
  <2> QED
    BY <1>2, <1>16, <2>2, <2>3
<1>17. CASE at = 15
  BY <1>1, <1>2, <1>17, Phase6Steps DEF Step, Last, Noted
<1> QED
  BY <1>2, <1>3, <1>4, <1>5, <1>6, <1>7, <1>8, <1>9, <1>10, <1>11, <1>12, <1>13, <1>14, <1>15,
     <1>16, <1>17

\* A program is at a stage of its own script.
LEMMA ScriptsRun ==
    ASSUME program \in Programs, at \in 1 .. Len(Script),
           missed \subseteq {"memory"} \cup {Script[i].do : i \in 1 .. Len(Script)}
    PROVE  Course
<1>1. CASE program = "phase3"
  <2>1. Script = Phase3Script
    BY <1>1 DEF Script, ScriptOf, Packed, Phase5Script
  <2>2. Len(Script) = 10 /\ at \in 1 .. 10
    BY <2>1, Phase3Steps
  <2>3. /\ (Now.do # "judge" /\ Watching /\ at < 10) \/ (Now.do = "judge" /\ Last /\ at = 10)
        /\ \A i \in 1 .. 10 : Script[i].do # "none"
    BY <2>1, <2>2, Phase3Runs
  <2>4. "none" \notin missed
    BY <2>2, <2>3
  <2>5. Now.do # "judge" => at + 1 \in 1 .. Len(Script)
    BY <2>2, <2>3
  <2> QED
    BY <1>1, <2>3, <2>4, <2>5 DEF Course
<1>2. CASE program = "phase4"
  <2>1. Script = Phase4Script
    BY <1>2 DEF Script, ScriptOf, Packed, Phase5Script
  <2>2. Len(Script) = 8 /\ at \in 1 .. 8
    BY <2>1, Phase4Steps
  <2>3. /\ (Now.do # "judge" /\ Keeping /\ at < 8) \/ (Now.do = "judge" /\ Last /\ at = 8)
        /\ \A i \in 1 .. 8 : Script[i].do # "none"
    BY <2>1, <2>2, Phase4Runs
  <2>4. "none" \notin missed
    BY <2>2, <2>3
  <2>5. Now.do # "judge" => at + 1 \in 1 .. Len(Script)
    BY <2>2, <2>3
  <2> QED
    BY <1>2, <2>3, <2>4, <2>5 DEF Course
<1>3. CASE Packed
  <2>1. Script = Phase6Script
    BY <1>3 DEF Script, ScriptOf, Packed, Phase5Script
  <2>2. Len(Script) = 15 /\ at \in 1 .. 15
    BY <2>1, Phase6Steps
  <2>3. /\ (Now.do # "judge" /\ Packing /\ at < 15) \/ (Now.do = "judge" /\ Last /\ at = 15)
        /\ \A i \in 1 .. 15 : Script[i].do # "none"
    BY <2>1, <2>2, Phase6Runs
  <2>4. "none" \notin missed
    BY <2>2, <2>3
  <2>5. Now.do # "judge" => at + 1 \in 1 .. Len(Script)
    BY <2>2, <2>3
  <2> QED
    BY <1>3, <2>3, <2>4, <2>5 DEF Course
<1> QED
  BY <1>1, <1>2, <1>3 DEF Programs, Packed

\* At the same step of the same program
LEMMA StepKept ==
    ASSUME program' = program, at' = at
    PROVE  Now' = Now /\ Script' = Script
BY DEF Now, Script

\* At the next step of the same program
LEMMA StepTaken ==
    ASSUME program' = program, at' = at + 1
    PROVE  Now' = After /\ Script' = Script
BY DEF Now, After, Script

\* The same by the step, whatever the program
Following ==
    /\ Now.do = "start" =>
         /\ Now.code # Noted
         /\ After.do = IF program = "phase3" THEN "query" ELSE "compressor"
    /\ Now.do = "query" => program = "phase3" /\ Now.code # Noted /\ After.do = "trim"
    /\ Now.do = "trim" =>
         program = "phase3" /\ Now.code = Noted /\ After.do \in {"touch", "prefetch"}
    /\ Now.do = "prefetch" => program = "phase3" /\ Now.code = Noted /\ After.do = "touch_again"
    /\ Now.do = "touch" => program = "phase3" /\ Now.code # Noted /\ After.do = "query"
    /\ Now.do = "touch_again" => program = "phase3" /\ Now.code # Noted /\ After.do = "exit"
    /\ Now.do = "compressor" =>
         program # "phase3" /\ Now.code # Noted /\ After.do = "snapshot"
    /\ Now.do = "snapshot" =>
         /\ program # "phase3"
         /\ IF Packed THEN Now.code # Noted /\ After.do = "mutate"
            ELSE Now.code = Noted /\ After.do = "decommit" /\ After.needs = "snapshot"
    /\ Now.do = "mutate" => Packed /\ Now.code # Noted /\ After.do = "report"
    /\ Now.do = "report" => Packed /\ Now.code # Noted /\ After.do = "capture"
    /\ Now.do = "capture" => Packed /\ Now.code # Noted /\ After.do = "decommit"
    /\ Now.do = "decommit" =>
         /\ program # "phase3" /\ Now.code = Noted /\ After.needs = "decommit"
         /\ After.do = IF Packed THEN "core" ELSE "restore"
    /\ Now.do = "restore" =>
         ~Packed /\ program # "phase3" /\ Now.code = Noted /\ After.do = "verify"
         /\ After.needs = "restore"
    /\ Now.do = "core" =>
         Packed /\ Now.code = Noted /\ After.do = "verify_core" /\ After.needs = "core"
    /\ Now.do = "verify_core" =>
         Packed /\ Now.code = Noted /\ After.do = "spin" /\ After.needs = "verify_core"
    /\ Now.do = "spin" =>
         Packed /\ Now.code = Noted /\ After.do = "deep" /\ After.needs = "spin"
    /\ Now.do = "deep" =>
         /\ Packed /\ Now.needs = "spin" /\ Now.code = Noted
         /\ After.do = "stop" /\ After.needs = "spin"
    /\ Now.do = "stop" =>
         /\ Packed /\ Now.needs = "spin" /\ Now.code = Noted
         /\ After.do = "verify" /\ After.needs = "deep"
    /\ Now.do = "verify" => program # "phase3" /\ Now.code = Noted /\ After.do = "exit"
    /\ Now.do = "exit" => Now.code = Noted /\ After.do = "judge"
    /\ Now.do \in {"decommit", "restore", "core", "verify_core", "spin", "deep", "stop", "verify"}
         \/ Now.needs = "none"
    /\ program = "phase3" => Now.needs = "none"
    /\ Now.do \in {"start", "query", "trim", "prefetch", "touch", "touch_again", "compressor",
                   "snapshot", "mutate", "report", "capture", "decommit", "restore", "core",
                   "verify_core", "spin", "deep", "stop", "verify", "exit", "judge"}
    /\ Now.code \in 0 .. 99
    /\ "none" \notin missed

\* What a stage says of the step, and of the one that follows it
LEMMA CourseFollows ==
    ASSUME Course
    PROVE  Following
<1>1. CASE program = "phase3"
  <2>1. "none" \notin missed /\ ~Packed
    BY <1>1 DEF Packed, Course
  <2>2. CASE Stage("start", "none", TRUE, "query", "none")
    BY <1>1, <2>1, <2>2 DEF Stage, Following, Noted
  <2>3. CASE Stage("query", "none", TRUE, "trim", "none")
    BY <1>1, <2>1, <2>3 DEF Stage, Following, Noted
  <2>4. CASE Stage("trim", "none", FALSE, "touch", "none")
    BY <1>1, <2>1, <2>4 DEF Stage, Following, Noted
  <2>5. CASE Stage("touch", "none", TRUE, "query", "none")
    BY <1>1, <2>1, <2>5 DEF Stage, Following, Noted
  <2>6. CASE Stage("trim", "none", FALSE, "prefetch", "none")
    BY <1>1, <2>1, <2>6 DEF Stage, Following, Noted
  <2>7. CASE Stage("prefetch", "none", FALSE, "touch_again", "none")
    BY <1>1, <2>1, <2>7 DEF Stage, Following, Noted
  <2>8. CASE Stage("touch_again", "none", TRUE, "exit", "none")
    BY <1>1, <2>1, <2>8 DEF Stage, Following, Noted
  <2>9. CASE Stage("exit", "none", FALSE, "judge", "none")
    BY <1>1, <2>1, <2>9 DEF Stage, Following, Noted
  <2>10. CASE Last
    BY <1>1, <2>1, <2>10 DEF Last, Following, Noted
  <2>11. Watching \/ Last
    BY <1>1, <2>1 DEF Course, Packed
  <2> QED
    BY <2>2, <2>3, <2>4, <2>5, <2>6, <2>7, <2>8, <2>9, <2>10, <2>11, Zenon DEF Watching
<1>2. CASE program = "phase4"
  <2>1. "none" \notin missed /\ ~Packed /\ program # "phase3"
    BY <1>2 DEF Packed, Course
  <2>2. CASE Stage("start", "none", TRUE, "compressor", "none")
    BY <1>2, <2>1, <2>2 DEF Stage, Following, Noted
  <2>3. CASE Stage("compressor", "none", TRUE, "snapshot", "none")
    BY <1>2, <2>1, <2>3 DEF Stage, Following, Noted
  <2>4. CASE Stage("snapshot", "none", FALSE, "decommit", "snapshot")
    BY <1>2, <2>1, <2>4 DEF Stage, Following, Noted
  <2>5. CASE Stage("decommit", "snapshot", FALSE, "restore", "decommit")
    BY <1>2, <2>1, <2>5 DEF Stage, Following, Noted
  <2>6. CASE Stage("restore", "decommit", FALSE, "verify", "restore")
    BY <1>2, <2>1, <2>6 DEF Stage, Following, Noted
  <2>7. CASE Stage("verify", "restore", FALSE, "exit", "none")
    BY <1>2, <2>1, <2>7 DEF Stage, Following, Noted
  <2>8. CASE Stage("exit", "none", FALSE, "judge", "none")
    BY <1>2, <2>1, <2>8 DEF Stage, Following, Noted
  <2>9. CASE Last
    BY <1>2, <2>1, <2>9 DEF Last, Following, Noted
  <2>10. Keeping \/ Last
    BY <1>2, <2>1 DEF Course, Packed
  <2> QED
    BY <2>2, <2>3, <2>4, <2>5, <2>6, <2>7, <2>8, <2>9, <2>10, Zenon DEF Keeping
<1>3. CASE Packed
  <2>1. "none" \notin missed /\ program # "phase3"
    BY <1>3 DEF Packed, Course
  <2>2. CASE Stage("start", "none", TRUE, "compressor", "none")
    BY <1>3, <2>1, <2>2 DEF Stage, Following, Noted
  <2>3. CASE Stage("compressor", "none", TRUE, "snapshot", "none")
    BY <1>3, <2>1, <2>3 DEF Stage, Following, Noted
  <2>4. CASE Stage("snapshot", "none", TRUE, "mutate", "none")
    BY <1>3, <2>1, <2>4 DEF Stage, Following, Noted
  <2>5. CASE Stage("mutate", "none", TRUE, "report", "none")
    BY <1>3, <2>1, <2>5 DEF Stage, Following, Noted
  <2>6. CASE Stage("report", "none", TRUE, "capture", "none")
    BY <1>3, <2>1, <2>6 DEF Stage, Following, Noted
  <2>7. CASE Stage("capture", "none", TRUE, "decommit", "none")
    BY <1>3, <2>1, <2>7 DEF Stage, Following, Noted
  <2>8. CASE Stage("decommit", "none", FALSE, "core", "decommit")
    BY <1>3, <2>1, <2>8 DEF Stage, Following, Noted
  <2>9. CASE Stage("core", "decommit", FALSE, "verify_core", "core")
    BY <1>3, <2>1, <2>9 DEF Stage, Following, Noted
  <2>10. CASE Stage("verify_core", "core", FALSE, "spin", "verify_core")
    BY <1>3, <2>1, <2>10 DEF Stage, Following, Noted
  <2>11. CASE Stage("spin", "verify_core", FALSE, "deep", "spin")
    BY <1>3, <2>1, <2>11 DEF Stage, Following, Noted
  <2>12. CASE Stage("deep", "spin", FALSE, "stop", "spin")
    BY <1>3, <2>1, <2>12 DEF Stage, Following, Noted
  <2>13. CASE Stage("stop", "spin", FALSE, "verify", "deep")
    BY <1>3, <2>1, <2>13 DEF Stage, Following, Noted
  <2>14. CASE Stage("verify", "deep", FALSE, "exit", "none")
    BY <1>3, <2>1, <2>14 DEF Stage, Following, Noted
  <2>15. CASE Stage("exit", "none", FALSE, "judge", "none")
    BY <1>3, <2>1, <2>15 DEF Stage, Following, Noted
  <2>16. CASE Last
    BY <1>3, <2>1, <2>16 DEF Last, Following, Noted
  <2>17. Packing \/ Last
    BY <1>3, <2>1 DEF Course, Packed
  <2> QED
    BY <2>2, <2>3, <2>4, <2>5, <2>6, <2>7, <2>8, <2>9, <2>10, <2>11, <2>12, <2>13, <2>14,
       <2>15, <2>16, <2>17, Zenon DEF Packing
<1> QED
  BY <1>1, <1>2, <1>3 DEF Course

\* What needs a step that is skipped is skipped too, up to the end of the child.
LEMMA SkippedOn ==
    ASSUME Following, Presence, Skip
    PROVE  /\ Now' = After
           /\ ~Doing' \/ (Now.do = "verify" /\ After.do = "exit")
           /\ Now.do \in {"decommit", "restore", "core", "verify_core", "spin", "deep", "stop",
                          "verify"}
           /\ program # "phase3"
<1>1. Now' = After
  BY StepTaken DEF Skip
<1> QED
  BY <1>1 DEF Following, Skip, Presence, Doing

-----------------------------------------------------------------------------
(***************************************************************************)
(* The exchange of commands                                                *)
(***************************************************************************)
\* A step keeps the protocol.
LEMMA ProtocolKept ==
    ASSUME Following, Presence, Protocol, Next
    PROVE  Protocol'
<1> USE DEF At, Pass, Miss, Noted, StillActive, parentVars, capsule, ipc, results, childVars
<1>1. CASE Skip
  BY <1>1, SkippedOn DEF Skip, Protocol, Doing, Asking, Quietly
<1>2. CASE Start
  <2>1. After.do \in {"query", "compressor"} /\ Now.code # Noted
    BY <1>2 DEF Start, Following
  <2> QED
    BY <1>2, <2>1, StepKept, StepTaken DEF Start, Protocol, Still, Doing, Asking, Quietly
<1>3. CASE AsksSystem
  BY <1>3, StepKept, StepTaken DEF AsksSystem, Following, Protocol, Still, Exchange, Doing,
     Quietly, Asking, CommandOf
<1>4. CASE Snapshot
  BY <1>4, StepKept, StepTaken DEF Snapshot, Alive, Following, Protocol, Still, Exchange,
     Doing, Quietly, Asking, CommandOf
<1>5. CASE Capture
  BY <1>5, StepKept, StepTaken DEF Capture, Alive, Following, Protocol, Still, Exchange,
     Doing, Quietly, Asking, CommandOf
<1>6. CASE Decommit
  BY <1>6, StepKept, StepTaken DEF Decommit, Alive, Following, Protocol, Still, Exchange,
     Doing, Quietly, Asking, CommandOf
<1>7. CASE Restore
  BY <1>7, StepKept, StepTaken DEF Restore, Alive, Following, Protocol, Still, Exchange,
     Doing, Quietly, Asking, CommandOf
<1>8. CASE SetCommand
  BY <1>8, StepKept, StepTaken DEF SetCommand, Following, Protocol, Still, Exchange, Doing,
     Quietly, Asking, CommandOf
<1>9. CASE ResetDone
  BY <1>9, StepKept, StepTaken DEF ResetDone, Following, Protocol, Still, Exchange, Doing,
     Quietly, Asking, CommandOf
<1>10. CASE SetGo
  BY <1>10, StepKept, StepTaken DEF SetGo, Following, Protocol, Still, Exchange, Doing,
     Quietly, Asking, CommandOf
<1>11. CASE Stop
  BY <1>11, StepKept, StepTaken DEF Stop, Following, Protocol, Still, Exchange, Doing,
     Quietly, Asking, CommandOf
<1>12. CASE Answered
  <2>1. child \in {"waiting", "ended"} /\ ~go
    BY <1>12 DEF Answered, Protocol, Exchange, Doing, Asking
  <2>2. After.do \notin {"start", "deep", "stop"}
    BY <1>12 DEF Answered, Protocol, Doing, Asking, Following
  <2> QED
    BY <1>12, <2>1, <2>2, StepKept, StepTaken DEF Answered, Protocol, Still, Doing, Asking,
       Quietly
<1>13. CASE Unanswered
  <2>1. /\ Now.code = Noted => Now.do \in {"verify_core", "verify", "spin", "stop"}
        /\ Now.do \in {"verify_core", "spin"} => After.needs = Now.do
        /\ Now.do = "stop" => After.needs = "deep"
        /\ Now.do = "verify" => After.do = "exit"
    BY <1>13 DEF Unanswered, Asking, Following
  <2> QED
    BY <1>13, <2>1, StepKept, StepTaken DEF Unanswered, Protocol, Doing, Asking, Quietly
<1>14. CASE Parts
  BY <1>14, StepKept, StepTaken DEF Parts, Following, Protocol, Still, Exchange, Doing,
     Quietly, Asking, CommandOf
<1>15. CASE Judge
  BY <1>15, StepKept, StepTaken DEF Judge, Following, Protocol, Still, Exchange, Doing,
     Quietly, Asking, CommandOf
<1>16. CASE Throws
  BY <1>16, StepKept, StepTaken DEF Throws, Following, Protocol, Still, Exchange, Doing,
     Quietly, Asking, CommandOf
<1>17. CASE SetUp
  BY <1>17, StepKept, StepTaken DEF SetUp, ChildFails, Following, Protocol, Still, Exchange,
     Doing, Quietly, Asking, CommandOf
<1>18. CASE Wake
  BY <1>18, StepKept, StepTaken DEF Wake, Following, Protocol, Still, Exchange, Doing,
     Quietly, Asking, CommandOf
<1>19. CASE ReadCommand
  BY <1>19, StepKept, StepTaken DEF ReadCommand, Following, Protocol, Still, Exchange, Doing,
     Quietly, Asking, CommandOf
<1>20. CASE Mutate
  BY <1>20, StepKept, StepTaken DEF Mutate, Finish, ChildFails, Working, Following, Protocol,
     Still, Exchange, Doing, Quietly, Asking, CommandOf
<1>21. CASE Report
  BY <1>21, StepKept, StepTaken DEF Report, Finish, ChildFails, Working, Following, Protocol,
     Still, Exchange, Doing, Quietly, Asking, CommandOf
<1>22. CASE Verify
  BY <1>22, StepKept, StepTaken DEF Verify, Finish, Working, Following, Protocol, Still,
     Exchange, Doing, Quietly, Asking, CommandOf
<1>23. CASE BeginSpin
  BY <1>23, StepKept, StepTaken DEF BeginSpin, Working, Following, Protocol, Still, Exchange,
     Doing, Quietly, Asking, CommandOf
<1>24. CASE Spin
  BY <1>24, StepKept, StepTaken DEF Spin, Following, Protocol, Still, Exchange, Doing,
     Quietly, Asking, CommandOf
<1>25. CASE EndSpin
  BY <1>25, StepKept, StepTaken DEF EndSpin, Finish, Following, Protocol, Still, Exchange,
     Doing, Quietly, Asking, CommandOf
<1>26. CASE Answer
  BY <1>26, StepKept, StepTaken DEF Answer, Following, Protocol, Still, Exchange, Doing,
     Quietly, Asking, CommandOf
<1>27. CASE Dies
  BY <1>27, StepKept, StepTaken DEF Dies, ChildFails, Following, Protocol, Still, Exchange,
     Doing, Quietly, Asking, CommandOf
<1> QED
  BY <1>1, <1>2, <1>3, <1>4, <1>5, <1>6, <1>7, <1>8, <1>9, <1>10, <1>11, <1>12, <1>13, <1>14,
     <1>15, <1>16, <1>17, <1>18, <1>19, <1>20, <1>21, <1>22, <1>23, <1>24, <1>25, <1>26,
     <1>27 DEF Next, ParentStep, ChildStep

-----------------------------------------------------------------------------
(***************************************************************************)
(* What is there, and what is used of it                                   *)
(***************************************************************************)
\* What the parent writes back is never the mark of a page that is gone.
LEMMA RebuiltIsContent ==
    ASSUME TypeOK, NEW p \in Pages
    PROVE  Rebuilt(p) \in {0, 1} /\ Rebuilt(p) # Gone
BY PageAssumption DEF TypeOK, Rebuilt

\* And what the child makes of a region that is all there is content.
LEMMA MutatedIsContent ==
    ASSUME TypeOK, Present(Pages), NEW pages \in SUBSET Pages
    PROVE  /\ \A p \in Pages : arena[p] \in {0, 1}
           /\ \A p \in Pages : (IF p \in pages THEN 1 - arena[p] ELSE arena[p]) \in {0, 1}
BY DEF TypeOK, Present

\* A step of restore_units
LEMMA RestoreSteps ==
    ASSUME TypeOK, Restore
    PROVE  /\ \A p \in Pages : arena[p] # Gone => arena'[p] = arena[p]
           /\ \A p \in Pages : arena'[p] \in {arena[p], Rebuilt(p)}
           /\ \/ at' = at /\ UNCHANGED <<sub, missed, exit, childVars>>
              \/ Missing = {} /\ Pass /\ UNCHANGED arena
              \/ Missing # {} /\ Miss /\ UNCHANGED arena
<1>1. CASE \E p \in Missing : arena' = [arena EXCEPT ![p] = Rebuilt(p)]
                              /\ UNCHANGED <<parentVars, childVars>>
  <2>1. PICK p \in Missing : arena' = [arena EXCEPT ![p] = Rebuilt(p)]
                             /\ UNCHANGED <<parentVars, childVars>>
    BY <1>1
  <2>2. arena \in [Pages -> {0, 1, Gone}] /\ arena[p] = Gone
    BY <2>1 DEF TypeOK, Missing
  <2> QED
    BY <2>1, <2>2 DEF parentVars
<1>2. CASE UNCHANGED arena /\ ((Missing = {} /\ Pass) \/ (Missing # {} /\ Miss))
  BY <1>2
<1> QED
  BY <1>1, <1>2 DEF Restore, Alive

\* A step keeps what is there.
LEMMA PresenceKept ==
    ASSUME TypeOK, Following, Presence, Writes, Next
    PROVE  Presence'
<1> USE DEF At, Pass, Miss, Noted, StillActive, parentVars, capsule, ipc, results, childVars
<1>1. CASE Skip
  <2>1. Now' = After /\ program # "phase3" /\ After.do \notin Early
    BY <1>1, SkippedOn DEF Following, Early
  <2>2. UNCHANGED <<program, arena, exit>> /\ Packed' = Packed /\ missed' = missed \cup {Now.do}
    BY <1>1 DEF Skip, Packed
  <2> QED
    BY <1>1, <2>1, <2>2, SkippedOn DEF Presence, Present, Doing, Early, Following
<1>2. CASE Start
  BY <1>2, StepKept, StepTaken DEF Start, Following, Presence, Present, Doing, Early, Asking,
     Packed
<1>3. CASE AsksSystem
  BY <1>3, StepKept, StepTaken DEF AsksSystem, Following, Presence, Present, Doing, Early,
     Asking, Packed
<1>4. CASE Snapshot
  BY <1>4, StepKept, StepTaken DEF Snapshot, Alive, Following, Presence, Present, Doing,
     Early, Asking, Packed
<1>5. CASE Capture
  BY <1>5, StepKept, StepTaken DEF Capture, Alive, Following, Presence, Present, Doing, Early,
     Asking, Packed
<1>6. CASE Decommit
  <2>1. Now' = After /\ UNCHANGED program /\ program # "phase3" /\ After.do \in {"core", "restore"}
    BY <1>6, StepTaken DEF Decommit, Following, Noted
  <2> QED
    BY <2>1 DEF Presence, Early
<1>7. CASE Restore
  <2>1. /\ \A pages \in SUBSET Pages : Present(pages) => Present(pages)'
        /\ UNCHANGED program
    BY <1>7, RestoreSteps, RebuiltIsContent DEF Restore, Present
  <2>0. Now.do = "deep" => Present(CorePages)'
    BY <1>7, <2>1, PageAssumption DEF Restore, Presence, Doing
  <2>2. CASE at' = at /\ UNCHANGED <<sub, missed, exit, childVars>>
    BY <1>7, <2>1, <2>2, StepKept, PageAssumption DEF Presence, Doing, Packed
  <2>3. CASE Missing = {} /\ Pass /\ UNCHANGED arena
    <3>1. Now' = After /\ Packed' = Packed
      BY <2>1, <2>3, StepTaken DEF Packed
    <3>2. \A p \in ToRestore : arena[p] # Gone
      BY <2>3 DEF Missing
    <3>3. Now.do = "core" => Present(CorePages)'
      BY <2>3, <3>2 DEF ToRestore, Present
    <3>4. Now.do = "restore" => Present(Pages)'
      BY <2>3, <3>2 DEF ToRestore, Present
    <3>5. Now.do = "deep" => Present(Pages)'
      BY <2>3, <3>2, <1>7 DEF ToRestore, Present, Presence, Restore, Doing
    <3> QED
      BY <1>7, <2>0, <2>1, <2>3, <3>1, <3>3, <3>4, <3>5 DEF Restore, Presence, Doing, Early,
         Following
  <2>4. CASE Missing # {} /\ Miss /\ UNCHANGED arena
    <3>1. Now' = After /\ Packed' = Packed /\ missed' = missed \cup {Now.do}
      BY <1>7, <2>1, <2>4, StepTaken DEF Restore, Following, Packed
    <3> QED
      BY <1>7, <2>0, <2>1, <2>4, <3>1 DEF Restore, Presence, Doing, Early, Following
  <2> QED
    BY <1>7, <2>2, <2>3, <2>4, RestoreSteps
<1>8. CASE SetCommand
  BY <1>8, StepKept, StepTaken DEF SetCommand, Following, Presence, Present, Doing, Early,
     Asking, Packed
<1>9. CASE ResetDone
  BY <1>9, StepKept, StepTaken DEF ResetDone, Following, Presence, Present, Doing, Early,
     Asking, Packed
<1>10. CASE SetGo
  BY <1>10, StepKept, StepTaken DEF SetGo, Following, Presence, Present, Doing, Early, Asking,
     Packed
<1>11. CASE Stop
  BY <1>11, StepKept, StepTaken DEF Stop, Following, Presence, Present, Doing, Early, Asking,
     Packed
<1>12. CASE Answered
  BY <1>12, StepKept, StepTaken DEF Answered, Following, Presence, Present, Doing, Early,
     Asking, Packed
<1>13. CASE Unanswered
  BY <1>13, StepKept, StepTaken DEF Unanswered, Following, Presence, Present, Doing, Early,
     Asking, Packed
<1>14. CASE Parts
  BY <1>14, StepKept, StepTaken DEF Parts, Following, Presence, Present, Doing, Early, Asking,
     Packed
<1>15. CASE Judge
  BY <1>15, StepKept, StepTaken DEF Judge, Following, Presence, Present, Doing, Early, Asking,
     Packed
<1>16. CASE Throws
  BY <1>16, StepKept, StepTaken DEF Throws, Following, Presence, Present, Doing, Early,
     Asking, Packed
<1>17. CASE SetUp
  BY <1>17, StepKept, StepTaken DEF SetUp, ChildFails, Following, Presence, Present, Doing,
     Early, Asking, Packed
<1>18. CASE Wake
  BY <1>18, StepKept, StepTaken DEF Wake, Following, Presence, Present, Doing, Early, Asking,
     Packed
<1>19. CASE ReadCommand
  BY <1>19, StepKept, StepTaken DEF ReadCommand, Following, Presence, Present, Doing, Early,
     Asking, Packed
<1>20. CASE Mutate
  <2>1. Present(Pages)
    BY <1>20 DEF Mutate, Working, Writes, Presence, Early
  <2>2. Present(Pages)'
    BY <1>20, <2>1, MutatedIsContent, PageAssumption DEF Mutate, Present
  <2>3. Present(CorePages)'
    BY <2>2, PageAssumption DEF Present
  <2> QED
    BY <1>20, <2>2, <2>3, StepKept DEF Mutate, Presence, Packed, Doing
<1>21. CASE Report
  BY <1>21, StepKept, StepTaken DEF Report, Finish, ChildFails, Working, Following, Presence,
     Present, Doing, Early, Asking, Packed
<1>22. CASE Verify
  BY <1>22, StepKept, StepTaken DEF Verify, Finish, Working, Following, Presence, Present,
     Doing, Early, Asking, Packed
<1>23. CASE BeginSpin
  BY <1>23, StepKept, StepTaken DEF BeginSpin, Working, Following, Presence, Present, Doing,
     Early, Asking, Packed
<1>24. CASE Spin
  BY <1>24, StepKept, StepTaken DEF Spin, Following, Presence, Present, Doing, Early, Asking,
     Packed
<1>25. CASE EndSpin
  BY <1>25, StepKept, StepTaken DEF EndSpin, Finish, Following, Presence, Present, Doing,
     Early, Asking, Packed
<1>26. CASE Answer
  BY <1>26, StepKept, StepTaken DEF Answer, Following, Presence, Present, Doing, Early,
     Asking, Packed
<1>27. CASE Dies
  BY <1>27, StepKept, StepTaken DEF Dies, ChildFails, Following, Presence, Present, Doing,
     Early, Asking, Packed
<1> QED
  BY <1>1, <1>2, <1>3, <1>4, <1>5, <1>6, <1>7, <1>8, <1>9, <1>10, <1>11, <1>12, <1>13, <1>14,
     <1>15, <1>16, <1>17, <1>18, <1>19, <1>20, <1>21, <1>22, <1>23, <1>24, <1>25, <1>26,
     <1>27 DEF Next, ParentStep, ChildStep

\* A step keeps what the child uses.
LEMMA UsesKept ==
    ASSUME TypeOK, Following, Protocol, Presence, Uses, Writes, Next
    PROVE  Uses'
<1> USE DEF At, Pass, Miss, Noted, StillActive, parentVars, capsule, ipc, results, childVars
<1>1. CASE Skip
  BY <1>1, StepKept, StepTaken DEF Skip, Uses, Present, Used, Called, Following, Protocol,
     Doing
<1>2. CASE Start
  BY <1>2, StepKept, StepTaken DEF Start, Uses, Present, Used, Called, Following, Protocol,
     Doing
<1>3. CASE AsksSystem
  BY <1>3, StepKept, StepTaken DEF AsksSystem, Uses, Present, Used, Called, Following,
     Protocol, Doing
<1>4. CASE Snapshot
  BY <1>4, StepKept, StepTaken DEF Snapshot, Alive, Uses, Present, Used, Called, Following,
     Protocol, Doing
<1>5. CASE Capture
  BY <1>5, StepKept, StepTaken DEF Capture, Alive, Uses, Present, Used, Called, Following,
     Protocol, Doing
<1>6. CASE Decommit
  <2>1. child \in {"waiting", "ended"} /\ ~go
    BY <1>6 DEF Decommit, Protocol, Still, Doing, Quietly
  <2> QED
    BY <1>6, <2>1 DEF Decommit, Uses, Called
<1>7. CASE Restore
  <2>1. \A pages \in SUBSET Pages : Present(pages) => Present(pages)'
    BY <1>7, RestoreSteps, RebuiltIsContent DEF Present
  <2>2. Used(task) \in SUBSET Pages /\ Used(command) \in SUBSET Pages
    BY PageAssumption DEF Used
  <2>3. UNCHANGED <<task, command, go>> /\ child' \in {child, "ended"}
    BY <1>7 DEF Restore
  <2> QED
    BY <2>1, <2>2, <2>3 DEF Uses, Called, Present, Used
<1>8. CASE SetCommand
  <2>1. Now.do # "exit" => child # "woken" /\ ~go
    BY <1>8 DEF SetCommand, Protocol, Doing, Asking, Still
  <2>2. command' = "exit" \/ Now.do # "exit"
    BY <1>8 DEF SetCommand, CommandOf, Asking
  <2> QED
    BY <1>8, <2>1, <2>2 DEF SetCommand, Uses, Called, Present, Used
<1>9. CASE ResetDone
  BY <1>9, StepKept, StepTaken DEF ResetDone, Uses, Present, Used, Called, Following,
     Protocol, Doing
<1>10. CASE SetGo
  <2>1. command = "exit" \/ (command = CommandOf(Now.do) /\ child \in {"waiting", "ended"})
    BY <1>10 DEF SetGo, Protocol, Doing, Asking, Still
  <2>2. command = "exit" \/ Present(Used(command))
    BY <1>10, <2>1, PageAssumption DEF SetGo, Asking, Presence, Present, Doing, Following,
       CommandOf, Used, Early
  <2>3. UNCHANGED <<arena, command, task>> /\ child' \in {child, "ended"}
    BY <1>10 DEF SetGo
  <2> QED
    BY <2>1, <2>2, <2>3 DEF Uses, Called, Present, Used
<1>11. CASE Stop
  BY <1>11, StepKept, StepTaken DEF Stop, Uses, Present, Used, Called, Following, Protocol,
     Doing
<1>12. CASE Answered
  BY <1>12, StepKept, StepTaken DEF Answered, Uses, Present, Used, Called, Following,
     Protocol, Doing
<1>13. CASE Unanswered
  BY <1>13, StepKept, StepTaken DEF Unanswered, Uses, Present, Used, Called, Following,
     Protocol, Doing
<1>14. CASE Parts
  BY <1>14, StepKept, StepTaken DEF Parts, Uses, Present, Used, Called, Following, Protocol,
     Doing
<1>15. CASE Judge
  BY <1>15, StepKept, StepTaken DEF Judge, Uses, Present, Used, Called, Following, Protocol,
     Doing
<1>16. CASE Throws
  BY <1>16, StepKept, StepTaken DEF Throws, Uses, Present, Used, Called, Following, Protocol,
     Doing
<1>17. CASE SetUp
  BY <1>17, StepKept, StepTaken DEF SetUp, ChildFails, Uses, Present, Used, Called, Following,
     Protocol, Doing
<1>18. CASE Wake
  BY <1>18, StepKept, StepTaken DEF Wake, Uses, Present, Used, Called, Following, Protocol,
     Doing
<1>19. CASE ReadCommand
  BY <1>19, StepKept, StepTaken DEF ReadCommand, Uses, Present, Used, Called, Following,
     Protocol, Doing
<1>20. CASE Mutate
  <2>1. Present(Pages)
    BY <1>20 DEF Mutate, Working, Writes, Presence, Early
  <2>2. Present(Pages)'
    BY <1>20, <2>1, MutatedIsContent, PageAssumption DEF Mutate, Present
  <2>3. UNCHANGED <<task, command, go>> /\ child = "working" /\ child' \in {"answering", "ended"}
    BY <1>20 DEF Mutate, Working, Finish, ChildFails
  <2> QED
    BY <2>2, <2>3, PageAssumption DEF Uses, Called, Present, Used
<1>21. CASE Report
  BY <1>21, StepKept, StepTaken DEF Report, Finish, ChildFails, Working, Uses, Present, Used,
     Called, Following, Protocol, Doing
<1>22. CASE Verify
  BY <1>22, StepKept, StepTaken DEF Verify, Finish, Working, Uses, Present, Used, Called,
     Following, Protocol, Doing
<1>23. CASE BeginSpin
  BY <1>23, StepKept, StepTaken DEF BeginSpin, Working, Uses, Present, Used, Called,
     Following, Protocol, Doing
<1>24. CASE Spin
  BY <1>24, StepKept, StepTaken DEF Spin, Uses, Present, Used, Called, Following, Protocol,
     Doing
<1>25. CASE EndSpin
  BY <1>25, StepKept, StepTaken DEF EndSpin, Finish, Uses, Present, Used, Called, Following,
     Protocol, Doing
<1>26. CASE Answer
  BY <1>26, StepKept, StepTaken DEF Answer, Uses, Present, Used, Called, Following, Protocol,
     Doing
<1>27. CASE Dies
  BY <1>27, StepKept, StepTaken DEF Dies, ChildFails, Uses, Present, Used, Called, Following,
     Protocol, Doing
<1> QED
  BY <1>1, <1>2, <1>3, <1>4, <1>5, <1>6, <1>7, <1>8, <1>9, <1>10, <1>11, <1>12, <1>13, <1>14,
     <1>15, <1>16, <1>17, <1>18, <1>19, <1>20, <1>21, <1>22, <1>23, <1>24, <1>25, <1>26,
     <1>27 DEF Next, ParentStep, ChildStep

\* A step keeps the writes of the child to the parent's step for them.
LEMMA WritesKept ==
    ASSUME Following, Protocol, Uses, Writes, Next
    PROVE  Writes'
<1> USE DEF At, Pass, Miss, Noted, StillActive, parentVars, capsule, ipc, results, childVars
<1>1. CASE Skip
  BY <1>1, StepKept, StepTaken DEF Skip, Following, Writes, Called, Protocol, Still, Exchange,
     Doing, Asking, Quietly, CommandOf, Packed
<1>2. CASE Start
  BY <1>2, StepKept, StepTaken DEF Start, Following, Writes, Called, Protocol, Still,
     Exchange, Doing, Asking, Quietly, CommandOf, Packed
<1>3. CASE AsksSystem
  BY <1>3, StepKept, StepTaken DEF AsksSystem, Following, Writes, Called, Protocol, Still,
     Exchange, Doing, Asking, Quietly, CommandOf, Packed
<1>4. CASE Snapshot
  BY <1>4, StepKept, StepTaken DEF Snapshot, Alive, Following, Writes, Called, Protocol,
     Still, Exchange, Doing, Asking, Quietly, CommandOf, Packed
<1>5. CASE Capture
  BY <1>5, StepKept, StepTaken DEF Capture, Alive, Following, Writes, Called, Protocol, Still,
     Exchange, Doing, Asking, Quietly, CommandOf, Packed
<1>6. CASE Decommit
  BY <1>6, StepKept, StepTaken DEF Decommit, Alive, Following, Writes, Called, Protocol,
     Still, Exchange, Doing, Asking, Quietly, CommandOf, Packed
<1>7. CASE Restore
  BY <1>7, StepKept, StepTaken DEF Restore, Alive, Following, Writes, Called, Protocol, Still,
     Exchange, Doing, Asking, Quietly, CommandOf, Packed
<1>8. CASE SetCommand
  BY <1>8, StepKept, StepTaken DEF SetCommand, Following, Writes, Called, Protocol, Still,
     Exchange, Doing, Asking, Quietly, CommandOf, Packed
<1>9. CASE ResetDone
  BY <1>9, StepKept, StepTaken DEF ResetDone, Following, Writes, Called, Protocol, Still,
     Exchange, Doing, Asking, Quietly, CommandOf, Packed
<1>10. CASE SetGo
  BY <1>10, StepKept, StepTaken DEF SetGo, Following, Writes, Called, Protocol, Still,
     Exchange, Doing, Asking, Quietly, CommandOf, Packed
<1>11. CASE Stop
  BY <1>11, StepKept, StepTaken DEF Stop, Following, Writes, Called, Protocol, Still,
     Exchange, Doing, Asking, Quietly, CommandOf, Packed
<1>12. CASE Answered
  BY <1>12, StepKept, StepTaken DEF Answered, Following, Writes, Called, Protocol, Still,
     Exchange, Doing, Asking, Quietly, CommandOf, Packed
<1>13. CASE Unanswered
  BY <1>13, StepKept, StepTaken DEF Unanswered, Following, Writes, Called, Protocol, Still,
     Exchange, Doing, Asking, Quietly, CommandOf, Packed
<1>14. CASE Parts
  BY <1>14, StepKept, StepTaken DEF Parts, Following, Writes, Called, Protocol, Still,
     Exchange, Doing, Asking, Quietly, CommandOf, Packed
<1>15. CASE Judge
  BY <1>15, StepKept, StepTaken DEF Judge, Following, Writes, Called, Protocol, Still,
     Exchange, Doing, Asking, Quietly, CommandOf, Packed
<1>16. CASE Throws
  BY <1>16, StepKept, StepTaken DEF Throws, Following, Writes, Called, Protocol, Still,
     Exchange, Doing, Asking, Quietly, CommandOf, Packed
<1>17. CASE SetUp
  BY <1>17, StepKept, StepTaken DEF SetUp, ChildFails, Following, Writes, Called, Protocol,
     Still, Exchange, Doing, Asking, Quietly, CommandOf, Packed
<1>18. CASE Wake
  BY <1>18, StepKept, StepTaken DEF Wake, Following, Writes, Called, Protocol, Still,
     Exchange, Doing, Asking, Quietly, CommandOf, Packed
<1>19. CASE ReadCommand
  BY <1>19, StepKept, StepTaken DEF ReadCommand, Following, Writes, Called, Protocol, Still,
     Exchange, Doing, Asking, Quietly, CommandOf, Packed
<1>20. CASE Mutate
  BY <1>20, StepKept, StepTaken DEF Mutate, Finish, ChildFails, Working, Following, Writes,
     Called, Protocol, Still, Exchange, Doing, Asking, Quietly, CommandOf, Packed
<1>21. CASE Report
  BY <1>21, StepKept, StepTaken DEF Report, Finish, ChildFails, Working, Following, Writes,
     Called, Protocol, Still, Exchange, Doing, Asking, Quietly, CommandOf, Packed
<1>22. CASE Verify
  BY <1>22, StepKept, StepTaken DEF Verify, Finish, Working, Following, Writes, Called,
     Protocol, Still, Exchange, Doing, Asking, Quietly, CommandOf, Packed
<1>23. CASE BeginSpin
  BY <1>23, StepKept, StepTaken DEF BeginSpin, Working, Following, Writes, Called, Protocol,
     Still, Exchange, Doing, Asking, Quietly, CommandOf, Packed
<1>24. CASE Spin
  BY <1>24, StepKept, StepTaken DEF Spin, Following, Writes, Called, Protocol, Still,
     Exchange, Doing, Asking, Quietly, CommandOf, Packed
<1>25. CASE EndSpin
  BY <1>25, StepKept, StepTaken DEF EndSpin, Finish, Uses, Following, Writes, Called,
     Protocol, Still, Exchange, Doing, Asking, Quietly, CommandOf, Packed
<1>26. CASE Answer
  BY <1>26, StepKept, StepTaken DEF Answer, Uses, Following, Writes, Called, Protocol, Still,
     Exchange, Doing, Asking, Quietly, CommandOf, Packed
<1>27. CASE Dies
  BY <1>27, StepKept, StepTaken DEF Dies, ChildFails, Following, Writes, Called, Protocol,
     Still, Exchange, Doing, Asking, Quietly, CommandOf, Packed
<1> QED
  BY <1>1, <1>2, <1>3, <1>4, <1>5, <1>6, <1>7, <1>8, <1>9, <1>10, <1>11, <1>12, <1>13, <1>14,
     <1>15, <1>16, <1>17, <1>18, <1>19, <1>20, <1>21, <1>22, <1>23, <1>24, <1>25, <1>26,
     <1>27 DEF Next, ParentStep, ChildStep

-----------------------------------------------------------------------------
(***************************************************************************)
(* The content, and the hashes of it                                       *)
(***************************************************************************)
\* What has been put away is what the region held.
LEMMA RebuiltIsExpected ==
    ASSUME Contents, Packed => Now.do \notin Early \ {"decommit"}, NEW p \in Pages
    PROVE  Rebuilt(p) = expected[p]
<1>1. CASE Packed
  BY <1>1 DEF Contents
<1>2. CASE ~Packed
  <2>1. delta[p] = Gone /\ snap[p] = 0 /\ expected[p] = 0
    BY <1>2 DEF Contents, Zeros
  <2> QED
    BY <2>1 DEF Rebuilt
<1> QED
  BY <1>1, <1>2

\* A step that leaves the memory, the capsule and the hashes alone
LEMMA ContentsStay ==
    ASSUME Contents,
           UNCHANGED <<program, arena, expected, observed, snap, delta>>,
           (Now'.do \in {"start", "compressor", "snapshot"}) =>
             Now.do \in {"start", "compressor", "snapshot"},
           (Doing' /\ Now'.do = "mutate" /\ child' \in {"waiting", "woken", "working"} /\ ~done') =>
             \/ Doing /\ Now.do = "mutate" /\ child \in {"waiting", "woken", "working"} /\ ~done
             \/ Now.do = "snapshot",
           Packed => (Now'.do \in Early \ {"decommit"} <=> Now.do \in Early \ {"decommit"})
    PROVE  Contents'
<1>1. Packed' = Packed /\ Zeros' = Zeros
  BY DEF Packed, Zeros
<1>2. \A p \in Pages : Rebuilt(p)' = Rebuilt(p)
  BY DEF Rebuilt
<1> QED
  BY <1>1, <1>2 DEF Contents

\* A step keeps where the content is.
LEMMA ContentsKept ==
    ASSUME TypeOK, Following, Protocol, Presence, Uses, Writes, Contents, Watched, Hashed, Next
    PROVE  Contents'
<1> USE DEF At, Pass, Miss, Noted, StillActive, parentVars, capsule, ipc, results, childVars
<1>1. CASE Skip
  <2>1. UNCHANGED <<program, arena, expected, observed, snap, delta>>
    BY <1>1 DEF Skip
  <2>2. /\ Now'.do \in {"start", "compressor", "snapshot"} =>
             Now.do \in {"start", "compressor", "snapshot"}
        /\ Packed => (Now'.do \in Early \ {"decommit"} <=> Now.do \in Early \ {"decommit"})
    BY <1>1, <2>1, StepKept, StepTaken DEF Skip, Following, Early, Asking, Packed
  <2>3. (Doing' /\ Now'.do = "mutate" /\ child' \in {"waiting", "woken", "working"} /\ ~done') =>
          \/ Doing /\ Now.do = "mutate" /\ child \in {"waiting", "woken", "working"} /\ ~done
          \/ Now.do = "snapshot"
    BY <1>1, <2>1, StepKept, StepTaken DEF Skip, Following, Protocol, Still, Exchange, Doing,
       Asking
  <2> QED
    BY <2>1, <2>2, <2>3, ContentsStay
<1>2. CASE Start
  <2>1. UNCHANGED <<program, arena, expected, observed, snap, delta>>
    BY <1>2 DEF Start
  <2>2. /\ Now'.do \in {"start", "compressor", "snapshot"} =>
             Now.do \in {"start", "compressor", "snapshot"}
        /\ Packed => (Now'.do \in Early \ {"decommit"} <=> Now.do \in Early \ {"decommit"})
    BY <1>2, <2>1, StepKept, StepTaken DEF Start, Following, Early, Asking, Packed
  <2>3. (Doing' /\ Now'.do = "mutate" /\ child' \in {"waiting", "woken", "working"} /\ ~done') =>
          \/ Doing /\ Now.do = "mutate" /\ child \in {"waiting", "woken", "working"} /\ ~done
          \/ Now.do = "snapshot"
    BY <1>2, <2>1, StepKept, StepTaken DEF Start, Following, Protocol, Still, Exchange, Doing,
       Asking
  <2> QED
    BY <2>1, <2>2, <2>3, ContentsStay
<1>3. CASE AsksSystem
  <2>1. UNCHANGED <<program, arena, expected, observed, snap, delta>>
    BY <1>3 DEF AsksSystem
  <2>2. /\ Now'.do \in {"start", "compressor", "snapshot"} =>
             Now.do \in {"start", "compressor", "snapshot"}
        /\ Packed => (Now'.do \in Early \ {"decommit"} <=> Now.do \in Early \ {"decommit"})
    BY <1>3, <2>1, StepKept, StepTaken DEF AsksSystem, Following, Early, Asking, Packed
  <2>3. (Doing' /\ Now'.do = "mutate" /\ child' \in {"waiting", "woken", "working"} /\ ~done') =>
          \/ Doing /\ Now.do = "mutate" /\ child \in {"waiting", "woken", "working"} /\ ~done
          \/ Now.do = "snapshot"
    BY <1>3, <2>1, StepKept, StepTaken DEF AsksSystem, Following, Protocol, Still, Exchange,
       Doing, Asking
  <2> QED
    BY <2>1, <2>2, <2>3, ContentsStay
<1>4. CASE Snapshot
  <2>1. arena \in [Pages -> {0, 1, Gone}] /\ Zeros = [p \in Pages |-> 0]
    BY DEF TypeOK, Zeros
  <2>2. expected = Zeros /\ \A p \in Pages : arena[p] = 0
    BY <1>4, <2>1 DEF Snapshot, Contents, Presence, Present, Early
  <2>3. arena = Zeros
    BY <2>1, <2>2
  <2>4. snap' = Zeros /\ UNCHANGED <<program, arena, expected, observed, delta>>
    BY <1>4, <2>3 DEF Snapshot, Contents
  <2>5. Now'.do \in {"snapshot", "mutate", "decommit"} /\ (Packed => Now'.do # "decommit")
    BY <1>4, StepKept, StepTaken DEF Snapshot, Following
  <2>6. Packed' = Packed /\ Zeros' = Zeros
    BY <2>4 DEF Packed, Zeros
  <2>7. (Packed => Now'.do \in Early \ {"decommit"}) /\ \A p \in Pages : delta[p] = Gone
    BY <1>4, <2>5 DEF Snapshot, Contents, Early
  <2> QED
    BY <2>2, <2>4, <2>6, <2>7 DEF Contents
<1>5. CASE Capture
  <2>1. arena \in [Pages -> {0, 1, Gone}] /\ Zeros = [p \in Pages |-> 0] /\ Gone \notin {0, 1}
    BY PageAssumption DEF TypeOK, Zeros
  <2>2. Packed /\ UNCHANGED <<program, arena, expected, observed, snap>>
    BY <1>5 DEF Capture, Following
  <2>3. Packed' /\ Zeros' = Zeros
    BY <2>2 DEF Packed, Zeros
  <2>4. \A p \in Pages : arena[p] = expected[p] /\ arena[p] # Gone /\ snap[p] = 0 /\ delta[p] = Gone
    BY <1>5, <2>1, <2>2 DEF Capture, Contents, Presence, Present, Early
  <2>5. CASE exit' # StillActive /\ UNCHANGED delta
    <3>1. Now' = Now /\ ~Doing'
      BY <1>5, <2>2, <2>5, StepKept DEF Capture, Doing, Following
    <3>2. \A p \in Pages : Rebuilt(p)' = Rebuilt(p)
      BY <2>2, <2>5 DEF Rebuilt
    <3> QED
      BY <1>5, <2>2, <2>3, <2>4, <2>5, <3>1, <3>2 DEF Contents, Capture, Early
  <2>6. CASE /\ delta' = [p \in Pages |-> IF p \in dirty THEN arena[p] ELSE delta[p]]
             /\ Pass
    <3>1. Now'.do = "decommit"
      BY <1>5, <2>2, <2>6, StepTaken DEF Capture, Following
    <3>2. \A p \in Pages : expected[p] = 0 \/ p \in dirty
      BY <1>5 DEF Capture, Watched, Reported, Doing
    <3>3. \A p \in Pages : Rebuilt(p)' = expected[p]
      BY <2>2, <2>4, <2>6, <3>2 DEF Rebuilt
    <3> QED
      BY <2>2, <2>3, <3>1, <3>3 DEF Contents, Early
  <2> QED
    BY <1>5, <2>2, <2>5, <2>6 DEF Capture, Following
<1>6. CASE Decommit
  <2>1. /\ UNCHANGED <<program, expected, observed, snap, delta>>
        /\ \A p \in Pages : arena'[p] \in {arena[p], Gone}
    BY <1>6 DEF Decommit
  <2>2. Now'.do \in {"core", "restore"}
    BY <1>6, <2>1, StepTaken DEF Decommit, Following, Noted
  <2>3. Packed' = Packed /\ Zeros' = Zeros /\ \A p \in Pages : Rebuilt(p)' = Rebuilt(p)
    BY <2>1 DEF Packed, Zeros, Rebuilt
  <2> QED
    BY <1>6, <2>1, <2>2, <2>3 DEF Contents, Decommit, Early
<1>7. CASE Restore
  <2>1. UNCHANGED <<program, expected, observed, snap, delta>>
    BY <1>7 DEF Restore
  <2>2. \A p \in Pages : arena'[p] \in {expected[p], Gone}
    BY <1>7, RestoreSteps, RebuiltIsExpected DEF Contents, Restore, Early
  <2>3. Now.do \notin Early /\ Now'.do \notin Early
    BY <1>7, <2>1, RestoreSteps, StepKept, StepTaken DEF Restore, Following, Early
  <2>4. Packed' = Packed /\ Zeros' = Zeros /\ \A p \in Pages : Rebuilt(p)' = Rebuilt(p)
    BY <2>1 DEF Packed, Zeros, Rebuilt
  <2> QED
    BY <2>1, <2>2, <2>3, <2>4 DEF Contents, Early
<1>8. CASE SetCommand
  <2>1. UNCHANGED <<program, arena, expected, observed, snap, delta>>
    BY <1>8 DEF SetCommand
  <2>2. /\ Now'.do \in {"start", "compressor", "snapshot"} =>
             Now.do \in {"start", "compressor", "snapshot"}
        /\ Packed => (Now'.do \in Early \ {"decommit"} <=> Now.do \in Early \ {"decommit"})
    BY <1>8, <2>1, StepKept, StepTaken DEF SetCommand, Following, Early, Asking, Packed
  <2>3. (Doing' /\ Now'.do = "mutate" /\ child' \in {"waiting", "woken", "working"} /\ ~done') =>
          \/ Doing /\ Now.do = "mutate" /\ child \in {"waiting", "woken", "working"} /\ ~done
          \/ Now.do = "snapshot"
    BY <1>8, <2>1, StepKept, StepTaken DEF SetCommand, Following, Protocol, Still, Exchange,
       Doing, Asking
  <2> QED
    BY <2>1, <2>2, <2>3, ContentsStay
<1>9. CASE ResetDone
  <2>1. UNCHANGED <<program, arena, expected, observed, snap, delta>>
    BY <1>9 DEF ResetDone
  <2>2. /\ Now'.do \in {"start", "compressor", "snapshot"} =>
             Now.do \in {"start", "compressor", "snapshot"}
        /\ Packed => (Now'.do \in Early \ {"decommit"} <=> Now.do \in Early \ {"decommit"})
    BY <1>9, <2>1, StepKept, StepTaken DEF ResetDone, Following, Early, Asking, Packed
  <2>3. (Doing' /\ Now'.do = "mutate" /\ child' \in {"waiting", "woken", "working"} /\ ~done') =>
          \/ Doing /\ Now.do = "mutate" /\ child \in {"waiting", "woken", "working"} /\ ~done
          \/ Now.do = "snapshot"
    BY <1>9, <2>1, StepKept, StepTaken DEF ResetDone, Following, Protocol, Still, Exchange,
       Doing, Asking
  <2> QED
    BY <2>1, <2>2, <2>3, ContentsStay
<1>10. CASE SetGo
  <2>1. UNCHANGED <<program, arena, expected, observed, snap, delta>>
    BY <1>10 DEF SetGo
  <2>2. /\ Now'.do \in {"start", "compressor", "snapshot"} =>
             Now.do \in {"start", "compressor", "snapshot"}
        /\ Packed => (Now'.do \in Early \ {"decommit"} <=> Now.do \in Early \ {"decommit"})
    BY <1>10, <2>1, StepKept, StepTaken DEF SetGo, Following, Early, Asking, Packed
  <2>3. (Doing' /\ Now'.do = "mutate" /\ child' \in {"waiting", "woken", "working"} /\ ~done') =>
          \/ Doing /\ Now.do = "mutate" /\ child \in {"waiting", "woken", "working"} /\ ~done
          \/ Now.do = "snapshot"
    BY <1>10, <2>1, StepKept, StepTaken DEF SetGo, Following, Protocol, Still, Exchange,
       Doing, Asking
  <2> QED
    BY <2>1, <2>2, <2>3, ContentsStay
<1>11. CASE Stop
  <2>1. UNCHANGED <<program, arena, expected, observed, snap, delta>>
    BY <1>11 DEF Stop
  <2>2. /\ Now'.do \in {"start", "compressor", "snapshot"} =>
             Now.do \in {"start", "compressor", "snapshot"}
        /\ Packed => (Now'.do \in Early \ {"decommit"} <=> Now.do \in Early \ {"decommit"})
    BY <1>11, <2>1, StepKept, StepTaken DEF Stop, Following, Early, Asking, Packed
  <2>3. (Doing' /\ Now'.do = "mutate" /\ child' \in {"waiting", "woken", "working"} /\ ~done') =>
          \/ Doing /\ Now.do = "mutate" /\ child \in {"waiting", "woken", "working"} /\ ~done
          \/ Now.do = "snapshot"
    BY <1>11, <2>1, StepKept, StepTaken DEF Stop, Following, Protocol, Still, Exchange, Doing,
       Asking
  <2> QED
    BY <2>1, <2>2, <2>3, ContentsStay
<1>12. CASE Answered
  <2>1. UNCHANGED <<program, arena, observed, snap, delta>>
    BY <1>12 DEF Answered
  <2>2. expected' = expected
    BY <1>12 DEF Answered, Contents, Following, Packed
  <2>3. /\ Now'.do \in {"start", "compressor", "snapshot"} =>
             Now.do \in {"start", "compressor", "snapshot"}
        /\ Packed => (Now'.do \in Early \ {"decommit"} <=> Now.do \in Early \ {"decommit"})
    BY <1>12, <2>1, StepKept, StepTaken DEF Answered, Following, Early, Asking, Packed
  <2>4. ~(Doing' /\ Now'.do = "mutate")
    BY <1>12, <2>1, StepKept, StepTaken DEF Answered, Following, Asking, Doing, Agrees
  <2> QED
    BY <2>1, <2>2, <2>3, <2>4, ContentsStay
<1>13. CASE Unanswered
  <2>1. UNCHANGED <<program, arena, expected, observed, snap, delta>>
    BY <1>13 DEF Unanswered
  <2>2. /\ Now'.do \in {"start", "compressor", "snapshot"} =>
             Now.do \in {"start", "compressor", "snapshot"}
        /\ Packed => (Now'.do \in Early \ {"decommit"} <=> Now.do \in Early \ {"decommit"})
    BY <1>13, <2>1, StepKept, StepTaken DEF Unanswered, Following, Early, Asking, Packed
  <2>3. (Doing' /\ Now'.do = "mutate" /\ child' \in {"waiting", "woken", "working"} /\ ~done') =>
          \/ Doing /\ Now.do = "mutate" /\ child \in {"waiting", "woken", "working"} /\ ~done
          \/ Now.do = "snapshot"
    BY <1>13, <2>1, StepKept, StepTaken DEF Unanswered, Following, Protocol, Still, Exchange,
       Doing, Asking
  <2> QED
    BY <2>1, <2>2, <2>3, ContentsStay
<1>14. CASE Parts
  <2>1. UNCHANGED <<program, arena, expected, observed, snap, delta>>
    BY <1>14 DEF Parts
  <2>2. /\ Now'.do \in {"start", "compressor", "snapshot"} =>
             Now.do \in {"start", "compressor", "snapshot"}
        /\ Packed => (Now'.do \in Early \ {"decommit"} <=> Now.do \in Early \ {"decommit"})
    BY <1>14, <2>1, StepKept, StepTaken DEF Parts, Following, Early, Asking, Packed
  <2>3. (Doing' /\ Now'.do = "mutate" /\ child' \in {"waiting", "woken", "working"} /\ ~done') =>
          \/ Doing /\ Now.do = "mutate" /\ child \in {"waiting", "woken", "working"} /\ ~done
          \/ Now.do = "snapshot"
    BY <1>14, <2>1, StepKept, StepTaken DEF Parts, Following, Protocol, Still, Exchange,
       Doing, Asking
  <2> QED
    BY <2>1, <2>2, <2>3, ContentsStay
<1>15. CASE Judge
  <2>1. UNCHANGED <<program, arena, expected, observed, snap, delta>>
    BY <1>15 DEF Judge
  <2>2. /\ Now'.do \in {"start", "compressor", "snapshot"} =>
             Now.do \in {"start", "compressor", "snapshot"}
        /\ Packed => (Now'.do \in Early \ {"decommit"} <=> Now.do \in Early \ {"decommit"})
    BY <1>15, <2>1, StepKept, StepTaken DEF Judge, Following, Early, Asking, Packed
  <2>3. (Doing' /\ Now'.do = "mutate" /\ child' \in {"waiting", "woken", "working"} /\ ~done') =>
          \/ Doing /\ Now.do = "mutate" /\ child \in {"waiting", "woken", "working"} /\ ~done
          \/ Now.do = "snapshot"
    BY <1>15, <2>1, StepKept, StepTaken DEF Judge, Following, Protocol, Still, Exchange,
       Doing, Asking
  <2> QED
    BY <2>1, <2>2, <2>3, ContentsStay
<1>16. CASE Throws
  <2>1. UNCHANGED <<program, arena, expected, observed, snap, delta>>
    BY <1>16 DEF Throws
  <2>2. /\ Now'.do \in {"start", "compressor", "snapshot"} =>
             Now.do \in {"start", "compressor", "snapshot"}
        /\ Packed => (Now'.do \in Early \ {"decommit"} <=> Now.do \in Early \ {"decommit"})
    BY <1>16, <2>1, StepKept, StepTaken DEF Throws, Following, Early, Asking, Packed
  <2>3. (Doing' /\ Now'.do = "mutate" /\ child' \in {"waiting", "woken", "working"} /\ ~done') =>
          \/ Doing /\ Now.do = "mutate" /\ child \in {"waiting", "woken", "working"} /\ ~done
          \/ Now.do = "snapshot"
    BY <1>16, <2>1, StepKept, StepTaken DEF Throws, Following, Protocol, Still, Exchange,
       Doing, Asking
  <2> QED
    BY <2>1, <2>2, <2>3, ContentsStay
<1>17. CASE SetUp
  <2>1. UNCHANGED <<program, arena, expected, observed, snap, delta>>
    BY <1>17 DEF SetUp
  <2>2. /\ Now'.do \in {"start", "compressor", "snapshot"} =>
             Now.do \in {"start", "compressor", "snapshot"}
        /\ Packed => (Now'.do \in Early \ {"decommit"} <=> Now.do \in Early \ {"decommit"})
    BY <1>17, <2>1, StepKept, StepTaken DEF SetUp, Following, Early, Asking, Packed, ChildFails
  <2>3. (Doing' /\ Now'.do = "mutate" /\ child' \in {"waiting", "woken", "working"} /\ ~done') =>
          \/ Doing /\ Now.do = "mutate" /\ child \in {"waiting", "woken", "working"} /\ ~done
          \/ Now.do = "snapshot"
    BY <1>17, <2>1, StepKept, StepTaken DEF SetUp, Following, Protocol, Still, Exchange,
       Doing, Asking, ChildFails
  <2> QED
    BY <2>1, <2>2, <2>3, ContentsStay
<1>18. CASE Wake
  <2>1. UNCHANGED <<program, arena, expected, observed, snap, delta>>
    BY <1>18 DEF Wake
  <2>2. /\ Now'.do \in {"start", "compressor", "snapshot"} =>
             Now.do \in {"start", "compressor", "snapshot"}
        /\ Packed => (Now'.do \in Early \ {"decommit"} <=> Now.do \in Early \ {"decommit"})
    BY <1>18, <2>1, StepKept, StepTaken DEF Wake, Following, Early, Asking, Packed
  <2>3. (Doing' /\ Now'.do = "mutate" /\ child' \in {"waiting", "woken", "working"} /\ ~done') =>
          \/ Doing /\ Now.do = "mutate" /\ child \in {"waiting", "woken", "working"} /\ ~done
          \/ Now.do = "snapshot"
    BY <1>18, <2>1, StepKept, StepTaken DEF Wake, Following, Protocol, Still, Exchange, Doing,
       Asking
  <2> QED
    BY <2>1, <2>2, <2>3, ContentsStay
<1>19. CASE ReadCommand
  <2>1. UNCHANGED <<program, arena, expected, observed, snap, delta>>
    BY <1>19 DEF ReadCommand
  <2>2. /\ Now'.do \in {"start", "compressor", "snapshot"} =>
             Now.do \in {"start", "compressor", "snapshot"}
        /\ Packed => (Now'.do \in Early \ {"decommit"} <=> Now.do \in Early \ {"decommit"})
    BY <1>19, <2>1, StepKept, StepTaken DEF ReadCommand, Following, Early, Asking, Packed
  <2>3. (Doing' /\ Now'.do = "mutate" /\ child' \in {"waiting", "woken", "working"} /\ ~done') =>
          \/ Doing /\ Now.do = "mutate" /\ child \in {"waiting", "woken", "working"} /\ ~done
          \/ Now.do = "snapshot"
    BY <1>19, <2>1, StepKept, StepTaken DEF ReadCommand, Following, Protocol, Still, Exchange,
       Doing, Asking
  <2> QED
    BY <2>1, <2>2, <2>3, ContentsStay
<1>20. CASE Mutate
  <2>1. Now.do = "mutate" /\ Packed /\ Present(Pages)
    BY <1>20 DEF Mutate, Working, Writes, Presence, Early
  <2>2. UNCHANGED <<program, at, exit, missed, observed, snap, delta>>
    BY <1>20 DEF Mutate, Finish, ChildFails
  <2>3. Packed' /\ Zeros' = Zeros /\ Now' = Now
    BY <2>1, <2>2, StepKept DEF Packed, Zeros
  <2>4. child' \in {"answering", "ended"} /\ \A p \in Pages : arena'[p] \in {expected'[p], Gone}
    BY <1>20 DEF Mutate, Contents, Finish, ChildFails
  <2> QED
    BY <2>1, <2>2, <2>3, <2>4 DEF Contents, Early
<1>21. CASE Report
  <2>1. UNCHANGED <<program, arena, expected, observed, snap, delta>>
    BY <1>21 DEF Report
  <2>2. /\ Now'.do \in {"start", "compressor", "snapshot"} =>
             Now.do \in {"start", "compressor", "snapshot"}
        /\ Packed => (Now'.do \in Early \ {"decommit"} <=> Now.do \in Early \ {"decommit"})
    BY <1>21, <2>1, StepKept, StepTaken DEF Report, Following, Early, Asking, Packed, Finish,
       ChildFails, Working
  <2>3. (Doing' /\ Now'.do = "mutate" /\ child' \in {"waiting", "woken", "working"} /\ ~done') =>
          \/ Doing /\ Now.do = "mutate" /\ child \in {"waiting", "woken", "working"} /\ ~done
          \/ Now.do = "snapshot"
    BY <1>21, <2>1, StepKept, StepTaken DEF Report, Following, Protocol, Still, Exchange,
       Doing, Asking, Finish, ChildFails, Working
  <2> QED
    BY <2>1, <2>2, <2>3, ContentsStay
<1>22. CASE Verify
  <2>1. UNCHANGED <<program, at, exit, missed, expected, arena, snap, delta>>
    BY <1>22 DEF Verify
  <2>2. Packed' = Packed /\ Zeros' = Zeros /\ Now' = Now
    BY <2>1, StepKept DEF Packed, Zeros
  <2>3. \A p \in Pages : Rebuilt(p)' = Rebuilt(p)
    BY <2>1 DEF Rebuilt
  <2>4. child' = "answering"
    BY <1>22 DEF Verify, Finish
  <2>5. ~Packed => observed' = Zeros
    <3> SUFFICES ASSUME ~Packed PROVE observed' = Zeros
      OBVIOUS
    <3>1. expected = Zeros /\ observed = Zeros
      BY DEF Contents
    <3>2. \A p \in Used(task) : arena[p] = 0
      BY <1>22, <3>1, PageAssumption DEF Verify, Working, Uses, Present, Contents, Zeros, Used
    <3>3. arena \in [Pages -> {0, 1, Gone}]
      BY DEF TypeOK
    <3>4. CASE task = "verify_full"
      BY <1>22, <3>2, <3>3, <3>4 DEF Verify, Zeros, Used
    <3>5. CASE task = "verify_core"
      BY <1>22, <3>1, <3>2, <3>5 DEF Verify, Zeros, Used
    <3> QED
      BY <1>22, <3>4, <3>5 DEF Verify, Working
  <2> QED
    BY <2>1, <2>2, <2>3, <2>4, <2>5 DEF Contents
<1>23. CASE BeginSpin
  <2>1. UNCHANGED <<program, arena, expected, observed, snap, delta>>
    BY <1>23 DEF BeginSpin
  <2>2. /\ Now'.do \in {"start", "compressor", "snapshot"} =>
             Now.do \in {"start", "compressor", "snapshot"}
        /\ Packed => (Now'.do \in Early \ {"decommit"} <=> Now.do \in Early \ {"decommit"})
    BY <1>23, <2>1, StepKept, StepTaken DEF BeginSpin, Following, Early, Asking, Packed,
       Working
  <2>3. (Doing' /\ Now'.do = "mutate" /\ child' \in {"waiting", "woken", "working"} /\ ~done') =>
          \/ Doing /\ Now.do = "mutate" /\ child \in {"waiting", "woken", "working"} /\ ~done
          \/ Now.do = "snapshot"
    BY <1>23, <2>1, StepKept, StepTaken DEF BeginSpin, Following, Protocol, Still, Exchange,
       Doing, Asking, Working
  <2> QED
    BY <2>1, <2>2, <2>3, ContentsStay
<1>24. CASE Spin
  <2>1. UNCHANGED <<program, arena, expected, observed, snap, delta>>
    BY <1>24 DEF Spin
  <2>2. /\ Now'.do \in {"start", "compressor", "snapshot"} =>
             Now.do \in {"start", "compressor", "snapshot"}
        /\ Packed => (Now'.do \in Early \ {"decommit"} <=> Now.do \in Early \ {"decommit"})
    BY <1>24, <2>1, StepKept, StepTaken DEF Spin, Following, Early, Asking, Packed
  <2>3. (Doing' /\ Now'.do = "mutate" /\ child' \in {"waiting", "woken", "working"} /\ ~done') =>
          \/ Doing /\ Now.do = "mutate" /\ child \in {"waiting", "woken", "working"} /\ ~done
          \/ Now.do = "snapshot"
    BY <1>24, <2>1, StepKept, StepTaken DEF Spin, Following, Protocol, Still, Exchange, Doing,
       Asking
  <2> QED
    BY <2>1, <2>2, <2>3, ContentsStay
<1>25. CASE EndSpin
  <2>1. UNCHANGED <<program, arena, expected, observed, snap, delta>>
    BY <1>25 DEF EndSpin
  <2>2. /\ Now'.do \in {"start", "compressor", "snapshot"} =>
             Now.do \in {"start", "compressor", "snapshot"}
        /\ Packed => (Now'.do \in Early \ {"decommit"} <=> Now.do \in Early \ {"decommit"})
    BY <1>25, <2>1, StepKept, StepTaken DEF EndSpin, Following, Early, Asking, Packed, Finish
  <2>3. (Doing' /\ Now'.do = "mutate" /\ child' \in {"waiting", "woken", "working"} /\ ~done') =>
          \/ Doing /\ Now.do = "mutate" /\ child \in {"waiting", "woken", "working"} /\ ~done
          \/ Now.do = "snapshot"
    BY <1>25, <2>1, StepKept, StepTaken DEF EndSpin, Following, Protocol, Still, Exchange,
       Doing, Asking, Finish
  <2> QED
    BY <2>1, <2>2, <2>3, ContentsStay
<1>26. CASE Answer
  <2>1. UNCHANGED <<program, arena, expected, observed, snap, delta>>
    BY <1>26 DEF Answer
  <2>2. /\ Now'.do \in {"start", "compressor", "snapshot"} =>
             Now.do \in {"start", "compressor", "snapshot"}
        /\ Packed => (Now'.do \in Early \ {"decommit"} <=> Now.do \in Early \ {"decommit"})
    BY <1>26, <2>1, StepKept, StepTaken DEF Answer, Following, Early, Asking, Packed
  <2>3. (Doing' /\ Now'.do = "mutate" /\ child' \in {"waiting", "woken", "working"} /\ ~done') =>
          \/ Doing /\ Now.do = "mutate" /\ child \in {"waiting", "woken", "working"} /\ ~done
          \/ Now.do = "snapshot"
    BY <1>26, <2>1, StepKept, StepTaken DEF Answer, Following, Protocol, Still, Exchange,
       Doing, Asking
  <2> QED
    BY <2>1, <2>2, <2>3, ContentsStay
<1>27. CASE Dies
  <2>1. UNCHANGED <<program, arena, expected, observed, snap, delta>>
    BY <1>27 DEF Dies
  <2>2. /\ Now'.do \in {"start", "compressor", "snapshot"} =>
             Now.do \in {"start", "compressor", "snapshot"}
        /\ Packed => (Now'.do \in Early \ {"decommit"} <=> Now.do \in Early \ {"decommit"})
    BY <1>27, <2>1, StepKept, StepTaken DEF Dies, Following, Early, Asking, Packed, ChildFails
  <2>3. (Doing' /\ Now'.do = "mutate" /\ child' \in {"waiting", "woken", "working"} /\ ~done') =>
          \/ Doing /\ Now.do = "mutate" /\ child \in {"waiting", "woken", "working"} /\ ~done
          \/ Now.do = "snapshot"
    BY <1>27, <2>1, StepKept, StepTaken DEF Dies, Following, Protocol, Still, Exchange, Doing,
       Asking, ChildFails
  <2> QED
    BY <2>1, <2>2, <2>3, ContentsStay
<1> QED
  BY <1>1, <1>2, <1>3, <1>4, <1>5, <1>6, <1>7, <1>8, <1>9, <1>10, <1>11, <1>12, <1>13, <1>14,
     <1>15, <1>16, <1>17, <1>18, <1>19, <1>20, <1>21, <1>22, <1>23, <1>24, <1>25, <1>26,
     <1>27 DEF Next, ParentStep, ChildStep

\* A step that writes nothing and reports nothing
LEMMA WatchedStays ==
    ASSUME Watched, UNCHANGED <<expected, touched, dirty>>,
           Unreported' => Unreported, Reported' => Reported
    PROVE  Watched'
BY DEF Watched

\* A step keeps the writes of the child in sight.
LEMMA WatchedKept ==
    ASSUME TypeOK, Following, Protocol, Presence, Uses, Writes, Contents, Watched, Next
    PROVE  Watched'
<1> USE DEF At, Pass, Miss, Noted, StillActive, parentVars, capsule, ipc, results, childVars
<1>1. CASE Skip
  <2>1. UNCHANGED <<program, expected, touched, dirty>>
    BY <1>1 DEF Skip
  <2>2. (Unreported' => Unreported) /\ (Reported' => Reported)
    BY <1>1, <2>1, StepKept, StepTaken DEF Skip, Unreported, Reported, Told, Following,
       Protocol, Still, Exchange, Doing, Asking, Quietly, CommandOf
  <2> QED
    BY <2>1, <2>2, WatchedStays
<1>2. CASE Start
  <2>1. UNCHANGED <<program, expected, touched, dirty>>
    BY <1>2 DEF Start
  <2>2. (Unreported' => Unreported) /\ (Reported' => Reported)
    BY <1>2, <2>1, StepKept, StepTaken DEF Start, Unreported, Reported, Told, Following,
       Protocol, Still, Exchange, Doing, Asking, Quietly, CommandOf
  <2> QED
    BY <2>1, <2>2, WatchedStays
<1>3. CASE AsksSystem
  <2>1. UNCHANGED <<program, expected, touched, dirty>>
    BY <1>3 DEF AsksSystem
  <2>2. (Unreported' => Unreported) /\ (Reported' => Reported)
    BY <1>3, <2>1, StepKept, StepTaken DEF AsksSystem, Unreported, Reported, Told, Following,
       Protocol, Still, Exchange, Doing, Asking, Quietly, CommandOf
  <2> QED
    BY <2>1, <2>2, WatchedStays
<1>4. CASE Snapshot
  <2>1. expected = Zeros /\ UNCHANGED <<expected>>
    BY <1>4 DEF Snapshot, Contents
  <2>2. Now'.do \in {"snapshot", "mutate", "decommit"}
    BY <1>4, StepKept, StepTaken DEF Snapshot, Following
  <2> QED
    BY <2>1, <2>2 DEF Watched, Unreported, Reported, Zeros
<1>5. CASE Capture
  <2>1. UNCHANGED <<program, expected, touched, dirty>>
    BY <1>5 DEF Capture
  <2>2. (Unreported' => Unreported) /\ (Reported' => Reported)
    BY <1>5, <2>1, StepKept, StepTaken DEF Capture, Unreported, Reported, Told, Following,
       Protocol, Still, Exchange, Doing, Asking, Quietly, CommandOf
  <2> QED
    BY <2>1, <2>2, WatchedStays
<1>6. CASE Decommit
  <2>1. UNCHANGED <<program, expected, touched, dirty>>
    BY <1>6 DEF Decommit
  <2>2. (Unreported' => Unreported) /\ (Reported' => Reported)
    BY <1>6, <2>1, StepKept, StepTaken DEF Decommit, Unreported, Reported, Told, Following,
       Protocol, Still, Exchange, Doing, Asking, Quietly, CommandOf
  <2> QED
    BY <2>1, <2>2, WatchedStays
<1>7. CASE Restore
  <2>1. Now'.do \notin {"mutate", "report", "capture"}
    BY <1>7, RestoreSteps, StepKept, StepTaken DEF Restore, Following
  <2> QED
    BY <2>1 DEF Watched, Unreported, Reported
<1>8. CASE SetCommand
  <2>1. UNCHANGED <<program, expected, touched, dirty>>
    BY <1>8 DEF SetCommand
  <2>2. (Unreported' => Unreported) /\ (Reported' => Reported)
    BY <1>8, <2>1, StepKept, StepTaken DEF SetCommand, Unreported, Reported, Told, Following,
       Protocol, Still, Exchange, Doing, Asking, Quietly, CommandOf
  <2> QED
    BY <2>1, <2>2, WatchedStays
<1>9. CASE ResetDone
  <2>1. UNCHANGED <<program, expected, touched, dirty>>
    BY <1>9 DEF ResetDone
  <2>2. (Unreported' => Unreported) /\ (Reported' => Reported)
    BY <1>9, <2>1, StepKept, StepTaken DEF ResetDone, Unreported, Reported, Told, Following,
       Protocol, Still, Exchange, Doing, Asking, Quietly, CommandOf
  <2> QED
    BY <2>1, <2>2, WatchedStays
<1>10. CASE SetGo
  <2>1. UNCHANGED <<program, expected, touched, dirty>>
    BY <1>10 DEF SetGo
  <2>2. (Unreported' => Unreported) /\ (Reported' => Reported)
    BY <1>10, <2>1, StepKept, StepTaken DEF SetGo, Unreported, Reported, Told, Following,
       Protocol, Still, Exchange, Doing, Asking, Quietly, CommandOf
  <2> QED
    BY <2>1, <2>2, WatchedStays
<1>11. CASE Stop
  <2>1. UNCHANGED <<program, expected, touched, dirty>>
    BY <1>11 DEF Stop
  <2>2. (Unreported' => Unreported) /\ (Reported' => Reported)
    BY <1>11, <2>1, StepKept, StepTaken DEF Stop, Unreported, Reported, Told, Following,
       Protocol, Still, Exchange, Doing, Asking, Quietly, CommandOf
  <2> QED
    BY <2>1, <2>2, WatchedStays
<1>12. CASE Answered
  <2>1. UNCHANGED <<program, expected, touched, dirty>>
    BY <1>12 DEF Answered, Contents, Following, Packed
  <2>2. Now'.do = "report" => (Now' = After /\ Now.do = "mutate") \/ exit' # StillActive
    BY <1>12, <2>1, StepKept, StepTaken DEF Answered, Following, Agrees, Asking
  <2>3. Now'.do = "mutate" => exit' # StillActive
    BY <1>12, <2>1, StepKept, StepTaken DEF Answered, Following, Agrees, Asking
  <2>4. Now'.do = "capture" => (Now' = After /\ Now.do = "report") \/ exit' # StillActive
    BY <1>12, <2>1, StepKept, StepTaken DEF Answered, Following, Agrees, Asking
  <2>5. child \in {"waiting", "ended"} /\ ~done' /\ child' \in {"waiting", "ended"}
    BY <1>12 DEF Answered, Protocol, Exchange, Doing, Asking
  <2> QED
    BY <1>12, <2>1, <2>2, <2>3, <2>4, <2>5 DEF Answered, Watched, Unreported, Reported, Told,
       Doing
<1>13. CASE Unanswered
  <2>1. UNCHANGED <<program, expected, touched, dirty>>
    BY <1>13 DEF Unanswered
  <2>2. (Unreported' => Unreported) /\ (Reported' => Reported)
    BY <1>13, <2>1, StepKept, StepTaken DEF Unanswered, Unreported, Reported, Told, Following,
       Protocol, Still, Exchange, Doing, Asking, Quietly, CommandOf
  <2> QED
    BY <2>1, <2>2, WatchedStays
<1>14. CASE Parts
  <2>1. UNCHANGED <<program, expected, touched, dirty>>
    BY <1>14 DEF Parts
  <2>2. (Unreported' => Unreported) /\ (Reported' => Reported)
    BY <1>14, <2>1, StepKept, StepTaken DEF Parts, Unreported, Reported, Told, Following,
       Protocol, Still, Exchange, Doing, Asking, Quietly, CommandOf
  <2> QED
    BY <2>1, <2>2, WatchedStays
<1>15. CASE Judge
  <2>1. UNCHANGED <<program, expected, touched, dirty>>
    BY <1>15 DEF Judge
  <2>2. (Unreported' => Unreported) /\ (Reported' => Reported)
    BY <1>15, <2>1, StepKept, StepTaken DEF Judge, Unreported, Reported, Told, Following,
       Protocol, Still, Exchange, Doing, Asking, Quietly, CommandOf
  <2> QED
    BY <2>1, <2>2, WatchedStays
<1>16. CASE Throws
  <2>1. UNCHANGED <<program, expected, touched, dirty>>
    BY <1>16 DEF Throws
  <2>2. (Unreported' => Unreported) /\ (Reported' => Reported)
    BY <1>16, <2>1, StepKept, StepTaken DEF Throws, Unreported, Reported, Told, Following,
       Protocol, Still, Exchange, Doing, Asking, Quietly, CommandOf
  <2> QED
    BY <2>1, <2>2, WatchedStays
<1>17. CASE SetUp
  <2>1. UNCHANGED <<program, expected, touched, dirty>>
    BY <1>17 DEF SetUp, ChildFails
  <2>2. (Unreported' => Unreported) /\ (Reported' => Reported)
    BY <1>17, <2>1, StepKept, StepTaken DEF SetUp, Unreported, Reported, Told, Following,
       Protocol, Still, Exchange, Doing, Asking, Quietly, CommandOf, ChildFails
  <2> QED
    BY <2>1, <2>2, WatchedStays
<1>18. CASE Wake
  <2>1. UNCHANGED <<program, expected, touched, dirty>>
    BY <1>18 DEF Wake
  <2>2. (Unreported' => Unreported) /\ (Reported' => Reported)
    BY <1>18, <2>1, StepKept, StepTaken DEF Wake, Unreported, Reported, Told, Following,
       Protocol, Still, Exchange, Doing, Asking, Quietly, CommandOf
  <2> QED
    BY <2>1, <2>2, WatchedStays
<1>19. CASE ReadCommand
  <2>1. UNCHANGED <<program, expected, touched, dirty>>
    BY <1>19 DEF ReadCommand
  <2>2. (Unreported' => Unreported) /\ (Reported' => Reported)
    BY <1>19, <2>1, StepKept, StepTaken DEF ReadCommand, Unreported, Reported, Told,
       Following, Protocol, Still, Exchange, Doing, Asking, Quietly, CommandOf
  <2> QED
    BY <2>1, <2>2, WatchedStays
<1>20. CASE Mutate
  <2>1. Now.do = "mutate" /\ Doing /\ Present(Pages)
    BY <1>20 DEF Mutate, Working, Writes, Presence, Early, Following, Doing
  <2>2. Now' = Now
    BY <1>20, StepKept DEF Mutate, Finish, ChildFails
  <2>3. CASE ChildFails(24) /\ UNCHANGED <<arena, touched, expected>>
    BY <1>20, <2>1, <2>2, <2>3 DEF Mutate, Watched, Unreported, Reported
  <2>4. CASE \E pages \in SUBSET Pages \ {{}} :
               /\ arena' = [p \in Pages |-> IF p \in pages THEN 1 - arena[p] ELSE arena[p]]
               /\ touched' = pages
               /\ expected' = arena'
    <3>1. PICK pages \in SUBSET Pages \ {{}} :
               /\ arena' = [p \in Pages |-> IF p \in pages THEN 1 - arena[p] ELSE arena[p]]
               /\ touched' = pages
               /\ expected' = arena'
      BY <2>4
    <3>2. expected = Zeros
      BY <1>20, <2>1 DEF Mutate, Working, Contents, Protocol, Exchange, Still, Asking
    <3>3. \A p \in Pages : arena[p] = 0
      BY <2>1, <3>2 DEF Present, Contents, Zeros
    <3>4. \A p \in Pages : expected'[p] = 0 \/ p \in touched'
      BY <3>1, <3>3
    <3> QED
      BY <2>1, <2>2, <3>4 DEF Watched, Reported
  <2> QED
    BY <1>20, <2>3, <2>4 DEF Mutate
<1>21. CASE Report
  <2>1. Now.do = "report" /\ Doing /\ child = "working"
    BY <1>21 DEF Report, Working, Writes, Following, Doing
  <2>2. Now' = Now /\ UNCHANGED <<exit, missed, expected, done>>
    BY <1>21, StepKept DEF Report, Finish, ChildFails
  <2>3. ~done
    BY <2>1 DEF Protocol, Exchange, Still, Asking
  <2>4. \A p \in Pages : expected[p] = 0 \/ p \in touched
    BY <2>1, <2>3 DEF Watched, Unreported, Told
  <2>5. CASE ChildFails(25) /\ UNCHANGED <<dirty, touched>>
    BY <2>1, <2>2, <2>3, <2>5 DEF ChildFails, Watched, Unreported, Reported, Told
  <2>6. CASE dirty' = touched /\ Finish
    BY <2>1, <2>2, <2>4, <2>6 DEF Finish, Watched, Unreported, Told
  <2> QED
    BY <1>21, <2>5, <2>6 DEF Report
<1>22. CASE Verify
  <2>1. UNCHANGED <<program, expected, touched, dirty>>
    BY <1>22 DEF Verify
  <2>2. (Unreported' => Unreported) /\ (Reported' => Reported)
    BY <1>22, <2>1, StepKept, StepTaken DEF Verify, Unreported, Reported, Told, Following,
       Protocol, Still, Exchange, Doing, Asking, Quietly, CommandOf, Working
  <2> QED
    BY <2>1, <2>2, WatchedStays
<1>23. CASE BeginSpin
  <2>1. UNCHANGED <<program, expected, touched, dirty>>
    BY <1>23 DEF BeginSpin
  <2>2. (Unreported' => Unreported) /\ (Reported' => Reported)
    BY <1>23, <2>1, StepKept, StepTaken DEF BeginSpin, Unreported, Reported, Told, Following,
       Protocol, Still, Exchange, Doing, Asking, Quietly, CommandOf, Working
  <2> QED
    BY <2>1, <2>2, WatchedStays
<1>24. CASE Spin
  <2>1. UNCHANGED <<program, expected, touched, dirty>>
    BY <1>24 DEF Spin
  <2>2. (Unreported' => Unreported) /\ (Reported' => Reported)
    BY <1>24, <2>1, StepKept, StepTaken DEF Spin, Unreported, Reported, Told, Following,
       Protocol, Still, Exchange, Doing, Asking, Quietly, CommandOf
  <2> QED
    BY <2>1, <2>2, WatchedStays
<1>25. CASE EndSpin
  <2>1. UNCHANGED <<program, expected, touched, dirty>>
    BY <1>25 DEF EndSpin, Finish
  <2>2. (Unreported' => Unreported) /\ (Reported' => Reported)
    BY <1>25, <2>1, StepKept, StepTaken DEF EndSpin, Unreported, Reported, Told, Following,
       Protocol, Still, Exchange, Doing, Asking, Quietly, CommandOf, Uses, Finish
  <2> QED
    BY <2>1, <2>2, WatchedStays
<1>26. CASE Answer
  <2>1. UNCHANGED <<program, expected, touched, dirty>>
    BY <1>26 DEF Answer
  <2>2. (Unreported' => Unreported) /\ (Reported' => Reported)
    BY <1>26, <2>1, StepKept, StepTaken DEF Answer, Unreported, Reported, Told, Following,
       Protocol, Still, Exchange, Doing, Asking, Quietly, CommandOf
  <2> QED
    BY <2>1, <2>2, WatchedStays
<1>27. CASE Dies
  <2>1. UNCHANGED <<program, expected, touched, dirty>>
    BY <1>27 DEF Dies, ChildFails
  <2>2. (Unreported' => Unreported) /\ (Reported' => Reported)
    BY <1>27, <2>1, StepKept, StepTaken DEF Dies, Unreported, Reported, Told, Following,
       Protocol, Still, Exchange, Doing, Asking, Quietly, CommandOf, ChildFails
  <2> QED
    BY <2>1, <2>2, WatchedStays
<1> QED
  BY <1>1, <1>2, <1>3, <1>4, <1>5, <1>6, <1>7, <1>8, <1>9, <1>10, <1>11, <1>12, <1>13, <1>14,
     <1>15, <1>16, <1>17, <1>18, <1>19, <1>20, <1>21, <1>22, <1>23, <1>24, <1>25, <1>26,
     <1>27 DEF Next, ParentStep, ChildStep

\* A step that hashes nothing and expects nothing else
LEMMA HashedStays ==
    ASSUME Hashed, UNCHANGED <<observed, expected, wrong>>,
           (Doing' /\ Now'.do \in {"verify_core", "verify"} /\ Told') => Now' = Now /\ Doing /\ Told
    PROVE  Hashed'
<1>1. Core(observed)' = Core(observed) /\ Core(expected)' = Core(expected)
  BY DEF Core
<1> QED
  BY <1>1 DEF Hashed

\* A step keeps the hashes in agreement.
LEMMA HashedKept ==
    ASSUME TypeOK, Following, Protocol, Presence, Uses, Writes, Contents, Hashed, Next
    PROVE  Hashed'
<1> USE DEF At, Pass, Miss, Noted, StillActive, parentVars, capsule, ipc, results, childVars
<1>1. CASE Skip
  <2>1. UNCHANGED <<program, observed, expected, wrong>>
    BY <1>1 DEF Skip
  <2>2. ~(Doing' /\ Now'.do \in {"verify_core", "verify"})
    BY <1>1, SkippedOn
  <2> QED
    BY <2>1, <2>2, HashedStays
<1>2. CASE Start
  <2>1. UNCHANGED <<program, observed, expected, wrong>>
    BY <1>2 DEF Start
  <2>2. (Doing' /\ Now'.do \in {"verify_core", "verify"} /\ Told') => Now' = Now /\ Doing /\ Told
    BY <1>2, <2>1, StepKept, StepTaken DEF Start, Told, Following, Protocol, Still, Exchange,
       Doing, Asking, Quietly, CommandOf
  <2> QED
    BY <2>1, <2>2, HashedStays
<1>3. CASE AsksSystem
  <2>1. UNCHANGED <<program, observed, expected, wrong>>
    BY <1>3 DEF AsksSystem
  <2>2. (Doing' /\ Now'.do \in {"verify_core", "verify"} /\ Told') => Now' = Now /\ Doing /\ Told
    BY <1>3, <2>1, StepKept, StepTaken DEF AsksSystem, Told, Following, Protocol, Still,
       Exchange, Doing, Asking, Quietly, CommandOf
  <2> QED
    BY <2>1, <2>2, HashedStays
<1>4. CASE Snapshot
  <2>1. UNCHANGED <<program, observed, expected, wrong>>
    BY <1>4 DEF Snapshot
  <2>2. (Doing' /\ Now'.do \in {"verify_core", "verify"} /\ Told') => Now' = Now /\ Doing /\ Told
    BY <1>4, <2>1, StepKept, StepTaken DEF Snapshot, Told, Following, Protocol, Still,
       Exchange, Doing, Asking, Quietly, CommandOf
  <2> QED
    BY <2>1, <2>2, HashedStays
<1>5. CASE Capture
  <2>1. UNCHANGED <<program, observed, expected, wrong>>
    BY <1>5 DEF Capture
  <2>2. (Doing' /\ Now'.do \in {"verify_core", "verify"} /\ Told') => Now' = Now /\ Doing /\ Told
    BY <1>5, <2>1, StepKept, StepTaken DEF Capture, Told, Following, Protocol, Still,
       Exchange, Doing, Asking, Quietly, CommandOf
  <2> QED
    BY <2>1, <2>2, HashedStays
<1>6. CASE Decommit
  <2>1. UNCHANGED <<program, observed, expected, wrong>>
    BY <1>6 DEF Decommit
  <2>2. (Doing' /\ Now'.do \in {"verify_core", "verify"} /\ Told') => Now' = Now /\ Doing /\ Told
    BY <1>6, <2>1, StepKept, StepTaken DEF Decommit, Told, Following, Protocol, Still,
       Exchange, Doing, Asking, Quietly, CommandOf
  <2> QED
    BY <2>1, <2>2, HashedStays
<1>7. CASE Restore
  <2>1. UNCHANGED <<program, observed, expected, wrong>>
    BY <1>7 DEF Restore, Alive
  <2>2. (Doing' /\ Now'.do \in {"verify_core", "verify"} /\ Told') => Now' = Now /\ Doing /\ Told
    BY <1>7, <2>1, StepKept, StepTaken DEF Restore, Told, Following, Protocol, Still,
       Exchange, Doing, Asking, Quietly, CommandOf, Alive
  <2> QED
    BY <2>1, <2>2, HashedStays
<1>8. CASE SetCommand
  <2>1. UNCHANGED <<program, observed, expected, wrong>>
    BY <1>8 DEF SetCommand
  <2>2. (Doing' /\ Now'.do \in {"verify_core", "verify"} /\ Told') => Now' = Now /\ Doing /\ Told
    BY <1>8, <2>1, StepKept, StepTaken DEF SetCommand, Told, Following, Protocol, Still,
       Exchange, Doing, Asking, Quietly, CommandOf
  <2> QED
    BY <2>1, <2>2, HashedStays
<1>9. CASE ResetDone
  <2>1. UNCHANGED <<program, observed, expected, wrong>>
    BY <1>9 DEF ResetDone
  <2>2. (Doing' /\ Now'.do \in {"verify_core", "verify"} /\ Told') => Now' = Now /\ Doing /\ Told
    BY <1>9, <2>1, StepKept, StepTaken DEF ResetDone, Told, Following, Protocol, Still,
       Exchange, Doing, Asking, Quietly, CommandOf
  <2> QED
    BY <2>1, <2>2, HashedStays
<1>10. CASE SetGo
  <2>1. UNCHANGED <<program, observed, expected, wrong>>
    BY <1>10 DEF SetGo
  <2>2. (Doing' /\ Now'.do \in {"verify_core", "verify"} /\ Told') => Now' = Now /\ Doing /\ Told
    BY <1>10, <2>1, StepKept, StepTaken DEF SetGo, Told, Following, Protocol, Still, Exchange,
       Doing, Asking, Quietly, CommandOf
  <2> QED
    BY <2>1, <2>2, HashedStays
<1>11. CASE Stop
  <2>1. UNCHANGED <<program, observed, expected, wrong>>
    BY <1>11 DEF Stop
  <2>2. (Doing' /\ Now'.do \in {"verify_core", "verify"} /\ Told') => Now' = Now /\ Doing /\ Told
    BY <1>11, <2>1, StepKept, StepTaken DEF Stop, Told, Following, Protocol, Still, Exchange,
       Doing, Asking, Quietly, CommandOf
  <2> QED
    BY <2>1, <2>2, HashedStays
<1>12. CASE Answered
  <2>1. done /\ carried = Asked
    BY <1>12 DEF Answered, Protocol, Exchange, Doing, Asking, Asked, CommandOf
  <2>2. Agrees
    <3>1. CASE Now.do \in {"verify_core", "verify"}
      BY <1>12, <2>1, <3>1 DEF Answered, Agrees, Hashed, Told, Doing
    <3>2. CASE Now.do = "touch_again"
      BY <1>12, <3>2 DEF Agrees, Following, Contents, Packed
    <3> QED
      BY <3>1, <3>2 DEF Agrees
  <2>3. UNCHANGED wrong
    BY <1>12, <2>1, <2>2 DEF Answered
  <2>4. ~Told'
    BY <1>12, <2>1, <2>2 DEF Answered, Told, Protocol, Exchange, Doing, Asking
  <2> QED
    BY <2>3, <2>4 DEF Hashed
<1>13. CASE Unanswered
  <2>1. UNCHANGED <<program, observed, expected, wrong>>
    BY <1>13 DEF Unanswered
  <2>2. (Doing' /\ Now'.do \in {"verify_core", "verify"} /\ Told') => Now' = Now /\ Doing /\ Told
    BY <1>13, <2>1, StepKept, StepTaken DEF Unanswered, Told, Following, Protocol, Still,
       Exchange, Doing, Asking, Quietly, CommandOf
  <2> QED
    BY <2>1, <2>2, HashedStays
<1>14. CASE Parts
  <2>1. UNCHANGED <<program, observed, expected, wrong>>
    BY <1>14 DEF Parts
  <2>2. (Doing' /\ Now'.do \in {"verify_core", "verify"} /\ Told') => Now' = Now /\ Doing /\ Told
    BY <1>14, <2>1, StepKept, StepTaken DEF Parts, Told, Following, Protocol, Still, Exchange,
       Doing, Asking, Quietly, CommandOf
  <2> QED
    BY <2>1, <2>2, HashedStays
<1>15. CASE Judge
  <2>1. UNCHANGED <<program, observed, expected, wrong>>
    BY <1>15 DEF Judge
  <2>2. (Doing' /\ Now'.do \in {"verify_core", "verify"} /\ Told') => Now' = Now /\ Doing /\ Told
    BY <1>15, <2>1, StepKept, StepTaken DEF Judge, Told, Following, Protocol, Still, Exchange,
       Doing, Asking, Quietly, CommandOf
  <2> QED
    BY <2>1, <2>2, HashedStays
<1>16. CASE Throws
  <2>1. UNCHANGED <<program, observed, expected, wrong>>
    BY <1>16 DEF Throws
  <2>2. (Doing' /\ Now'.do \in {"verify_core", "verify"} /\ Told') => Now' = Now /\ Doing /\ Told
    BY <1>16, <2>1, StepKept, StepTaken DEF Throws, Told, Following, Protocol, Still,
       Exchange, Doing, Asking, Quietly, CommandOf
  <2> QED
    BY <2>1, <2>2, HashedStays
<1>17. CASE SetUp
  <2>1. UNCHANGED <<program, observed, expected, wrong>>
    BY <1>17 DEF SetUp, ChildFails
  <2>2. (Doing' /\ Now'.do \in {"verify_core", "verify"} /\ Told') => Now' = Now /\ Doing /\ Told
    BY <1>17, <2>1, StepKept, StepTaken DEF SetUp, Told, Following, Protocol, Still, Exchange,
       Doing, Asking, Quietly, CommandOf, ChildFails
  <2> QED
    BY <2>1, <2>2, HashedStays
<1>18. CASE Wake
  <2>1. UNCHANGED <<program, observed, expected, wrong>>
    BY <1>18 DEF Wake
  <2>2. (Doing' /\ Now'.do \in {"verify_core", "verify"} /\ Told') => Now' = Now /\ Doing /\ Told
    BY <1>18, <2>1, StepKept, StepTaken DEF Wake, Told, Following, Protocol, Still, Exchange,
       Doing, Asking, Quietly, CommandOf
  <2> QED
    BY <2>1, <2>2, HashedStays
<1>19. CASE ReadCommand
  <2>1. UNCHANGED <<program, observed, expected, wrong>>
    BY <1>19 DEF ReadCommand
  <2>2. (Doing' /\ Now'.do \in {"verify_core", "verify"} /\ Told') => Now' = Now /\ Doing /\ Told
    BY <1>19, <2>1, StepKept, StepTaken DEF ReadCommand, Told, Following, Protocol, Still,
       Exchange, Doing, Asking, Quietly, CommandOf
  <2> QED
    BY <2>1, <2>2, HashedStays
<1>20. CASE Mutate
  <2>1. Now.do = "mutate" /\ UNCHANGED <<program, at, wrong>>
    BY <1>20 DEF Mutate, Working, Writes, Finish, ChildFails
  <2> QED
    BY <2>1, StepKept DEF Hashed
<1>21. CASE Report
  <2>1. UNCHANGED <<program, observed, expected, wrong>>
    BY <1>21 DEF Report, Finish, ChildFails
  <2>2. (Doing' /\ Now'.do \in {"verify_core", "verify"} /\ Told') => Now' = Now /\ Doing /\ Told
    BY <1>21, <2>1, StepKept, StepTaken DEF Report, Told, Following, Protocol, Still,
       Exchange, Doing, Asking, Quietly, CommandOf, Writes, Finish, ChildFails, Working
  <2> QED
    BY <2>1, <2>2, HashedStays
<1>22. CASE Verify
  <2>1. UNCHANGED <<program, at, exit, missed, expected, wrong>> /\ Now' = Now
    BY <1>22, StepKept DEF Verify, Finish
  <2>2. Doing' = Doing
    BY <2>1 DEF Doing
  <2>3. ASSUME Doing, Now.do = "verify_core" PROVE Core(observed)' = Core(expected)'
    <3>1. task = "verify_core"
      BY <1>22, <2>3 DEF Verify, Working, Protocol, Exchange, Still, Asking, CommandOf
    <3>2. \A p \in CorePages : arena[p] = expected[p]
      BY <1>22, <3>1, PageAssumption DEF Verify, Working, Uses, Present, Used, Contents
    <3>3. \A p \in CorePages : observed'[p] = expected'[p]
      BY <1>22, <2>1, <3>1, <3>2, PageAssumption DEF Verify
    <3> QED
      BY <3>3 DEF Core
  <2>4. ASSUME Doing, Now.do = "verify" PROVE observed' = expected'
    <3>1. task = "verify_full"
      BY <1>22, <2>4 DEF Verify, Working, Protocol, Exchange, Still, Asking, CommandOf
    <3>2. \A p \in Pages : arena[p] = expected[p]
      BY <1>22, <3>1, PageAssumption DEF Verify, Working, Uses, Present, Used, Contents
    <3>3. observed' = arena
      BY <1>22, <3>1 DEF Verify
    <3>4. arena \in [Pages -> {0, 1, Gone}] /\ expected \in [Pages -> {0, 1}]
      BY DEF TypeOK
    <3>5. arena = expected
      BY <3>2, <3>4
    <3> QED
      BY <2>1, <3>3, <3>5
  <2> QED
    BY <2>1, <2>2, <2>3, <2>4 DEF Hashed
<1>23. CASE BeginSpin
  <2>1. UNCHANGED <<program, observed, expected, wrong>>
    BY <1>23 DEF BeginSpin
  <2>2. (Doing' /\ Now'.do \in {"verify_core", "verify"} /\ Told') => Now' = Now /\ Doing /\ Told
    BY <1>23, <2>1, StepKept, StepTaken DEF BeginSpin, Told, Following, Protocol, Still,
       Exchange, Doing, Asking, Quietly, CommandOf, Working
  <2> QED
    BY <2>1, <2>2, HashedStays
<1>24. CASE Spin
  <2>1. UNCHANGED <<program, observed, expected, wrong>>
    BY <1>24 DEF Spin
  <2>2. (Doing' /\ Now'.do \in {"verify_core", "verify"} /\ Told') => Now' = Now /\ Doing /\ Told
    BY <1>24, <2>1, StepKept, StepTaken DEF Spin, Told, Following, Protocol, Still, Exchange,
       Doing, Asking, Quietly, CommandOf
  <2> QED
    BY <2>1, <2>2, HashedStays
<1>25. CASE EndSpin
  <2>1. UNCHANGED <<program, observed, expected, wrong>>
    BY <1>25 DEF EndSpin, Finish
  <2>2. (Doing' /\ Now'.do \in {"verify_core", "verify"} /\ Told') => Now' = Now /\ Doing /\ Told
    BY <1>25, <2>1, StepKept, StepTaken DEF EndSpin, Told, Following, Protocol, Still,
       Exchange, Doing, Asking, Quietly, CommandOf, Uses, Finish
  <2> QED
    BY <2>1, <2>2, HashedStays
<1>26. CASE Answer
  <2>1. UNCHANGED <<program, observed, expected, wrong>>
    BY <1>26 DEF Answer
  <2>2. (Doing' /\ Now'.do \in {"verify_core", "verify"} /\ Told') => Now' = Now /\ Doing /\ Told
    BY <1>26, <2>1, StepKept, StepTaken DEF Answer, Told, Following, Protocol, Still,
       Exchange, Doing, Asking, Quietly, CommandOf
  <2> QED
    BY <2>1, <2>2, HashedStays
<1>27. CASE Dies
  <2>1. UNCHANGED <<program, observed, expected, wrong>>
    BY <1>27 DEF Dies, ChildFails
  <2>2. (Doing' /\ Now'.do \in {"verify_core", "verify"} /\ Told') => Now' = Now /\ Doing /\ Told
    BY <1>27, <2>1, StepKept, StepTaken DEF Dies, Told, Following, Protocol, Still, Exchange,
       Doing, Asking, Quietly, CommandOf, ChildFails
  <2> QED
    BY <2>1, <2>2, HashedStays
<1> QED
  BY <1>1, <1>2, <1>3, <1>4, <1>5, <1>6, <1>7, <1>8, <1>9, <1>10, <1>11, <1>12, <1>13, <1>14,
     <1>15, <1>16, <1>17, <1>18, <1>19, <1>20, <1>21, <1>22, <1>23, <1>24, <1>25, <1>26,
     <1>27 DEF Next, ParentStep, ChildStep

\* A step keeps what the parent knows at the end.
LEMMA EndedKept ==
    ASSUME TypeOK, Following, Protocol, Presence, Writes, Contents, Hashed, Ended, Next
    PROVE  Ended'
<1> USE DEF At, Pass, Miss, Noted, StillActive, parentVars, capsule, ipc, results, childVars
<1>1. CASE Skip
  BY <1>1, SkippedOn DEF Skip, Ended, Called, Following
<1>2. CASE Start
  BY <1>2, StepKept, StepTaken DEF Start, Ended, Called, Following, Asking
<1>3. CASE AsksSystem
  BY <1>3, StepKept, StepTaken DEF AsksSystem, Ended, Called, Following, Asking
<1>4. CASE Snapshot
  BY <1>4, StepKept, StepTaken DEF Snapshot, Ended, Called, Following, Asking
<1>5. CASE Capture
  BY <1>5, StepKept, StepTaken DEF Capture, Ended, Called, Following, Asking
<1>6. CASE Decommit
  BY <1>6, StepKept, StepTaken DEF Decommit, Ended, Called, Following, Asking
<1>7. CASE Restore
  BY <1>7, StepKept, StepTaken DEF Restore, Ended, Called, Following, Asking, Alive
<1>8. CASE SetCommand
  BY <1>8, StepKept, StepTaken DEF SetCommand, Ended, Called, Following, Asking, CommandOf
<1>9. CASE ResetDone
  BY <1>9, StepKept, StepTaken DEF ResetDone, Ended, Called, Following, Asking
<1>10. CASE SetGo
  BY <1>10, StepKept, StepTaken DEF SetGo, Ended, Called, Following, Asking, Protocol, Doing
<1>11. CASE Stop
  BY <1>11, StepKept, StepTaken DEF Stop, Ended, Called, Following, Asking
<1>12. CASE Answered
  <2>1. /\ done /\ carried = Asked /\ child \in {"waiting", "ended"} /\ ~go
        /\ child' \in {"waiting", "ended"}
    BY <1>12 DEF Answered, Protocol, Exchange, Doing, Asking, Asked, CommandOf
  <2>2. CASE Now.do \in {"verify", "touch_again"} /\ missed' = missed
    <3>1. observed = expected /\ UNCHANGED <<observed, carried>>
      BY <1>12, <2>1, <2>2 DEF Answered, Hashed, Told, Doing, Following, Contents, Packed
    <3>2. expected' = expected
      BY <1>12, <2>2 DEF Answered
    <3>3. carried = "verify_full" /\ Now'.do # "judge" /\ exit' # 0
      BY <1>12, <2>1, <2>2, StepKept, StepTaken DEF Answered, Asked, CommandOf, Following
    <3> QED
      BY <1>12, <2>1, <3>1, <3>2, <3>3 DEF Answered, Ended, Called
  <2>3. CASE ~(Now.do \in {"verify", "touch_again"} /\ missed' = missed)
    <3>1. /\ Now'.do # "judge" /\ exit' # 0
          /\ Now'.do = "exit" => "verify" \in missed'
      BY <1>12, <2>3, StepKept, StepTaken DEF Answered, Following, Asking
    <3> QED
      BY <3>1 DEF Ended
  <2> QED
    BY <2>2, <2>3
<1>13. CASE Unanswered
  BY <1>13, StepKept, StepTaken DEF Unanswered, Ended, Called, Following, Asking
<1>14. CASE Parts
  BY <1>14, StepKept, StepTaken DEF Parts, Ended, Called, Following, Asking
<1>15. CASE Judge
  BY <1>15, StepKept, StepTaken DEF Judge, Ended, Called, Following, Asking, Good
<1>16. CASE Throws
  BY <1>16, StepKept, StepTaken DEF Throws, Ended, Called, Following, Asking
<1>17. CASE SetUp
  BY <1>17, StepKept, StepTaken DEF SetUp, Ended, Called, Following, Asking, ChildFails
<1>18. CASE Wake
  BY <1>18, StepKept, StepTaken DEF Wake, Ended, Called, Following, Asking
<1>19. CASE ReadCommand
  BY <1>19, StepKept, StepTaken DEF ReadCommand, Ended, Called, Following, Asking
<1>20. CASE Mutate
  BY <1>20, StepKept, StepTaken DEF Mutate, Ended, Called, Following, Asking, Writes, Working,
     Finish, ChildFails
<1>21. CASE Report
  BY <1>21, StepKept, StepTaken DEF Report, Ended, Called, Following, Asking, Writes, Finish,
     ChildFails, Working
<1>22. CASE Verify
  BY <1>22, StepKept, StepTaken DEF Verify, Ended, Called, Following, Asking, Working, Finish
<1>23. CASE BeginSpin
  BY <1>23, StepKept, StepTaken DEF BeginSpin, Ended, Called, Following, Asking, Working
<1>24. CASE Spin
  BY <1>24, StepKept, StepTaken DEF Spin, Ended, Called, Following, Asking
<1>25. CASE EndSpin
  BY <1>25, StepKept, StepTaken DEF EndSpin, Ended, Called, Following, Asking, Finish
<1>26. CASE Answer
  BY <1>26, StepKept, StepTaken DEF Answer, Ended, Called, Following, Asking
<1>27. CASE Dies
  BY <1>27, StepKept, StepTaken DEF Dies, Ended, Called, Following, Asking, ChildFails
<1> QED
  BY <1>1, <1>2, <1>3, <1>4, <1>5, <1>6, <1>7, <1>8, <1>9, <1>10, <1>11, <1>12, <1>13, <1>14,
     <1>15, <1>16, <1>17, <1>18, <1>19, <1>20, <1>21, <1>22, <1>23, <1>24, <1>25, <1>26,
     <1>27 DEF Next, ParentStep, ChildStep

-----------------------------------------------------------------------------
(***************************************************************************)
(* The types                                                               *)
(***************************************************************************)
\* The types in three parts: of the parent, of the memory, and of the rest
ParentType ==
    /\ program \in Programs
    /\ at \in 1 .. Len(Script) /\ sub \in {"begin", "commanded", "reset", "sent"}
    /\ missed \subseteq {"memory"} \cup {Script[i].do : i \in 1 .. Len(Script)}
    /\ exit \in {0, 2, 10, StillActive}

MemoryType ==
    /\ snap \in [Pages -> {0, 1}] /\ delta \in [Pages -> {0, 1, Gone}]
    /\ expected \in [Pages -> {0, 1}] /\ observed \in [Pages -> {0, 1}]
    /\ dirty \subseteq Pages /\ arena \in [Pages -> {0, 1, Gone}] /\ touched \subseteq Pages

ChildType ==
    /\ command \in {"none", "exit", "mutate", "report", "spin", "verify_core", "verify_full"}
    /\ go \in BOOLEAN /\ done \in BOOLEAN /\ stop \in BOOLEAN
    /\ passes \in 0 .. 1
    /\ child \in {"setup", "waiting", "woken", "working", "spinning", "answering", "ended"}
    /\ code \in 0 .. Killed
    /\ prompt \in BOOLEAN /\ wrong \subseteq {"answer", "mismatch"}

\* The three parts are the whole,
LEMMA TypesTogether ==
    TypeOK <=> ParentType /\ MemoryType /\ ChildType
BY DEF TypeOK, ParentType, MemoryType, ChildType

\* and so after a step.
LEMMA TypesTogetherNext ==
    TypeOK' <=> ParentType' /\ MemoryType' /\ ChildType'
BY DEF TypeOK, ParentType, MemoryType, ChildType

\* A step moves the parent by a step at most, and misses what is in the script.
LEMMA ParentMoves ==
    ASSUME Course, ParentType, program' = program,
           at' = at \/ (at' = at + 1 /\ Now.do # "judge"),
           sub' \in {"begin", "commanded", "reset", "sent"},
           missed' \subseteq missed \cup {Now.do, "memory"}
                             \cup (IF Now.do = "stop" THEN {"deep"} ELSE {}),
           exit' \in {0, 2, 10, StillActive}
    PROVE  ParentType'
<1>1. Script' = Script
  BY DEF Script
<1>2. at' \in 1 .. Len(Script)
  BY DEF Course, ParentType
<1>3. Now.do \in {Script[i].do : i \in 1 .. Len(Script)}
  BY DEF Course, Now
<1>4. Now.do = "stop" => "deep" \in {Script[i].do : i \in 1 .. Len(Script)}
  <2> SUFFICES ASSUME Now.do = "stop" PROVE "deep" \in {Script[i].do : i \in 1 .. Len(Script)}
    OBVIOUS
  <2>1. Packed
    BY CourseFollows DEF Following
  <2>2. Script = Phase6Script
    BY <2>1 DEF Packed, Script, ScriptOf, Phase5Script
  <2>3. Len(Script) = 15 /\ Script[11].do = "deep"
    BY <2>2, Phase6Steps DEF Step
  <2> QED
    BY <2>3
<1>5. missed' \subseteq {"memory"} \cup {Script[i].do : i \in 1 .. Len(Script)}
  BY <1>3, <1>4 DEF ParentType
<1> QED
  BY <1>1, <1>2, <1>5 DEF ParentType

\* A step keeps the types of the parent.
LEMMA ParentTypeKept ==
    ASSUME TypeOK, ParentType, Course, Following, Presence, Next
    PROVE  ParentType'
<1> USE DEF At, Pass, Miss, Noted, StillActive, parentVars, capsule, ipc, results, childVars
<1>1. CASE Skip
  <2>1. /\ program' = program
        /\ at' = at \/ (at' = at + 1 /\ Now.do # "judge")
        /\ sub' \in {"begin", "commanded", "reset", "sent"}
        /\ missed' \subseteq missed \cup {Now.do, "memory"}
                              \cup (IF Now.do = "stop" THEN {"deep"} ELSE {})
        /\ exit' \in {0, 2, 10, StillActive}
    BY <1>1, SkippedOn DEF Skip, ParentType, Following, Asking
  <2> QED
    BY <2>1, ParentMoves
<1>2. CASE Start
  <2>1. /\ program' = program
        /\ at' = at \/ (at' = at + 1 /\ Now.do # "judge")
        /\ sub' \in {"begin", "commanded", "reset", "sent"}
        /\ missed' \subseteq missed \cup {Now.do, "memory"}
                              \cup (IF Now.do = "stop" THEN {"deep"} ELSE {})
        /\ exit' \in {0, 2, 10, StillActive}
    BY <1>2 DEF Start, ParentType, Following, Asking
  <2> QED
    BY <2>1, ParentMoves
<1>3. CASE AsksSystem
  <2>1. /\ program' = program
        /\ at' = at \/ (at' = at + 1 /\ Now.do # "judge")
        /\ sub' \in {"begin", "commanded", "reset", "sent"}
        /\ missed' \subseteq missed \cup {Now.do, "memory"}
                              \cup (IF Now.do = "stop" THEN {"deep"} ELSE {})
        /\ exit' \in {0, 2, 10, StillActive}
    BY <1>3 DEF AsksSystem, ParentType, Following, Asking
  <2> QED
    BY <2>1, ParentMoves
<1>4. CASE Snapshot
  <2>1. /\ program' = program
        /\ at' = at \/ (at' = at + 1 /\ Now.do # "judge")
        /\ sub' \in {"begin", "commanded", "reset", "sent"}
        /\ missed' \subseteq missed \cup {Now.do, "memory"}
                              \cup (IF Now.do = "stop" THEN {"deep"} ELSE {})
        /\ exit' \in {0, 2, 10, StillActive}
    BY <1>4 DEF Snapshot, ParentType, Following, Asking
  <2> QED
    BY <2>1, ParentMoves
<1>5. CASE Capture
  <2>1. /\ program' = program
        /\ at' = at \/ (at' = at + 1 /\ Now.do # "judge")
        /\ sub' \in {"begin", "commanded", "reset", "sent"}
        /\ missed' \subseteq missed \cup {Now.do, "memory"}
                              \cup (IF Now.do = "stop" THEN {"deep"} ELSE {})
        /\ exit' \in {0, 2, 10, StillActive}
    BY <1>5 DEF Capture, ParentType, Following, Asking
  <2> QED
    BY <2>1, ParentMoves
<1>6. CASE Decommit
  <2>1. /\ program' = program
        /\ at' = at \/ (at' = at + 1 /\ Now.do # "judge")
        /\ sub' \in {"begin", "commanded", "reset", "sent"}
        /\ missed' \subseteq missed \cup {Now.do, "memory"}
                              \cup (IF Now.do = "stop" THEN {"deep"} ELSE {})
        /\ exit' \in {0, 2, 10, StillActive}
    BY <1>6 DEF Decommit, ParentType, Following, Asking
  <2> QED
    BY <2>1, ParentMoves
<1>7. CASE Restore
  <2>1. /\ program' = program
        /\ at' = at \/ (at' = at + 1 /\ Now.do # "judge")
        /\ sub' \in {"begin", "commanded", "reset", "sent"}
        /\ missed' \subseteq missed \cup {Now.do, "memory"}
                              \cup (IF Now.do = "stop" THEN {"deep"} ELSE {})
        /\ exit' \in {0, 2, 10, StillActive}
    BY <1>7, RestoreSteps DEF Restore, ParentType, Following, Asking, Alive
  <2> QED
    BY <2>1, ParentMoves
<1>8. CASE SetCommand
  <2>1. /\ program' = program
        /\ at' = at \/ (at' = at + 1 /\ Now.do # "judge")
        /\ sub' \in {"begin", "commanded", "reset", "sent"}
        /\ missed' \subseteq missed \cup {Now.do, "memory"}
                              \cup (IF Now.do = "stop" THEN {"deep"} ELSE {})
        /\ exit' \in {0, 2, 10, StillActive}
    BY <1>8 DEF SetCommand, ParentType, Following, Asking
  <2> QED
    BY <2>1, ParentMoves
<1>9. CASE ResetDone
  <2>1. /\ program' = program
        /\ at' = at \/ (at' = at + 1 /\ Now.do # "judge")
        /\ sub' \in {"begin", "commanded", "reset", "sent"}
        /\ missed' \subseteq missed \cup {Now.do, "memory"}
                              \cup (IF Now.do = "stop" THEN {"deep"} ELSE {})
        /\ exit' \in {0, 2, 10, StillActive}
    BY <1>9 DEF ResetDone, ParentType, Following, Asking
  <2> QED
    BY <2>1, ParentMoves
<1>10. CASE SetGo
  <2>1. /\ program' = program
        /\ at' = at \/ (at' = at + 1 /\ Now.do # "judge")
        /\ sub' \in {"begin", "commanded", "reset", "sent"}
        /\ missed' \subseteq missed \cup {Now.do, "memory"}
                              \cup (IF Now.do = "stop" THEN {"deep"} ELSE {})
        /\ exit' \in {0, 2, 10, StillActive}
    BY <1>10 DEF SetGo, ParentType, Following, Asking
  <2> QED
    BY <2>1, ParentMoves
<1>11. CASE Stop
  <2>1. /\ program' = program
        /\ at' = at \/ (at' = at + 1 /\ Now.do # "judge")
        /\ sub' \in {"begin", "commanded", "reset", "sent"}
        /\ missed' \subseteq missed \cup {Now.do, "memory"}
                              \cup (IF Now.do = "stop" THEN {"deep"} ELSE {})
        /\ exit' \in {0, 2, 10, StillActive}
    BY <1>11 DEF Stop, ParentType, Following, Asking
  <2> QED
    BY <2>1, ParentMoves
<1>12. CASE Answered
  <2>1. /\ program' = program
        /\ at' = at \/ (at' = at + 1 /\ Now.do # "judge")
        /\ sub' \in {"begin", "commanded", "reset", "sent"}
        /\ missed' \subseteq missed \cup {Now.do, "memory"}
                              \cup (IF Now.do = "stop" THEN {"deep"} ELSE {})
        /\ exit' \in {0, 2, 10, StillActive}
    BY <1>12 DEF Answered, ParentType, Following, Asking
  <2> QED
    BY <2>1, ParentMoves
<1>13. CASE Unanswered
  <2>1. /\ program' = program
        /\ at' = at \/ (at' = at + 1 /\ Now.do # "judge")
        /\ sub' \in {"begin", "commanded", "reset", "sent"}
        /\ missed' \subseteq missed \cup {Now.do, "memory"}
                              \cup (IF Now.do = "stop" THEN {"deep"} ELSE {})
        /\ exit' \in {0, 2, 10, StillActive}
    BY <1>13 DEF Unanswered, ParentType, Following, Asking
  <2> QED
    BY <2>1, ParentMoves
<1>14. CASE Parts
  <2>1. /\ program' = program
        /\ at' = at \/ (at' = at + 1 /\ Now.do # "judge")
        /\ sub' \in {"begin", "commanded", "reset", "sent"}
        /\ missed' \subseteq missed \cup {Now.do, "memory"}
                              \cup (IF Now.do = "stop" THEN {"deep"} ELSE {})
        /\ exit' \in {0, 2, 10, StillActive}
    BY <1>14 DEF Parts, ParentType, Following, Asking
  <2> QED
    BY <2>1, ParentMoves
<1>15. CASE Judge
  <2>1. /\ program' = program
        /\ at' = at \/ (at' = at + 1 /\ Now.do # "judge")
        /\ sub' \in {"begin", "commanded", "reset", "sent"}
        /\ missed' \subseteq missed \cup {Now.do, "memory"}
                              \cup (IF Now.do = "stop" THEN {"deep"} ELSE {})
        /\ exit' \in {0, 2, 10, StillActive}
    BY <1>15 DEF Judge, ParentType, Following, Asking
  <2> QED
    BY <2>1, ParentMoves
<1>16. CASE Throws
  <2>1. /\ program' = program
        /\ at' = at \/ (at' = at + 1 /\ Now.do # "judge")
        /\ sub' \in {"begin", "commanded", "reset", "sent"}
        /\ missed' \subseteq missed \cup {Now.do, "memory"}
                              \cup (IF Now.do = "stop" THEN {"deep"} ELSE {})
        /\ exit' \in {0, 2, 10, StillActive}
    BY <1>16 DEF Throws, ParentType, Following, Asking
  <2> QED
    BY <2>1, ParentMoves
<1>17. CASE SetUp
  <2>1. /\ program' = program
        /\ at' = at \/ (at' = at + 1 /\ Now.do # "judge")
        /\ sub' \in {"begin", "commanded", "reset", "sent"}
        /\ missed' \subseteq missed \cup {Now.do, "memory"}
                              \cup (IF Now.do = "stop" THEN {"deep"} ELSE {})
        /\ exit' \in {0, 2, 10, StillActive}
    BY <1>17 DEF SetUp, ParentType, Following, Asking, ChildFails
  <2> QED
    BY <2>1, ParentMoves
<1>18. CASE Wake
  <2>1. /\ program' = program
        /\ at' = at \/ (at' = at + 1 /\ Now.do # "judge")
        /\ sub' \in {"begin", "commanded", "reset", "sent"}
        /\ missed' \subseteq missed \cup {Now.do, "memory"}
                              \cup (IF Now.do = "stop" THEN {"deep"} ELSE {})
        /\ exit' \in {0, 2, 10, StillActive}
    BY <1>18 DEF Wake, ParentType, Following, Asking
  <2> QED
    BY <2>1, ParentMoves
<1>19. CASE ReadCommand
  <2>1. /\ program' = program
        /\ at' = at \/ (at' = at + 1 /\ Now.do # "judge")
        /\ sub' \in {"begin", "commanded", "reset", "sent"}
        /\ missed' \subseteq missed \cup {Now.do, "memory"}
                              \cup (IF Now.do = "stop" THEN {"deep"} ELSE {})
        /\ exit' \in {0, 2, 10, StillActive}
    BY <1>19 DEF ReadCommand, ParentType, Following, Asking
  <2> QED
    BY <2>1, ParentMoves
<1>20. CASE Mutate
  <2>1. /\ program' = program
        /\ at' = at \/ (at' = at + 1 /\ Now.do # "judge")
        /\ sub' \in {"begin", "commanded", "reset", "sent"}
        /\ missed' \subseteq missed \cup {Now.do, "memory"}
                              \cup (IF Now.do = "stop" THEN {"deep"} ELSE {})
        /\ exit' \in {0, 2, 10, StillActive}
    BY <1>20 DEF Mutate, ParentType, Following, Asking, Finish, ChildFails
  <2> QED
    BY <2>1, ParentMoves
<1>21. CASE Report
  <2>1. /\ program' = program
        /\ at' = at \/ (at' = at + 1 /\ Now.do # "judge")
        /\ sub' \in {"begin", "commanded", "reset", "sent"}
        /\ missed' \subseteq missed \cup {Now.do, "memory"}
                              \cup (IF Now.do = "stop" THEN {"deep"} ELSE {})
        /\ exit' \in {0, 2, 10, StillActive}
    BY <1>21 DEF Report, ParentType, Following, Asking, Finish, ChildFails
  <2> QED
    BY <2>1, ParentMoves
<1>22. CASE Verify
  <2>1. /\ program' = program
        /\ at' = at \/ (at' = at + 1 /\ Now.do # "judge")
        /\ sub' \in {"begin", "commanded", "reset", "sent"}
        /\ missed' \subseteq missed \cup {Now.do, "memory"}
                              \cup (IF Now.do = "stop" THEN {"deep"} ELSE {})
        /\ exit' \in {0, 2, 10, StillActive}
    BY <1>22 DEF Verify, ParentType, Following, Asking, Finish
  <2> QED
    BY <2>1, ParentMoves
<1>23. CASE BeginSpin
  <2>1. /\ program' = program
        /\ at' = at \/ (at' = at + 1 /\ Now.do # "judge")
        /\ sub' \in {"begin", "commanded", "reset", "sent"}
        /\ missed' \subseteq missed \cup {Now.do, "memory"}
                              \cup (IF Now.do = "stop" THEN {"deep"} ELSE {})
        /\ exit' \in {0, 2, 10, StillActive}
    BY <1>23 DEF BeginSpin, ParentType, Following, Asking
  <2> QED
    BY <2>1, ParentMoves
<1>24. CASE Spin
  <2>1. /\ program' = program
        /\ at' = at \/ (at' = at + 1 /\ Now.do # "judge")
        /\ sub' \in {"begin", "commanded", "reset", "sent"}
        /\ missed' \subseteq missed \cup {Now.do, "memory"}
                              \cup (IF Now.do = "stop" THEN {"deep"} ELSE {})
        /\ exit' \in {0, 2, 10, StillActive}
    BY <1>24 DEF Spin, ParentType, Following, Asking
  <2> QED
    BY <2>1, ParentMoves
<1>25. CASE EndSpin
  <2>1. /\ program' = program
        /\ at' = at \/ (at' = at + 1 /\ Now.do # "judge")
        /\ sub' \in {"begin", "commanded", "reset", "sent"}
        /\ missed' \subseteq missed \cup {Now.do, "memory"}
                              \cup (IF Now.do = "stop" THEN {"deep"} ELSE {})
        /\ exit' \in {0, 2, 10, StillActive}
    BY <1>25 DEF EndSpin, ParentType, Following, Asking, Finish
  <2> QED
    BY <2>1, ParentMoves
<1>26. CASE Answer
  <2>1. /\ program' = program
        /\ at' = at \/ (at' = at + 1 /\ Now.do # "judge")
        /\ sub' \in {"begin", "commanded", "reset", "sent"}
        /\ missed' \subseteq missed \cup {Now.do, "memory"}
                              \cup (IF Now.do = "stop" THEN {"deep"} ELSE {})
        /\ exit' \in {0, 2, 10, StillActive}
    BY <1>26 DEF Answer, ParentType, Following, Asking
  <2> QED
    BY <2>1, ParentMoves
<1>27. CASE Dies
  <2>1. /\ program' = program
        /\ at' = at \/ (at' = at + 1 /\ Now.do # "judge")
        /\ sub' \in {"begin", "commanded", "reset", "sent"}
        /\ missed' \subseteq missed \cup {Now.do, "memory"}
                              \cup (IF Now.do = "stop" THEN {"deep"} ELSE {})
        /\ exit' \in {0, 2, 10, StillActive}
    BY <1>27 DEF Dies, ParentType, Following, Asking, ChildFails
  <2> QED
    BY <2>1, ParentMoves
<1> QED
  BY <1>1, <1>2, <1>3, <1>4, <1>5, <1>6, <1>7, <1>8, <1>9, <1>10, <1>11, <1>12, <1>13, <1>14,
     <1>15, <1>16, <1>17, <1>18, <1>19, <1>20, <1>21, <1>22, <1>23, <1>24, <1>25, <1>26,
     <1>27 DEF Next, ParentStep, ChildStep

\* A step keeps the types of the memory.
LEMMA MemoryTypeKept ==
    ASSUME TypeOK, MemoryType, Following, Presence, Uses, Writes, Next
    PROVE  MemoryType'
<1> USE DEF At, Pass, Miss, Noted, StillActive, parentVars, capsule, ipc, results, childVars
<1>1. CASE Skip
  BY <1>1 DEF Skip, MemoryType
<1>2. CASE Start
  BY <1>2 DEF Start, MemoryType
<1>3. CASE AsksSystem
  BY <1>3 DEF AsksSystem, MemoryType
<1>4. CASE Snapshot
  <2>1. \A p \in Pages : arena[p] # Gone
    BY <1>4 DEF Snapshot, Presence, Present, Early
  <2>2. arena \in [Pages -> {0, 1}]
    BY <2>1 DEF MemoryType
  <2> QED
    BY <1>4, <2>2 DEF Snapshot, MemoryType
<1>5. CASE Capture
  <2>1. delta' \in [Pages -> {0, 1, Gone}]
    BY <1>5 DEF Capture, MemoryType
  <2> QED
    BY <1>5, <2>1 DEF Capture, MemoryType
<1>6. CASE Decommit
  <2>1. arena' \in [Pages -> {0, 1, Gone}]
    BY <1>6 DEF Decommit, MemoryType
  <2> QED
    BY <1>6, <2>1 DEF Decommit, MemoryType
<1>7. CASE Restore
  <2>1. arena' \in [Pages -> {0, 1, Gone}] /\ touched' \subseteq Pages
    <3>1. CASE \E p \in Missing : /\ arena' = [arena EXCEPT ![p] = Rebuilt(p)]
                                  /\ touched' = touched \cup {p}
      <4>1. PICK p \in Missing : /\ arena' = [arena EXCEPT ![p] = Rebuilt(p)]
                                 /\ touched' = touched \cup {p}
        BY <3>1
      <4>2. p \in Pages
        BY PageAssumption DEF Missing, ToRestore
      <4>3. Rebuilt(p) \in {0, 1}
        BY <4>2, RebuiltIsContent
      <4> QED
        BY <4>1, <4>2, <4>3 DEF MemoryType
    <3>2. CASE UNCHANGED <<arena, touched>>
      BY <3>2 DEF MemoryType
    <3> QED
      BY <1>7, <3>1, <3>2 DEF Restore
  <2> QED
    BY <1>7, <2>1 DEF Restore, MemoryType
<1>8. CASE SetCommand
  BY <1>8 DEF SetCommand, MemoryType
<1>9. CASE ResetDone
  BY <1>9 DEF ResetDone, MemoryType
<1>10. CASE SetGo
  BY <1>10 DEF SetGo, MemoryType
<1>11. CASE Stop
  BY <1>11 DEF Stop, MemoryType
<1>12. CASE Answered
  BY <1>12 DEF Answered, MemoryType
<1>13. CASE Unanswered
  BY <1>13 DEF Unanswered, MemoryType
<1>14. CASE Parts
  BY <1>14 DEF Parts, MemoryType
<1>15. CASE Judge
  BY <1>15 DEF Judge, MemoryType
<1>16. CASE Throws
  BY <1>16 DEF Throws, MemoryType
<1>17. CASE SetUp
  BY <1>17 DEF SetUp, MemoryType, ChildFails
<1>18. CASE Wake
  BY <1>18 DEF Wake, MemoryType
<1>19. CASE ReadCommand
  BY <1>19 DEF ReadCommand, MemoryType
<1>20. CASE Mutate
  <2>1. Present(Pages)
    BY <1>20 DEF Mutate, Working, Writes, Presence, Early
  <2>2. CASE UNCHANGED <<arena, touched, expected>>
    BY <1>20, <2>2 DEF Mutate, MemoryType
  <2>3. CASE \E pages \in SUBSET Pages \ {{}} :
               /\ arena' = [p \in Pages |-> IF p \in pages THEN 1 - arena[p] ELSE arena[p]]
               /\ touched' = pages
               /\ expected' = arena'
    <3>1. PICK pages \in SUBSET Pages :
               /\ arena' = [p \in Pages |-> IF p \in pages THEN 1 - arena[p] ELSE arena[p]]
               /\ touched' = pages
               /\ expected' = arena'
      BY <2>3
    <3>2. arena' \in [Pages -> {0, 1}]
      BY <2>1, <3>1, MutatedIsContent
    <3> QED
      BY <1>20, <3>1, <3>2 DEF Mutate, MemoryType
  <2> QED
    BY <1>20, <2>2, <2>3 DEF Mutate
<1>21. CASE Report
  BY <1>21 DEF Report, MemoryType
<1>22. CASE Verify
  <2>1. \A p \in Used(task) : p \in Pages /\ arena[p] \in {0, 1}
    BY <1>22, PageAssumption DEF Verify, Working, Uses, Present, Used, MemoryType
  <2>2. CASE task = "verify_full"
    <3>1. arena \in [Pages -> {0, 1}]
      BY <2>1, <2>2 DEF Used, MemoryType
    <3> QED
      BY <1>22, <2>2, <3>1 DEF Verify, MemoryType
  <2>3. CASE task = "verify_core"
    <3>1. observed' \in [Pages -> {0, 1}]
      BY <1>22, <2>1, <2>3 DEF Verify, Used, MemoryType
    <3> QED
      BY <1>22, <3>1 DEF Verify, MemoryType
  <2> QED
    BY <1>22, <2>2, <2>3 DEF Verify, Working
<1>23. CASE BeginSpin
  BY <1>23 DEF BeginSpin, MemoryType
<1>24. CASE Spin
  BY <1>24 DEF Spin, MemoryType
<1>25. CASE EndSpin
  BY <1>25 DEF EndSpin, MemoryType, Finish
<1>26. CASE Answer
  BY <1>26 DEF Answer, MemoryType
<1>27. CASE Dies
  BY <1>27 DEF Dies, MemoryType, ChildFails
<1> QED
  BY <1>1, <1>2, <1>3, <1>4, <1>5, <1>6, <1>7, <1>8, <1>9, <1>10, <1>11, <1>12, <1>13, <1>14,
     <1>15, <1>16, <1>17, <1>18, <1>19, <1>20, <1>21, <1>22, <1>23, <1>24, <1>25, <1>26,
     <1>27 DEF Next, ParentStep, ChildStep

\* A step keeps the types of the rest.
LEMMA ChildTypeKept ==
    ASSUME ChildType, Now.code \in 0 .. 99, Next
    PROVE  ChildType'
<1> USE DEF At, Pass, Miss, Noted, StillActive, parentVars, capsule, ipc, results, childVars
<1>1. CASE Skip
  BY <1>1 DEF Skip, ChildType, Killed
<1>2. CASE Start
  BY <1>2 DEF Start, ChildType, Killed
<1>3. CASE AsksSystem
  BY <1>3 DEF AsksSystem, ChildType, Killed
<1>4. CASE Snapshot
  BY <1>4 DEF Snapshot, ChildType, Killed
<1>5. CASE Capture
  BY <1>5 DEF Capture, ChildType, Killed
<1>6. CASE Decommit
  BY <1>6 DEF Decommit, ChildType, Killed
<1>7. CASE Restore
  BY <1>7 DEF Restore, ChildType, Killed
<1>8. CASE SetCommand
  BY <1>8 DEF SetCommand, ChildType, Killed, CommandOf, Asking
<1>9. CASE ResetDone
  BY <1>9 DEF ResetDone, ChildType, Killed
<1>10. CASE SetGo
  <2>1. go' = TRUE \/ go' = go
    BY <1>10, Zenon DEF SetGo
  <2>2. UNCHANGED <<command, done, stop, passes, prompt, wrong>>
    BY <1>10 DEF SetGo, results
  <2>3. child' \in {child, "ended"} /\ code' \in {code, Now.code}
    BY <1>10 DEF SetGo
  <2> QED
    <3>1. go' \in BOOLEAN /\ done' \in BOOLEAN /\ stop' \in BOOLEAN /\ prompt' \in BOOLEAN
      BY <2>1, <2>2, Zenon DEF ChildType
    <3>2. code' \in 0 .. Killed
      BY <2>3 DEF ChildType, Killed
    <3> QED
      BY <2>1, <2>2, <2>3, <3>1, <3>2 DEF ChildType
<1>11. CASE Stop
  BY <1>11 DEF Stop, ChildType, Killed
<1>12. CASE Answered
  <2>1. UNCHANGED <<command, go, stop, passes, prompt>> /\ done' = FALSE
    BY <1>12 DEF Answered
  <2>2. wrong' \subseteq wrong \cup {"answer", "mismatch"}
    BY <1>12 DEF Answered
  <2>3. child' \in {child, "ended"} /\ code' \in {code, Now.code}
    BY <1>12 DEF Answered
  <2> QED
    <3>1. go' \in BOOLEAN /\ done' \in BOOLEAN /\ stop' \in BOOLEAN /\ prompt' \in BOOLEAN
      BY <2>1, <2>2, Zenon DEF ChildType
    <3>2. code' \in 0 .. Killed
      BY <2>3 DEF ChildType, Killed
    <3> QED
      BY <2>1, <2>2, <2>3, <3>1, <3>2 DEF ChildType
<1>13. CASE Unanswered
  BY <1>13 DEF Unanswered, ChildType, Killed
<1>14. CASE Parts
  BY <1>14 DEF Parts, ChildType, Killed
<1>15. CASE Judge
  BY <1>15 DEF Judge, ChildType, Killed
<1>16. CASE Throws
  BY <1>16 DEF Throws, ChildType, Killed
<1>17. CASE SetUp
  BY <1>17 DEF SetUp, ChildType, Killed, ChildFails
<1>18. CASE Wake
  BY <1>18 DEF Wake, ChildType, Killed
<1>19. CASE ReadCommand
  BY <1>19 DEF ReadCommand, ChildType, Killed
<1>20. CASE Mutate
  BY <1>20 DEF Mutate, ChildType, Killed, Finish, ChildFails
<1>21. CASE Report
  BY <1>21 DEF Report, ChildType, Killed, Finish, ChildFails
<1>22. CASE Verify
  BY <1>22 DEF Verify, ChildType, Killed, Finish
<1>23. CASE BeginSpin
  BY <1>23 DEF BeginSpin, ChildType, Killed
<1>24. CASE Spin
  BY <1>24 DEF Spin, ChildType, Killed
<1>25. CASE EndSpin
  BY <1>25 DEF EndSpin, ChildType, Killed, Finish
<1>26. CASE Answer
  BY <1>26 DEF Answer, ChildType, Killed
<1>27. CASE Dies
  BY <1>27 DEF Dies, ChildType, Killed, ChildFails
<1> QED
  BY <1>1, <1>2, <1>3, <1>4, <1>5, <1>6, <1>7, <1>8, <1>9, <1>10, <1>11, <1>12, <1>13, <1>14,
     <1>15, <1>16, <1>17, <1>18, <1>19, <1>20, <1>21, <1>22, <1>23, <1>24, <1>25, <1>26,
     <1>27 DEF Next, ParentStep, ChildStep

-----------------------------------------------------------------------------
(***************************************************************************)
(* The theorems                                                            *)
(***************************************************************************)
\* A run begins with everything in its place.
LEMMA InvariantAtFirst ==
    ASSUME Init
    PROVE  RemoteInv
<1>1. /\ Now = Step("start", "none", Now.code) /\ Len(Script) \in 8 .. 15
      /\ program \in Programs /\ at = 1
  <2>1. CASE program = "phase3"
    BY <2>1, Phase3Steps DEF Init, Now, Script, ScriptOf, Step
  <2>2. CASE program = "phase4"
    BY <2>2, Phase4Steps DEF Init, Now, Script, ScriptOf, Step
  <2>3. CASE Packed
    BY <2>3, Phase6Steps DEF Init, Now, Script, ScriptOf, Step, Packed, Phase5Script
  <2> QED
    BY <2>1, <2>2, <2>3 DEF Init, Programs, Packed
<1>2. Now.do = "start" /\ Now.needs = "none"
  BY <1>1 DEF Step
<1>3. Zeros \in [Pages -> {0, 1}] /\ \A p \in Pages : Zeros[p] = 0 /\ Zeros[p] # Gone
  BY PageAssumption DEF Zeros
<1>4. TypeOK
  <2>1. ParentType
    BY <1>1 DEF Init, ParentType
  <2>2. MemoryType
    BY <1>3 DEF Init, MemoryType
  <2>3. ChildType
    <3>1. go \in BOOLEAN /\ done \in BOOLEAN /\ stop \in BOOLEAN /\ prompt \in BOOLEAN
      BY Zenon DEF Init
    <3>2. code \in 0 .. Killed /\ passes \in 0 .. 1 /\ wrong \subseteq {"answer", "mismatch"}
      BY DEF Init, Killed
    <3>3. command = "none" /\ child = "setup"
      BY DEF Init
    <3> QED
      BY <3>1, <3>2, <3>3 DEF ChildType
  <2> QED
    BY <2>1, <2>2, <2>3, TypesTogether
<1>5. Protocol
  BY <1>2 DEF Init, Protocol, Quietly, Asking
<1>6. Presence
  BY <1>2, <1>3, PageAssumption DEF Init, Presence, Present
<1>7. Uses /\ Writes
  BY DEF Init, Uses, Writes, Called
<1>8. Contents
  BY <1>2, <1>3 DEF Init, Contents, Early
<1>9. Watched
  BY <1>2 DEF Watched, Unreported, Reported
<1>10. Hashed /\ Ended
  BY <1>2 DEF Init, Hashed, Ended, Told, StillActive
<1> QED
  BY <1>4, <1>5, <1>6, <1>7, <1>8, <1>9, <1>10 DEF RemoteInv

\* A step of either process, or of neither, keeps it so.
LEMMA InvariantKept ==
    ASSUME RemoteInv, Next
    PROVE  RemoteInv'
<1>1. ParentType /\ MemoryType /\ ChildType
  BY TypesTogether DEF RemoteInv
<1>2. Course /\ Following
  BY <1>1, ScriptsRun, CourseFollows DEF ParentType
<1>3. ParentType'
  BY <1>1, <1>2, ParentTypeKept DEF RemoteInv
<1>4. MemoryType'
  BY <1>1, <1>2, MemoryTypeKept DEF RemoteInv
<1>5. ChildType'
  BY <1>1, <1>2, ChildTypeKept DEF Following
<1>6. TypeOK'
  BY <1>3, <1>4, <1>5, TypesTogetherNext
<1>7. Protocol' /\ Presence'
  BY <1>2, ProtocolKept, PresenceKept DEF RemoteInv
<1>8. Uses' /\ Writes'
  BY <1>2, UsesKept, WritesKept DEF RemoteInv
<1>9. Contents' /\ Watched'
  BY <1>2, ContentsKept, WatchedKept DEF RemoteInv
<1>10. Hashed' /\ Ended'
  BY <1>2, HashedKept, EndedKept DEF RemoteInv
<1> QED
  BY <1>6, <1>7, <1>8, <1>9, <1>10 DEF RemoteInv

LEMMA InvariantStutters ==
    ASSUME RemoteInv, UNCHANGED vars
    PROVE  RemoteInv'
<1>1. /\ UNCHANGED <<program, at, sub, missed, exit, snap, delta, command, go, done, stop>>
      /\ UNCHANGED <<expected, observed, dirty, passes, child, task, code, arena, touched>>
      /\ UNCHANGED <<prompt, carried, wrong>>
  BY DEF vars, parentVars, capsule, ipc, results, childVars
<1>2. Now' = Now /\ Script' = Script
  BY <1>1, StepKept
<1>3. TypeOK'
  BY <1>1, <1>2 DEF RemoteInv, TypeOK
<1>4. Protocol' /\ Uses' /\ Writes'
  BY <1>1, <1>2 DEF RemoteInv, Protocol, Uses, Writes, Doing, Still, Exchange, Called,
     Present, Used, Packed, CommandOf
<1>5. Presence' /\ Watched'
  BY <1>1, <1>2 DEF RemoteInv, Presence, Watched, Doing, Present, Packed, Unreported,
     Reported, Told
<1>6. Contents'
  <2>1. /\ (Doing' <=> Doing) /\ Packed' = Packed /\ Zeros' = Zeros
        /\ \A p \in Pages : Rebuilt(p)' = Rebuilt(p)
    BY <1>1, <1>2 DEF Doing, Packed, Zeros, Rebuilt
  <2> QED
    BY <1>1, <1>2, <2>1 DEF RemoteInv, Contents
<1>7. Hashed' /\ Ended'
  BY <1>1, <1>2 DEF RemoteInv, Hashed, Ended, Doing, Told, Core, Called
<1> QED
  BY <1>3, <1>4, <1>5, <1>6, <1>7 DEF RemoteInv

\* The invariant that the theorems below rest on
THEOREM InvariantHolds == Spec => []RemoteInv
<1>1. Init => RemoteInv
  BY InvariantAtFirst
<1>2. RemoteInv /\ [Next]_vars => RemoteInv'
  BY InvariantKept, InvariantStutters
<1> QED
  BY <1>1, <1>2, PTL DEF Spec

\* Every variable of the two processes keeps its type.
THEOREM TypeCorrect == Spec => []TypeOK
<1>1. RemoteInv => TypeOK
  BY DEF RemoteInv
<1> QED
  BY <1>1, InvariantHolds, PTL

\* However large the region and whatever the core, wherever the child is killed
\* and whatever fails or times out: restore_units and build_unit give back what
\* the child had, what is decommitted is in the capsule, the child is not asked
\* for what is gone, and it waits while its memory is read or taken away.
THEOREM MemoryStaysKept == Spec => []MemoryIsKept
<1>1. RemoteInv => MemoryIsKept
  <2> SUFFICES ASSUME RemoteInv PROVE MemoryIsKept
    OBVIOUS
  <2>1. ContentComesBack
    BY DEF RemoteInv, Hashed, ContentComesBack
  <2>2. CapsuleIsWhole
    <3> SUFFICES ASSUME program # "phase3", NEW p \in Pages, arena[p] = Gone
                 PROVE  Rebuilt(p) = expected[p]
      BY DEF CapsuleIsWhole
    <3>1. Now.do \notin Early
      BY DEF RemoteInv, Presence, Present
    <3>2. Now.do \notin Early \ {"decommit"}
      BY <3>1
    <3> QED
      BY <3>2, RebuiltIsExpected DEF RemoteInv
  <2>3. UsesWhatIsThere
    BY DEF RemoteInv, Uses, Present, UsesWhatIsThere
  <2>4. ChildKeepsStill
    BY DEF RemoteInv, Protocol, Still, Doing, Quietly, At, ChildKeepsStill
  <2> QED
    BY <2>1, <2>2, <2>3, <2>4 DEF MemoryIsKept
<1> QED
  BY <1>1, InvariantHolds, PTL

\* signal_and_wait never takes the answer to an earlier command for one to its
\* own, and a run that passes has had the whole region hashed at its end, with
\* the hash that was expected, by a child that has ended well.
THEOREM VerdictStaysEarned == Spec => []VerdictIsEarned
<1>1. RemoteInv => VerdictIsEarned
  BY DEF RemoteInv, Hashed, Ended, VerdictIsEarned, AnswersBelong, PassIsEarned
<1> QED
  BY <1>1, InvariantHolds, PTL
=============================================================================
