-------------------------- MODULE MasterReviewProofs --------------------------
(***************************************************************************)
(* Proofs about Production and MasterReview, for every number of films,     *)
(* shots, ticks and attempts.                                              *)
(***************************************************************************)
EXTENDS MasterReview, TLAPS

-----------------------------------------------------------------------------
(* The inductive invariant.                                                 *)

\* A tick at work is at an attempt of a job that was reached, and one with a
\* cue or a plan in its hands knows whose.
TickInv == \A w \in Workers :
  /\ ~At(w, "idle") => Mine(w) \in Jobs /\ Nth(w) <= attempt[Mine(w)]
  /\ tick[w].at \in {"calling", "answer", "planning"} => tick[w].about \in Jobs

\* Only a job at work is leased, and the film of a tick that renders under a
\* lease it still holds is where the tick saw it.
LeaseInv ==
  /\ \A j \in Jobs : holder[j] # Nobody => job[j] \in Working
  /\ \A w \in Workers :
       /\ tick[w].at \in {"rendered", "stored"} => tick[w].saw = "rendering"
       /\ tick[w].at \in {"work", "rendered", "stored"} /\ tick[w].saw = "rendering" /\ Holds(w) =>
            job[Mine(w)] = "rendering" /\ Nth(w) = attempt[Mine(w)]

\* The planning of a repair is the one open request of its job.
AskInv == \A j \in Jobs :
  /\ job[j] = "repair_planning" => request[j] \in {"analyzing", "awaiting_clarification"}
  /\ request[j] = "analyzing" => job[j] \in {"repair_planning", "failed"}

\* An attempt has a complete clip for each shot once its cues are declared, and
\* keeps it; one that is not yet planned has none.
Selected(j, n) ==
  \A s \in Shots : chosen[j][n][s] # 0 /\ clip[j][chosen[j][n][s]][s] = "complete"
Filmed == {"sound_designing", "rendering", "review_ready", "needs_repair", "export_ready"}
SelectInv ==
  /\ \A j \in Jobs, n \in Attempts :
       /\ n < attempt[j] => Selected(j, n)
       /\ n = attempt[j] /\ job[j] \in Filmed => Selected(j, n)
       /\ n > attempt[j] \/ (n = attempt[j] /\ job[j] = "repair_planning") =>
            \A s \in Shots : chosen[j][n][s] = 0
       /\ n = 1 => \A s \in Shots : chosen[j][n][s] = 1
  /\ \A w \in Workers : At(w, "cues") => Selected(Mine(w), Nth(w))

\* A cue that was never claimed is not paid, a claimed one has one tick that
\* may pay it, and a job with a paid cue outstanding does not go on.
Calls(w, j, s) ==
  tick[w].at \in {"calling", "answer"} /\ tick[w].about = j /\ tick[w].shot = s
Scored == {"rendering", "review_ready", "export_ready"}
CueInv ==
  /\ \A j \in Jobs, s \in Shots :
       /\ job[j] \in Scored => cue[j][attempt[j]][s] = "complete"
       /\ \A n \in Attempts : cue[j][n][s] \in {"none", "prepared"} => bought[j][n][s] = 0
  /\ \A w \in Workers, j \in Jobs, s \in Shots : Calls(w, j, s) =>
       /\ job[j] \in {"sound_designing", "failed"}
       /\ cue[j][attempt[j]][s] \in {"claimed", "lapsed", "failed"}
       /\ tick[w].at = "calling" => bought[j][attempt[j]][s] = 0
       /\ \A v \in Workers : Calls(v, j, s) => v = w

\* The masters of the attempts before were rejected and superseded, and the
\* newest is as its job says.
Reviewed(s) == CASE s = "review_ready" -> {"pending_review"}
                 [] s = "needs_repair" -> {"rejected"}
                 [] s = "export_ready" -> {"approved"}
                 [] OTHER -> {"none", "pending_review"}
MasterInv ==
  /\ \A j \in Jobs, n \in Attempts :
       /\ n < attempt[j] => master[j][n] = "superseded"
       /\ n > attempt[j] => master[j][n] = "none"
       /\ n = attempt[j] => master[j][n] \in Reviewed(job[j])
  /\ \A w \in Workers : At(w, "stored") => master[Mine(w)][Nth(w)] # "none"

IInv ==
  /\ TypeOK /\ TickInv /\ LeaseInv /\ AskInv /\ RejectedIsRetryable
  /\ SelectInv /\ RepairKeepsTheRest /\ CueInv /\ CuePaidOnce /\ MasterInv

-----------------------------------------------------------------------------
(* The types, but for the flags.                                            *)

PerShotOf(X) == [Jobs -> [Attempts -> [Shots -> X]]]
Masters == {"none", "pending_review", "approved", "rejected", "superseded"}

Rows ==
  /\ job \in [Jobs -> JobStates] /\ attempt \in [Jobs -> Attempts]
  /\ holder \in [Jobs -> Workers \cup {Nobody}]
  /\ run \in [Jobs -> {"active", "waiting_decision", "succeeded", "failed"}]
  /\ frame \in PerShotOf(MediaStates) /\ clip \in PerShotOf(MediaStates)
  /\ cue \in PerShotOf(CueStates) /\ bought \in PerShotOf(0..2)
  /\ plan \in PerShotOf(PlanActions) /\ chosen \in PerShotOf(Attempts \cup {0})
  /\ request \in [Jobs -> RequestStates]
  /\ planner \in [Jobs -> {"none", "live", "lapsed"}]
  /\ rounds \in [Jobs -> 0..MaxRounds]
  /\ master \in [Jobs -> [Attempts -> Masters]]
  /\ tick \in [Workers -> Ticks]
  /\ source \in 1..MaxSources
  /\ culture \in [Jobs -> [Attempts -> Blocked..MaxSources]]

Flags == expired \in [Jobs -> BOOLEAN] /\ opened \in [Jobs -> BOOLEAN]

LEMMA TypeParts == /\ TypeOK <=> Rows /\ Flags
                   /\ TypeOK' <=> Rows' /\ Flags'
BY DEF TypeOK, ProductionTypeOK, Rows, Flags, PerShotOf, Masters

-----------------------------------------------------------------------------
(* What an update does, point by point.                                     *)

LEMMA PutShot ==
  ASSUME NEW X, NEW f \in PerShotOf(X), NEW x \in X,
         NEW j \in Jobs, NEW n \in Attempts, NEW s \in Shots,
         NEW g, g = [f EXCEPT ![j][n][s] = x]
  PROVE  /\ g \in PerShotOf(X)
         /\ \A k \in Jobs, m \in Attempts, t \in Shots :
              g[k][m][t] = IF k = j /\ m = n /\ t = s THEN x ELSE f[k][m][t]
BY DEF PerShotOf

\* The tick of w goes to p, and remembers what it is about.
Moves(w, p) ==
  /\ tick' \in [Workers -> Ticks]
  /\ \A v \in Workers \ {w} : tick'[v] = tick[v]
  /\ tick'[w].at = p /\ tick'[w].job = tick[w].job
  /\ IF p = "leaves" THEN tick'[w].nth = 1
     ELSE /\ tick'[w].saw = tick[w].saw /\ tick'[w].nth = tick[w].nth
          /\ tick'[w].about = tick[w].about /\ tick'[w].shot = tick[w].shot

LEMMA IdleType == Idle \in Ticks
BY ProductionAssumption DEF Idle, Ticks, Places, Working, Attempts

LEMMA GotoMoves ==
  ASSUME Rows, NEW w \in Workers, NEW p \in Places, Goto(w, p)
  PROVE  Moves(w, p)
<1>1. tick \in [Workers -> Ticks] /\ tick[w].job \in Jobs \cup {Nobody}
  BY DEF Rows, Ticks
<1>2. CASE p = "leaves"
  <2>1. tick' = [tick EXCEPT ![w] = [Idle EXCEPT !.at = p, !.job = tick[w].job]]
    BY <1>1, <1>2 DEF Goto
  <2>2. [Idle EXCEPT !.at = p, !.job = tick[w].job] \in Ticks
    BY <1>1, IdleType DEF Ticks
  <2> QED BY <1>1, <1>2, <2>1, <2>2 DEF Moves, Idle
<1>3. CASE p # "leaves"
  <2>1. tick' = [tick EXCEPT ![w] = [tick[w] EXCEPT !.at = p]]
    BY <1>1, <1>3 DEF Goto
  <2>2. [tick[w] EXCEPT !.at = p] \in Ticks
    BY <1>1 DEF Ticks
  <2> QED BY <1>1, <1>3, <2>1, <2>2 DEF Moves, Ticks
<1> QED BY <1>2, <1>3

\* What a tick remembers.
LEMMA TickTypes ==
  ASSUME Rows, NEW w \in Workers
  PROVE  /\ Mine(w) \in Jobs \cup {Nobody} /\ Nth(w) \in Attempts /\ tick[w].saw \in Working
         /\ tick[w].about \in Jobs \cup {Nobody} /\ tick[w].shot \in Shots
BY DEF Rows, Ticks, Mine, Nth


-----------------------------------------------------------------------------
(* Who writes what.                                                         *)

\* The commands that write each variable.
Writes ==
  /\ attempt' = attempt \/ \E j \in Jobs : Retry(j)
  /\ clip' = clip \/ \E w \in Workers, s \in Shots : SubmitClip(w, s) \/ PollClip(w, s)
  /\ frame' = frame \/ \E w \in Workers, s \in Shots : PollFrame(w, s) \/ SubmitFrame(w, s)
  /\ \/ cue' = cue
     \/ \E w \in Workers : ClaimCue(w) \/ CompleteCue(w) \/ FailCue(w)
     \/ \E w \in Workers, s \in Shots : DeclareCue(w, s)
     \/ \E j \in Jobs, s \in Shots : CueLeaseLapses(j, s)
  /\ bought' = bought \/ \E w \in Workers : CallSoundProvider(w)
  /\ plan' = plan \/ \E w \in Workers : PublishPlan(w)
  /\ chosen' = chosen \/ \E w \in Workers, s \in Shots : SelectShot(w, s)
  /\ \/ request' = request
     \/ \E w \in Workers : \/ ClaimRepair(w) \/ PublishPlan(w) \/ PublishClarification(w)
                           \/ FailRepair(w) \/ \E s \in Shots : SelectShot(w, s)
     \/ \E j \in Jobs : Approve(j) \/ Reject(j) \/ Retry(j) \/ Answer(j)
  /\ opened' = opened \/ (\E w \in Workers : Release(w)) \/ \E j \in Jobs : Reject(j) \/ Retry(j)
  /\ \/ master' = master \/ \E w \in Workers : StoreMaster(w)
     \/ \E j \in Jobs : Approve(j) \/ Reject(j) \/ Retry(j)
  /\ \/ UNCHANGED lane
     \/ \E w \in Workers : \/ \E j \in Jobs : ClaimJob(w, j)
                           \/ ClaimNone(w) \/ ClaimCue(w) \/ StartGenerating(w)
                           \/ \E s \in Shots : DeclareCue(w, s)
                           \/ CompleteCue(w) \/ FailCue(w) \/ HandOver(w) \/ ClaimRepair(w)
                           \/ PublishPlan(w) \/ FailRepair(w) \/ FailJob(w) \/ Release(w)
     \/ \E j \in Jobs : JobLeaseLapses(j) \/ Approve(j) \/ Reject(j) \/ Retry(j)
  /\ \/ UNCHANGED run
     \/ \E w \in Workers : ReportReview(w) \/ ClaimRepair(w) \/ FailRepair(w)
     \/ \E j \in Jobs : Approve(j)
  /\ \/ UNCHANGED planner
     \/ \E w \in Workers : \/ ClaimRepair(w) \/ PublishPlan(w) \/ PublishClarification(w)
                           \/ FailRepair(w)
     \/ \E j \in Jobs : PlannerLeaseLapses(j)
  /\ rounds' = rounds \/ (\E w \in Workers : PublishClarification(w)) \/ \E j \in Jobs : Reject(j)
  /\ UNCHANGED review \/ ReviewSource \/ \E j \in Jobs : DecideCulture(j)

LEMMA WorkerFrames == ASSUME ProductionNext, UNCHANGED review PROVE Writes
<1> USE DEF Writes, lane, media, sound, repair
<1>1. ASSUME NEW w \in Workers, NEW c \in Jobs, ClaimJob(w, c) PROVE Writes
  BY <1>1 DEF ClaimJob
<1>2. ASSUME NEW w \in Workers, ClaimNone(w) PROVE Writes
  BY <1>2 DEF ClaimNone
<1>3. ASSUME NEW w \in Workers, ClaimCue(w) PROVE Writes
  BY <1>3 DEF ClaimCue
<1>4. ASSUME NEW w \in Workers, NEW s \in Shots, PollFrame(w, s) PROVE Writes
  BY <1>4 DEF PollFrame
<1>5. ASSUME NEW w \in Workers, NEW s \in Shots, SubmitFrame(w, s) PROVE Writes
  BY <1>5 DEF SubmitFrame
<1>6. ASSUME NEW w \in Workers, NEW s \in Shots, SubmitClip(w, s) PROVE Writes
  BY <1>6 DEF SubmitClip
<1>7. ASSUME NEW w \in Workers, StartGenerating(w) PROVE Writes
  BY <1>7 DEF StartGenerating
<1>8. ASSUME NEW w \in Workers, NEW s \in Shots, PollClip(w, s) PROVE Writes
  BY <1>8 DEF PollClip
<1>9. ASSUME NEW w \in Workers, NEW s \in Shots, SelectShot(w, s) PROVE Writes
  BY <1>9 DEF SelectShot
<1>10. ASSUME NEW w \in Workers, NEW s \in Shots, DeclareCue(w, s) PROVE Writes
  BY <1>10 DEF DeclareCue
<1>11. ASSUME NEW w \in Workers, ClipsReady(w) PROVE Writes
  BY <1>11 DEF ClipsReady
<1>12. ASSUME NEW w \in Workers, CallSoundProvider(w) PROVE Writes
  BY <1>12 DEF CallSoundProvider
<1>13. ASSUME NEW w \in Workers, CompleteCue(w) PROVE Writes
  BY <1>13 DEF CompleteCue
<1>14. ASSUME NEW w \in Workers, FailCue(w) PROVE Writes
  BY <1>14 DEF FailCue
<1>15. ASSUME NEW w \in Workers, RenderMaster(w) PROVE Writes
  BY <1>15 DEF RenderMaster
<1>16. ASSUME NEW w \in Workers, StoreMaster(w) PROVE Writes
  BY <1>16 DEF StoreMaster
<1>17. ASSUME NEW w \in Workers, HandOver(w) PROVE Writes
  BY <1>17 DEF HandOver
<1>18. ASSUME NEW w \in Workers, ReportReview(w) PROVE Writes
  BY <1>18 DEF ReportReview
<1>19. ASSUME NEW w \in Workers, ClaimRepair(w) PROVE Writes
  BY <1>19 DEF ClaimRepair
<1>20. ASSUME NEW w \in Workers, PublishPlan(w) PROVE Writes
  BY <1>20 DEF PublishPlan
<1>21. ASSUME NEW w \in Workers, PublishClarification(w) PROVE Writes
  BY <1>21 DEF PublishClarification
<1>22. ASSUME NEW w \in Workers, FailRepair(w) PROVE Writes
  BY <1>22 DEF FailRepair
<1>23. ASSUME NEW w \in Workers, Stops(w) PROVE Writes
  BY <1>23 DEF Stops
<1>24. ASSUME NEW w \in Workers, Throws(w) PROVE Writes
  BY <1>24 DEF Throws
<1>25. ASSUME NEW w \in Workers, FailJob(w) PROVE Writes
  BY <1>25 DEF FailJob
<1>26. ASSUME NEW w \in Workers, Release(w) PROVE Writes
  BY <1>26 DEF Release
<1>27. ASSUME NEW w \in Workers, Dies(w) PROVE Writes
  BY <1>27 DEF Dies
<1>28. ASSUME NEW j \in Jobs, JobLeaseLapses(j) PROVE Writes
  BY <1>28 DEF JobLeaseLapses
<1>29. ASSUME NEW j \in Jobs, PlannerLeaseLapses(j) PROVE Writes
  BY <1>29 DEF PlannerLeaseLapses
<1>30. ASSUME NEW j \in Jobs, NEW s \in Shots, CueLeaseLapses(j, s) PROVE Writes
  BY <1>30 DEF CueLeaseLapses
<1> QED BY <1>1, <1>2, <1>3, <1>4, <1>5, <1>6, <1>7, <1>8, <1>9, <1>10, <1>11, <1>12,
           <1>13, <1>14, <1>15, <1>16, <1>17, <1>18, <1>19, <1>20, <1>21, <1>22, <1>23,
           <1>24, <1>25, <1>26, <1>27, <1>28, <1>29, <1>30
        DEF ProductionNext, Steps, Submits, Generates, Sounds, Renders, Plans, Clock

LEMMA Frames == ASSUME Next PROVE Writes
<1> USE DEF Writes, lane, media, sound, repair, review, vars
<1>1. CASE ReviewSource
  BY <1>1 DEF ReviewSource
<1>2. ASSUME NEW j \in Jobs, DecideCulture(j) PROVE Writes
  BY <1>2 DEF DecideCulture
<1>3. ASSUME NEW j \in Jobs, Approve(j) PROVE Writes
  BY <1>3 DEF Approve
<1>4. ASSUME NEW j \in Jobs, Reject(j) PROVE Writes
  BY <1>4 DEF Reject
<1>5. ASSUME NEW j \in Jobs, Retry(j) PROVE Writes
  BY <1>5 DEF Retry
<1>6. ASSUME NEW j \in Jobs, Answer(j) PROVE Writes
  BY <1>6 DEF Answer
<1> QED BY <1>1, <1>2, <1>3, <1>4, <1>5, <1>6, WorkerFrames DEF Next

-----------------------------------------------------------------------------
(* What a step does to the ticks.                                           *)

\* The tick of w is given job c.
Begins(w, c) ==
  /\ tick' \in [Workers -> Ticks]
  /\ \A v \in Workers \ {w} : tick'[v] = tick[v]
  /\ tick[w].at = "idle" /\ tick'[w].at = "work" /\ tick'[w].job = c
  /\ tick'[w].saw = job[c] /\ tick'[w].nth = attempt[c]

\* The tick of w takes up shot s of job j, at p.
Takes(w, p, j, s) ==
  /\ tick' \in [Workers -> Ticks]
  /\ \A v \in Workers \ {w} : tick'[v] = tick[v]
  /\ tick[w].at = "work" /\ tick'[w].at = p /\ tick'[w].job = tick[w].job
  /\ tick'[w].saw = tick[w].saw /\ tick'[w].nth = tick[w].nth
  /\ tick'[w].about = j /\ tick'[w].shot = s

Frees(w) ==
  /\ tick' \in [Workers -> Ticks]
  /\ \A v \in Workers \ {w} : tick'[v] = tick[v]
  /\ tick'[w].at = "idle"

\* The attempt of the tick has its clips.
CuesDue(w) ==
  \/ AllSelected(Mine(w), Nth(w))
  \/ Nth(w) = 1 /\ \A s \in Shots : clip[Mine(w)][1][s] = "complete"

\* The tick takes up a cue that was offered and is claimed now.
Buys(w, j, s) ==
  /\ Takes(w, "calling", j, s) /\ job'[j] = "sound_designing"
  /\ cue[j][attempt[j]][s] = "prepared" /\ cue'[j][attempt[j]][s] = "claimed"

TickMoves(w) ==
  \/ Frees(w)
  \/ \E c \in Jobs : Begins(w, c) /\ ClaimJob(w, c)
  \/ ~At(w, "idle") /\ \E p \in {"leaves", "throws", "reporting"} : Moves(w, p)
  \/ Moves(w, "cues") /\ At(w, "work") /\ CuesDue(w) /\ UNCHANGED <<clip, chosen>>
  \/ \E j \in Jobs, s \in Shots : Buys(w, j, s)
  \/ Moves(w, "answer") /\ CallSoundProvider(w)
  \/ Moves(w, "rendered") /\ RenderMaster(w)
  \/ Moves(w, "stored") /\ StoreMaster(w)
  \/ \E j \in Jobs : Takes(w, "planning", j, tick[w].shot)

LEMMA ClaimJobTick ==
  ASSUME Rows, NEW w \in Workers, NEW c \in Jobs, ClaimJob(w, c)
  PROVE  Begins(w, c)
<1> DEFINE t == [Idle EXCEPT !.at = "work", !.job = c, !.saw = job[c], !.nth = attempt[c],
                             !.about = c]
<1>1. t \in Ticks
  BY IdleType DEF ClaimJob, Rows, Ticks, Places
<1>2. t.at = "work" /\ t.job = c /\ t.saw = job[c] /\ t.nth = attempt[c]
  BY DEF Idle
<1>3. tick' = [tick EXCEPT ![w] = t] /\ tick[w].at = "idle"
  BY DEF ClaimJob, At
<1> HIDE DEF t
<1> QED BY <1>1, <1>2, <1>3 DEF Rows, Begins

LEMMA TakesTick ==
  ASSUME Rows, NEW w \in Workers, NEW p \in Places, NEW j \in Jobs, NEW s \in Shots,
         tick[w].at = "work",
         tick' = [tick EXCEPT ![w].at = p, ![w].about = j, ![w].shot = s]
  PROVE  Takes(w, p, j, s)
<1> DEFINE f == [tick EXCEPT ![w].at = p]
           g == [f EXCEPT ![w].about = j]
           h == [g EXCEPT ![w].shot = s]
<1>1. tick \in [Workers -> Ticks] /\ tick' = h
  BY DEF Rows
<1>2. /\ f \in [Workers -> Ticks] /\ \A v \in Workers \ {w} : f[v] = tick[v]
      /\ f[w].at = p /\ f[w].job = tick[w].job /\ f[w].saw = tick[w].saw
      /\ f[w].nth = tick[w].nth
  BY <1>1 DEF Ticks
<1> HIDE DEF f
<1>3. /\ g \in [Workers -> Ticks] /\ \A v \in Workers \ {w} : g[v] = f[v]
      /\ g[w].at = f[w].at /\ g[w].job = f[w].job /\ g[w].saw = f[w].saw
      /\ g[w].nth = f[w].nth /\ g[w].about = j
  BY <1>2 DEF Ticks
<1> HIDE DEF g
<1>4. /\ h \in [Workers -> Ticks] /\ \A v \in Workers \ {w} : h[v] = g[v]
      /\ h[w].at = g[w].at /\ h[w].job = g[w].job /\ h[w].saw = g[w].saw
      /\ h[w].nth = g[w].nth /\ h[w].about = g[w].about /\ h[w].shot = s
  BY <1>3 DEF Ticks
<1> HIDE DEF h
<1> QED BY <1>1, <1>2, <1>3, <1>4 DEF Takes

LEMMA PlansTick ==
  ASSUME Rows, NEW w \in Workers, NEW j \in Jobs, tick[w].at = "work",
         tick' = [tick EXCEPT ![w].at = "planning", ![w].about = j]
  PROVE  Takes(w, "planning", j, tick[w].shot)
<1> DEFINE f == [tick EXCEPT ![w].at = "planning"]
           g == [f EXCEPT ![w].about = j]
<1>1. tick \in [Workers -> Ticks] /\ tick' = g
  BY DEF Rows
<1>2. /\ f \in [Workers -> Ticks] /\ \A v \in Workers \ {w} : f[v] = tick[v]
      /\ f[w].at = "planning" /\ f[w].job = tick[w].job /\ f[w].saw = tick[w].saw
      /\ f[w].nth = tick[w].nth /\ f[w].shot = tick[w].shot
  BY <1>1 DEF Ticks, Places
<1> HIDE DEF f
<1>3. /\ g \in [Workers -> Ticks] /\ \A v \in Workers \ {w} : g[v] = f[v]
      /\ g[w].at = f[w].at /\ g[w].job = f[w].job /\ g[w].saw = f[w].saw
      /\ g[w].nth = f[w].nth /\ g[w].about = j /\ g[w].shot = f[w].shot
  BY <1>2 DEF Ticks
<1> HIDE DEF g
<1> QED BY <1>1, <1>2, <1>3 DEF Takes

\* A cue of the fleet.
LEMMA FleetCues ==
  ASSUME NEW c, NEW jobs, NEW p \in Cues(c, jobs)
  PROVE  /\ p[1] \in Jobs /\ p[2] \in Shots /\ p = <<p[1], p[2]>>
         /\ jobs[p[1]] = "sound_designing" /\ Current(p[1])[p[2]] = c
BY DEF Cues

\* What the sweep of the lapsed cues leaves of the jobs and of the cues.
JobsLeft(lost) ==
  [j \in Jobs |-> IF j \in {p[1] : p \in lost} THEN "failed" ELSE job[j]]
CuesLeft(lost) ==
  [j \in Jobs |-> [n \in Attempts |-> [s \in Shots |->
     IF <<j, s>> \in lost /\ n = attempt[j] THEN "failed" ELSE cue[j][n][s]]]]

LEMMA ClaimCueParts ==
  ASSUME NEW w \in Workers, ClaimCue(w)
  PROVE  \E lost \in Oldest(Cues("lapsed", job)) :
           /\ SetJobs(JobsLeft(lost))
           /\ \/ Goto(w, "leaves") /\ cue' = CuesLeft(lost)
              \/ \E p \in Cues("prepared", JobsLeft(lost)) :
                   /\ cue' = [CuesLeft(lost) EXCEPT ![p[1]][attempt[p[1]]][p[2]] = "claimed"]
                   /\ tick' = [tick EXCEPT ![w].at = "calling", ![w].about = p[1],
                                           ![w].shot = p[2]]
BY DEF ClaimCue, JobsLeft, CuesLeft

LEMMA DeadTick ==
  ASSUME Rows, NEW w \in Workers, Dead(w)
  PROVE  Frees(w)
BY IdleType DEF Dead, Rows, Frees, Idle

\* A cue that lapsed fails with its job; nothing else is swept.
Sweeps(j, n, s) ==
  /\ n = attempt[j] /\ cue[j][n][s] = "lapsed" /\ cue'[j][n][s] = "failed"
  /\ job[j] = "sound_designing" /\ job'[j] = "failed"

LEMMA ClaimCueSteps ==
  ASSUME Rows, NEW w \in Workers, ClaimCue(w)
  PROVE  /\ cue' \in PerShotOf(CueStates)
         /\ \A j \in Jobs : job'[j] = job[j] \/ (job[j] = "sound_designing" /\ job'[j] = "failed")
         /\ \E jobs : SetJobs(jobs)
         /\ \/ /\ Moves(w, "leaves")
               /\ \A j \in Jobs, n \in Attempts, s \in Shots :
                    cue'[j][n][s] = cue[j][n][s] \/ Sweeps(j, n, s)
            \/ \E j \in Jobs, s \in Shots :
                 /\ Buys(w, j, s)
                 /\ \A k \in Jobs, n \in Attempts, t \in Shots :
                      \/ k = j /\ n = attempt[j] /\ t = s
                      \/ cue'[k][n][t] = cue[k][n][t] \/ Sweeps(k, n, t)
<1>1. PICK lost \in Oldest(Cues("lapsed", job)) :
           /\ SetJobs(JobsLeft(lost))
           /\ \/ Goto(w, "leaves") /\ cue' = CuesLeft(lost)
              \/ \E p \in Cues("prepared", JobsLeft(lost)) :
                   /\ cue' = [CuesLeft(lost) EXCEPT ![p[1]][attempt[p[1]]][p[2]] = "claimed"]
                   /\ tick' = [tick EXCEPT ![w].at = "calling", ![w].about = p[1],
                                           ![w].shot = p[2]]
  BY ClaimCueParts
<1>2. lost \subseteq Cues("lapsed", job)
  BY DEF Oldest
<1>3. /\ job' = JobsLeft(lost) 
      /\ \A j \in Jobs, s \in Shots : <<j, s>> \in lost => job'[j] = "failed"
      /\ \A j \in Jobs : job'[j] = job[j] \/ (job[j] = "sound_designing" /\ job'[j] = "failed")
  <2>1. job' = JobsLeft(lost)
    BY <1>1 DEF SetJobs
  <2>2. ASSUME NEW j \in Jobs, NEW s \in Shots, <<j, s>> \in lost PROVE job'[j] = "failed"
    <3>1. j \in {p[1] : p \in lost}
      BY <2>2
    <3> QED BY <2>1, <3>1 DEF JobsLeft
  <2>3. ASSUME NEW j \in Jobs, job'[j] # job[j]
        PROVE  job[j] = "sound_designing" /\ job'[j] = "failed"
    <3>1. j \in {p[1] : p \in lost} /\ job'[j] = "failed"
      BY <2>1, <2>3 DEF JobsLeft
    <3>2. PICK p \in lost : j = p[1]
      BY <3>1
    <3> QED BY <1>2, <3>1, <3>2, FleetCues
  <2> QED BY <2>1, <2>2, <2>3
<1>4. /\ CuesLeft(lost) \in PerShotOf(CueStates)
      /\ \A j \in Jobs, n \in Attempts, s \in Shots :
           CuesLeft(lost)[j][n][s] =
             IF <<j, s>> \in lost /\ n = attempt[j] THEN "failed" ELSE cue[j][n][s]
  BY DEF CuesLeft, Rows, PerShotOf, CueStates
<1>5. \A j \in Jobs, s \in Shots : <<j, s>> \in lost =>
        job[j] = "sound_designing" /\ cue[j][attempt[j]][s] = "lapsed"
  BY <1>2 DEF Cues, Current
<1>6. CASE Goto(w, "leaves") /\ cue' = CuesLeft(lost)
  <2>1. Moves(w, "leaves")
    BY <1>6, GotoMoves DEF Places
  <2>2. \A j \in Jobs, n \in Attempts, s \in Shots :
          cue'[j][n][s] = cue[j][n][s] \/ Sweeps(j, n, s)
    <3> SUFFICES ASSUME NEW j \in Jobs, NEW n \in Attempts, NEW s \in Shots,
                        cue'[j][n][s] # cue[j][n][s]
                 PROVE  Sweeps(j, n, s)
      OBVIOUS
    <3>1. <<j, s>> \in lost /\ n = attempt[j] /\ cue'[j][n][s] = "failed"
      BY <1>4, <1>6
    <3> QED BY <1>3, <1>5, <3>1 DEF Sweeps
  <2> QED BY <1>1, <1>3, <1>4, <1>6, <2>1, <2>2
<1>7. ASSUME NEW p \in Cues("prepared", JobsLeft(lost)),
             cue' = [CuesLeft(lost) EXCEPT ![p[1]][attempt[p[1]]][p[2]] = "claimed"],
             tick' = [tick EXCEPT ![w].at = "calling", ![w].about = p[1], ![w].shot = p[2]]
      PROVE  /\ cue' \in PerShotOf(CueStates)
             /\ Buys(w, p[1], p[2])
             /\ \A k \in Jobs, n \in Attempts, t \in Shots :
                  \/ k = p[1] /\ n = attempt[p[1]] /\ t = p[2]
                  \/ cue'[k][n][t] = cue[k][n][t] \/ Sweeps(k, n, t)
  <2> DEFINE j == p[1]
             s == p[2]
             f == CuesLeft(lost)
  <2>1. j \in Jobs /\ s \in Shots /\ job'[j] = "sound_designing"
        /\ cue[j][attempt[j]][s] = "prepared"
    BY <1>3, FleetCues DEF Current
  <2>2. attempt[j] \in Attempts
    BY <2>1 DEF Rows
  <2>3. tick[w].at = "work"
    BY DEF ClaimCue, Handling, At
  <2>4. Takes(w, "calling", j, s)
    BY <1>7, <2>1, <2>3, TakesTick DEF Places
  <2> HIDE DEF j, s
  <2>5. cue' = [f EXCEPT ![j][attempt[j]][s] = "claimed"]
    BY <1>7 DEF j, s
  <2> HIDE DEF f
  <2>6. f \in PerShotOf(CueStates) /\ "claimed" \in CueStates
    BY <1>4 DEF f, CueStates
  <2>7. /\ cue' \in PerShotOf(CueStates)
        /\ \A k \in Jobs, m \in Attempts, t \in Shots :
              cue'[k][m][t] = IF k = j /\ m = attempt[j] /\ t = s THEN "claimed" ELSE f[k][m][t]
    BY <2>1, <2>2, <2>5, <2>6 DEF PerShotOf
  <2>8. Buys(w, j, s)
    BY <2>1, <2>2, <2>4, <2>7 DEF Buys
  <2>9. \A k \in Jobs, n \in Attempts, t \in Shots :
          \/ k = j /\ n = attempt[j] /\ t = s
          \/ cue'[k][n][t] = cue[k][n][t] \/ Sweeps(k, n, t)
    <3> SUFFICES ASSUME NEW k \in Jobs, NEW n \in Attempts, NEW t \in Shots,
                        ~(k = j /\ n = attempt[j] /\ t = s), cue'[k][n][t] # cue[k][n][t]
                 PROVE  Sweeps(k, n, t)
      OBVIOUS
    <3>1. cue'[k][n][t] = f[k][n][t]
      BY <2>7
    <3>2. <<k, t>> \in lost /\ n = attempt[k] /\ cue'[k][n][t] = "failed"
      BY <1>4, <3>1 DEF f
    <3> QED BY <1>3, <1>5, <3>2 DEF Sweeps
  <2> QED BY <2>7, <2>8, <2>9 DEF j, s
<1>8. CASE \E p \in Cues("prepared", JobsLeft(lost)) :
             /\ cue' = [CuesLeft(lost) EXCEPT ![p[1]][attempt[p[1]]][p[2]] = "claimed"]
             /\ tick' = [tick EXCEPT ![w].at = "calling", ![w].about = p[1], ![w].shot = p[2]]
  <2>1. PICK p \in Cues("prepared", JobsLeft(lost)) :
             /\ cue' = [CuesLeft(lost) EXCEPT ![p[1]][attempt[p[1]]][p[2]] = "claimed"]
             /\ tick' = [tick EXCEPT ![w].at = "calling", ![w].about = p[1], ![w].shot = p[2]]
    BY <1>8, Zenon
  <2>2. p[1] \in Jobs /\ p[2] \in Shots
    BY FleetCues
  <2>3. /\ cue' \in PerShotOf(CueStates)
        /\ Buys(w, p[1], p[2])
        /\ \A k \in Jobs, n \in Attempts, t \in Shots :
             \/ k = p[1] /\ n = attempt[p[1]] /\ t = p[2]
             \/ cue'[k][n][t] = cue[k][n][t] \/ Sweeps(k, n, t)
    BY <1>7, <2>1, Zenon
  <2>4. \E j \in Jobs, s \in Shots :
          /\ Buys(w, j, s)
          /\ \A k \in Jobs, n \in Attempts, t \in Shots :
               \/ k = j /\ n = attempt[j] /\ t = s
               \/ cue'[k][n][t] = cue[k][n][t] \/ Sweeps(k, n, t)
    BY <2>2, <2>3, Zenon
  <2> QED BY <1>1, <1>3, <2>3, <2>4, Zenon
<1> QED BY <1>1, <1>6, <1>8

LEMMA WorkerTicks ==
  ASSUME Rows, ProductionNext
  PROVE  tick' = tick \/ \E w \in Workers : TickMoves(w)
<1> DEFINE Goal == tick' = tick \/ \E w \in Workers : TickMoves(w)
<1> USE GotoMoves DEF Goal, TickMoves, At, Handling, Places
<1>1. ASSUME NEW w \in Workers, NEW c \in Jobs, ClaimJob(w, c) PROVE Goal
  BY <1>1, ClaimJobTick
<1>2. ASSUME NEW w \in Workers, ClaimNone(w) PROVE Goal
  BY <1>2 DEF ClaimNone
<1>3. ASSUME NEW w \in Workers, ClaimCue(w) PROVE Goal
  <2>1. CASE Moves(w, "leaves")
    BY <1>3, <2>1 DEF ClaimCue
  <2> QED BY <1>3, <2>1, ClaimCueSteps
<1>4. ASSUME NEW w \in Workers, NEW s \in Shots, PollFrame(w, s) PROVE Goal
  BY <1>4 DEF PollFrame, media
<1>5. ASSUME NEW w \in Workers, NEW s \in Shots, SubmitFrame(w, s) PROVE Goal
  BY <1>5 DEF SubmitFrame
<1>6. ASSUME NEW w \in Workers, NEW s \in Shots, SubmitClip(w, s) PROVE Goal
  BY <1>6 DEF SubmitClip
<1>7. ASSUME NEW w \in Workers, StartGenerating(w) PROVE Goal
  BY <1>7 DEF StartGenerating, CuesDue, media
<1>8. ASSUME NEW w \in Workers, NEW s \in Shots, PollClip(w, s) PROVE Goal
  BY <1>8 DEF PollClip, media
<1>9. ASSUME NEW w \in Workers, NEW s \in Shots, SelectShot(w, s) PROVE Goal
  BY <1>9 DEF SelectShot
<1>10. ASSUME NEW w \in Workers, NEW s \in Shots, DeclareCue(w, s) PROVE Goal
  BY <1>10 DEF DeclareCue
<1>11. ASSUME NEW w \in Workers, ClipsReady(w) PROVE Goal
  BY <1>11 DEF ClipsReady, CuesDue, media
<1>12. ASSUME NEW w \in Workers, CallSoundProvider(w) PROVE Goal
  BY <1>12 DEF CallSoundProvider
<1>13. ASSUME NEW w \in Workers, CompleteCue(w) PROVE Goal
  BY <1>13 DEF CompleteCue
<1>14. ASSUME NEW w \in Workers, FailCue(w) PROVE Goal
  BY <1>14 DEF FailCue
<1>15. ASSUME NEW w \in Workers, RenderMaster(w) PROVE Goal
  BY <1>15 DEF RenderMaster
<1>16. ASSUME NEW w \in Workers, StoreMaster(w) PROVE Goal
  BY <1>16 DEF StoreMaster
<1>17. ASSUME NEW w \in Workers, HandOver(w) PROVE Goal
  BY <1>17 DEF HandOver
<1>18. ASSUME NEW w \in Workers, ReportReview(w) PROVE Goal
  BY <1>18 DEF ReportReview
<1>19. ASSUME NEW w \in Workers, ClaimRepair(w) PROVE Goal
  <2>1. CASE Goto(w, "leaves")
    BY <1>19, <2>1 DEF ClaimRepair
  <2>2. CASE ~Goto(w, "leaves")
    <3>1. \E j \in Jobs :
            tick' = [tick EXCEPT ![w].at = "planning", ![w].about = j]
      BY <1>19, <2>2 DEF ClaimRepair, Plannable
    <3> QED BY <1>19, <3>1, PlansTick DEF ClaimRepair
  <2> QED BY <2>1, <2>2
<1>20. ASSUME NEW w \in Workers, PublishPlan(w) PROVE Goal
  BY <1>20 DEF PublishPlan, Planning
<1>21. ASSUME NEW w \in Workers, PublishClarification(w) PROVE Goal
  BY <1>21 DEF PublishClarification, Planning
<1>22. ASSUME NEW w \in Workers, FailRepair(w) PROVE Goal
  BY <1>22 DEF FailRepair
<1>23. ASSUME NEW w \in Workers, Stops(w) PROVE Goal
  BY <1>23 DEF Stops
<1>24. ASSUME NEW w \in Workers, Throws(w) PROVE Goal
  BY <1>24 DEF Throws
<1>25. ASSUME NEW w \in Workers, FailJob(w) PROVE Goal
  BY <1>25 DEF FailJob
<1>26. ASSUME NEW w \in Workers, Release(w) PROVE Goal
  BY <1>26, DeadTick DEF Release
<1>27. ASSUME NEW w \in Workers, Dies(w) PROVE Goal
  BY <1>27, DeadTick DEF Dies
<1>28. ASSUME NEW j \in Jobs, JobLeaseLapses(j) PROVE Goal
  BY <1>28 DEF JobLeaseLapses
<1>29. ASSUME NEW j \in Jobs, PlannerLeaseLapses(j) PROVE Goal
  BY <1>29 DEF PlannerLeaseLapses
<1>30. ASSUME NEW j \in Jobs, NEW s \in Shots, CueLeaseLapses(j, s) PROVE Goal
  BY <1>30 DEF CueLeaseLapses
<1> QED BY <1>1, <1>2, <1>3, <1>4, <1>5, <1>6, <1>7, <1>8, <1>9, <1>10, <1>11, <1>12,
           <1>13, <1>14, <1>15, <1>16, <1>17, <1>18, <1>19, <1>20, <1>21, <1>22, <1>23,
           <1>24, <1>25, <1>26, <1>27, <1>28, <1>29, <1>30
        DEF ProductionNext, Steps, Submits, Generates, Sounds, Renders, Plans, Clock

LEMMA TickSteps ==
  ASSUME Rows, Next
  PROVE  tick' = tick \/ \E w \in Workers : TickMoves(w)
BY WorkerTicks
   DEF Next, ReviewSource, DecideCulture, Approve, Reject, Retry, Answer, vars

-----------------------------------------------------------------------------
(* What a step does to each variable.                                       *)

\* An attempt is never taken back; a retry opens the next one of its job.
LEMMA AttemptSteps ==
  ASSUME Rows, Next
  PROVE  /\ attempt' \in [Jobs -> Attempts]
         /\ \A j \in Jobs : \/ attempt'[j] = attempt[j]
                            \/ Retry(j) /\ attempt'[j] = attempt[j] + 1
<1>1. ASSUME NEW j \in Jobs, Retry(j)
      PROVE  attempt' = [attempt EXCEPT ![j] = @ + 1] /\ attempt[j] + 1 \in Attempts
  <2>1. attempt' = [attempt EXCEPT ![j] = @ + 1] /\ attempt[j] < MaxAttempts
    BY <1>1 DEF Retry, Retryable
  <2>2. attempt[j] \in 1..MaxAttempts /\ MaxAttempts \in Nat
    BY ProductionAssumption DEF Rows, Attempts
  <2> QED BY <2>1, <2>2 DEF Attempts
<1> QED BY <1>1, Frames DEF Writes, Rows

\* A frame or a clip that is complete stays.
LEMMA MediaSteps ==
  ASSUME Rows, TickInv, Next
  PROVE  /\ frame' \in PerShotOf(MediaStates) /\ clip' \in PerShotOf(MediaStates)
         /\ \A j \in Jobs, n \in Attempts, s \in Shots :
              clip[j][n][s] = "complete" => clip'[j][n][s] = "complete"
<1> USE DEF Rows, PerShotOf, MediaStates
<1>1. ASSUME NEW w \in Workers, NEW s \in Shots, PollFrame(w, s) \/ SubmitFrame(w, s)
      PROVE  frame' \in PerShotOf(MediaStates)
  <2> DEFINE j == Mine(w)
             n == Nth(w)
  <2>1. n \in Attempts /\ j \in Jobs
    BY <1>1, TickTypes DEF PollFrame, SubmitFrame, Handling, At, TickInv
  <2>2. \/ frame' = frame
        \/ \E x \in {"submitted", "complete", "failed"} :
             frame' = [frame EXCEPT ![j][n][s] = x]
    BY <1>1 DEF PollFrame, SubmitFrame
  <2> HIDE DEF j, n
  <2>3. ASSUME NEW x \in MediaStates, frame' = [frame EXCEPT ![j][n][s] = x]
        PROVE  frame' \in PerShotOf(MediaStates)
    BY <2>1, <2>3
  <2> QED BY <2>2, <2>3
<1>2. ASSUME NEW w \in Workers, NEW s \in Shots, PollClip(w, s) \/ SubmitClip(w, s)
      PROVE  /\ clip' \in PerShotOf(MediaStates)
             /\ \A j \in Jobs, n \in Attempts, t \in Shots :
                  clip[j][n][t] = "complete" => clip'[j][n][t] = "complete"
  <2>1. Nth(w) \in Attempts /\ Mine(w) \in Jobs
    BY <1>2, TickTypes DEF PollClip, SubmitClip, Handling, At, TickInv
  <2>2. /\ clip[Mine(w)][Nth(w)][s] # "complete"
        /\ \E x \in {"submitted", "complete", "failed"} :
             clip' = [clip EXCEPT ![Mine(w)][Nth(w)][s] = x]
    BY <1>2 DEF PollClip, SubmitClip
  <2> QED BY <2>1, <2>2
<1> QED BY <1>1, <1>2, Frames DEF Writes

\* Shot s of attempt n of job j is given its clip.
Selects(j, n, s) ==
  /\ n > 1 /\ n <= attempt[j] /\ request[j] \in {"planned", "executing"}
  /\ chosen[j][n][s] = 0 /\ Selectable(j, n, s) # 0 /\ chosen'[j][n][s] = Selectable(j, n, s)
  /\ UNCHANGED <<clip, plan, attempt, job>>

\* The selection of a shot is made once.
LEMMA ChosenSteps ==
  ASSUME Rows, TickInv, Next
  PROVE  /\ chosen' \in PerShotOf(Attempts \cup {0})
         /\ \A j \in Jobs, n \in Attempts, s \in Shots :
              chosen'[j][n][s] = chosen[j][n][s] \/ Selects(j, n, s)
<1>1. ASSUME NEW w \in Workers, NEW s \in Shots, SelectShot(w, s)
      PROVE  /\ chosen' \in PerShotOf(Attempts \cup {0})
             /\ \A k \in Jobs, m \in Attempts, t \in Shots :
                  chosen'[k][m][t] = chosen[k][m][t] \/ Selects(k, m, t)
  <2> DEFINE j == Mine(w)
             n == Nth(w)
  <2>1. j \in Jobs /\ n \in Attempts /\ n <= attempt[j]
    BY <1>1, TickTypes DEF SelectShot, At, TickInv
  <2>2. Selectable(j, n, s) \in Attempts
    <3>1. n > 1 /\ Selectable(j, n, s) # 0
      BY <1>1 DEF SelectShot
    <3>2. n - 1 \in Attempts
      BY <2>1, <3>1, ProductionAssumption DEF Attempts
    <3>3. chosen[j][n - 1][s] \in Attempts \cup {0}
      BY <2>1, <3>2 DEF Rows, PerShotOf
    <3> QED BY <2>1, <3>1, <3>3 DEF Selectable
  <2>3. /\ chosen[j][n][s] = 0 /\ Selectable(j, n, s) # 0 /\ n > 1
        /\ request[j] \in {"planned", "executing"}
        /\ UNCHANGED <<clip, plan, attempt, job>>
        /\ chosen' = [chosen EXCEPT ![j][n][s] = Selectable(j, n, s)]
    BY <1>1 DEF SelectShot, lane, media
  <2> HIDE DEF j, n
  <2>4. /\ chosen' \in PerShotOf(Attempts \cup {0})
        /\ \A k \in Jobs, m \in Attempts, t \in Shots :
             chosen'[k][m][t] = IF k = j /\ m = n /\ t = s THEN Selectable(j, n, s)
                                ELSE chosen[k][m][t]
    BY <2>1, <2>2, <2>3 DEF Rows, PerShotOf
  <2> QED BY <2>1, <2>3, <2>4 DEF Selects
<1> QED BY <1>1, Frames DEF Writes, Rows

\* A plan is of the newest attempt of a job that is being planned.
LEMMA PlanSteps ==
  ASSUME Rows, TickInv, Next
  PROVE  /\ plan' \in PerShotOf(PlanActions)
         /\ \A j \in Jobs, n \in Attempts :
              \/ plan'[j][n] = plan[j][n]
              \/ n = attempt[j] /\ job[j] = "repair_planning" /\ job'[j] = "queued"
<1>1. ASSUME NEW w \in Workers, PublishPlan(w)
      PROVE  /\ plan' \in PerShotOf(PlanActions)
             /\ \A k \in Jobs, n \in Attempts :
                  \/ plan'[k][n] = plan[k][n]
                  \/ n = attempt[k] /\ job[k] = "repair_planning" /\ job'[k] = "queued"
  <2> DEFINE j == tick[w].about
  <2>1. j \in Jobs /\ job[j] = "repair_planning"
    BY <1>1 DEF PublishPlan, Planning, At, TickInv
  <2>2. job'[j] = "queued"
    BY <1>1, <2>1 DEF PublishPlan, Becomes, SetJobs, Rows
  <2>3. \E p \in [Shots -> PlanActions] : plan' = [plan EXCEPT ![j][attempt[j]] = p]
    BY <1>1 DEF PublishPlan
  <2> HIDE DEF j
  <2> QED BY <2>1, <2>2, <2>3 DEF Rows, PerShotOf
<1> QED BY <1>1, Frames DEF Writes, Rows

\* A sound is bought by the tick that is about to call.
CallsFor(w, j, s) ==
  /\ Moves(w, "answer") /\ CallSoundProvider(w)
  /\ At(w, "calling") /\ tick[w].about = j /\ tick[w].shot = s

LEMMA BoughtSteps ==
  ASSUME Rows, TickInv, Next
  PROVE  /\ bought' \in PerShotOf(0..2)
         /\ \A j \in Jobs, n \in Attempts, s \in Shots :
              \/ bought'[j][n][s] = bought[j][n][s]
              \/ /\ n = attempt[j] /\ bought'[j][n][s] <= bought[j][n][s] + 1
                 /\ \E w \in Workers : CallsFor(w, j, s)
<1>1. ASSUME NEW w \in Workers, CallSoundProvider(w)
      PROVE  /\ bought' \in PerShotOf(0..2)
             /\ \A k \in Jobs, n \in Attempts, t \in Shots :
                  \/ bought'[k][n][t] = bought[k][n][t]
                  \/ /\ n = attempt[k] /\ bought'[k][n][t] <= bought[k][n][t] + 1
                     /\ CallsFor(w, k, t)
  <2> DEFINE j == tick[w].about
             s == tick[w].shot
             n == attempt[j]
             x == IF bought[j][n][s] < 2 THEN bought[j][n][s] + 1 ELSE bought[j][n][s]
  <2>1. j \in Jobs /\ s \in Shots /\ n \in Attempts
    BY <1>1, TickTypes DEF CallSoundProvider, At, TickInv, Rows
  <2>2. CallsFor(w, j, s)
    BY <1>1, GotoMoves DEF CallSoundProvider, CallsFor, Places
  <2>3. bought' = [bought EXCEPT ![j][n][s] = x]
    BY <1>1 DEF CallSoundProvider
  <2>4. bought[j][n][s] \in 0..2
    BY <2>1 DEF Rows, PerShotOf
  <2>5. x \in 0..2 /\ x <= bought[j][n][s] + 1
    BY <2>4
  <2> HIDE DEF j, s, n, x
  <2>6. /\ bought' \in PerShotOf(0..2)
        /\ \A k \in Jobs, m \in Attempts, t \in Shots :
             bought'[k][m][t] = IF k = j /\ m = n /\ t = s THEN x ELSE bought[k][m][t]
    BY <2>1, <2>3, <2>5 DEF Rows, PerShotOf
  <2>7. n = attempt[j]
    BY DEF n
  <2> QED BY <2>2, <2>5, <2>6, <2>7
<1> QED BY <1>1, Frames DEF Writes, Rows

\* Every cue of the newest attempt of j is complete after the step.
CuesDone(j) == \A s \in Shots : cue'[j][attempt[j]][s] = "complete"

\* How a job moves.
JobMoves(j) ==
  \/ job[j] \in Working /\ job'[j] = "failed"
  \/ job[j] = "queued" /\ job'[j] = "generating"
  \/ /\ job[j] \in {"generating", "sound_designing"} /\ job'[j] \in {"sound_designing", "rendering"}
     /\ job'[j] = "rendering" => CuesDone(j)
     /\ \E w \in Workers : At(w, "cues") /\ Mine(w) = j /\ Nth(w) = attempt[j]
  \/ job[j] = "sound_designing" /\ job'[j] = "rendering" /\ CuesDone(j)
  \/ job'[j] = "review_ready" /\ \E w \in Workers : At(w, "stored") /\ Holds(w) /\ Mine(w) = j
  \/ job[j] = "repair_planning" /\ job'[j] = "queued" /\ request'[j] = "planned"
  \/ Approve(j) /\ job[j] = "review_ready" /\ job'[j] = "export_ready"
  \/ Reject(j) /\ job[j] = "review_ready" /\ job'[j] = "needs_repair"
  \/ Retry(j) /\ job[j] = "needs_repair" /\ job'[j] = "repair_planning"

LEMMA BecomesMoves ==
  ASSUME Rows, NEW k \in Jobs, NEW s \in JobStates, Becomes(k, s)
  PROVE  /\ job' \in [Jobs -> JobStates] /\ job'[k] = s
         /\ \A j \in Jobs \ {k} : job'[j] = job[j]
BY DEF Rows, Becomes, SetJobs

LEMMA JobSteps ==
  ASSUME Rows, TickInv, Next
  PROVE  /\ job' \in [Jobs -> JobStates]
         /\ \A j \in Jobs : job'[j] = job[j] \/ JobMoves(j)
<1> DEFINE Goal == /\ job' \in [Jobs -> JobStates]
                   /\ \A j \in Jobs : job'[j] = job[j] \/ JobMoves(j)
<1> USE DEF JobMoves
<1>1. ASSUME NEW w \in Workers, (\E c \in Jobs : ClaimJob(w, c)) \/ ClaimNone(w) PROVE Goal
  <2>1. job' = [j \in Jobs |-> IF j \in Ambiguous THEN "failed" ELSE job[j]]
    BY <1>1 DEF ClaimJob, ClaimNone, FailAmbiguous
  <2>2. \A j \in Ambiguous : job[j] \in Working
    BY DEF Ambiguous, Working
  <2> QED BY <2>1, <2>2 DEF Rows, JobStates
<1>2. ASSUME NEW w \in Workers, ClaimCue(w) PROVE Goal
  <2>1. \A j \in Jobs : job'[j] = job[j] \/ (job[j] = "sound_designing" /\ job'[j] = "failed")
    BY <1>2, ClaimCueSteps
  <2>2. \E lost : job' = JobsLeft(lost)
    BY <1>2, ClaimCueParts, Zenon DEF SetJobs
  <2> QED BY <2>1, <2>2 DEF JobsLeft, Rows, JobStates, Working
<1>3. ASSUME NEW w \in Workers, StartGenerating(w) PROVE Goal
  <2>1. Mine(w) \in Jobs
    BY <1>3 DEF StartGenerating, Handling, At, TickInv
  <2>2. CASE job' = job
    BY <2>2 DEF Rows
  <2>3. CASE job' # job
    <3>1. job[Mine(w)] = "queued" /\ Becomes(Mine(w), "generating")
      BY <1>3, <2>3 DEF StartGenerating, lane
    <3> QED BY <2>1, <3>1, BecomesMoves DEF JobStates, Working
  <2> QED BY <2>2, <2>3
<1>4. ASSUME NEW w \in Workers, NEW s \in Shots, DeclareCue(w, s) PROVE Goal
  <2> DEFINE j == Mine(w)
             x == CuesDeclared(j, cue'[j][Nth(w)])
  <2>1. /\ j \in Jobs /\ Nth(w) = attempt[j] /\ At(w, "cues")
        /\ job[j] \in {"generating", "sound_designing"} /\ Becomes(j, x)
    BY <1>4 DEF DeclareCue, At, TickInv
  <2>2. /\ x \in {"rendering", "sound_designing", job[j]}
        /\ x = "rendering" => CuesDone(j)
    BY <2>1 DEF CuesDeclared, CuesDone
  <2> HIDE DEF x
  <2>3. x \in JobStates
    BY <2>1, <2>2 DEF JobStates, Working
  <2>4. job' \in [Jobs -> JobStates] /\ job'[j] = x /\ \A k \in Jobs \ {j} : job'[k] = job[k]
    BY <2>1, <2>3, BecomesMoves
  <2> QED BY <2>1, <2>2, <2>4
<1>5. ASSUME NEW w \in Workers, CompleteCue(w) PROVE Goal
  <2> DEFINE j == tick[w].about
             x == IF /\ job[j] = "sound_designing"
                     /\ \A t \in Shots : cue'[j][attempt[j]][t] = "complete"
                  THEN "rendering" ELSE job[j]
  <2>1. j \in Jobs /\ Becomes(j, x)
    BY <1>5 DEF CompleteCue, At, TickInv
  <2>2. x = job[j] \/ (x = "rendering" /\ job[j] = "sound_designing" /\ CuesDone(j))
    BY DEF CuesDone
  <2> HIDE DEF x
  <2>3. x \in JobStates
    BY <2>1, <2>2 DEF JobStates, Working, Rows
  <2>4. job' \in [Jobs -> JobStates] /\ job'[j] = x /\ \A k \in Jobs \ {j} : job'[k] = job[k]
    BY <2>1, <2>3, BecomesMoves
  <2> QED BY <2>1, <2>2, <2>4
<1>6. ASSUME NEW w \in Workers, FailCue(w) PROVE Goal
  <2>1. tick[w].about \in Jobs
    BY <1>6 DEF FailCue, At, TickInv
  <2>2. CASE job' = job
    BY <2>2 DEF Rows
  <2>3. CASE job' # job
    <3>1. job[tick[w].about] = "sound_designing" /\ Becomes(tick[w].about, "failed")
      BY <1>6, <2>3 DEF FailCue, lane
    <3> QED BY <2>1, <3>1, BecomesMoves DEF JobStates, Working
  <2> QED BY <2>2, <2>3
<1>7. ASSUME NEW w \in Workers, HandOver(w) PROVE Goal
  <2>1. Mine(w) \in Jobs /\ At(w, "stored")
    BY <1>7 DEF HandOver, At, TickInv
  <2>2. CASE job' = job
    BY <2>2 DEF Rows
  <2>3. CASE job' # job
    <3>1. Holds(w) /\ Becomes(Mine(w), "review_ready")
      BY <1>7, <2>3 DEF HandOver, lane
    <3> QED BY <2>1, <3>1, BecomesMoves DEF JobStates
  <2> QED BY <2>2, <2>3
<1>8. ASSUME NEW w \in Workers, ClaimRepair(w) PROVE Goal
  <2>1. PICK lost \in Oldest({j \in Plannable(job) : planner[j] = "lapsed"}) :
          job' = [j \in Jobs |-> IF j \in lost THEN "failed" ELSE job[j]]
    BY <1>8 DEF ClaimRepair, SetJobs
  <2>2. \A j \in lost : job[j] = "repair_planning"
    BY DEF Oldest, Plannable
  <2> QED BY <2>1, <2>2 DEF Rows, JobStates, Working
<1>9. ASSUME NEW w \in Workers, PublishPlan(w) PROVE Goal
  <2>1. /\ tick[w].about \in Jobs /\ job[tick[w].about] = "repair_planning"
        /\ Becomes(tick[w].about, "queued")
    BY <1>9 DEF PublishPlan, Planning, At, TickInv
  <2>2. request'[tick[w].about] = "planned"
    BY <1>9, <2>1 DEF PublishPlan, Rows
  <2> QED BY <2>1, <2>2, BecomesMoves DEF JobStates, Working
<1>10. ASSUME NEW w \in Workers, FailRepair(w) PROVE Goal
  <2>1. tick[w].about \in Jobs
    BY <1>10 DEF FailRepair, At, TickInv
  <2>2. CASE job' = job
    BY <2>2 DEF Rows
  <2>3. CASE job' # job
    <3>1. job[tick[w].about] \in Working /\ Becomes(tick[w].about, "failed")
      BY <1>10, <2>3 DEF FailRepair, lane
    <3> QED BY <2>1, <3>1, BecomesMoves DEF JobStates
  <2> QED BY <2>2, <2>3
<1>11. ASSUME NEW w \in Workers, FailJob(w) PROVE Goal
  <2>1. Mine(w) \in Jobs /\ tick[w].saw \in Working
    BY <1>11, TickTypes DEF FailJob, At, TickInv
  <2>2. CASE job' = job
    BY <2>2 DEF Rows
  <2>3. CASE job' # job
    <3>1. job[Mine(w)] \in Working /\ Becomes(Mine(w), "failed")
      BY <1>11, <2>1, <2>3 DEF FailJob, lane
    <3> QED BY <2>1, <3>1, BecomesMoves DEF JobStates
  <2> QED BY <2>2, <2>3
<1>12. ASSUME NEW j \in Jobs, Approve(j) \/ Reject(j) \/ Retry(j) PROVE Goal
  <2>1. CASE Approve(j)
    <3>1. job[j] = "review_ready" /\ Becomes(j, "export_ready")
      BY <2>1 DEF Approve, Pending
    <3> QED BY <2>1, <3>1, BecomesMoves DEF JobStates
  <2>2. CASE Reject(j)
    <3>1. job[j] = "review_ready" /\ Becomes(j, "needs_repair")
      BY <2>2 DEF Reject, Pending
    <3> QED BY <2>2, <3>1, BecomesMoves DEF JobStates
  <2>3. CASE Retry(j)
    <3>1. job[j] = "needs_repair" /\ Becomes(j, "repair_planning")
      BY <2>3 DEF Retry
    <3> QED BY <2>3, <3>1, BecomesMoves DEF JobStates, Working
  <2> QED BY <1>12, <2>1, <2>2, <2>3
<1>13. CASE job' = job
  BY <1>13 DEF Rows
<1>14. \/ job' = job
       \/ \E w \in Workers : \/ \E j \in Jobs : ClaimJob(w, j)
                             \/ ClaimNone(w) \/ ClaimCue(w) \/ StartGenerating(w)
                             \/ \E s \in Shots : DeclareCue(w, s)
                             \/ CompleteCue(w) \/ FailCue(w) \/ HandOver(w) \/ ClaimRepair(w)
                             \/ PublishPlan(w) \/ FailRepair(w) \/ FailJob(w)
       \/ \E j \in Jobs : Approve(j) \/ Reject(j) \/ Retry(j)
  BY Frames DEF Writes, lane, Release, JobLeaseLapses
<1> QED BY <1>1, <1>2, <1>3, <1>4, <1>5, <1>6, <1>7, <1>8, <1>9, <1>10, <1>11, <1>12,
           <1>13, <1>14

\* A lease is cleared with the work, kept, or given.
LaneMoves ==
  /\ holder' \in [Jobs -> Workers \cup {Nobody}]
  /\ \A j \in Jobs :
       \/ holder'[j] = Nobody
       \/ holder'[j] = holder[j] /\ (job'[j] = job[j] \/ job'[j] \in Working)
       \/ \E w \in Workers : /\ ClaimJob(w, j) /\ holder'[j] = w
                             /\ job[j] \in Working /\ job'[j] = job[j]

LEMMA SetJobsLane ==
  ASSUME Rows, NEW new, SetJobs(new)
  PROVE  LaneMoves
BY DEF Rows, SetJobs, LaneMoves

LEMMA HolderSteps ==
  ASSUME Rows, TickInv, Next
  PROVE  LaneMoves
<1>1. CASE UNCHANGED lane
  BY <1>1 DEF lane, LaneMoves, Rows
<1>2. ASSUME NEW w \in Workers, NEW c \in Jobs, ClaimJob(w, c) PROVE LaneMoves
  <2>1. c \notin Ambiguous /\ job[c] \in Working
    BY <1>2 DEF ClaimJob
  <2>2. /\ job' = [j \in Jobs |-> IF j \in Ambiguous THEN "failed" ELSE job[j]]
        /\ holder' = [j \in Jobs |-> IF j \in Ambiguous THEN Nobody
                                     ELSE [holder EXCEPT ![c] = w][j]]
    BY <1>2 DEF ClaimJob, FailAmbiguous
  <2> QED BY <1>2, <2>1, <2>2 DEF LaneMoves, Rows
<1>3. ASSUME NEW w \in Workers, ClaimNone(w) PROVE LaneMoves
  <2>1. /\ job' = [j \in Jobs |-> IF j \in Ambiguous THEN "failed" ELSE job[j]]
        /\ holder' = [j \in Jobs |-> IF j \in Ambiguous THEN Nobody ELSE holder[j]]
    BY <1>3 DEF ClaimNone, FailAmbiguous
  <2> QED BY <2>1 DEF LaneMoves, Rows
<1>4. ASSUME NEW w \in Workers, Release(w) PROVE LaneMoves
  <2>1. job' = job /\ (holder' = holder \/ holder' = [holder EXCEPT ![Mine(w)] = Nobody])
    BY <1>4 DEF Release
  <2> QED BY <2>1 DEF LaneMoves, Rows
<1>5. ASSUME NEW j \in Jobs, JobLeaseLapses(j) PROVE LaneMoves
  BY <1>5 DEF JobLeaseLapses, LaneMoves, Rows
<1>6. ASSUME NEW w \in Workers, ClaimCue(w) \/ ClaimRepair(w) PROVE LaneMoves
  <2>1. CASE ClaimCue(w)
    BY <2>1, ClaimCueSteps, SetJobsLane, Zenon
  <2>2. CASE ClaimRepair(w)
    <3>1. \E lost : SetJobs([j \in Jobs |-> IF j \in lost THEN "failed" ELSE job[j]])
      BY <2>2 DEF ClaimRepair
    <3> QED BY <3>1, SetJobsLane, Zenon
  <2> QED BY <1>6, <2>1, <2>2
<1>7. ASSUME NEW w \in Workers,
             \/ StartGenerating(w) \/ \E s \in Shots : DeclareCue(w, s)
             \/ CompleteCue(w) \/ FailCue(w) \/ HandOver(w)
             \/ PublishPlan(w) \/ FailRepair(w) \/ FailJob(w)
      PROVE  LaneMoves
  <2>1. UNCHANGED lane \/ \E j, x : Becomes(j, x)
    BY <1>7, Zenon DEF StartGenerating, DeclareCue, CompleteCue, FailCue, HandOver, PublishPlan,
                       FailRepair, FailJob
  <2> QED BY <1>1, <2>1, SetJobsLane, Zenon DEF Becomes
<1>8. ASSUME NEW j \in Jobs, Approve(j) \/ Reject(j) \/ Retry(j) PROVE LaneMoves
  <2>1. \E x : Becomes(j, x)
    BY <1>8, Zenon DEF Approve, Reject, Retry
  <2> QED BY <2>1, SetJobsLane, Zenon DEF Becomes
<1> QED BY <1>1, <1>2, <1>3, <1>4, <1>5, <1>6, <1>7, <1>8, Frames DEF Writes

\* How a cue moves.
CueMoves(j, n, s) ==
  /\ n = attempt[j]
  /\ \/ cue[j][n][s] = "none" /\ cue'[j][n][s] \in {"prepared", "complete"}
     \/ Sweeps(j, n, s)
     \/ \E w \in Workers : Buys(w, j, s)
     \/ /\ cue[j][n][s] = "claimed" /\ cue'[j][n][s] \in {"complete", "failed"}
        /\ \E w \in Workers :
             /\ tick[w].at \in {"calling", "answer"} /\ tick[w].about = j /\ tick[w].shot = s
             /\ tick'[w].at \in {"leaves", "throws"}
     \/ cue[j][n][s] = "claimed" /\ cue'[j][n][s] = "lapsed"

LEMMA PutCue ==
  ASSUME Rows, NEW j \in Jobs, NEW n \in Attempts, NEW s \in Shots, NEW c \in CueStates,
         cue' = [cue EXCEPT ![j][n][s] = c], n = attempt[j],
         cue'[j][n][s] = c => CueMoves(j, n, s)
  PROVE  /\ cue' \in PerShotOf(CueStates)
         /\ \A k \in Jobs, m \in Attempts, t \in Shots :
              cue'[k][m][t] = cue[k][m][t] \/ CueMoves(k, m, t)
BY DEF Rows, PerShotOf

LEMMA CueSteps ==
  ASSUME Rows, TickInv, Next
  PROVE  /\ cue' \in PerShotOf(CueStates)
         /\ \A j \in Jobs, n \in Attempts, s \in Shots :
              cue'[j][n][s] = cue[j][n][s] \/ CueMoves(j, n, s)
<1> DEFINE Goal == /\ cue' \in PerShotOf(CueStates)
                   /\ \A j \in Jobs, n \in Attempts, s \in Shots :
                        cue'[j][n][s] = cue[j][n][s] \/ CueMoves(j, n, s)
<1>1. CASE cue' = cue
  BY <1>1 DEF Rows
<1>2. ASSUME NEW w \in Workers, ClaimCue(w) PROVE Goal
  <2>1. cue' \in PerShotOf(CueStates)
    BY <1>2, ClaimCueSteps
  <2>2. ASSUME NEW j \in Jobs, NEW n \in Attempts, NEW s \in Shots,
               cue'[j][n][s] # cue[j][n][s]
        PROVE  CueMoves(j, n, s)
    <3>1. Sweeps(j, n, s) \/ (n = attempt[j] /\ Buys(w, j, s))
      BY <1>2, <2>2, ClaimCueSteps, Zenon
    <3> QED BY <3>1 DEF CueMoves, Sweeps
  <2> QED BY <2>1, <2>2
<1>3. ASSUME NEW w \in Workers, NEW s \in Shots, DeclareCue(w, s) PROVE Goal
  <2> DEFINE j == Mine(w)
  <2>1. j \in Jobs /\ attempt[j] \in Attempts /\ cue[j][attempt[j]][s] = "none"
    BY <1>3, TickTypes DEF DeclareCue, At, TickInv
  <2>2. PICK c \in {"prepared", "complete"} : cue' = [cue EXCEPT ![j][attempt[j]][s] = c]
    BY <1>3 DEF DeclareCue
  <2>3. {"prepared", "complete"} \subseteq CueStates
    BY DEF CueStates
  <2>4. cue'[j][attempt[j]][s] = c => CueMoves(j, attempt[j], s)
    BY <2>1 DEF CueMoves
  <2> HIDE DEF j
  <2> QED BY <2>1, <2>2, <2>3, <2>4, PutCue
<1>4. ASSUME NEW w \in Workers, CompleteCue(w) \/ FailCue(w), cue' # cue PROVE Goal
  <2> DEFINE j == tick[w].about
             s == tick[w].shot
  <2>1. /\ tick[w].at \in {"calling", "answer"} /\ cue[j][attempt[j]][s] = "claimed"
        /\ \E c \in {"complete", "failed"} : cue' = [cue EXCEPT ![j][attempt[j]][s] = c]
    BY <1>4 DEF CompleteCue, FailCue, At, Claimed, Current, WithCue
  <2>2. j \in Jobs /\ s \in Shots /\ attempt[j] \in Attempts
    BY <2>1, TickTypes DEF TickInv, Rows
  <2>3. tick'[w].at \in {"leaves", "throws"}
    BY <1>4, GotoMoves DEF CompleteCue, FailCue, Moves, Places
  <2>4. {"complete", "failed"} \subseteq CueStates
    BY DEF CueStates
  <2>5. PICK c \in {"complete", "failed"} : cue' = [cue EXCEPT ![j][attempt[j]][s] = c]
    BY <2>1
  <2>6. cue'[j][attempt[j]][s] = c => CueMoves(j, attempt[j], s)
    BY <2>1, <2>3 DEF CueMoves
  <2> HIDE DEF j, s
  <2> QED BY <2>2, <2>4, <2>5, <2>6, PutCue
<1>5. ASSUME NEW j \in Jobs, NEW s \in Shots, CueLeaseLapses(j, s) PROVE Goal
  <2>1. /\ cue[j][attempt[j]][s] = "claimed" /\ attempt[j] \in Attempts
        /\ cue' = [cue EXCEPT ![j][attempt[j]][s] = "lapsed"] /\ "lapsed" \in CueStates
    BY <1>5 DEF CueLeaseLapses, Current, WithCue, Rows, CueStates
  <2> QED BY <2>1, PutCue DEF CueMoves
<1> QED BY <1>1, <1>2, <1>3, <1>4, <1>5, Frames DEF Writes

\* What the owner does to a film.
LEMMA OwnerSteps ==
  ASSUME Rows, NEW j \in Jobs
  PROVE  /\ Approve(j) => /\ job[j] = "review_ready" /\ job'[j] = "export_ready"
                          /\ master'[j][attempt[j]] = "approved" /\ request'[j] = "none"
                          /\ UNCHANGED attempt
         /\ Reject(j)  => /\ job[j] = "review_ready" /\ job'[j] = "needs_repair"
                          /\ master'[j][attempt[j]] = "rejected"
                          /\ request'[j] = "awaiting_retry" /\ attempt[j] < MaxAttempts
                          /\ UNCHANGED attempt
         /\ Retry(j)   => /\ job[j] = "needs_repair" /\ job'[j] = "repair_planning"
                          /\ \A n \in Attempts : master'[j][n] =
                               IF master[j][n] = "rejected" THEN "superseded" ELSE master[j][n]
                          /\ request'[j] = "analyzing" /\ attempt'[j] = attempt[j] + 1
<1>1. ASSUME Approve(j)
      PROVE  /\ job[j] = "review_ready" /\ job'[j] = "export_ready"
             /\ master'[j][attempt[j]] = "approved" /\ request'[j] = "none" /\ UNCHANGED attempt
  BY <1>1, BecomesMoves DEF Approve, Pending, Rows, JobStates
<1>2. ASSUME Reject(j)
      PROVE  /\ job[j] = "review_ready" /\ job'[j] = "needs_repair"
             /\ master'[j][attempt[j]] = "rejected" /\ request'[j] = "awaiting_retry"
             /\ attempt[j] < MaxAttempts /\ UNCHANGED attempt
  BY <1>2, BecomesMoves DEF Reject, Pending, Rows, JobStates
<1>3. ASSUME Retry(j)
      PROVE  /\ job[j] = "needs_repair" /\ job'[j] = "repair_planning"
             /\ \A n \in Attempts : master'[j][n] =
                  IF master[j][n] = "rejected" THEN "superseded" ELSE master[j][n]
             /\ request'[j] = "analyzing" /\ attempt'[j] = attempt[j] + 1
  <2>1. job[j] = "needs_repair" /\ job'[j] = "repair_planning"
    BY <1>3, BecomesMoves DEF Retry, JobStates, Working
  <2>2. request'[j] = "analyzing" /\ attempt'[j] = attempt[j] + 1
    BY <1>3 DEF Retry, Rows
  <2>3. \A n \in Attempts : master'[j][n] =
          IF master[j][n] = "rejected" THEN "superseded" ELSE master[j][n]
    BY <1>3 DEF Retry, Rows
  <2> QED BY <2>1, <2>2, <2>3
<1> QED BY <1>1, <1>2, <1>3

\* How a request moves.
RequestMoves(j) ==
  \/ request[j] \in {"planned", "executing"} /\ request'[j] \in {"executing", "complete"}
  \/ /\ request[j] = "analyzing" /\ request'[j] = "failed"
     /\ job'[j] = "failed" \/ job'[j] \notin Working \ {"sound_designing"}
  \/ request[j] = "analyzing" /\ request'[j] = "planned" /\ job'[j] = "queued"
  \/ request[j] = "analyzing" /\ request'[j] = "awaiting_clarification"
  \/ job[j] = "repair_planning" /\ job'[j] = job[j] /\ request'[j] = "analyzing"
  \/ Approve(j) \/ Reject(j) \/ Retry(j)

LEMMA PutRequest ==
  ASSUME Rows, NEW j \in Jobs, NEW x \in RequestStates, request' = [request EXCEPT ![j] = x],
         request'[j] = x => RequestMoves(j)
  PROVE  /\ request' \in [Jobs -> RequestStates]
         /\ \A k \in Jobs : request'[k] = request[k] \/ RequestMoves(k)
BY DEF Rows

LEMMA RequestSteps ==
  ASSUME Rows, TickInv, Next
  PROVE  /\ request' \in [Jobs -> RequestStates]
         /\ \A j \in Jobs : request'[j] = request[j] \/ RequestMoves(j)
<1> DEFINE Goal == /\ request' \in [Jobs -> RequestStates]
                   /\ \A j \in Jobs : request'[j] = request[j] \/ RequestMoves(j)
<1>1. CASE request' = request
  BY <1>1 DEF Rows
<1>2. ASSUME NEW w \in Workers, NEW s \in Shots, SelectShot(w, s) PROVE Goal
  <2>1. Mine(w) \in Jobs /\ request[Mine(w)] \in {"planned", "executing"}
    BY <1>2 DEF SelectShot, At, TickInv
  <2>2. PICK x \in {"executing", "complete"} : request' = [request EXCEPT ![Mine(w)] = x]
    BY <1>2 DEF SelectShot
  <2> QED BY <2>1, <2>2, PutRequest DEF RequestMoves, RequestStates
<1>3. ASSUME NEW w \in Workers, ClaimRepair(w) PROVE Goal
  <2>1. PICK lost \in Oldest({j \in Plannable(job) : planner[j] = "lapsed"}) :
          /\ job' = [j \in Jobs |-> IF j \in lost THEN "failed" ELSE job[j]]
          /\ request' = [j \in Jobs |-> IF j \in lost THEN "failed" ELSE request[j]]
    BY <1>3 DEF ClaimRepair, SetJobs
  <2>2. \A j \in lost : request[j] = "analyzing"
    BY DEF Oldest, Plannable
  <2> QED BY <2>1, <2>2 DEF Rows, RequestMoves, RequestStates
<1>4. ASSUME NEW w \in Workers, PublishPlan(w) PROVE Goal
  <2> DEFINE j == tick[w].about
  <2>1. /\ j \in Jobs /\ request[j] = "analyzing" /\ Becomes(j, "queued")
        /\ request' = [request EXCEPT ![j] = "planned"]
    BY <1>4 DEF PublishPlan, Planning, At, TickInv
  <2>2. job'[j] = "queued"
    BY <2>1, BecomesMoves DEF JobStates, Working
  <2> QED BY <2>1, <2>2, PutRequest DEF RequestMoves, RequestStates
<1>5. ASSUME NEW w \in Workers, PublishClarification(w) PROVE Goal
  <2>1. /\ tick[w].about \in Jobs /\ request[tick[w].about] = "analyzing"
        /\ request' = [request EXCEPT ![tick[w].about] = "awaiting_clarification"]
    BY <1>5 DEF PublishClarification, Planning, At, TickInv
  <2> QED BY <2>1, PutRequest DEF RequestMoves, RequestStates
<1>6. ASSUME NEW w \in Workers, FailRepair(w), request' # request PROVE Goal
  <2> DEFINE j == tick[w].about
  <2>1. /\ j \in Jobs /\ request[j] = "analyzing" /\ request' = [request EXCEPT ![j] = "failed"]
        /\ IF job[j] \in Working \ {"sound_designing"} THEN Becomes(j, "failed")
           ELSE UNCHANGED lane
    BY <1>6 DEF FailRepair, Planning, At, TickInv
  <2>2. job'[j] = "failed" \/ job'[j] \notin Working \ {"sound_designing"}
    <3>1. CASE job[j] \in Working \ {"sound_designing"}
      BY <2>1, <3>1, BecomesMoves DEF JobStates
    <3>2. CASE job[j] \notin Working \ {"sound_designing"}
      BY <2>1, <3>2 DEF lane
    <3> QED BY <3>1, <3>2
  <2> QED BY <2>1, <2>2, PutRequest DEF RequestMoves, RequestStates
<1>7. ASSUME NEW j \in Jobs, Approve(j) \/ Reject(j) \/ Retry(j) PROVE Goal
  <2>1. \E x \in {"none", "awaiting_retry", "analyzing"} : request' = [request EXCEPT ![j] = x]
    BY <1>7 DEF Approve, Reject, Retry
  <2> QED BY <1>7, <2>1, PutRequest DEF RequestMoves, RequestStates
<1>8. ASSUME NEW j \in Jobs, Answer(j) PROVE Goal
  <2>1. /\ job[j] = "repair_planning" /\ job' = job
        /\ request' = [request EXCEPT ![j] = "analyzing"]
    BY <1>8 DEF Answer, lane
  <2> QED BY <2>1, PutRequest DEF RequestMoves, RequestStates
<1> QED BY <1>1, <1>2, <1>3, <1>4, <1>5, <1>6, <1>7, <1>8, Frames DEF Writes

\* How a master moves.
MasterMoves(j, n) ==
  \/ /\ master[j][n] = "none" /\ master'[j][n] = "pending_review" /\ n <= attempt[j]
     /\ UNCHANGED <<job, attempt>>
  \/ Approve(j) /\ n = attempt[j] /\ master'[j][n] = "approved"
  \/ Reject(j) /\ n = attempt[j] /\ master'[j][n] = "rejected"
  \/ Retry(j) /\ master[j][n] = "rejected" /\ master'[j][n] = "superseded"

LEMMA MasterSteps ==
  ASSUME Rows, TickInv, Next
  PROVE  /\ master' \in [Jobs -> [Attempts -> Masters]]
         /\ \A j \in Jobs, n \in Attempts : master'[j][n] = master[j][n] \/ MasterMoves(j, n)
<1> DEFINE Goal == /\ master' \in [Jobs -> [Attempts -> Masters]]
                   /\ \A j \in Jobs, n \in Attempts :
                        master'[j][n] = master[j][n] \/ MasterMoves(j, n)
<1>1. CASE master' = master
  BY <1>1 DEF Rows
<1>2. ASSUME NEW w \in Workers, StoreMaster(w), master' # master PROVE Goal
  <2> DEFINE j == Mine(w)
             n == Nth(w)
  <2>1. j \in Jobs /\ n \in Attempts /\ n <= attempt[j]
    BY <1>2, TickTypes DEF StoreMaster, At, TickInv
  <2>2. /\ master[j][n] = "none" /\ master' = [master EXCEPT ![j][n] = "pending_review"]
        /\ UNCHANGED <<job, attempt>>
    BY <1>2 DEF StoreMaster, lane
  <2> HIDE DEF j, n
  <2> QED BY <2>1, <2>2 DEF Rows, Masters, MasterMoves
<1>3. ASSUME NEW j \in Jobs, Approve(j) PROVE Goal
  <2>1. master' = [master EXCEPT ![j][attempt[j]] = "approved"]
    BY <1>3 DEF Approve
  <2> QED BY <1>3, <2>1 DEF Rows, Masters, MasterMoves
<1>4. ASSUME NEW j \in Jobs, Reject(j) PROVE Goal
  <2>1. master' = [master EXCEPT ![j][attempt[j]] = "rejected"]
    BY <1>4 DEF Reject
  <2> QED BY <1>4, <2>1 DEF Rows, Masters, MasterMoves
<1>5. ASSUME NEW j \in Jobs, Retry(j) PROVE Goal
  <2>1. master' = [master EXCEPT ![j] = [n \in Attempts |->
                     IF master[j][n] = "rejected" THEN "superseded" ELSE master[j][n]]]
    BY <1>5 DEF Retry
  <2> QED BY <1>5, <2>1 DEF Rows, Masters, MasterMoves
<1> QED BY <1>1, <1>2, <1>3, <1>4, <1>5, Frames DEF Writes

\* A tick that has stored its master leaves one behind.
LEMMA StoreSteps ==
  ASSUME Rows, TickInv, NEW w \in Workers, StoreMaster(w)
  PROVE  master'[Mine(w)][Nth(w)] # "none"
<1>1. Mine(w) \in Jobs /\ Nth(w) \in Attempts
  BY TickTypes DEF StoreMaster, At, TickInv
<1> QED BY <1>1 DEF StoreMaster, Rows

-----------------------------------------------------------------------------
(* The types are kept.                                                      *)

RunStates == {"active", "waiting_decision", "succeeded", "failed"}

LEMMA RunTypes ==
  ASSUME Rows, TickInv, Next
  PROVE  run' \in [Jobs -> RunStates]
<1> USE DEF RunStates
<1>1. run \in [Jobs -> RunStates]
  BY DEF Rows
<1>2. ASSUME NEW w \in Workers, ReportReview(w) PROVE run' \in [Jobs -> RunStates]
  BY <1>1, <1>2 DEF ReportReview
<1>3. ASSUME NEW w \in Workers, ClaimRepair(w) PROVE run' \in [Jobs -> RunStates]
  <2>1. PICK lost : run' = [j \in Jobs |-> IF j \in lost THEN "failed" ELSE run[j]]
    BY <1>3 DEF ClaimRepair
  <2> QED BY <1>1, <2>1
<1>4. ASSUME NEW w \in Workers, FailRepair(w) PROVE run' \in [Jobs -> RunStates]
  BY <1>1, <1>4 DEF FailRepair
<1>5. ASSUME NEW j \in Jobs, Approve(j) PROVE run' \in [Jobs -> RunStates]
  BY <1>1, <1>5 DEF Approve
<1> QED BY <1>1, <1>2, <1>3, <1>4, <1>5, Frames DEF Writes

LEMMA PlannerTypes ==
  ASSUME Rows, TickInv, Next
  PROVE  planner' \in [Jobs -> {"none", "live", "lapsed"}]
<1> DEFINE P == [Jobs -> {"none", "live", "lapsed"}]
<1>1. planner \in P
  BY DEF Rows
<1>2. ASSUME NEW w \in Workers, ClaimRepair(w) PROVE planner' \in P
  <2>1. PICK lost :
          LET rest == [j \in Jobs |-> IF j \in lost THEN "none" ELSE planner[j]]
          IN  planner' = rest \/ \E j \in Jobs : planner' = [rest EXCEPT ![j] = "live"]
    BY <1>2 DEF ClaimRepair, Plannable
  <2> QED BY <1>1, <2>1
<1>3. ASSUME NEW w \in Workers, PublishPlan(w) \/ PublishClarification(w) \/ FailRepair(w)
      PROVE  planner' \in P
  BY <1>1, <1>3 DEF PublishPlan, PublishClarification, FailRepair
<1>4. ASSUME NEW j \in Jobs, PlannerLeaseLapses(j) PROVE planner' \in P
  BY <1>1, <1>4 DEF PlannerLeaseLapses
<1> QED BY <1>1, <1>2, <1>3, <1>4, Frames DEF Writes

LEMMA RoundTypes ==
  ASSUME Rows, TickInv, Next
  PROVE  rounds' \in [Jobs -> 0..MaxRounds]
<1>1. rounds \in [Jobs -> 0..MaxRounds] /\ MaxRounds \in Nat
  BY ProductionAssumption DEF Rows
<1>2. ASSUME NEW w \in Workers, PublishClarification(w) PROVE rounds' \in [Jobs -> 0..MaxRounds]
  <2>1. /\ tick[w].about \in Jobs /\ rounds[tick[w].about] < MaxRounds
        /\ rounds' = [rounds EXCEPT ![tick[w].about] = rounds[tick[w].about] + 1]
    BY <1>2 DEF PublishClarification, Planning, At, TickInv
  <2> QED BY <1>1, <2>1
<1>3. ASSUME NEW j \in Jobs, Reject(j) PROVE rounds' \in [Jobs -> 0..MaxRounds]
  BY <1>1, <1>3 DEF Reject
<1> QED BY <1>1, <1>2, <1>3, Frames DEF Writes

LEMMA ReviewTypes ==
  ASSUME Rows, Next
  PROVE  source' \in 1..MaxSources /\ culture' \in [Jobs -> [Attempts -> Blocked..MaxSources]]
<1>1. /\ source \in 1..MaxSources /\ MaxSources \in Nat
      /\ culture \in [Jobs -> [Attempts -> Blocked..MaxSources]]
  BY MasterReviewAssumption DEF Rows
<1>2. CASE ReviewSource
  BY <1>1, <1>2 DEF ReviewSource
<1>3. ASSUME NEW j \in Jobs, DecideCulture(j)
      PROVE  /\ source' \in 1..MaxSources
             /\ culture' \in [Jobs -> [Attempts -> Blocked..MaxSources]]
  <2>1. PICK d \in {Blocked, source} : culture' = [culture EXCEPT ![j][attempt[j]] = d]
    BY <1>3 DEF DecideCulture
  <2>2. d \in Blocked..MaxSources
    BY <1>1 DEF Blocked
  <2> QED BY <1>1, <1>3, <2>1, <2>2 DEF DecideCulture
<1> QED BY <1>1, <1>2, <1>3, Frames DEF Writes, review

LEMMA TickInvStep ==
  ASSUME Rows, TickInv, Next
  PROVE  tick' \in [Workers -> Ticks] /\ TickInv'
<1>1. \A j \in Jobs : attempt[j] \in Nat /\ attempt'[j] \in Nat /\ attempt[j] <= attempt'[j]
  <2>1. ASSUME NEW j \in Jobs
        PROVE  attempt[j] \in Attempts /\ attempt'[j] \in {attempt[j], attempt[j] + 1}
    BY AttemptSteps DEF Rows
  <2>2. \A n \in Attempts : n \in Nat
    BY DEF Attempts
  <2> QED BY <2>1, <2>2
<1>2. CASE tick' = tick
  BY <1>1, <1>2, TickTypes, ProductionAssumption DEF Rows, TickInv, At, Mine, Nth, Attempts
<1>3. ASSUME NEW w \in Workers, TickMoves(w)
      PROVE  tick' \in [Workers -> Ticks] /\ TickInv'
  <2>1. tick' \in [Workers -> Ticks] /\ \A v \in Workers \ {w} : tick'[v] = tick[v]
    BY <1>3 DEF TickMoves, Frees, Begins, Moves, Takes, Buys
  <2> DEFINE Known ==
        /\ tick'[w].at # "idle" => tick'[w].job \in Jobs /\ tick'[w].nth <= attempt'[tick'[w].job]
        /\ tick'[w].at \in {"calling", "answer", "planning"} => tick'[w].about \in Jobs
  <2>2. Known
    <3>1. CASE Frees(w)
      BY <3>1 DEF Frees
    <3>2. ASSUME NEW c \in Jobs, Begins(w, c) PROVE Known
      BY <1>1, <3>2 DEF Begins
    <3>3. ASSUME NEW p \in Places, Moves(w, p), ~At(w, "idle"),
                 p \in {"calling", "answer", "planning"} => tick[w].about \in Jobs
          PROVE  Known
      <4>1. /\ Mine(w) \in Jobs /\ Nth(w) <= attempt[Mine(w)] /\ Nth(w) \in Nat /\ 1 <= Nth(w)
            /\ 1 <= attempt[Mine(w)]
        BY <3>3, TickTypes, ProductionAssumption DEF TickInv, Attempts, Rows
      <4> QED BY <1>1, <3>3, <4>1 DEF Moves, Mine, Nth
    <3>4. ASSUME NEW p \in Places, NEW j \in Jobs, NEW s, Takes(w, p, j, s) PROVE Known
      <4>1. Mine(w) \in Jobs /\ Nth(w) <= attempt[Mine(w)] /\ Nth(w) \in Nat
        BY <3>4, TickTypes, ProductionAssumption DEF TickInv, Attempts, Takes, At
      <4> QED BY <1>1, <3>4, <4>1 DEF Takes, Mine, Nth
    <3>5. /\ {"leaves", "throws", "reporting", "cues", "calling", "answer", "rendered", "stored",
              "planning"} \subseteq Places
          /\ CallSoundProvider(w) => At(w, "calling")
          /\ RenderMaster(w) => At(w, "work")
          /\ StoreMaster(w) => At(w, "rendered")
      BY DEF Places, CallSoundProvider, RenderMaster, StoreMaster, Handling
    <3>6. At(w, "calling") => tick[w].about \in Jobs
      BY DEF TickInv, At
    <3> QED BY <1>3, <3>1, <3>2, <3>3, <3>4, <3>5, <3>6 DEF TickMoves, Buys, At
  <2>3. ASSUME NEW v \in Workers \ {w}
        PROVE  /\ tick'[v].at # "idle" =>
                    tick'[v].job \in Jobs /\ tick'[v].nth <= attempt'[tick'[v].job]
               /\ tick'[v].at \in {"calling", "answer", "planning"} => tick'[v].about \in Jobs
    BY <1>1, <2>1, TickTypes, ProductionAssumption DEF TickInv, At, Mine, Nth, Attempts
  <2> QED BY <2>1, <2>2, <2>3 DEF TickInv, At, Mine, Nth
<1> QED BY <1>2, <1>3, TickSteps

LEMMA RowsStep ==
  ASSUME Rows, TickInv, Next
  PROVE  Rows'
BY JobSteps, AttemptSteps, HolderSteps, RunTypes, MediaSteps, CueSteps, BoughtSteps, PlanSteps,
   ChosenSteps, RequestSteps, PlannerTypes, RoundTypes, MasterSteps, TickInvStep, ReviewTypes
   DEF Rows, RunStates, LaneMoves

\* A job is open for repair until it is released or its repair goes on.
LEMMA FlagsStep ==
  ASSUME Rows, Flags, Next
  PROVE  /\ Flags'
         /\ \A j \in Jobs : opened[j] => \/ opened'[j] \/ Retry(j)
                                         \/ \E w \in Workers : Holds(w) /\ Mine(w) = j
         /\ \A j \in Jobs : Reject(j) => opened'[j]
<1>1. /\ opened' \in [Jobs -> BOOLEAN]
      /\ \A j \in Jobs : opened[j] => \/ opened'[j] \/ Retry(j)
                                      \/ \E w \in Workers : Holds(w) /\ Mine(w) = j
  <2>1. CASE opened' = opened
    BY <2>1, Zenon DEF Flags
  <2>2. ASSUME NEW w \in Workers, Release(w), opened' # opened
        PROVE  /\ opened' \in [Jobs -> BOOLEAN]
               /\ \A j \in Jobs : opened[j] => opened'[j] \/ (Holds(w) /\ Mine(w) = j)
    <3>1. Holds(w) /\ opened' = [opened EXCEPT ![Mine(w)] = FALSE]
      BY <2>2, Zenon DEF Release
    <3> QED BY <3>1, Zenon DEF Flags
  <2>3. ASSUME NEW k \in Jobs, Reject(k) \/ Retry(k)
        PROVE  /\ opened' \in [Jobs -> BOOLEAN]
               /\ \A j \in Jobs : opened[j] => opened'[j] \/ Retry(j)
    <3>1. CASE Reject(k)
      <4>1. opened' = [opened EXCEPT ![k] = TRUE]
        BY <3>1, Zenon DEF Reject
      <4> QED BY <4>1, Zenon DEF Flags
    <3>2. CASE Retry(k)
      <4>1. opened' = [opened EXCEPT ![k] = FALSE]
        BY <3>2, Zenon DEF Retry
      <4> QED BY <3>2, <4>1, Zenon DEF Flags
    <3> QED BY <2>3, <3>1, <3>2
  <2>4. opened' = opened \/ (\E w \in Workers : Release(w)) \/ \E j \in Jobs : Reject(j) \/ Retry(j)
    BY Frames, Zenon DEF Writes
  <2> QED BY <2>1, <2>2, <2>3, <2>4, Zenon
<1>2. ASSUME NEW j \in Jobs, Reject(j) PROVE opened'[j]
  <2>1. opened' = [opened EXCEPT ![j] = TRUE]
    BY <1>2, Zenon DEF Reject
  <2> QED BY <2>1, Zenon DEF Flags
<1>3. expired' \in [Jobs -> BOOLEAN]
  <2> DEFINE E == expired' \in [Jobs -> BOOLEAN]
  <2>1. ASSUME NEW new, SetJobs(new) PROVE E
    <3>1. \A j \in Jobs : (new[j] \in Working /\ expired[j]) \in BOOLEAN
      OBVIOUS
    <3> QED BY <2>1, <3>1, Zenon DEF SetJobs
  <2>2. ASSUME NEW j \in Jobs, JobLeaseLapses(j) PROVE E
    <3>1. expired' = [expired EXCEPT ![j] = TRUE]
      BY <2>2, Zenon DEF JobLeaseLapses
    <3> QED BY <3>1, Zenon DEF Flags
  <2>3. ASSUME NEW w \in Workers, Release(w) PROVE E
    <3>1. expired' = expired \/ expired' = [expired EXCEPT ![Mine(w)] = FALSE]
      BY <2>3, Zenon DEF Release
    <3> QED BY <3>1, Zenon DEF Flags
  <2>4. ASSUME NEW w \in Workers, NEW c \in Jobs, ClaimJob(w, c) PROVE E
    <3>1. expired' = [j \in Jobs |-> j \notin Ambiguous \cup {c} /\ expired[j]]
      BY <2>4, Zenon DEF ClaimJob
    <3>2. \A j \in Jobs : (j \notin Ambiguous \cup {c} /\ expired[j]) \in BOOLEAN
      OBVIOUS
    <3> QED BY <3>1, <3>2, Zenon
  <2>5. ASSUME NEW w \in Workers, ClaimNone(w) PROVE E
    <3>1. expired' = [j \in Jobs |-> j \notin Ambiguous /\ expired[j]]
      BY <2>5, Zenon DEF ClaimNone
    <3>2. \A j \in Jobs : (j \notin Ambiguous /\ expired[j]) \in BOOLEAN
      OBVIOUS
    <3> QED BY <3>1, <3>2, Zenon
  <2>6. CASE expired' = expired
    BY <2>6, Zenon DEF Flags
  <2>7. \/ UNCHANGED lane
        \/ \E w \in Workers : \/ \E j \in Jobs : ClaimJob(w, j)
                              \/ ClaimNone(w) \/ Release(w)
        \/ \E j \in Jobs : JobLeaseLapses(j)
        \/ \E new : SetJobs(new)
    <3>1. ASSUME NEW w \in Workers, ClaimCue(w) PROVE \E new : SetJobs(new)
      BY <3>1, ClaimCueSteps, Zenon
    <3>2. ASSUME NEW w \in Workers, ClaimRepair(w) PROVE \E new : SetJobs(new)
      BY <3>2, Zenon DEF ClaimRepair
    <3>3. ASSUME NEW w \in Workers,
                 \/ StartGenerating(w) \/ \E s \in Shots : DeclareCue(w, s)
                 \/ CompleteCue(w) \/ FailCue(w) \/ HandOver(w)
                 \/ PublishPlan(w) \/ FailRepair(w) \/ FailJob(w)
          PROVE  UNCHANGED lane \/ \E new : SetJobs(new)
      BY <3>3, Zenon DEF StartGenerating, DeclareCue, CompleteCue, FailCue, HandOver, PublishPlan,
                         FailRepair, FailJob, Becomes
    <3>4. ASSUME NEW j \in Jobs, Approve(j) \/ Reject(j) \/ Retry(j) PROVE \E new : SetJobs(new)
      BY <3>4, Zenon DEF Approve, Reject, Retry, Becomes
    <3> QED BY <3>1, <3>2, <3>3, <3>4, Frames, Zenon DEF Writes
  <2>8. UNCHANGED lane => expired' = expired
    BY DEF lane
  <2> QED BY <2>1, <2>2, <2>3, <2>4, <2>5, <2>6, <2>7, <2>8, Zenon
<1> QED BY <1>1, <1>2, <1>3, Zenon DEF Flags

-----------------------------------------------------------------------------
(* The leases, the requests and the masters.                                *)

LEMMA LeaseKept ==
  ASSUME Rows, TickInv, LeaseInv, Next
  PROVE  \A j \in Jobs : holder'[j] # Nobody => job'[j] \in Working
<1> SUFFICES ASSUME NEW j \in Jobs, holder'[j] # Nobody PROVE job'[j] \in Working
  OBVIOUS
<1>1. job[j] \in Working
  BY HolderSteps DEF LaneMoves, LeaseInv
<1> QED BY <1>1, HolderSteps DEF LaneMoves

\* A job that a tick with a stored master holds is the one it rendered.
LEMMA StoredHolds ==
  ASSUME LeaseInv, NEW w \in Workers, At(w, "stored"), Holds(w)
  PROVE  job[Mine(w)] = "rendering" /\ Nth(w) = attempt[Mine(w)]
BY DEF LeaseInv, At

\* A job keeps its attempt unless it is being repaired.
LEMMA AttemptKept ==
  ASSUME Rows, Next, NEW j \in Jobs,
         job[j] # "needs_repair" \/ job'[j] # "repair_planning"
  PROVE  attempt'[j] = attempt[j]
BY AttemptSteps, OwnerSteps

LEMMA LeaseStep ==
  ASSUME Rows, TickInv, LeaseInv, Next
  PROVE  LeaseInv'
<1> SUFFICES ASSUME NEW w \in Workers
    PROVE  /\ tick'[w].at \in {"rendered", "stored"} => tick'[w].saw = "rendering"
           /\ /\ tick'[w].at \in {"work", "rendered", "stored"}
              /\ tick'[w].saw = "rendering" /\ holder'[tick'[w].job] = w
              => job'[tick'[w].job] = "rendering" /\ tick'[w].nth = attempt'[tick'[w].job]
  BY LeaseKept DEF LeaseInv, Holds, Mine, Nth
<1> DEFINE Good == /\ tick'[w].at \in {"rendered", "stored"} => tick'[w].saw = "rendering"
                   /\ /\ tick'[w].at \in {"work", "rendered", "stored"}
                      /\ tick'[w].saw = "rendering" /\ holder'[tick'[w].job] = w
                      => job'[tick'[w].job] = "rendering" /\ tick'[w].nth = attempt'[tick'[w].job]
<1>1. CASE tick'[w] = tick[w]
  <2>1. tick[w].at \in {"rendered", "stored"} => tick[w].saw = "rendering"
    BY DEF LeaseInv
  <2>2. ASSUME tick[w].at \in {"work", "rendered", "stored"}, tick[w].saw = "rendering",
               holder'[Mine(w)] = w
        PROVE  job'[Mine(w)] = "rendering" /\ Nth(w) = attempt'[Mine(w)]
    <3> DEFINE j == Mine(w)
    <3>1. j \in Jobs /\ w # Nobody
      BY <2>2, ProductionAssumption DEF TickInv, At
    <3>2. \A v \in Workers : ClaimJob(v, j) => tick'[v] # tick[v]
      BY ClaimJobTick, <3>1 DEF Begins
    <3>3. holder[j] = w /\ (job'[j] = job[j] \/ job'[j] \in Working)
      BY <1>1, <2>2, <3>1, <3>2, HolderSteps DEF LaneMoves
    <3>4. job[j] = "rendering" /\ Nth(w) = attempt[j]
      BY <2>2, <3>3 DEF LeaseInv, Holds
    <3>5. job'[j] = "rendering"
      BY <3>1, <3>3, <3>4, JobSteps DEF JobMoves, Working
    <3> QED BY <3>1, <3>4, <3>5, AttemptKept
  <2> QED BY <1>1, <2>1, <2>2 DEF Mine, Nth
<1>2. ASSUME TickMoves(w) PROVE Good
  <2>1. ASSUME NEW c \in Jobs, Begins(w, c), ClaimJob(w, c) PROVE Good
    <3>1. job'[c] = job[c] /\ attempt' = attempt
      BY <2>1 DEF ClaimJob, FailAmbiguous
    <3> QED BY <2>1, <3>1 DEF Begins
  <2>2. ASSUME NEW p \in {"rendered", "stored"}, Moves(w, p),
               RenderMaster(w) \/ StoreMaster(w)
        PROVE  Good
    <3>1. /\ tick[w].at \in {"work", "rendered"} /\ tick[w].saw = "rendering"
          /\ UNCHANGED <<lane, attempt>>
      BY <2>2 DEF RenderMaster, StoreMaster, Handling, At, LeaseInv
    <3>2. /\ tick'[w].saw = tick[w].saw /\ tick'[w].nth = tick[w].nth
          /\ tick'[w].job = tick[w].job
      BY <2>2 DEF Moves
    <3>3. Holds(w) => job[Mine(w)] = "rendering" /\ Nth(w) = attempt[Mine(w)]
      BY <3>1 DEF LeaseInv
    <3> QED BY <3>1, <3>2, <3>3 DEF Holds, Mine, Nth, lane
  <2>3. CASE tick'[w].at \in {"idle", "leaves", "throws", "reporting", "cues", "calling", "answer",
                              "planning"}
    BY <2>3
  <2> QED BY <1>2, <2>1, <2>2, <2>3 DEF TickMoves, Frees, Moves, Takes, Buys
<1>3. tick'[w] = tick[w] \/ TickMoves(w)
  BY TickSteps DEF TickMoves, Frees, Begins, Moves, Takes, Buys
<1> QED BY <1>1, <1>2, <1>3

LEMMA AskStep ==
  ASSUME Rows, TickInv, LeaseInv, AskInv, Next
  PROVE  AskInv'
<1> SUFFICES ASSUME NEW j \in Jobs
    PROVE  /\ job'[j] = "repair_planning" =>
                request'[j] \in {"analyzing", "awaiting_clarification"}
           /\ request'[j] = "analyzing" => job'[j] \in {"repair_planning", "failed"}
  BY DEF AskInv
<1>1. /\ job[j] = "repair_planning" => request[j] \in {"analyzing", "awaiting_clarification"}
      /\ request[j] = "analyzing" => job[j] \in {"repair_planning", "failed"}
  BY DEF AskInv
<1>2. ASSUME NEW w \in Workers, At(w, "stored"), Holds(w), Mine(w) = j PROVE job[j] = "rendering"
  BY <1>2, StoredHolds
<1>3. job'[j] = job[j] \/ JobMoves(j)
  BY JobSteps
<1>4. request'[j] = request[j] \/ RequestMoves(j)
  BY RequestSteps
<1> QED BY <1>1, <1>2, <1>3, <1>4, OwnerSteps DEF JobMoves, RequestMoves, Working

LEMMA RejectedStep ==
  ASSUME Rows, Flags, TickInv, LeaseInv, RejectedIsRetryable, Next
  PROVE  RejectedIsRetryable'
<1> SUFFICES ASSUME NEW j \in Jobs, job'[j] = "needs_repair"
    PROVE  request'[j] = "awaiting_retry" /\ opened'[j] /\ attempt'[j] < MaxAttempts
  BY Zenon DEF RejectedIsRetryable, Retryable
<1>1. ~ Retry(j) /\ ~ Approve(j)
  BY OwnerSteps
<1>2. attempt'[j] = attempt[j]
  BY <1>1, AttemptSteps
<1>3. CASE Reject(j)
  <2>1. request'[j] = "awaiting_retry" /\ attempt[j] < MaxAttempts
    BY <1>3, OwnerSteps
  <2>2. opened'[j]
    BY <1>3, FlagsStep, Zenon
  <2> QED BY <1>2, <2>1, <2>2
<1>4. CASE ~ Reject(j)
  <2>1. job[j] = "needs_repair"
    BY <1>1, <1>4, JobSteps DEF JobMoves
  <2>2. request[j] = "awaiting_retry" /\ opened[j] /\ attempt[j] < MaxAttempts
    BY <2>1, Zenon DEF RejectedIsRetryable, Retryable
  <2>3. request'[j] = "awaiting_retry"
    BY <1>1, <1>4, <2>1, <2>2, RequestSteps DEF RequestMoves
  <2>4. ASSUME NEW w \in Workers, Holds(w), Mine(w) = j PROVE FALSE
    <3>1. holder[j] # Nobody
      BY <2>4, ProductionAssumption DEF Holds
    <3> QED BY <2>1, <3>1 DEF LeaseInv, Working
  <2>5. opened'[j]
    BY <1>1, <2>2, <2>4, FlagsStep, Zenon
  <2> QED BY <1>2, <2>2, <2>3, <2>5
<1> QED BY <1>3, <1>4

LEMMA MasterStep ==
  ASSUME Rows, TickInv, LeaseInv, MasterInv, Next
  PROVE  MasterInv'
<1>1. ASSUME NEW j \in Jobs, NEW n \in Attempts
      PROVE  /\ n < attempt'[j] => master'[j][n] = "superseded"
             /\ n > attempt'[j] => master'[j][n] = "none"
             /\ n = attempt'[j] => master'[j][n] \in Reviewed(job'[j])
  <2>1. /\ n < attempt[j] => master[j][n] = "superseded"
        /\ n > attempt[j] => master[j][n] = "none"
        /\ n = attempt[j] => master[j][n] \in Reviewed(job[j])
    BY DEF MasterInv
  <2>2. n \in Nat /\ attempt[j] \in Nat
    BY DEF Rows, Attempts
  <2>3. CASE Retry(j)
    BY <2>1, <2>2, <2>3, OwnerSteps DEF Reviewed
  <2>4. CASE Approve(j) \/ Reject(j)
    BY <2>1, <2>2, <2>4, OwnerSteps, MasterSteps DEF Reviewed, MasterMoves
  <2>5. CASE ~Retry(j) /\ ~Approve(j) /\ ~Reject(j)
    <3>1. attempt'[j] = attempt[j]
      BY <2>5, AttemptSteps
    <3>2. master'[j][n] = master[j][n] \/ MasterMoves(j, n)
      BY MasterSteps
    <3>3. job'[j] = job[j] \/ JobMoves(j)
      BY JobSteps
    <3>4. ASSUME NEW w \in Workers, At(w, "stored"), Holds(w), Mine(w) = j, n = attempt[j]
          PROVE  master[j][n] = "pending_review"
      <4>1. job[j] = "rendering" /\ n = Nth(w) /\ master[j][n] # "none"
        BY <3>4, StoredHolds DEF MasterInv
      <4> QED BY <2>1, <3>4, <4>1 DEF Reviewed
    <3>5. CASE master'[j][n] = master[j][n] /\ job'[j] = job[j]
      BY <2>1, <3>1, <3>5
    <3>6. CASE master'[j][n] # master[j][n]
      BY <2>1, <2>2, <2>5, <3>1, <3>2, <3>6 DEF MasterMoves, Reviewed
    <3>7. CASE master'[j][n] = master[j][n] /\ job'[j] # job[j]
      <4>1. ASSUME n = attempt[j] PROVE master[j][n] \in Reviewed(job'[j])
        BY <2>1, <2>5, <3>3, <3>4, <3>7, <4>1 DEF JobMoves, Reviewed, Working
      <4> QED BY <2>1, <3>1, <3>7, <4>1
    <3> QED BY <3>5, <3>6, <3>7
  <2> QED BY <2>3, <2>4, <2>5
<1>2. ASSUME NEW w \in Workers, tick'[w].at = "stored"
      PROVE  master'[tick'[w].job][tick'[w].nth] # "none"
  <2>1. CASE tick'[w] = tick[w]
    <3>1. Mine(w) \in Jobs /\ Nth(w) \in Attempts /\ master[Mine(w)][Nth(w)] # "none"
      BY <1>2, <2>1, TickTypes DEF TickInv, MasterInv, At
    <3>2. master'[Mine(w)][Nth(w)] # "none"
      BY <3>1, MasterSteps DEF MasterMoves
    <3> QED BY <2>1, <3>2 DEF Mine, Nth
  <2>2. CASE Moves(w, "stored") /\ StoreMaster(w)
    BY <2>2, StoreSteps DEF Moves, Mine, Nth
  <2> QED BY <1>2, <2>1, <2>2, TickSteps DEF TickMoves, Frees, Begins, Moves, Takes, Buys
<1> QED BY <1>1, <1>2 DEF MasterInv, At, Mine, Nth

-----------------------------------------------------------------------------
(* The selections.                                                          *)

\* A film shot stays.
LEMMA SelectedStays ==
  ASSUME Rows, TickInv, Next, NEW j \in Jobs, NEW n \in Attempts, Selected(j, n)
  PROVE  /\ Selected(j, n)'
         /\ \A s \in Shots : chosen'[j][n][s] = chosen[j][n][s]
<1> SUFFICES ASSUME NEW s \in Shots
             PROVE  /\ chosen'[j][n][s] = chosen[j][n][s]
                    /\ chosen'[j][n][s] # 0
                    /\ clip'[j][chosen'[j][n][s]][s] = "complete"
  BY DEF Selected
<1>1. chosen[j][n][s] # 0 /\ clip[j][chosen[j][n][s]][s] = "complete"
  BY DEF Selected
<1>2. chosen'[j][n][s] = chosen[j][n][s]
  BY <1>1, ChosenSteps DEF Selects
<1>3. chosen[j][n][s] \in Attempts
  BY <1>1 DEF Rows, PerShotOf
<1> QED BY <1>1, <1>2, <1>3, MediaSteps

LEMMA SelectStep ==
  ASSUME Rows, TickInv, LeaseInv, AskInv, SelectInv, RepairKeepsTheRest, Next
  PROVE  SelectInv'
<1>1. ASSUME NEW j \in Jobs, NEW n \in Attempts
      PROVE  /\ n < attempt'[j] => Selected(j, n)'
             /\ n = attempt'[j] /\ job'[j] \in Filmed => Selected(j, n)'
             /\ n > attempt'[j] \/ (n = attempt'[j] /\ job'[j] = "repair_planning") =>
                  \A s \in Shots : chosen'[j][n][s] = 0
             /\ n = 1 => \A s \in Shots : chosen'[j][n][s] = 1
  <2>1. /\ n < attempt[j] => Selected(j, n)
        /\ n = attempt[j] /\ job[j] \in Filmed => Selected(j, n)
        /\ n > attempt[j] \/ (n = attempt[j] /\ job[j] = "repair_planning") =>
             \A s \in Shots : chosen[j][n][s] = 0
        /\ n = 1 => \A s \in Shots : chosen[j][n][s] = 1
    BY DEF SelectInv
  <2>2. /\ n \in Nat /\ attempt[j] \in Nat
        /\ attempt'[j] = attempt[j] \/ (Retry(j) /\ attempt'[j] = attempt[j] + 1)
    BY AttemptSteps DEF Rows, Attempts
  <2>3. job'[j] = job[j] \/ JobMoves(j)
    BY JobSteps
  <2>4. n < attempt'[j] => Selected(j, n)'
    <3>1. n < attempt'[j] => n < attempt[j] \/ (n = attempt[j] /\ job[j] = "needs_repair")
      BY <2>2, OwnerSteps
    <3> QED BY <2>1, <3>1, SelectedStays DEF Filmed
  <2>5. ASSUME n = attempt'[j], job'[j] \in Filmed PROVE Selected(j, n)'
    <3>1. ~Retry(j) /\ n = attempt[j]
      BY <2>2, <2>5, OwnerSteps DEF Filmed
    <3>2. ASSUME NEW w \in Workers, At(w, "cues"), Mine(w) = j, Nth(w) = n PROVE Selected(j, n)
      BY <3>2 DEF SelectInv
    <3>3. ASSUME NEW w \in Workers, At(w, "stored"), Holds(w), Mine(w) = j
          PROVE  job[j] \in Filmed
      BY <3>3, StoredHolds DEF Filmed
    <3>4. Selected(j, n)
      BY <2>1, <2>3, <2>5, <3>1, <3>2, <3>3 DEF JobMoves, Filmed
    <3> QED BY <3>4, SelectedStays
  <2>6. ASSUME n > attempt'[j] \/ (n = attempt'[j] /\ job'[j] = "repair_planning"),
               NEW s \in Shots
        PROVE  chosen'[j][n][s] = 0
    <3>1. n > attempt[j] \/ (n = attempt[j] /\ job[j] = "repair_planning")
      <4>1. CASE Retry(j)
        BY <2>2, <2>6, <4>1, OwnerSteps
      <4>2. CASE ~Retry(j)
        <5>1. job'[j] = "repair_planning" => job[j] = "repair_planning"
          BY <2>3, <4>2 DEF JobMoves, Working
        <5> QED BY <2>2, <2>6, <4>2, <5>1
      <4> QED BY <4>1, <4>2
    <3>2. ~Selects(j, n, s)
      BY <2>2, <3>1 DEF Selects, AskInv
    <3> QED BY <2>1, <3>1, <3>2, ChosenSteps
  <2>7. ASSUME n = 1, NEW s \in Shots PROVE chosen'[j][n][s] = 1
    BY <2>1, <2>7, ChosenSteps DEF Selects
  <2> QED BY <2>4, <2>5, <2>6, <2>7
<1>2. ASSUME NEW w \in Workers, tick'[w].at = "cues"
      PROVE  \E j \in Jobs, n \in Attempts :
               tick'[w].job = j /\ tick'[w].nth = n /\ Selected(j, n)'
  <2>1. CASE tick'[w] = tick[w]
    <3>1. Mine(w) \in Jobs /\ Nth(w) \in Attempts /\ Selected(Mine(w), Nth(w))
      BY <1>2, <2>1, TickTypes DEF TickInv, SelectInv, At
    <3> QED BY <2>1, <3>1, SelectedStays DEF Mine, Nth
  <2>2. CASE Moves(w, "cues") /\ At(w, "work") /\ CuesDue(w) /\ UNCHANGED <<clip, chosen>>
    <3> DEFINE j == Mine(w)
               n == Nth(w)
    <3>1. j \in Jobs /\ n \in Attempts /\ tick'[w].job = j /\ tick'[w].nth = n
      BY <2>2, TickTypes DEF TickInv, At, Moves, Mine, Nth
    <3>2. Selected(j, n)
      <4>1. CASE AllSelected(j, n)
        BY <3>1, <4>1 DEF AllSelected, Selected, RepairKeepsTheRest
      <4>2. CASE n = 1 /\ \A s \in Shots : clip[j][1][s] = "complete"
        BY <3>1, <4>2 DEF Selected, SelectInv
      <4> QED BY <2>2, <4>1, <4>2 DEF CuesDue
    <3> HIDE DEF j, n
    <3> QED BY <3>1, <3>2, SelectedStays
  <2> QED BY <1>2, <2>1, <2>2, TickSteps DEF TickMoves, Frees, Begins, Moves, Takes, Buys
<1>3. ASSUME NEW w \in Workers, At(w, "cues")' PROVE Selected(Mine(w), Nth(w))'
  <2>1. PICK j \in Jobs, n \in Attempts :
          tick'[w].job = j /\ tick'[w].nth = n /\ Selected(j, n)'
    BY <1>2, <1>3 DEF At
  <2> QED BY <2>1 DEF Mine, Nth, Selected
<1> QED BY <1>1, <1>3 DEF SelectInv, Selected

LEMMA RepairStep ==
  ASSUME Rows, TickInv, AskInv, SelectInv, RepairKeepsTheRest, Next
  PROVE  RepairKeepsTheRest'
<1> SUFFICES ASSUME NEW j \in Jobs, NEW n \in Attempts, NEW s \in Shots,
                    n > 1, chosen'[j][n][s] # 0
             PROVE  /\ clip'[j][chosen'[j][n][s]][s] = "complete"
                    /\ chosen'[j][n][s] =
                         IF plan'[j][n][s] = "reuse" THEN chosen'[j][n - 1][s] ELSE n
  BY DEF RepairKeepsTheRest
<1>1. n \in Nat /\ attempt[j] \in Nat /\ n - 1 \in Attempts
  BY ProductionAssumption DEF Rows, Attempts
<1>2. n <= attempt[j]
  <2>1. CASE chosen'[j][n][s] = chosen[j][n][s]
    BY <1>1, <2>1 DEF SelectInv
  <2> QED BY <2>1, ChosenSteps DEF Selects
<1>3. Selected(j, n - 1)
  BY <1>1, <1>2 DEF SelectInv
<1>4. chosen'[j][n - 1][s] = chosen[j][n - 1][s]
  BY <1>1, <1>3, SelectedStays
<1>5. CASE chosen'[j][n][s] = chosen[j][n][s]
  <2>1. /\ clip[j][chosen[j][n][s]][s] = "complete"
        /\ chosen[j][n][s] = IF plan[j][n][s] = "reuse" THEN chosen[j][n - 1][s] ELSE n
    BY <1>5 DEF RepairKeepsTheRest
  <2>2. chosen[j][n][s] \in Attempts
    BY <1>5 DEF Rows, PerShotOf
  <2>3. plan'[j][n] = plan[j][n]
    BY <1>5, PlanSteps DEF SelectInv
  <2> QED BY <1>4, <1>5, <2>1, <2>2, <2>3, MediaSteps
<1>6. CASE Selects(j, n, s)
  <2>1. /\ chosen'[j][n][s] = Selectable(j, n, s) /\ clip' = clip /\ plan' = plan
        /\ Selectable(j, n, s) # 0
    BY <1>6 DEF Selects
  <2>2. CASE s \notin ClipsWanted(j, n)
    <3>1. plan[j][n][s] = "reuse"
      BY <2>2 DEF ClipsWanted, Wanted, Rows, PerShotOf, PlanActions
    <3>2. Selectable(j, n, s) = chosen[j][n - 1][s]
      BY <2>2 DEF Selectable
    <3>3. clip[j][chosen[j][n - 1][s]][s] = "complete"
      BY <1>3 DEF Selected
    <3> QED BY <1>4, <2>1, <3>1, <3>2, <3>3
  <2>3. CASE s \in ClipsWanted(j, n)
    <3>1. plan[j][n][s] # "reuse"
      BY <2>3 DEF ClipsWanted, Wanted
    <3>2. clip[j][n][s] = "complete" /\ Selectable(j, n, s) = n
      BY <2>1, <2>3 DEF Selectable
    <3> QED BY <2>1, <3>1, <3>2
  <2> QED BY <2>2, <2>3
<1> QED BY <1>5, <1>6, ChosenSteps

-----------------------------------------------------------------------------
(* The cues.                                                                *)

\* A tick that calls for a cue after a step called for it before, or has just
\* been given it.
LEMMA CallsBefore ==
  ASSUME Rows, Next, NEW w \in Workers, NEW j \in Jobs, NEW s \in Shots,
         tick'[w].at \in {"calling", "answer"}, tick'[w].about = j, tick'[w].shot = s
  PROVE  \/ tick'[w] = tick[w] /\ Calls(w, j, s)
         \/ Buys(w, j, s)
         \/ CallSoundProvider(w) /\ tick'[w].at = "answer" /\ Calls(w, j, s)
<1>1. CASE tick'[w] = tick[w]
  BY <1>1 DEF Calls
<1>2. CASE Moves(w, "answer") /\ CallSoundProvider(w)
  BY <1>2 DEF Moves, CallSoundProvider, Calls, At
<1>3. ASSUME NEW k \in Jobs, NEW t \in Shots, Buys(w, k, t) PROVE Buys(w, j, s)
  BY <1>3 DEF Buys, Takes
<1> QED BY <1>1, <1>2, <1>3, TickSteps DEF TickMoves, Frees, Begins, Moves, Takes, Buys

\* A sound is bought by a tick that calls for it.
LEMMA BoughtBefore ==
  ASSUME Rows, TickInv, CueInv, Next, NEW j \in Jobs, NEW n \in Attempts, NEW s \in Shots,
         bought'[j][n][s] # bought[j][n][s]
  PROVE  \E w \in Workers : /\ n = attempt[j] /\ tick[w].at = "calling" /\ Calls(w, j, s)
                            /\ tick'[w].at = "answer" /\ bought[j][n][s] = 0
                            /\ bought'[j][n][s] <= 1
                            /\ cue[j][n][s] \in {"claimed", "lapsed", "failed"}
<1>1. PICK w \in Workers : n = attempt[j] /\ CallsFor(w, j, s)
                           /\ bought'[j][n][s] <= bought[j][n][s] + 1
  BY BoughtSteps
<1>2. tick[w].at = "calling" /\ Calls(w, j, s) /\ tick'[w].at = "answer"
  BY <1>1 DEF CallsFor, Calls, At, Moves
<1>3. bought[j][n][s] = 0 /\ cue[j][n][s] \in {"claimed", "lapsed", "failed"}
  BY <1>1, <1>2 DEF CueInv
<1> QED BY <1>1, <1>2, <1>3

LEMMA PaidStep ==
  ASSUME Rows, TickInv, CueInv, CuePaidOnce, Next
  PROVE  CuePaidOnce'
<1> SUFFICES ASSUME NEW j \in Jobs, NEW n \in Attempts, NEW s \in Shots
             PROVE  bought'[j][n][s] <= 1
  BY DEF CuePaidOnce
<1> QED BY BoughtBefore DEF CuePaidOnce

LEMMA ScoredStep ==
  ASSUME Rows, TickInv, LeaseInv, CueInv, Next, NEW j \in Jobs, NEW s \in Shots
  PROVE  /\ job'[j] \in Scored => cue'[j][attempt'[j]][s] = "complete"
         /\ \A n \in Attempts : cue'[j][n][s] \in {"none", "prepared"} => bought'[j][n][s] = 0
<1>1. attempt[j] \in Attempts
  BY DEF Rows
<1>2. ASSUME job'[j] \in Scored PROVE cue'[j][attempt'[j]][s] = "complete"
  <2>1. attempt'[j] = attempt[j]
    BY <1>2, AttemptKept DEF Scored
  <2>2. CASE job[j] \in Scored
    <3>1. cue[j][attempt[j]][s] = "complete"
      BY <2>2 DEF CueInv
    <3>2. ~CueMoves(j, attempt[j], s)
      BY <3>1 DEF CueMoves, Sweeps, Buys
    <3> QED BY <1>1, <2>1, <3>1, <3>2, CueSteps
  <2>3. CASE job[j] \notin Scored
    <3>1. ASSUME NEW w \in Workers, At(w, "stored"), Holds(w), Mine(w) = j PROVE FALSE
      BY <2>3, <3>1, StoredHolds DEF Scored
    <3>2. CuesDone(j)
      BY <1>2, <2>3, <3>1, JobSteps DEF JobMoves, Scored, Working
    <3> QED BY <2>1, <3>2 DEF CuesDone
  <2> QED BY <2>2, <2>3
<1>3. ASSUME NEW n \in Attempts, cue'[j][n][s] \in {"none", "prepared"}
      PROVE  bought'[j][n][s] = 0
  <2>1. cue[j][n][s] \in {"none", "prepared"}
    BY <1>3, CueSteps DEF CueMoves, Sweeps, Buys
  <2>2. bought[j][n][s] = 0
    BY <2>1 DEF CueInv
  <2> QED BY <2>1, <2>2, BoughtBefore
<1> QED BY <1>2, <1>3

\* A cue that a tick calls for is its own until it answers.
LEMMA CallsKept ==
  ASSUME Rows, TickInv, LeaseInv, CueInv, Next,
         NEW w \in Workers, NEW j \in Jobs, NEW s \in Shots, Calls(w, j, s),
         tick'[w].at \in {"calling", "answer"}
  PROVE  /\ job'[j] \in {"sound_designing", "failed"} /\ attempt'[j] = attempt[j]
         /\ cue'[j][attempt[j]][s] \in {"claimed", "lapsed", "failed"}
         /\ \A v \in Workers : ~Buys(v, j, s)
<1>1. /\ job[j] \in {"sound_designing", "failed"} /\ attempt[j] \in Attempts
      /\ cue[j][attempt[j]][s] \in {"claimed", "lapsed", "failed"}
      /\ \A v \in Workers : Calls(v, j, s) => v = w
  BY DEF CueInv, Rows
<1>2. cue'[j][attempt[j]][s] \in {"claimed", "lapsed", "failed"}
  <2>1. ASSUME NEW v \in Workers, tick[v].at \in {"calling", "answer"}, tick[v].about = j,
               tick[v].shot = s, tick'[v].at \in {"leaves", "throws"}
        PROVE  FALSE
    BY <1>1, <2>1 DEF Calls
  <2> QED BY <1>1, <2>1, CueSteps DEF CueMoves, Sweeps, Buys
<1>3. job'[j] \in {"sound_designing", "failed"}
  <2>1. ~CuesDone(j)
    BY <1>2 DEF CuesDone
  <2>2. ASSUME NEW v \in Workers, At(v, "stored"), Holds(v), Mine(v) = j PROVE FALSE
    BY <1>1, <2>2, StoredHolds
  <2> QED BY <1>1, <2>1, <2>2, JobSteps DEF JobMoves, Working
<1> QED BY <1>1, <1>2, <1>3, AttemptKept DEF Buys

LEMMA CueStep ==
  ASSUME Rows, TickInv, LeaseInv, CueInv, Next
  PROVE  CueInv'
<1>1. ASSUME NEW w \in Workers, NEW j \in Jobs, NEW s \in Shots,
             tick'[w].at \in {"calling", "answer"}, tick'[w].about = j, tick'[w].shot = s
      PROVE  /\ job'[j] \in {"sound_designing", "failed"}
             /\ cue'[j][attempt'[j]][s] \in {"claimed", "lapsed", "failed"}
             /\ tick'[w].at = "calling" => bought'[j][attempt'[j]][s] = 0
             /\ \A v \in Workers : /\ tick'[v].at \in {"calling", "answer"}
                                   /\ tick'[v].about = j /\ tick'[v].shot = s
                                   => v = w
  <2>0. attempt[j] \in Attempts
    BY DEF Rows
  <2>1. CASE Buys(w, j, s)
    <3>1. /\ job'[j] = "sound_designing" /\ cue'[j][attempt[j]][s] = "claimed"
          /\ cue[j][attempt[j]][s] = "prepared" /\ \A v \in Workers \ {w} : tick'[v] = tick[v]
      BY <2>1 DEF Buys, Takes
    <3>2. attempt'[j] = attempt[j]
      BY <3>1, AttemptKept
    <3>3. bought[j][attempt[j]][s] = 0 /\ \A v \in Workers : ~Calls(v, j, s)
      BY <2>0, <3>1 DEF CueInv
    <3>4. bought'[j][attempt[j]][s] = 0
      BY <2>0, <3>1, <3>3, BoughtBefore
    <3> QED BY <3>1, <3>2, <3>3, <3>4 DEF Calls
  <2>2. CASE Calls(w, j, s) /\ (tick'[w] = tick[w] \/ tick'[w].at = "answer")
    <3>1. /\ job'[j] \in {"sound_designing", "failed"} /\ attempt'[j] = attempt[j]
          /\ cue'[j][attempt[j]][s] \in {"claimed", "lapsed", "failed"}
          /\ \A v \in Workers : ~Buys(v, j, s)
      BY <1>1, <2>2, CallsKept
    <3>2. \A v \in Workers : Calls(v, j, s) => v = w
      BY <2>2 DEF CueInv
    <3>3. ASSUME tick'[w].at = "calling" PROVE bought'[j][attempt[j]][s] = 0
      <4>1. bought[j][attempt[j]][s] = 0
        BY <2>2, <3>3 DEF CueInv
      <4> QED BY <2>0, <3>2, <3>3, <4>1, BoughtBefore
    <3>4. ASSUME NEW v \in Workers, tick'[v].at \in {"calling", "answer"},
                 tick'[v].about = j, tick'[v].shot = s
          PROVE  v = w
      BY <3>1, <3>2, <3>4, CallsBefore
    <3> QED BY <3>1, <3>3, <3>4
  <2> QED BY <1>1, <2>1, <2>2, CallsBefore
<1> QED BY <1>1, ScoredStep DEF CueInv, Calls

-----------------------------------------------------------------------------
(* The invariants.                                                          *)

LEMMA Initially == Init => IInv
<1> SUFFICES ASSUME Init PROVE IInv
  OBVIOUS
<1> USE DEF Init, ProductionInit
<1>1. 1 \in Attempts /\ \A n \in Attempts : n \in Nat /\ 1 <= n
  BY ProductionAssumption DEF Attempts
<1>2. Rows
  <2>1. /\ job \in [Jobs -> JobStates] /\ attempt \in [Jobs -> Attempts]
        /\ holder \in [Jobs -> Workers \cup {Nobody}]
        /\ run \in [Jobs -> {"active", "waiting_decision", "succeeded", "failed"}]
        /\ request \in [Jobs -> RequestStates]
        /\ planner \in [Jobs -> {"none", "live", "lapsed"}]
    BY <1>1 DEF JobStates, Working, RequestStates
  <2>2. /\ frame \in PerShotOf(MediaStates) /\ clip \in PerShotOf(MediaStates)
        /\ cue \in PerShotOf(CueStates) /\ plan \in PerShotOf(PlanActions)
    BY DEF PerShot, PerShotOf, MediaStates, CueStates, PlanActions
  <2>3. bought \in PerShotOf(0..2)
    BY DEF PerShot, PerShotOf
  <2>4. chosen \in PerShotOf(Attempts \cup {0})
    BY <1>1 DEF PerShotOf
  <2>5. rounds \in [Jobs -> 0..MaxRounds]
    BY ProductionAssumption
  <2>6. master \in [Jobs -> [Attempts -> Masters]]
    BY DEF Masters
  <2>7. tick \in [Workers -> Ticks]
    BY IdleType
  <2>8. source \in 1..MaxSources /\ culture \in [Jobs -> [Attempts -> Blocked..MaxSources]]
    BY MasterReviewAssumption DEF Blocked, Undecided
  <2> QED BY <2>1, <2>2, <2>3, <2>4, <2>5, <2>6, <2>7, <2>8 DEF Rows
<1>3. Flags
  BY Zenon DEF Flags
<1>4. \A w \in Workers : tick[w].at = "idle"
  BY DEF Idle
<1>5. TickInv /\ LeaseInv /\ AskInv /\ MasterInv
  BY <1>1, <1>4 DEF TickInv, LeaseInv, AskInv, MasterInv, At, Reviewed
<1>6. RejectedIsRetryable
  BY DEF RejectedIsRetryable
<1>7. SelectInv
  BY <1>1, <1>4 DEF SelectInv, Filmed, At
<1>8. RepairKeepsTheRest
  BY DEF RepairKeepsTheRest
<1>9. CueInv /\ CuePaidOnce
  BY <1>1, <1>4 DEF CueInv, CuePaidOnce, Scored, Calls, PerShot
<1> QED BY <1>2, <1>3, <1>5, <1>6, <1>7, <1>8, <1>9, TypeParts DEF IInv

LEMMA Stutters == IInv /\ UNCHANGED all => IInv'
<1> SUFFICES ASSUME IInv, UNCHANGED all PROVE IInv'
  OBVIOUS
<1>1. /\ UNCHANGED <<job, attempt, holder, run, frame, clip, cue, bought, plan, chosen>>
      /\ UNCHANGED <<request, planner, rounds, master, tick, source, culture>>
  BY DEF all, vars, review
<1>2. UNCHANGED <<expired, opened>>
  BY DEF all, vars
<1>3. Rows' /\ Flags'
  <2>1. Rows'
    BY <1>1, TypeParts DEF IInv, Rows
  <2>2. Flags'
    BY <1>2, TypeParts DEF IInv, Flags
  <2> QED BY <2>1, <2>2
<1>4. TickInv' /\ LeaseInv' /\ AskInv'
  BY <1>1 DEF IInv, TickInv, LeaseInv, AskInv, At, Mine, Nth, Holds
<1>5. RejectedIsRetryable'
  BY <1>1, <1>2 DEF IInv, RejectedIsRetryable, Retryable
<1>6. SelectInv'
  <2>1. \A j, n : Selected(j, n)' <=> Selected(j, n)
    BY <1>1 DEF Selected
  <2>2. \A w \in Workers : (At(w, "cues") => Selected(Mine(w), Nth(w)))
                           <=> (At(w, "cues") => Selected(Mine(w), Nth(w)))'
    BY <1>1 DEF At, Mine, Nth, Selected
  <2> QED BY <1>1, <2>1, <2>2 DEF IInv, SelectInv
<1>7. RepairKeepsTheRest'
  BY <1>1 DEF IInv, RepairKeepsTheRest
<1>8. CueInv' /\ CuePaidOnce'
  BY <1>1 DEF IInv, CueInv, CuePaidOnce, Calls
<1>9. MasterInv'
  BY <1>1 DEF IInv, MasterInv, At, Mine, Nth
<1> QED BY <1>3, <1>4, <1>5, <1>6, <1>7, <1>8, <1>9, TypeParts DEF IInv

LEMMA Moving == IInv /\ Next => IInv'
<1> SUFFICES ASSUME IInv, Next PROVE IInv'
  OBVIOUS
<1>1. Rows /\ Flags /\ TickInv /\ LeaseInv /\ AskInv /\ RejectedIsRetryable
  BY TypeParts DEF IInv
<1>2. SelectInv /\ RepairKeepsTheRest /\ CueInv /\ CuePaidOnce /\ MasterInv
  BY DEF IInv
<1>3. Rows' /\ Flags' /\ TickInv'
  BY <1>1, RowsStep, FlagsStep, TickInvStep
<1>4. LeaseInv' /\ AskInv' /\ RejectedIsRetryable'
  BY <1>1, LeaseStep, AskStep, RejectedStep
<1>5. SelectInv' /\ RepairKeepsTheRest'
  BY <1>1, <1>2, SelectStep, RepairStep
<1>6. CueInv' /\ CuePaidOnce' /\ MasterInv'
  BY <1>1, <1>2, CueStep, PaidStep, MasterStep
<1> QED BY <1>3, <1>4, <1>5, <1>6, TypeParts DEF IInv

-----------------------------------------------------------------------------
(* The theorems.                                                            *)

\* The inductive invariant of a film's production and review, from its first
\* frame to its release: whichever ticks overlap, die or outlive their leases,
\* and whatever its owner does between two of their steps.
THEOREM ProductionInvariance == Spec => []IInv
BY Initially, Stutters, Moving, PTL DEF Spec

\* Every variable of the worker and of the review has its type.
THEOREM ProductionTypeCorrect == Spec => []TypeOK
<1>1. IInv => TypeOK
  BY DEF IInv
<1> QED BY <1>1, ProductionInvariance, PTL

\* "assets are not ready" cannot be: a job that is rendered, in review or
\* released has every cue and every selected clip of its attempt.
THEOREM RenderInputsCompleteHolds == Spec => []RenderInputsComplete
<1>1. IInv => RenderInputsComplete
  BY DEF IInv, TypeOK, ProductionTypeOK, RenderInputsComplete, RenderInputs, SelectInv, Selected,
         Filmed, CueInv, Scored
<1> QED BY <1>1, ProductionInvariance, PTL

\* "Genie will not spend twice automatically": a sound is generated at most
\* once per attempt and shot, by whichever tick.
THEOREM CuePaidOnceHolds == Spec => []CuePaidOnce
<1>1. IInv => CuePaidOnce
  BY DEF IInv
<1> QED BY <1>1, ProductionInvariance, PTL

\* A repair films again what its plan regenerates, and keeps the very clips of
\* the rest.
THEOREM RepairKeepsTheRestHolds == Spec => []RepairKeepsTheRest
<1>1. IInv => RepairKeepsTheRest
  BY DEF IInv
<1> QED BY <1>1, ProductionInvariance, PTL

\* A rejected film can always be repaired: no late release of a tick makes its
\* request stale.
THEOREM RejectedIsRetryableHolds == Spec => []RejectedIsRetryable
<1>1. IInv => RejectedIsRetryable
  BY DEF IInv
<1> QED BY <1>1, ProductionInvariance, PTL

\* A film is released by the approval of its newest master, under a current
\* cultural approval of that very master.
THEOREM ReleasedIsReviewedHolds == Spec => ReleasedIsReviewed
<1> DEFINE Released ==
      \A j \in Jobs : job'[j] = "export_ready" /\ job[j] # "export_ready" =>
        /\ master'[j][attempt[j]] = "approved"
        /\ culture[j][attempt[j]] = source
        /\ \A n \in Attempts \ {attempt[j]} : master[j][n] \in {"none", "superseded"}
<1>1. IInv /\ Next => Released
  <2> SUFFICES ASSUME IInv, Next, NEW j \in Jobs,
                      job'[j] = "export_ready", job[j] # "export_ready"
               PROVE  /\ master'[j][attempt[j]] = "approved"
                      /\ culture[j][attempt[j]] = source
                      /\ \A n \in Attempts \ {attempt[j]} : master[j][n] \in {"none", "superseded"}
    OBVIOUS
  <2>1. Rows /\ TickInv
    BY TypeParts DEF IInv
  <2>2. Approve(j)
    BY <2>1, JobSteps DEF JobMoves
  <2>3. master'[j][attempt[j]] = "approved"
    BY <2>1, <2>2, OwnerSteps
  <2>4. culture[j][attempt[j]] = source
    BY <2>2 DEF Approve
  <2>5. ASSUME NEW n \in Attempts \ {attempt[j]} PROVE master[j][n] \in {"none", "superseded"}
    <3>1. n \in Nat /\ attempt[j] \in Nat
      BY <2>1 DEF Rows, Attempts
    <3>2. n < attempt[j] \/ n > attempt[j]
      BY <2>5, <3>1
    <3> QED BY <3>2 DEF IInv, MasterInv
  <2> QED BY <2>3, <2>4, <2>5
<1>2. IInv /\ [Next]_all => [Released]_all
  BY <1>1
<1> QED BY <1>2, ProductionInvariance, PTL DEF Spec, ReleasedIsReviewed

\* A failed or a released film is held by no tick.
LEMMA DecidedStep ==
  ASSUME IInv, Next, NEW j \in Jobs, job[j] \in {"failed", "export_ready"}
  PROVE  job'[j] = job[j]
<1>1. Rows /\ TickInv /\ LeaseInv
  BY TypeParts DEF IInv
<1>2. ASSUME NEW w \in Workers, At(w, "stored"), Holds(w), Mine(w) = j PROVE FALSE
  BY <1>1, <1>2, StoredHolds
<1> QED BY <1>1, <1>2, JobSteps DEF JobMoves, Working

\* No late tick, lapsed lease or replay reopens a failed or a released film.
THEOREM DecidedIsFinalHolds == Spec => DecidedIsFinal
<1>1. IInv /\ [Next]_all =>
        [\A j \in Jobs : job[j] \in {"failed", "export_ready"} => job'[j] = job[j]]_all
  BY DecidedStep
<1> QED BY <1>1, ProductionInvariance, PTL DEF Spec, DecidedIsFinal
=============================================================================
