----------------------------- MODULE Production -----------------------------
(***************************************************************************)
(* The production worker: mvp_production_jobs and the ticks of the cron     *)
(* route that advance them, from storyboard frames to clips, sound cues and *)
(* the rendered master, and the planning of repairs.  What it buys goes     *)
(* through the ledger of MediaDispatch; MasterReview adds the owner.        *)
(*                                                                         *)
(* A tick claims one job under a lease and a fence, does one part of the    *)
(* handler of the state it saw, and releases the job.  Each database        *)
(* command is one action; a tick may die, or outlive its lease, between any *)
(* two.  Writes to the job are fenced by the claim token; writes to frames, *)
(* clips, cues, selections and masters are not.  Cues and repair requests   *)
(* are claimed fleet-wide, not for the job that the tick holds.             *)
(*                                                                         *)
(* Abstractions.                                                           *)
(*  - a claim token is the worker that was given it.                       *)
(*  - the order in which a tick visits shots, and how many it polls, is     *)
(*    free; the counts a job shows its owner are those of the rows.         *)
(*  - an action of a plan is what it regenerates: nothing (reuse_all and    *)
(*    reedit_only), the clip, or the frame and the clip.                    *)
(***************************************************************************)
EXTENDS Integers, FiniteSets

CONSTANTS
  Jobs,
  Shots,        \* shot numbers of every job
  Workers,      \* overlapping ticks
  Nobody,       \* no worker, no job
  Silent,       \* the shots whose cue is deliberate silence
  MaxAttempts,  \* bound on attempts (20 in the code)
  MaxRounds     \* bound on clarification rounds (3 in the code)

ASSUME ProductionAssumption ==
  /\ Nobody \notin Workers /\ Nobody \notin Jobs
  /\ Shots # {} /\ Silent \subseteq Shots
  /\ MaxAttempts \in Nat \ {0} /\ MaxRounds \in Nat

Attempts == 1..MaxAttempts
Working == {"repair_planning", "queued", "generating", "sound_designing", "rendering"}
JobStates == Working \cup {"review_ready", "needs_repair", "export_ready", "failed"}
MediaStates == {"none", "submitted", "complete", "failed"}
CueStates == {"none", "prepared", "claimed", "lapsed", "complete", "failed"}
PlanActions == {"reuse", "clip", "both"}
RequestStates == {"none", "awaiting_retry", "analyzing", "awaiting_clarification",
                  "planned", "executing", "complete", "failed"}
\* Where a tick is: at the handler of the state it saw, declaring cues, about
\* to call the sound provider, with its answer, planning a repair, with a
\* rendered master, with a stored one, reporting it for review, failing its
\* job, or releasing it.
Places == {"idle", "work", "cues", "calling", "answer", "planning", "rendered",
           "stored", "reporting", "throws", "leaves"}

VARIABLES
  job,      \* mvp_production_jobs.state
  attempt,  \* attempt_number
  holder,   \* the worker with worker_claim_token
  expired,  \* worker_lease_expires_at has passed
  run,      \* production_run_statuses.state
  frame, clip, cue,  \* their states, by attempt and shot
  bought,   \* sound generations bought, by attempt and shot
  plan,     \* the repair decision, by attempt and shot
  chosen,   \* the attempt of the selected clip, by attempt and shot; 0: none
  request,  \* mvp_repair_requests.state of the active request
  planner,  \* its planner lease: none, live, lapsed
  rounds,   \* clarification questions asked
  opened,   \* opened_job_version is the job's version
  master,   \* mvp_episode_masters.state, by attempt
  tick      \* each worker's own memory

lane   == <<job, holder, expired>>
media  == <<frame, clip>>
sound  == <<cue, bought>>
repair == <<request, planner, rounds, opened>>
vars == <<job, attempt, holder, expired, run, frame, clip, cue, bought,
          plan, chosen, request, planner, rounds, opened, master, tick>>

Ticks == [at : Places, job : Jobs \cup {Nobody}, saw : Working, nth : Attempts,
          about : Jobs \cup {Nobody}, shot : Shots]

ProductionTypeOK ==
  /\ job \in [Jobs -> JobStates] /\ attempt \in [Jobs -> Attempts]
  /\ holder \in [Jobs -> Workers \cup {Nobody}] /\ expired \in [Jobs -> BOOLEAN]
  /\ run \in [Jobs -> {"active", "waiting_decision", "succeeded", "failed"}]
  /\ frame \in [Jobs -> [Attempts -> [Shots -> MediaStates]]]
  /\ clip \in [Jobs -> [Attempts -> [Shots -> MediaStates]]]
  /\ cue \in [Jobs -> [Attempts -> [Shots -> CueStates]]]
  /\ bought \in [Jobs -> [Attempts -> [Shots -> 0..2]]]
  /\ plan \in [Jobs -> [Attempts -> [Shots -> PlanActions]]]
  /\ chosen \in [Jobs -> [Attempts -> [Shots -> Attempts \cup {0}]]]
  /\ request \in [Jobs -> RequestStates]
  /\ planner \in [Jobs -> {"none", "live", "lapsed"}]
  /\ rounds \in [Jobs -> 0..MaxRounds] /\ opened \in [Jobs -> BOOLEAN]
  /\ master \in [Jobs -> [Attempts -> {"none", "pending_review", "approved",
                                       "rejected", "superseded"}]]
  /\ tick \in [Workers -> Ticks]

Idle == [at |-> "idle", job |-> Nobody, saw |-> "queued", nth |-> 1,
         about |-> Nobody, shot |-> CHOOSE s \in Shots : TRUE]
PerShot(x) == [j \in Jobs |-> [n \in Attempts |-> [s \in Shots |-> x]]]

ProductionInit ==
  /\ job = [j \in Jobs |-> "queued"] /\ attempt = [j \in Jobs |-> 1]
  /\ holder = [j \in Jobs |-> Nobody] /\ expired = [j \in Jobs |-> FALSE]
  /\ run = [j \in Jobs |-> "active"]
  /\ frame = PerShot("none") /\ clip = PerShot("none") /\ cue = PerShot("none")
  /\ bought = PerShot(0)
  /\ plan = PerShot("both")
  /\ chosen = [j \in Jobs |-> [n \in Attempts |-> [s \in Shots |-> IF n = 1 THEN 1 ELSE 0]]]
  /\ request = [j \in Jobs |-> "none"] /\ planner = [j \in Jobs |-> "none"]
  /\ rounds = [j \in Jobs |-> 0] /\ opened = [j \in Jobs |-> FALSE]
  /\ master = [j \in Jobs |-> [n \in Attempts |-> "none"]]
  /\ tick = [w \in Workers |-> Idle]

-----------------------------------------------------------------------------
(* Jobs and ticks.                                                          *)

\* Fault: a job that leaves the worker keeps the claim it was advanced under.
SetJobsKeepingLease(new) ==
  /\ job' = new /\ UNCHANGED <<holder, expired>>
\* Whatever moves a job out of the working states clears its lease (trigger
\* mvp_production_jobs_clear_terminal_worker_lease).
SetJobs(new) ==
  /\ job' = new
  /\ holder' = [j \in Jobs |-> IF new[j] \in Working THEN holder[j] ELSE Nobody]
  /\ expired' = [j \in Jobs |-> new[j] \in Working /\ expired[j]]

Becomes(j, s) == SetJobs([job EXCEPT ![j] = s])

At(w, p) == tick[w].at = p
Handling(w, s) == At(w, "work") /\ tick[w].saw = s
\* A tick that has nothing left but its release remembers its job only.
Goto(w, p) ==
  tick' = [tick EXCEPT ![w] = IF p = "leaves" THEN [Idle EXCEPT !.at = p, !.job = tick[w].job]
                              ELSE [@ EXCEPT !.at = p]]
Dead(w) == tick' = [tick EXCEPT ![w] = Idle]
Mine(w) == tick[w].job
Nth(w) == tick[w].nth
\* The token and fence of the tick are still those of its job.
Holds(w) == holder[Mine(w)] = w
Free(j) == holder[j] = Nobody \/ expired[j]

\* command_claim_next_mvp_production_job first fails every spend-bearing job
\* whose worker vanished.
Ambiguous == {j \in Jobs : job[j] \in {"repair_planning", "queued"}
                           /\ holder[j] # Nobody /\ expired[j]}
FailAmbiguous(leased) ==
  /\ job' = [j \in Jobs |-> IF j \in Ambiguous THEN "failed" ELSE job[j]]
  /\ holder' = [j \in Jobs |-> IF j \in Ambiguous THEN Nobody ELSE leased[j]]

\* ... then it claims another, the longest waiting, so that each has its turn.
ClaimJob(w, c) ==
  /\ At(w, "idle")
  /\ c \notin Ambiguous /\ job[c] \in Working /\ Free(c)
  /\ FailAmbiguous([holder EXCEPT ![c] = w])
  /\ expired' = [j \in Jobs |-> j \notin Ambiguous \cup {c} /\ expired[j]]
  /\ tick' = [tick EXCEPT ![w] = [Idle EXCEPT !.at = "work", !.job = c,
                !.saw = job[c], !.nth = attempt[c], !.about = c]]
  /\ UNCHANGED <<attempt, run, media, sound, plan, chosen, repair, master>>

\* ... if there is one.
ClaimNone(w) ==
  /\ At(w, "idle") /\ Ambiguous # {}
  /\ \A c \in Jobs \ Ambiguous : ~(job[c] \in Working /\ Free(c))
  /\ FailAmbiguous(holder)
  /\ expired' = [j \in Jobs |-> j \notin Ambiguous /\ expired[j]]
  /\ UNCHANGED <<attempt, run, media, sound, plan, chosen, repair, master, tick>>

\* The handler of any state stops early, by a retryable error or because
\* there is nothing left for it to do.
Stops(w) ==
  /\ At(w, "work") \/ At(w, "cues")
  /\ Goto(w, "leaves")
  /\ UNCHANGED <<lane, attempt, run, media, sound, plan, chosen, repair, master>>

\* ... by an error that is not retryable.
Throws(w) ==
  /\ At(w, "work") \/ At(w, "cues")
  /\ Goto(w, "throws")
  /\ UNCHANGED <<lane, attempt, run, media, sound, plan, chosen, repair, master>>

\* Fault: the failure of a tick is written whatever has become of its job.
FailJobUnfenced(w) ==
  /\ At(w, "throws") /\ Goto(w, "leaves")
  /\ Becomes(Mine(w), "failed")
  /\ UNCHANGED <<attempt, run, media, sound, plan, chosen, repair, master>>
\* failJob
FailJob(w) ==
  LET j == Mine(w) IN
  /\ At(w, "throws") /\ Goto(w, "leaves")
  /\ IF Holds(w) /\ attempt[j] = Nth(w) /\ job[j] = tick[w].saw
     THEN Becomes(j, "failed")
     ELSE UNCHANGED lane
  /\ UNCHANGED <<attempt, run, media, sound, plan, chosen, repair, master>>

\* command_release_mvp_production_job; a stale release is ignored.
Release(w) ==
  LET j == Mine(w) IN
  /\ At(w, "leaves") /\ Dead(w)
  /\ IF Holds(w)
     THEN /\ holder' = [holder EXCEPT ![j] = Nobody]
          /\ expired' = [expired EXCEPT ![j] = FALSE]
          /\ opened' = [opened EXCEPT ![j] = FALSE]
     ELSE UNCHANGED <<holder, expired, opened>>
  /\ UNCHANGED <<job, attempt, run, media, sound, plan, chosen, request,
                 planner, rounds, master>>

Dies(w) ==
  /\ ~At(w, "idle") /\ Dead(w)
  /\ UNCHANGED <<lane, attempt, run, media, sound, plan, chosen, repair, master>>

JobLeaseLapses(j) ==
  /\ holder[j] # Nobody /\ ~expired[j]
  /\ expired' = [expired EXCEPT ![j] = TRUE]
  /\ UNCHANGED <<job, holder, attempt, run, media, sound, plan, chosen,
                 repair, master, tick>>

-----------------------------------------------------------------------------
(* queued: frames, then clips.                                              *)

Wanted(j, n, actions) == {s \in Shots : plan[j][n][s] \in actions}
FramesWanted(j, n) == Wanted(j, n, {"both"})
ClipsWanted(j, n) == Wanted(j, n, {"clip", "both"})
AllSelected(j, n) == n > 1 /\ \A s \in Shots : chosen[j][n][s] # 0
FramesReady(j, n) == \A s \in FramesWanted(j, n) : frame[j][n][s] = "complete"
ClipsSubmitted(j, n) == \A s \in ClipsWanted(j, n) : clip[j][n][s] # "none"

\* pollStoryboardFrame, and the refusal of a frame that has failed before.
PollFrame(w, s) ==
  LET j == Mine(w) n == Nth(w) IN
  /\ Handling(w, "queued")
  /\ \/ /\ frame[j][n][s] = "submitted"
        /\ \/ frame' = [frame EXCEPT ![j][n][s] = "complete"] /\ UNCHANGED tick
           \/ frame' = [frame EXCEPT ![j][n][s] = "failed"] /\ Goto(w, "throws")
     \/ frame[j][n][s] = "failed" /\ Goto(w, "throws") /\ UNCHANGED frame
  /\ UNCHANGED <<lane, attempt, run, clip, sound, plan, chosen, repair, master>>

SubmitFrame(w, s) ==
  LET j == Mine(w) n == Nth(w) IN
  /\ Handling(w, "queued")
  /\ s \in FramesWanted(j, n) /\ frame[j][n][s] = "none"
  /\ frame' = [frame EXCEPT ![j][n][s] = "submitted"]
  /\ UNCHANGED <<lane, attempt, run, clip, sound, plan, chosen, repair, master, tick>>

SubmitClip(w, s) ==
  LET j == Mine(w) n == Nth(w) IN
  /\ Handling(w, "queued") /\ FramesReady(j, n)
  /\ s \in ClipsWanted(j, n) /\ clip[j][n][s] = "none"
  /\ clip' = [clip EXCEPT ![j][n][s] = "submitted"]
  /\ UNCHANGED <<lane, attempt, run, frame, sound, plan, chosen, repair, master, tick>>

\* The last step of submitJob.  The update is fenced, and not checked.
StartGenerating(w) ==
  LET j == Mine(w) n == Nth(w) IN
  /\ Handling(w, "queued") /\ FramesReady(j, n)
  /\ ClipsSubmitted(j, n) \/ AllSelected(j, n)
  /\ IF Holds(w) /\ job[j] = "queued" THEN Becomes(j, "generating") ELSE UNCHANGED lane
  /\ Goto(w, IF AllSelected(j, n) THEN "cues" ELSE "leaves")
  /\ UNCHANGED <<attempt, run, media, sound, plan, chosen, repair, master>>

-----------------------------------------------------------------------------
(* generating: polls, selections, and the declaration of the cues.          *)

\* completeClip.  A clip whose provider failed stays submitted.
PollClip(w, s) ==
  LET j == Mine(w) n == Nth(w) IN
  /\ Handling(w, "generating") /\ clip[j][n][s] = "submitted"
  /\ \/ clip' = [clip EXCEPT ![j][n][s] = "complete"] /\ UNCHANGED tick
     \/ clip' = [clip EXCEPT ![j][n][s] = "failed"] /\ Goto(w, "throws")
  /\ UNCHANGED <<lane, attempt, run, frame, sound, plan, chosen, repair, master>>

\* The attempt whose clip the decision for a shot selects once it is there.
Selectable(j, n, s) ==
  IF s \notin ClipsWanted(j, n) THEN chosen[j][n - 1][s]
  ELSE IF clip[j][n][s] = "complete" THEN n ELSE 0

\* Fault: a regenerated shot is selected as soon as its clip is submitted.
SelectSubmitted(w, s) ==
  LET j == Mine(w) n == Nth(w) IN
  /\ At(w, "work") /\ tick[w].saw \in {"queued", "generating"}
  /\ n > 1 /\ request[j] \in {"planned", "executing"}
  /\ chosen[j][n][s] = 0
  /\ chosen' = [chosen EXCEPT ![j][n][s] =
                  IF s \in ClipsWanted(j, n) THEN n ELSE chosen[j][n - 1][s]]
  /\ request' = [request EXCEPT ![j] = IF \A t \in Shots : chosen'[j][n][t] # 0
                                       THEN "complete" ELSE "executing"]
  /\ UNCHANGED <<lane, attempt, run, media, sound, plan, planner, rounds,
                 opened, master, tick>>
\* recordReadyRepairSelections, one shot at a time.
SelectShot(w, s) ==
  LET j == Mine(w) n == Nth(w) IN
  /\ At(w, "work") /\ tick[w].saw \in {"queued", "generating"}
  /\ n > 1 /\ request[j] \in {"planned", "executing"}
  /\ chosen[j][n][s] = 0 /\ Selectable(j, n, s) # 0
  /\ chosen' = [chosen EXCEPT ![j][n][s] = Selectable(j, n, s)]
  /\ request' = [request EXCEPT ![j] = IF \A t \in Shots : chosen'[j][n][t] # 0
                                       THEN "complete" ELSE "executing"]
  /\ UNCHANGED <<lane, attempt, run, media, sound, plan, planner, rounds,
                 opened, master, tick>>

\* The last step of pollJob.
ClipsReady(w) ==
  LET j == Mine(w) n == Nth(w) IN
  /\ Handling(w, "generating")
  /\ IF n = 1 THEN \A s \in Shots : clip[j][n][s] = "complete" ELSE AllSelected(j, n)
  /\ Goto(w, "cues")
  /\ UNCHANGED <<lane, attempt, run, media, sound, plan, chosen, repair, master>>

\* Fault: a job with all its cues declared is rendered, paid for or not.
CuesAllDeclared(j, new) == IF \A s \in Shots : new[s] # "none" THEN "rendering" ELSE job[j]
\* The state of a job whose cues are `new`.
CuesDeclared(j, new) ==
  IF \A s \in Shots : new[s] = "complete" THEN "rendering"
  ELSE IF \A s \in Shots : new[s] # "none" THEN "sound_designing" ELSE job[j]

\* command_materialize_mvp_sfx_cue, for a shot that has none yet.  Silence,
\* and the identical cue of the attempt before, cost nothing.
DeclareCue(w, s) ==
  LET j == Mine(w) n == Nth(w) IN
  /\ At(w, "cues")
  /\ attempt[j] = n /\ job[j] \in {"generating", "sound_designing"}
  /\ cue[j][n][s] = "none"
  /\ \E c \in {"prepared", "complete"} :
       /\ s \in Silent => c = "complete"
       /\ c = "complete" => s \in Silent \/ (n > 1 /\ cue[j][n - 1][s] = "complete")
       /\ cue' = [cue EXCEPT ![j][n][s] = c]
  /\ Becomes(j, CuesDeclared(j, cue'[j][n]))
  /\ UNCHANGED <<attempt, run, media, bought, plan, chosen, repair, master, tick>>

-----------------------------------------------------------------------------
(* sound_designing: one cue of any job, bought and recorded under a lease.  *)

Current(j) == cue[j][attempt[j]]
\* The cues of the fleet in state c whose job is designing its sound.
Cues(c, jobs) == {p \in Jobs \X Shots : jobs[p[1]] = "sound_designing" /\ Current(p[1])[p[2]] = c}
WithCue(j, s, c) == [cue EXCEPT ![j][attempt[j]][s] = c]
\* What a fleet-wide claim gives up first: one of the lapsed, if any.
Oldest(S) == IF S = {} THEN {S} ELSE {{x} : x \in S}

\* Fault: a cue whose generation may have been bought is offered again.
ClaimCueAgain(w) ==
  /\ Handling(w, "sound_designing")
  /\ \E p \in Cues("prepared", job) \cup Cues("lapsed", job) :
       /\ cue' = WithCue(p[1], p[2], "claimed")
       /\ tick' = [tick EXCEPT ![w].at = "calling", ![w].about = p[1], ![w].shot = p[2]]
  /\ UNCHANGED <<lane, attempt, run, media, bought, plan, chosen, repair, master>>
\* Fault: a lapsed cue is left alone.
ClaimPreparedCue(w) ==
  /\ Handling(w, "sound_designing")
  /\ \E p \in Cues("prepared", job) :
       /\ cue' = WithCue(p[1], p[2], "claimed")
       /\ tick' = [tick EXCEPT ![w].at = "calling", ![w].about = p[1], ![w].shot = p[2]]
  /\ UNCHANGED <<lane, attempt, run, media, bought, plan, chosen, repair, master>>
\* command_claim_next_mvp_sfx: a claim past its lease fails its cue and its
\* job, then the next prepared cue is claimed.
ClaimCue(w) ==
  /\ Handling(w, "sound_designing")
  /\ \E lost \in Oldest(Cues("lapsed", job)) :
     LET given == {p[1] : p \in lost}
         jobs == [j \in Jobs |-> IF j \in given THEN "failed" ELSE job[j]]
         swept == [j \in Jobs |-> [n \in Attempts |-> [s \in Shots |->
                     IF <<j, s>> \in lost /\ n = attempt[j] THEN "failed" ELSE cue[j][n][s]]]]
         offered == Cues("prepared", jobs)
     IN /\ SetJobs(jobs)
        /\ \/ offered = {} /\ Goto(w, "leaves") /\ cue' = swept
           \/ \E p \in offered :
                /\ cue' = [swept EXCEPT ![p[1]][attempt[p[1]]][p[2]] = "claimed"]
                /\ tick' = [tick EXCEPT ![w].at = "calling", ![w].about = p[1],
                                        ![w].shot = p[2]]
  /\ UNCHANGED <<attempt, run, media, bought, plan, chosen, repair, master>>

\* The synchronous provider call: it is charged, though its answer be lost or
\* its output be unfit.
CallSoundProvider(w) ==
  LET j == tick[w].about s == tick[w].shot IN
  /\ At(w, "calling") /\ Goto(w, "answer")
  /\ bought' = [bought EXCEPT ![j][attempt[j]][s] = IF @ < 2 THEN @ + 1 ELSE @]
  /\ UNCHANGED <<lane, attempt, run, media, cue, plan, chosen, repair, master>>

Claimed(w) == Current(tick[w].about)[tick[w].shot] = "claimed"

\* command_complete_mvp_sfx
CompleteCue(w) ==
  LET j == tick[w].about s == tick[w].shot IN
  /\ At(w, "answer") /\ Claimed(w)
  /\ cue' = WithCue(j, s, "complete")
  /\ Becomes(j, IF /\ job[j] = "sound_designing"
                   /\ \A t \in Shots : cue'[j][attempt[j]][t] = "complete"
                THEN "rendering" ELSE job[j])
  /\ Goto(w, "leaves")
  /\ UNCHANGED <<attempt, run, media, bought, plan, chosen, repair, master>>

\* failClaim, whose own error is swallowed, and the error thrown after it.
FailCue(w) ==
  LET j == tick[w].about s == tick[w].shot IN
  /\ At(w, "calling") \/ At(w, "answer")
  /\ IF Claimed(w)
     THEN /\ cue' = WithCue(j, s, "failed")
          /\ IF job[j] = "sound_designing"
             THEN Becomes(j, "failed")
             ELSE UNCHANGED lane
     ELSE UNCHANGED <<lane, cue>>
  /\ Goto(w, "throws") \/ Goto(w, "leaves")
  /\ UNCHANGED <<attempt, run, media, bought, plan, chosen, repair, master>>

CueLeaseLapses(j, s) ==
  /\ Current(j)[s] = "claimed" /\ cue' = WithCue(j, s, "lapsed")
  /\ UNCHANGED <<lane, attempt, run, media, bought, plan, chosen, repair, master, tick>>

-----------------------------------------------------------------------------
(* rendering: the master, and the hand-over to its owner.                   *)

RenderInputs(j, n) ==
  \A s \in Shots : /\ cue[j][n][s] = "complete"
                   /\ chosen[j][n][s] # 0 /\ clip[j][chosen[j][n][s]][s] = "complete"

RenderMaster(w) ==
  /\ Handling(w, "rendering") /\ RenderInputs(Mine(w), Nth(w))
  /\ Goto(w, "rendered") \/ Goto(w, "throws")
  /\ UNCHANGED <<lane, attempt, run, media, sound, plan, chosen, repair, master>>

\* The upload and the row: an identical master is a replay, a different one a
\* collision, which is not retryable.
StoreMaster(w) ==
  LET j == Mine(w) n == Nth(w) IN
  /\ At(w, "rendered")
  /\ IF master[j][n] = "none"
     THEN master' = [master EXCEPT ![j][n] = "pending_review"] /\ Goto(w, "stored")
     ELSE UNCHANGED master /\ (Goto(w, "stored") \/ Goto(w, "throws"))
  /\ UNCHANGED <<lane, attempt, run, media, sound, plan, chosen, repair>>

\* Fenced by the token; a lost lease, as any error of the update, is final for
\* the tick.
HandOver(w) ==
  /\ At(w, "stored")
  /\ \/ Holds(w) /\ Becomes(Mine(w), "review_ready") /\ Goto(w, "reporting")
     \/ UNCHANGED lane /\ Goto(w, "throws")
  /\ UNCHANGED <<attempt, run, media, sound, plan, chosen, repair, master>>

\* A command of its own, with no condition on the run's state.
ReportReview(w) ==
  /\ At(w, "reporting") /\ Goto(w, "leaves")
  /\ run' = [run EXCEPT ![Mine(w)] = "waiting_decision"]
  /\ UNCHANGED <<lane, attempt, media, sound, plan, chosen, repair, master>>

-----------------------------------------------------------------------------
(* repair_planning: the request of any job.                                 *)

Plannable(jobs) == {j \in Jobs : jobs[j] = "repair_planning" /\ request[j] = "analyzing"}

\* command_claim_next_mvp_repair
ClaimRepair(w) ==
  /\ Handling(w, "repair_planning")
  /\ \E lost \in Oldest({j \in Plannable(job) : planner[j] = "lapsed"}) :
     LET Lost(f, x) == [j \in Jobs |-> IF j \in lost THEN x ELSE f[j]]
         offered == {j \in Plannable(job) \ lost : planner[j] = "none"}
     IN /\ SetJobs(Lost(job, "failed"))
        /\ run' = Lost(run, "failed")
        /\ request' = Lost(request, "failed")
        /\ \/ offered = {} /\ Goto(w, "leaves") /\ planner' = Lost(planner, "none")
           \/ \E j \in offered :
                /\ planner' = [Lost(planner, "none") EXCEPT ![j] = "live"]
                /\ tick' = [tick EXCEPT ![w].at = "planning", ![w].about = j]
  /\ UNCHANGED <<attempt, media, sound, plan, chosen, rounds, opened, master>>

Planning(w) ==
  At(w, "planning") /\ request[tick[w].about] = "analyzing" /\ planner[tick[w].about] = "live"

\* command_publish_mvp_repair_plan
PublishPlan(w) ==
  LET j == tick[w].about IN
  /\ Planning(w) /\ job[j] = "repair_planning"
  /\ \E p \in [Shots -> PlanActions] : plan' = [plan EXCEPT ![j][attempt[j]] = p]
  /\ request' = [request EXCEPT ![j] = "planned"]
  /\ planner' = [planner EXCEPT ![j] = "none"]
  /\ Becomes(j, "queued") /\ Goto(w, "leaves")
  /\ UNCHANGED <<attempt, run, media, sound, chosen, rounds, opened, master>>

\* command_publish_mvp_repair_clarification.  The job goes on being claimed.
PublishClarification(w) ==
  LET j == tick[w].about IN
  /\ Planning(w) /\ job[j] = "repair_planning" /\ rounds[j] < MaxRounds
  /\ request' = [request EXCEPT ![j] = "awaiting_clarification"]
  /\ planner' = [planner EXCEPT ![j] = "none"]
  /\ rounds' = [rounds EXCEPT ![j] = @ + 1]
  /\ Goto(w, "leaves")
  /\ UNCHANGED <<lane, attempt, run, media, sound, plan, chosen, opened, master>>

\* failRepair, whose own error is swallowed, and the error thrown after it.
FailRepair(w) ==
  LET j == tick[w].about IN
  /\ At(w, "planning")
  /\ IF Planning(w)
     THEN /\ request' = [request EXCEPT ![j] = "failed"]
          /\ planner' = [planner EXCEPT ![j] = "none"]
          /\ run' = [run EXCEPT ![j] = "failed"]
          /\ IF job[j] \in Working \ {"sound_designing"}
             THEN Becomes(j, "failed")
             ELSE UNCHANGED lane
     ELSE UNCHANGED <<lane, run, request, planner>>
  /\ Goto(w, "throws") \/ Goto(w, "leaves")
  /\ UNCHANGED <<attempt, media, sound, plan, chosen, rounds, opened, master>>

PlannerLeaseLapses(j) ==
  /\ planner[j] = "live" /\ planner' = [planner EXCEPT ![j] = "lapsed"]
  /\ UNCHANGED <<lane, attempt, run, media, sound, plan, chosen, request,
                 rounds, opened, master, tick>>

-----------------------------------------------------------------------------
Submits(w) ==
  \/ \E s \in Shots : PollFrame(w, s) \/ SubmitFrame(w, s) \/ SubmitClip(w, s)
  \/ StartGenerating(w)
Generates(w) ==
  \/ \E s \in Shots : PollClip(w, s) \/ SelectShot(w, s) \/ DeclareCue(w, s)
  \/ ClipsReady(w)
Sounds(w) == CallSoundProvider(w) \/ CompleteCue(w) \/ FailCue(w)
Renders(w) == RenderMaster(w) \/ StoreMaster(w) \/ HandOver(w) \/ ReportReview(w)
Plans(w) == ClaimRepair(w) \/ PublishPlan(w) \/ PublishClarification(w) \/ FailRepair(w)
Steps(w) ==
  \/ Submits(w) \/ Generates(w) \/ Sounds(w) \/ Renders(w) \/ Plans(w)
  \/ Stops(w) \/ Throws(w) \/ FailJob(w) \/ Release(w)
Clock ==
  \E j \in Jobs : \/ JobLeaseLapses(j) \/ PlannerLeaseLapses(j)
                  \/ \E s \in Shots : CueLeaseLapses(j, s)

ProductionNext ==
  \/ \E w \in Workers : \/ \E j \in Jobs : ClaimJob(w, j)
                        \/ ClaimNone(w) \/ ClaimCue(w) \/ Steps(w) \/ Dies(w)
  \/ Clock

\* Ticks come for ever, and are not always killed before they have claimed a
\* job, or a cue; a claimed tick ends, one way or the other; leases lapse.
ProductionFairness ==
  /\ \A w \in Workers : /\ \A j \in Jobs : SF_vars(ClaimJob(w, j))
                        /\ SF_vars(ClaimCue(w)) /\ WF_vars(Steps(w) \/ Dies(w))
  /\ \A j \in Jobs : /\ WF_vars(JobLeaseLapses(j))
                     /\ \A s \in Shots : WF_vars(CueLeaseLapses(j, s))

-----------------------------------------------------------------------------
(* Properties.                                                              *)

\* renderJob "assets are not ready": nothing is rendered, and nothing shown
\* for review, with a cue or a selected clip of its attempt missing.
RenderInputsComplete ==
  \A j \in Jobs : job[j] \in {"rendering", "review_ready", "export_ready"} =>
    RenderInputs(j, attempt[j])

\* "Genie will not spend twice automatically": whatever dies or lapses, and
\* whichever ticks overlap, a sound is generated at most once per attempt.
CuePaidOnce ==
  \A j \in Jobs, n \in Attempts, s \in Shots : bought[j][n][s] <= 1

\* A repair changes what its plan says and keeps the rest: the selected clip
\* of a shot is complete, of this attempt if the plan regenerates it, and the
\* very clip of the attempt before if it does not.
RepairKeepsTheRest ==
  \A j \in Jobs, n \in Attempts, s \in Shots : n > 1 /\ chosen[j][n][s] # 0 =>
    /\ clip[j][chosen[j][n][s]][s] = "complete"
    /\ chosen[j][n][s] = IF plan[j][n][s] = "reuse" THEN chosen[j][n - 1][s] ELSE n

\* A job whose sound is designed is rendered or failed in the end, whichever
\* ticks die with a cue in their hands.
SoundSettles ==
  \A j \in Jobs : job[j] = "sound_designing" ~> job[j] # "sound_designing"
=============================================================================
