------------------------------ MODULE Preflight ------------------------------
(***************************************************************************)
(* The preflight control plane of the studio: the SQL commands that move   *)
(* preflight runs, their root stage, its attempts and their leases.  One   *)
(* instance of this module is one LANE: the successive runs of one kind    *)
(* for one configuration candidate, numbered by run_number.  Every command *)
(* is one database transaction, so each is one action here.                *)
(*                                                                         *)
(* Callers are not modelled in this module: any command may arrive at any  *)
(* time, for any run and any attempt, which covers duplicated, delayed and *)
(* reordered calls.  PreflightWorkers adds the processes that call them.   *)
(*                                                                         *)
(* Abstractions.                                                           *)
(*  - authority_epoch is max + 1 over the lane, as run_number is, so an    *)
(*    envelope of run r always carries run r's epoch: the run number       *)
(*    stands for both.                                                     *)
(*  - highest_fencing_token starts at 0 and next_attempt_no at 1, and the  *)
(*    two statements that raise one raise the other: issued[r] is the      *)
(*    first, issued[r] + 1 the second, and an attempt is named by its      *)
(*    number, which is its fence.                                          *)
(*  - expected versions are read and compared by one atomic action: a      *)
(*    command whose version is stale raises and changes nothing.           *)
(*  - replays that return the stored answer change nothing and are         *)
(*    stuttering steps.                                                    *)
(*  - time is only what the commands compare it with: whether available_at *)
(*    has come (due), and whether a lease is live, past its expiry         *)
(*    (lapsed), or past it by the reaper's 15 seconds (reapable).          *)
(***************************************************************************)
EXTENDS Integers

CONSTANTS
  MaxRuns,          \* bound: runs created in the lane
  MaximumAttempts,  \* preflight_stage_runs.maximum_attempts
  TriggerRuns,      \* identities of dispatching executions (trigger_run_id)
  NoTrigger         \* trigger_run_id is null

ASSUME BoundsAssumption ==
  MaxRuns \in Nat \ {0} /\ MaximumAttempts \in Nat \ {0}

ASSUME TriggerAssumption == NoTrigger \notin TriggerRuns

Runs == 1..MaxRuns

\* One slot past the budget, so that an attempt too many would be visible.
Slots == 1..(MaximumAttempts + 1)

LiveStates     == {"claimed", "running", "waiting_external", "waiting_decision"}
WaitingStates  == {"waiting_external", "waiting_decision"}
TerminalStage  == {"succeeded", "failed_terminal", "canceled", "superseded"}
TerminalRun    == {"succeeded", "failed", "canceled", "superseded"}

\* "none" is a row that does not exist yet.
RunStates     == {"none", "created", "queued", "running", "paused"}
                   \cup WaitingStates \cup TerminalRun
StageStates   == {"none", "created", "ready", "failed_retryable"}
                   \cup LiveStates \cup TerminalStage
AttemptStates == {"none", "failed_retryable"} \cup LiveStates \cup TerminalStage

\* state = 'active' is one of the first three, by the clock.
ActiveLease   == {"live", "lapsed", "reapable"}
LeaseStates   == {"none", "consumed", "expired", "revoked"} \cup ActiveLease

VARIABLES
  runState,     \* preflight_runs.state
  triggerRun,   \* preflight_runs.trigger_run_id
  stageState,   \* preflight_stage_runs.state of the run's root stage
  issued,       \* highest_fencing_token of that stage
  due,          \* available_at <= now
  attempt,      \* preflight_stage_attempts.state, by attempt number
  lease,        \* preflight_stage_leases, by attempt number
  reaped,       \* some attempt ended failed_retryable with 'lease_expired'
  deadLetters,  \* the attempts of the run in preflight_dead_letters
  blockedWork   \* the 'preflight.blocked' work item of each attempt

runVars   == <<runState, triggerRun>>
stageVars == <<stageState, issued, due>>
vars == <<runState, triggerRun, stageState, issued, due, attempt, lease,
          reaped, deadLetters, blockedWork>>

TypeOK ==
  /\ runState \in [Runs -> RunStates]
  /\ triggerRun \in [Runs -> TriggerRuns \cup {NoTrigger}]
  /\ stageState \in [Runs -> StageStates]
  /\ issued \in [Runs -> Nat]
  /\ due \in [Runs -> BOOLEAN]
  /\ attempt \in [Runs -> [Slots -> AttemptStates]]
  /\ lease \in [Runs -> [Slots -> LeaseStates]]
  /\ reaped \in [Runs -> BOOLEAN]
  /\ deadLetters \in [Runs -> SUBSET Slots]
  /\ blockedWork \in [Runs -> [Slots -> {"none", "open", "superseded"}]]

Init ==
  /\ runState = [r \in Runs |-> "none"]
  /\ triggerRun = [r \in Runs |-> NoTrigger]
  /\ stageState = [r \in Runs |-> "none"]
  /\ issued = [r \in Runs |-> 0]
  /\ due = [r \in Runs |-> TRUE]
  /\ attempt = [r \in Runs |-> [a \in Slots |-> "none"]]
  /\ lease = [r \in Runs |-> [a \in Slots |-> "none"]]
  /\ reaped = [r \in Runs |-> FALSE]
  /\ deadLetters = [r \in Runs |-> {}]
  /\ blockedWork = [r \in Runs |-> [a \in Slots |-> "none"]]

-----------------------------------------------------------------------------
(* Triggers of the tables and statements shared by several commands.       *)

\* Trigger on attempts: a new failed_terminal opens a 'preflight.blocked' item.
SurfaceTerminalFailure(r) ==
  blockedWork' = [blockedWork EXCEPT ![r] = [a \in Slots |->
    IF attempt'[r][a] = "failed_terminal" /\ attempt[r][a] # "failed_terminal"
    THEN "open" ELSE blockedWork[r][a]]]
\* Fault: only the run's own items are closed.
SupersedeOwnWork(r) ==
  blockedWork' = [blockedWork EXCEPT ![r] = [a \in Slots |->
    IF blockedWork[r][a] = "open" THEN "superseded" ELSE blockedWork[r][a]]]

\* Trigger on runs: success closes the open items of the lane's earlier runs.
SupersedeRecoveredWork(r) ==
  blockedWork' = [q \in Runs |-> [a \in Slots |->
    IF q < r /\ blockedWork[q][a] = "open" THEN "superseded"
    ELSE blockedWork[q][a]]]
\* Fault: the cascade forgets the leases.
RunFailsKeepingLeases(r, att, lse, stg) ==
  /\ runState' = [runState EXCEPT ![r] = "failed"]
  /\ attempt' = [attempt EXCEPT ![r] = [a \in Slots |->
       IF att[a] \in LiveStates THEN "failed_terminal" ELSE att[a]]]
  /\ lease' = [lease EXCEPT ![r] = lse]
  /\ stageState' = [stageState EXCEPT ![r] =
       IF stg \in TerminalStage THEN stg ELSE "failed_terminal"]
  /\ SurfaceTerminalFailure(r)

\* The run becomes failed.  att, lse and stg are what the command has already
\* made of the attempts, leases and stage; the cascade trigger closes the rest.
RunFails(r, att, lse, stg) ==
  /\ runState' = [runState EXCEPT ![r] = "failed"]
  /\ attempt' = [attempt EXCEPT ![r] = [a \in Slots |->
       IF att[a] \in LiveStates THEN "failed_terminal" ELSE att[a]]]
  /\ lease' = [lease EXCEPT ![r] = [a \in Slots |->
       IF lse[a] \in ActiveLease THEN "revoked" ELSE lse[a]]]
  /\ stageState' = [stageState EXCEPT ![r] =
       IF stg \in TerminalStage THEN stg ELSE "failed_terminal"]
  /\ SurfaceTerminalFailure(r)

\* update preflight_stage_leases set state = s where ... state = 'active'.
CloseLease(r, a, s) ==
  IF lease[r][a] \in ActiveLease
  THEN [lease[r] EXCEPT ![a] = s] ELSE lease[r]
\* The root stage goes back to created, after a back-off, and the run to queued.
RequeueRun(r) ==
  /\ stageState' = [stageState EXCEPT ![r] = "created"]
  /\ due' = [due EXCEPT ![r] = FALSE]
  /\ runState' = [runState EXCEPT ![r] = "queued"]
  /\ triggerRun' = [triggerRun EXCEPT ![r] = NoTrigger]

\* A new attempt with the next fence, its lease, and the stage claimed for it.
IssueAttempt(r) ==
  /\ issued' = [issued EXCEPT ![r] = @ + 1]
  /\ attempt' = [attempt EXCEPT ![r][issued[r] + 1] = "claimed"]
  /\ lease' = [lease EXCEPT ![r][issued[r] + 1] = "live"]
  /\ stageState' = [stageState EXCEPT ![r] = "claimed"]

BudgetLeft(r) == issued[r] + 1 <= MaximumAttempts

-----------------------------------------------------------------------------
(* Commands on runs.                                                       *)
\* Fault: without the unique index on active runs.
CreateAnyRun(r) ==
  /\ runState[r] = "none"
  /\ \A q \in Runs : q < r => runState[q] # "none"
  /\ runState' = [runState EXCEPT ![r] = "created"]
  /\ stageState' = [stageState EXCEPT ![r] = "created"]
  /\ UNCHANGED <<triggerRun, issued, due, attempt, lease, reaped,
                 deadLetters, blockedWork>>

\* command_create_preflight_run: the next run_number, and its root stage.  The
\* partial unique index refuses it while another run of the lane is active.
CreateRun(r) ==
  /\ runState[r] = "none"
  /\ \A q \in Runs : q < r => runState[q] \in TerminalRun
  /\ runState' = [runState EXCEPT ![r] = "created"]
  /\ stageState' = [stageState EXCEPT ![r] = "created"]
  /\ UNCHANGED <<triggerRun, issued, due, attempt, lease, reaped,
                 deadLetters, blockedWork>>

\* command_transition_preflight_run; only 'started' is given a trigger_run_id.
MoveRun(r, from, to) ==
  /\ runState[r] \in from
  /\ runState' = [runState EXCEPT ![r] = to]

\* 'enqueue' from created or paused; 'resume' is the second of these.
EnqueueRun(r) ==
  /\ MoveRun(r, {"created", "paused"}, "queued")
  /\ UNCHANGED <<triggerRun, stageState, issued, due, attempt, lease, reaped,
                 deadLetters, blockedWork>>

StartRun(r, t) ==
  /\ MoveRun(r, {"queued"}, "running")
  /\ triggerRun' = [triggerRun EXCEPT ![r] = t]
  /\ UNCHANGED <<stageState, issued, due, attempt, lease, reaped,
                 deadLetters, blockedWork>>

\* 'wait_external' and 'wait_decision' on the run alone.
WaitRun(r, w) ==
  /\ MoveRun(r, {"running"}, w)
  /\ UNCHANGED <<triggerRun, stageState, issued, due, attempt, lease, reaped,
                 deadLetters, blockedWork>>

PauseRun(r) ==
  /\ MoveRun(r, {"created", "queued", "running"} \cup WaitingStates, "paused")
  /\ UNCHANGED <<triggerRun, stageState, issued, due, attempt, lease, reaped,
                 deadLetters, blockedWork>>
\* Fault: the required stages are not looked at.
SucceedRunUnchecked(r) ==
  /\ MoveRun(r, {"running", "waiting_external"}, "succeeded")
  /\ SupersedeRecoveredWork(r)
  /\ UNCHANGED <<triggerRun, stageState, issued, due, attempt, lease, reaped,
                 deadLetters>>

SucceedRun(r) ==
  /\ stageState[r] = "succeeded"
  /\ MoveRun(r, {"running", "waiting_external"}, "succeeded")
  /\ SupersedeRecoveredWork(r)
  /\ UNCHANGED <<triggerRun, stageState, issued, due, attempt, lease, reaped,
                 deadLetters>>
\* Fault: a late 'fail' is not rejected.
FailRunLate(r) ==
  /\ runState[r] # "none"
  /\ RunFails(r, attempt[r], lease[r], stageState[r])
  /\ UNCHANGED <<triggerRun, issued, due, reaped, deadLetters>>

\* 'fail'.  'cancel' and 'supersede' are accepted in the same states, but the
\* command then assigns a CASE of two string constants, which is text, to enum
\* columns: the statement raises and the whole command is rolled back.
FailRun(r) ==
  /\ runState[r] \notin TerminalRun \cup {"none"}
  /\ RunFails(r, attempt[r], lease[r], stageState[r])
  /\ UNCHANGED <<triggerRun, issued, due, reaped, deadLetters>>

\* command_requeue_claimed_preflight_control: the run goes back to the queue
\* and the claimed attempt keeps its lease for the next dispatcher to resume.
RequeueClaimed(r) ==
  /\ stageState[r] = "claimed"
  /\ attempt[r][issued[r]] = "claimed"
  /\ lease[r][issued[r]] = "live"
  /\ MoveRun(r, {"running"}, "queued")
  /\ triggerRun' = [triggerRun EXCEPT ![r] = NoTrigger]
  /\ UNCHANGED <<stageState, issued, due, attempt, lease, reaped,
                 deadLetters, blockedWork>>

-----------------------------------------------------------------------------
(* The broker's control path: dispatch, record, finalize, fail.            *)

\* command_dispatch_preflight_control on a queued run whose stage is created.
\* The attempt budget is not compared here: whoever requeues has done it.
DispatchFresh(r, t) ==
  /\ stageState[r] = "created"
  /\ due[r]
  /\ MoveRun(r, {"queued"}, "running")
  /\ triggerRun' = [triggerRun EXCEPT ![r] = t]
  /\ IssueAttempt(r)
  /\ UNCHANGED <<due, reaped, deadLetters, blockedWork>>

\* ... on a queued run whose stage is still claimed or running: the same
\* attempt is handed on, if its lease is still live.
DispatchResume(r, t) ==
  /\ stageState[r] \in {"claimed", "running"}
  /\ attempt[r][issued[r]] \in {"claimed", "running"}
  /\ lease[r][issued[r]] = "live"
  /\ MoveRun(r, {"queued"}, "running")
  /\ triggerRun' = [triggerRun EXCEPT ![r] = t]
  /\ UNCHANGED <<stageState, issued, due, attempt, lease, reaped,
                 deadLetters, blockedWork>>

\* command_record_preflight_control_output: attempt and stage succeed and the
\* lease is consumed in one transaction.  The state of the run is not read.
RecordOutput(r, a) ==
  /\ attempt[r][a] = "claimed"
  /\ a = issued[r]
  /\ lease[r][a] = "live"
  /\ attempt' = [attempt EXCEPT ![r][a] = "succeeded"]
  /\ lease' = [lease EXCEPT ![r] = CloseLease(r, a, "consumed")]
  /\ stageState' = [stageState EXCEPT ![r] = "succeeded"]
  /\ UNCHANGED <<runState, triggerRun, issued, due, reaped, deadLetters,
                 blockedWork>>

\* command_finalize_preflight_control, by the execution that dispatched it.
FinalizeControl(r, t) ==
  /\ triggerRun[r] = t
  /\ stageState[r] = "succeeded"
  /\ MoveRun(r, {"running"}, "succeeded")
  /\ SupersedeRecoveredWork(r)
  /\ UNCHANGED <<triggerRun, stageState, issued, due, attempt, lease, reaped,
                 deadLetters>>
\* Fault: the fence is not compared, nor the lease.
HoldsControlUnfenced(r, a) ==
  /\ attempt[r][a] # "none"
  /\ stageState[r] \in {"claimed", "running"}
  /\ runState[r] = "running"

\* The authority command_fail_preflight_control asks of its caller.
HoldsControl(r, a) ==
  /\ attempt[r][a] \in {"claimed", "running"}
  /\ a = issued[r]
  /\ stageState[r] \in {"claimed", "running"}
  /\ runState[r] = "running"
  /\ lease[r][a] = "live"
\* Fault: the budget is left to the dispatcher, which does not compare it.
FailControlRetryForEver(r, a) ==
  /\ HoldsControl(r, a)
  /\ attempt' = [attempt EXCEPT ![r][a] = "failed_retryable"]
  /\ lease' = [lease EXCEPT ![r] = CloseLease(r, a, "consumed")]
  /\ RequeueRun(r)
  /\ UNCHANGED <<issued, reaped, deadLetters, blockedWork>>

\* ... a retryable failure with budget left: the attempt is closed and the
\* stage and the run go back to the queue.
FailControlRetry(r, a) ==
  /\ HoldsControl(r, a)
  /\ BudgetLeft(r)
  /\ attempt' = [attempt EXCEPT ![r][a] = "failed_retryable"]
  /\ lease' = [lease EXCEPT ![r] = CloseLease(r, a, "consumed")]
  /\ RequeueRun(r)
  /\ UNCHANGED <<issued, reaped, deadLetters, blockedWork>>

\* ... any other: not retryable, or the budget is exhausted.
FailControlTerminal(r, a) ==
  /\ HoldsControl(r, a)
  /\ RunFails(r, [attempt[r] EXCEPT ![a] = "failed_terminal"],
              CloseLease(r, a, "consumed"), "failed_terminal")
  /\ deadLetters' = [deadLetters EXCEPT ![r] = @ \cup {a}]
  /\ UNCHANGED <<triggerRun, issued, due, reaped>>

-----------------------------------------------------------------------------
(* Worker commands on the stage and its attempts.                          *)

\* command_make_preflight_stage_ready.  A root stage has no dependencies.
MakeStageReady(r) ==
  /\ runState[r] = "running"
  /\ stageState[r] \in {"created", "failed_retryable"}
  /\ stageState' = [stageState EXCEPT ![r] = "ready"]
  /\ UNCHANGED <<runVars, issued, due, attempt, lease, reaped, deadLetters,
                 blockedWork>>

\* command_claim_preflight_stage.
ClaimStage(r) ==
  /\ runState[r] = "running"
  /\ stageState[r] = "ready"
  /\ due[r]
  /\ BudgetLeft(r)
  /\ IssueAttempt(r)
  /\ UNCHANGED <<runVars, due, reaped, deadLetters, blockedWork>>

\* command_start_preflight_attempt.  The state of the run is not read.
StartAttempt(r, a) ==
  /\ attempt[r][a] = "claimed"
  /\ lease[r][a] = "live"
  /\ attempt' = [attempt EXCEPT ![r][a] = "running"]
  /\ stageState' = [stageState EXCEPT ![r] =
       IF @ = "claimed" THEN "running" ELSE @]
  /\ UNCHANGED <<runVars, issued, due, lease, reaped, deadLetters, blockedWork>>

\* The fence command_complete_preflight_attempt asks for, without the lease.
HoldsFence(r, a) ==
  /\ attempt[r][a] \in {"running"} \cup WaitingStates
  /\ a = issued[r]
  /\ stageState[r] \notin TerminalStage

\* ... outcomes waiting_external and waiting_decision: the lease stays open.
AttemptWaits(r, a, w) ==
  /\ HoldsFence(r, a)
  /\ attempt' = [attempt EXCEPT ![r][a] = w]
  /\ stageState' = [stageState EXCEPT ![r] = w]
  /\ UNCHANGED <<runVars, issued, due, lease, reaped, deadLetters, blockedWork>>

\* ... outcome succeeded.
AttemptSucceeds(r, a) ==
  /\ HoldsFence(r, a)
  /\ attempt' = [attempt EXCEPT ![r][a] = "succeeded"]
  /\ lease' = [lease EXCEPT ![r] = CloseLease(r, a, "consumed")]
  /\ stageState' = [stageState EXCEPT ![r] = "succeeded"]
  /\ UNCHANGED <<runVars, issued, due, reaped, deadLetters, blockedWork>>

\* ... outcome failed_retryable: without budget the stage is terminal and the
\* attempt is dead-lettered, and the attempt itself stays failed_retryable.
AttemptFailsRetryable(r, a) ==
  /\ HoldsFence(r, a)
  /\ attempt' = [attempt EXCEPT ![r][a] = "failed_retryable"]
  /\ lease' = [lease EXCEPT ![r] = CloseLease(r, a, "consumed")]
  /\ due' = [due EXCEPT ![r] = FALSE]
  /\ stageState' = [stageState EXCEPT ![r] =
       IF BudgetLeft(r) THEN "failed_retryable" ELSE "failed_terminal"]
  /\ deadLetters' = IF BudgetLeft(r) THEN deadLetters
                    ELSE [deadLetters EXCEPT ![r] = @ \cup {a}]
  /\ UNCHANGED <<runVars, issued, reaped, blockedWork>>

\* ... outcome failed_terminal.
AttemptFailsTerminal(r, a) ==
  /\ HoldsFence(r, a)
  /\ attempt' = [attempt EXCEPT ![r][a] = "failed_terminal"]
  /\ lease' = [lease EXCEPT ![r] = CloseLease(r, a, "consumed")]
  /\ stageState' = [stageState EXCEPT ![r] = "failed_terminal"]
  /\ SurfaceTerminalFailure(r)
  /\ UNCHANGED <<runVars, issued, due, reaped, deadLetters>>

-----------------------------------------------------------------------------
(* External waits, and the provider jobs' answers to them.                 *)

\* command_mark_world_anchor_waiting_external: neither the lease nor its
\* expiry is read; an active lease is consumed.
MarkWaitingExternal(r, a) ==
  /\ attempt[r][a] = "claimed"
  /\ stageState[r] = "claimed"
  /\ a = issued[r]
  /\ MoveRun(r, {"running"}, "waiting_external")
  /\ attempt' = [attempt EXCEPT ![r][a] = "waiting_external"]
  /\ lease' = [lease EXCEPT ![r] = CloseLease(r, a, "consumed")]
  /\ stageState' = [stageState EXCEPT ![r] = "waiting_external"]
  /\ UNCHANGED <<triggerRun, issued, due, reaped, deadLetters, blockedWork>>

WaitsExternally(r, a) ==
  /\ runState[r] = "waiting_external"
  /\ attempt[r][a] = "waiting_external"
  /\ stageState[r] = "waiting_external"

\* command_complete_narration_ingest, and command_complete_world_anchor_job
\* for the last job of the run: attempt, stage and run succeed together.  An
\* active lease, if any, is left alone.
CompleteExternal(r, a) ==
  /\ WaitsExternally(r, a)
  /\ runState' = [runState EXCEPT ![r] = "succeeded"]
  /\ attempt' = [attempt EXCEPT ![r][a] = "succeeded"]
  /\ stageState' = [stageState EXCEPT ![r] = "succeeded"]
  /\ SupersedeRecoveredWork(r)
  /\ UNCHANGED <<triggerRun, issued, due, lease, reaped, deadLetters>>

\* reconcile_failed_narration_run: the attempt of a terminally failed job is
\* closed as retryable, its stage as terminal and the run fails.
FailNarrationRun(r, a) ==
  /\ runState[r] \in {"running", "waiting_external"}
  /\ attempt[r][a] \in {"claimed", "running", "waiting_external"}
  /\ stageState[r] \in {"claimed", "running", "waiting_external"}
  /\ a = issued[r]
  /\ RunFails(r, [attempt[r] EXCEPT ![a] = "failed_retryable"],
              CloseLease(r, a, "consumed"), "failed_terminal")
  /\ UNCHANGED <<triggerRun, issued, due, reaped, deadLetters>>

\* fail_world_anchor_run_for_candidate and
\* command_fail_fal_authenticated_poll_candidate.
FailWorldAnchorRun(r, a) ==
  /\ WaitsExternally(r, a)
  /\ a = issued[r]
  /\ RunFails(r, [attempt[r] EXCEPT ![a] = "failed_terminal"],
              CloseLease(r, a, "revoked"), "failed_terminal")
  /\ deadLetters' = [deadLetters EXCEPT ![r] = @ \cup {a}]
  /\ UNCHANGED <<triggerRun, issued, due, reaped>>

-----------------------------------------------------------------------------
(* The reaper: private.reconcile_expired_preflight_leases, one lease of its *)
(* batch at a time, and time itself.                                        *)
\* Fault: the run is not requeued with its stage.
ReapStageOnly(r, a) ==
  /\ lease[r][a] = "reapable"
  /\ attempt[r][a] \in LiveStates
  /\ BudgetLeft(r)
  /\ lease' = [lease EXCEPT ![r][a] = "expired"]
  /\ attempt' = [attempt EXCEPT ![r][a] = "failed_retryable"]
  /\ reaped' = [reaped EXCEPT ![r] = TRUE]
  /\ stageState' = [stageState EXCEPT ![r] = "created"]
  /\ due' = [due EXCEPT ![r] = FALSE]
  /\ UNCHANGED <<runVars, issued, deadLetters, blockedWork>>

\* An expired lease whose attempt is still live, with budget left: the stage
\* and the run are requeued, whatever state the run is in.
ReapRetry(r, a) ==
  /\ lease[r][a] = "reapable"
  /\ attempt[r][a] \in LiveStates
  /\ BudgetLeft(r)
  /\ lease' = [lease EXCEPT ![r][a] = "expired"]
  /\ attempt' = [attempt EXCEPT ![r][a] = "failed_retryable"]
  /\ reaped' = [reaped EXCEPT ![r] = TRUE]
  /\ RequeueRun(r)
  /\ UNCHANGED <<issued, deadLetters, blockedWork>>

\* ... without budget: stage and run fail; no dead letter is written.
ReapExhausted(r, a) ==
  /\ lease[r][a] = "reapable"
  /\ attempt[r][a] \in LiveStates
  /\ ~BudgetLeft(r)
  /\ RunFails(r, [attempt[r] EXCEPT ![a] = "failed_retryable"],
              [lease[r] EXCEPT ![a] = "expired"], "failed_terminal")
  /\ reaped' = [reaped EXCEPT ![r] = TRUE]
  /\ UNCHANGED <<triggerRun, issued, due, deadLetters>>

\* ... of an attempt that is closed already: only the lease is closed.
ReapOrphan(r, a) ==
  /\ lease[r][a] = "reapable"
  /\ attempt[r][a] \notin LiveStates
  /\ lease' = [lease EXCEPT ![r][a] = "expired"]
  /\ UNCHANGED <<runVars, stageVars, attempt, reaped, deadLetters, blockedWork>>

\* The repair loop of the same function.  Its branch for an exhausted budget is
\* dead: a failed_retryable stage has budget left (BudgetKept, proved).
Repairable(r) ==
  /\ stageState[r] = "failed_retryable"
  /\ runState[r] = "running"
  /\ reaped[r]
  /\ \A a \in Slots : lease[r][a] \notin ActiveLease

RepairRequeue(r) ==
  /\ Repairable(r)
  /\ BudgetLeft(r)
  /\ RequeueRun(r)
  /\ UNCHANGED <<issued, attempt, lease, reaped, deadLetters, blockedWork>>

\* A lease runs out.  A heartbeat moves expires_at of a live lease, but never
\* past 15 minutes after it was issued, so that it only delays this step.
LeaseLapses(r, a) ==
  /\ lease[r][a] = "live"
  /\ lease' = [lease EXCEPT ![r][a] = "lapsed"]
  /\ UNCHANGED <<runVars, stageVars, attempt, reaped, deadLetters, blockedWork>>

\* ... and the reaper's grace of 15 seconds after it.
GraceEnds(r, a) ==
  /\ lease[r][a] = "lapsed"
  /\ lease' = [lease EXCEPT ![r][a] = "reapable"]
  /\ UNCHANGED <<runVars, stageVars, attempt, reaped, deadLetters, blockedWork>>

\* available_at comes.
BackoffEnds(r) ==
  /\ ~due[r]
  /\ due' = [due EXCEPT ![r] = TRUE]
  /\ UNCHANGED <<runVars, stageState, issued, attempt, lease, reaped,
                 deadLetters, blockedWork>>

-----------------------------------------------------------------------------

RunCommand(r) ==
  \/ CreateRun(r)
  \/ EnqueueRun(r)
  \/ \E w \in WaitingStates : WaitRun(r, w)
  \/ PauseRun(r)
  \/ SucceedRun(r)
  \/ FailRun(r)
  \/ RequeueClaimed(r)

TriggerCommand(r, t) ==
  \/ StartRun(r, t)
  \/ DispatchFresh(r, t)
  \/ DispatchResume(r, t)
  \/ FinalizeControl(r, t)

ControlCommand(r, a) ==
  \/ RecordOutput(r, a)
  \/ FailControlRetry(r, a)
  \/ FailControlTerminal(r, a)

StageCommand(r) == MakeStageReady(r) \/ ClaimStage(r)

AttemptCommand(r, a) ==
  \/ StartAttempt(r, a)
  \/ \E w \in WaitingStates : AttemptWaits(r, a, w)
  \/ AttemptSucceeds(r, a)
  \/ AttemptFailsRetryable(r, a)
  \/ AttemptFailsTerminal(r, a)

ExternalCommand(r, a) ==
  \/ MarkWaitingExternal(r, a)
  \/ CompleteExternal(r, a)
  \/ FailNarrationRun(r, a)
  \/ FailWorldAnchorRun(r, a)

Reap(r, a) == ReapRetry(r, a) \/ ReapExhausted(r, a) \/ ReapOrphan(r, a)

Time(r) ==
  \/ BackoffEnds(r)
  \/ \E a \in Slots : LeaseLapses(r, a) \/ GraceEnds(r, a)

Step(r) ==
  \/ RunCommand(r)
  \/ \E t \in TriggerRuns : TriggerCommand(r, t)
  \/ StageCommand(r)
  \/ \E a \in Slots : ControlCommand(r, a)
  \/ \E a \in Slots : AttemptCommand(r, a)
  \/ \E a \in Slots : ExternalCommand(r, a)
  \/ \E a \in Slots : Reap(r, a)
  \/ RepairRequeue(r)
  \/ Time(r)

Next == \E r \in Runs : Step(r)

Spec == Init /\ [][Next]_vars

-----------------------------------------------------------------------------
(* Safety.                                                                  *)

\* At most one attempt of the whole lane holds authority: the worker of an
\* expired lease and its successor are never both live, nor are the attempts
\* of two runs.
SingleAuthority ==
  \A r, q \in Runs : \A a, b \in Slots :
    attempt[r][a] \in LiveStates /\ attempt[q][b] \in LiveStates
      => r = q /\ a = b

\* A result has one author, the holder of the highest fence: a stage has
\* succeeded exactly when its newest attempt has, no other attempt ever does,
\* and a run succeeds only on such a stage.
ResultHasOneAuthor ==
  \A r \in Runs :
    /\ stageState[r] = "succeeded"
         <=> \E a \in Slots : attempt[r][a] = "succeeded"
    /\ \A a \in Slots : attempt[r][a] = "succeeded" => a = issued[r]
    /\ runState[r] = "succeeded" => stageState[r] = "succeeded"

\* A worker that vanishes can be found: an attempt that is claimed or running
\* still has an active lease for the reaper to expire.
VanishedWorkerIsFound ==
  \A r \in Runs : \A a \in Slots :
    attempt[r][a] \in {"claimed", "running"} => lease[r][a] \in ActiveLease

\* A failed run has let go of everything: no live attempt, no active lease, and
\* a stage no command will move again.
FailedRunIsQuiet ==
  \A r \in Runs : runState[r] = "failed" =>
    /\ stageState[r] \in TerminalStage
    /\ \A a \in Slots :
         attempt[r][a] \notin LiveStates /\ lease[r][a] \notin ActiveLease

\* Dispatch does not compare the budget; the commands that requeue a stage
\* must have, in every order they are called.
AttemptBudget == \A r \in Runs : issued[r] <= MaximumAttempts

\* A dead letter closes its stage for good: it names the newest attempt, which
\* is never retried.
DeadLetterIsLast ==
  \A r \in Runs : \A a \in Slots : a \in deadLetters[r] =>
    a = issued[r] /\ stageState[r] = "failed_terminal"

\* The owner's queue shows no obstacle that a later run has overcome, and only
\* attempts that did fail terminally.
NoObsoleteWork ==
  \A r \in Runs : \A a \in Slots : blockedWork[r][a] = "open" =>
    /\ attempt[r][a] = "failed_terminal"
    /\ \A q \in Runs : q >= r => runState[q] # "succeeded"

\* Terminal states reject late and duplicate commands: a decided run, a closed
\* stage and a closed attempt never change again.
TerminalIsFinal ==
  [][\A r \in Runs :
       /\ runState[r] \in TerminalRun => runState'[r] = runState[r]
       /\ stageState[r] \in TerminalStage => stageState'[r] = stageState[r]
       /\ \A a \in Slots : attempt[r][a] \notin LiveStates \cup {"none"}
            => attempt'[r][a] = attempt[r][a]]_vars

-----------------------------------------------------------------------------
(* The inductive invariant behind them.                                     *)

\* A live attempt is the newest one, and the stage mirrors its state.
LiveIsNewest(r) ==
  \A a \in Slots : attempt[r][a] \in LiveStates
    => a = issued[r] /\ stageState[r] = attempt[r][a]

\* ... and a stage that is taken or has succeeded has such an attempt.
StageHasAttempt(r) ==
  stageState[r] \in LiveStates \cup {"succeeded"}
    => issued[r] \in Slots /\ attempt[r][issued[r]] = stageState[r]

SuccessIsNewest(r) ==
  \A a \in Slots : attempt[r][a] = "succeeded"
    => a = issued[r] /\ stageState[r] = "succeeded"

UnusedSlots(r) ==
  \A a \in Slots : a > issued[r]
    => attempt[r][a] = "none" /\ lease[r][a] = "none"

\* A stage that can still be dispatched or claimed has an attempt left.
BudgetKept(r) ==
  /\ issued[r] <= MaximumAttempts
  /\ stageState[r] \in {"none", "created", "ready", "failed_retryable"}
       => issued[r] < MaximumAttempts

LeaseKept(r) ==
  \A a \in Slots : attempt[r][a] \in {"claimed", "running"}
    => lease[r][a] \in ActiveLease

\* A decided run has a closed stage, a failed one no active lease, and none is
\* canceled or superseded: those two commands raise (see FailRun).
DecidedRun(r) ==
  /\ runState[r] \in TerminalRun => stageState[r] \in TerminalStage
  /\ runState[r] = "succeeded" => stageState[r] = "succeeded"
  /\ runState[r] = "failed" =>
       \A a \in Slots : lease[r][a] \notin ActiveLease
  /\ runState[r] \notin {"canceled", "superseded"}
  /\ runState[r] = "none" => stageState[r] = "none"

DeadLetterClosed(r) ==
  \A a \in Slots : a \in deadLetters[r]
    => a = issued[r] /\ stageState[r] = "failed_terminal"

\* A terminally failed attempt closes its stage, so that its run cannot succeed.
FailureCloses(r) ==
  \A a \in Slots : attempt[r][a] = "failed_terminal"
    => stageState[r] = "failed_terminal"

RunInv(r) ==
  /\ LiveIsNewest(r)
  /\ StageHasAttempt(r)
  /\ SuccessIsNewest(r)
  /\ UnusedSlots(r)
  /\ BudgetKept(r)
  /\ LeaseKept(r)
  /\ DecidedRun(r)
  /\ DeadLetterClosed(r)
  /\ FailureCloses(r)

\* A run exists only when every earlier one is decided.
RunsInOrder ==
  \A r, q \in Runs : q < r /\ runState[r] # "none"
    => runState[q] \in TerminalRun

IInv ==
  /\ TypeOK
  /\ \A r \in Runs : RunInv(r)
  /\ RunsInOrder
  /\ NoObsoleteWork

-----------------------------------------------------------------------------
(* The control plane implements the authority lane.                         *)

Verdict(s) ==
  IF s \in {"succeeded", "failed"} THEN s ELSE "open"

LaneVerdict == [r \in Runs |-> Verdict(runState[r])]
LaneHolders == [r \in Runs |-> {a \in Slots : attempt[r][a] \in LiveStates}]
LaneResults == [r \in Runs |-> {a \in Slots : attempt[r][a] = "succeeded"}]

Lane == INSTANCE AuthorityLane WITH
  verdict <- LaneVerdict,
  granted <- issued,
  holders <- LaneHolders,
  results <- LaneResults

\* Every step of the control plane is a step of the lane, or none.
LaneSpec == Lane!Spec

=============================================================================
