# Verification of the studio's server-side state machines

Genie by Zyra is a multi-user film studio: an owner writes a script, the server
runs *preflights* (narration clock, cultural review, world building, plans,
quotes) and then produces the film with external media providers. The web tier
is Next.js (`src/src/app`, `src/src/server`), background work is cron routes and
Trigger.dev tasks (`src/trigger`), and the authority over every long-running
thing lies in PostgreSQL: tables with enum states, and `command_*` functions
that move them, one transaction each (`src/supabase/migrations`, 58,500 lines
of SQL). Workers hold nothing but envelopes: a lease, a fencing token, a
version. This project models those machines in TLA+, checks them with TLC and
proves the central ones with TLAPS.

Several migrations replace a function by patching its text
(`pg_get_functiondef` and `replace`). What is modelled is the function as the
last migration leaves it; `PROJECT.json` names the lines.

Contents: 1 inventory, 2 plan, 3 to 11 the modules, 12 runs, bounds and
findings, 13 proofs, 14 what is not modelled, 15 mutants.

## 1. Inventory

| component | state | operations | what is hard | module |
|---|---|---|---|---|
| Preflight control plane | runs, root stage, attempts, leases, dead letters, the owner's blocked work | create, queue, dispatch, output, verdict, failure, wait, requeue; two triggers, the reaper | late, repeated and reordered commands; output and verdict in two transactions; four commands that requeue | `Preflight`, `AuthorityLane` |
| Preflight inline runner | the envelope of each tick | reap, dispatch, execute, record and finalize, wait or report | overlap with a successor, death between two commands | `PreflightWorkers` |
| Provider requests | `provider_requests`, one-use grants, signed callbacks, polls | consume, submit, accept, webhook, authenticated poll | an answer that is lost may have been paid; callback against poll | `WorldWait`, `Narration` |
| Output ingest and quarantine | candidates, leases, quarantine assets | claim, quarantine, attest, promote, complete, fail, recover | overlapping invocations; promotion and progress in two commands | `WorldWait` |
| Media dispatch ledger | `mvp_media_dispatches`, receipts, costs, frames and clips | reserve, claim, submit, callback, late failure, reconcile, poll | the request may be paid though nobody has its id | `MediaDispatch` |
| Production jobs | jobs with lease and fence, frames, clips, cues, selections, masters | claim, one handler step, release, fail, hand-over | side writes are not fenced; cues are claimed fleet-wide | `Production` |
| Sound, selective repair | cues, repair requests, plans, clarifications | prepare, claim, buy, complete; plan, ask, answer | a synchronous provider without receipts | `Production`, `MasterReview` |
| Master review | cultural decisions, source reviews, approvals, exports | decide, approve, reject, retry, answer | an approval outlives what it approved; owner against tick | `MasterReview` |
| Edit packages | package rows, objects at canonical paths | enqueue, claim, build, upload, complete, fail | a lost upload answer; two releases of the worker | `EditPackage`, `FilmRelease` |
| Repair director | proposals, the continuity graph, decisions, evidence | compile, close, ground, publish | long continuity chains; rules kept in two places | `RepairPlan` |
| World building | cards, recasts, uploads, reference packs, lock | accept, recast, upload, reconcile, pack, lock | answers that arrive after the owner decided | `WorldReview` |
| Narration | the job, its attestations, object, checks and clock | buy, scan, attest, store, promote, check, clock, complete, fail | billable checks whose answer is lost; a promotion that compares no lease | `Narration` |
| Foundation | command receipts, authored versions, work-item claims | | | not modelled |

How they interact. A preflight run reaches the providers through an *external
wait* (`command_mark_world_anchor_waiting_external`); from then on the run is
decided by the ingest of what it waits for. `Preflight` has every command that
can decide a run; `WorldWait` and `Narration` begin where the wait begins and
have what decides it. Recasts come from `WorldReview`'s queue. Production is
separate from preflight: `Production` is the worker, `MediaDispatch` the ledger
it buys through, `MasterReview` adds the owner, `EditPackage` the package an
approval enqueues, `FilmRelease` composes the last three. `RepairPlan` is the
pure part of a repair's planning step.

`PROJECT.json` lists every component with its sources, and every hazard at the
line where it bites with the properties that would catch it.

## 2. Plan

| module | models | abstract specification | proved | status |
|---|---|---|---|---|
| `AuthorityLane`, `Preflight` | the control plane | `AuthorityLane` | type, seven invariants, finality, refinement | done |
| `PreflightWorkers` | its processes | `Preflight` | refinement, staleness | done |
| `MediaDispatch` | the paid ledger | - | all its safety | done |
| `Production`, `MasterReview` | production and review | - | all their safety | done |
| `WorldWait` | the wait of a world build | - | all its safety | done |
| `WorldReview` | the owner's review of a World | - | all its safety | done |
| `EditPackage`, `FilmRelease` | packages, composition | `EditPackage`, `MasterReview` | safety, both refinements | done |
| `RepairPlan` | closure of a repair | closure as a minimal fixed point | all its safety | done |
| `Narration` | bought narration | - | all its safety | done |
| `CommandReceipts`, `WorkItems` | foundation | exactly-once command | | left |
| script, timeline and quote operators | pure algorithms | reference definitions | | left |
| the automatic reconciler and plan evaluation | creation of runs | - | | left |

Every module is parameterised by CONSTANTS with named assumptions, has one
action per command, and declares no RECURSIVE operator.

## 3. `Preflight`

One instance of the module is one lane: the runs of one kind for one
configuration candidate. A run is named by its `run_number`; an attempt by its
number, which is also its fencing token. Variables are columns:

| variable | code |
|---|---|
| `runState[r]`, `triggerRun[r]` | `preflight_runs.state`, `.trigger_run_id` |
| `stageState[r]`, `issued[r]` | the root stage's `state`, `highest_fencing_token` |
| `due[r]` | `available_at <= now` |
| `attempt[r][a]` | `preflight_stage_attempts.state` |
| `lease[r][a]` | `preflight_stage_leases.state`; an active lease is `live`, `lapsed` (expired) or `reapable` (expired by more than the reaper's 15 s) |
| `reaped[r]` | an attempt of the run ended with `lease_expired`, which the repair loop looks for |
| `deadLetters[r]`, `blockedWork[r][a]` | `preflight_dead_letters`, `preflight.blocked` work items |

Every action is a whole command, with the triggers it fires: `RunFails` is the
update that fails a run together with the cascade and the work-item trigger it
sets off; `SupersedeRecoveredWork` is the trigger on success. Preconditions of a
command that raises are guards; a command that replays a stored answer is a
stutter. Callers are not modelled here: `Next` offers every command for every
run and attempt in every state, so that each late, repeated or reordered call
is among the behaviours, including calls no present caller makes.

Left out:

- *Versions and hashes.* A command that carries a stale aggregate version,
  manifest hash or epoch raises. The model's guards are evaluated in the same
  atomic step, and the epoch is a function of the run number.
- *Dependencies between stages.* Only the root stage is ever created.
- *`cancel` and `supersede`.* They pass their guard and then assign a `text`
  expression to columns of an enum type, for which PostgreSQL has no assignment
  cast: the statement raises and the transaction is undone. (The repository met
  the same error in `20260721035000_narration_ingest_failure_enum_cast.sql`.)
- *Amounts of time.* A heartbeat can only delay `LeaseLapses`, and never past
  15 minutes from issue.

`AuthorityLane` states what all this is for: a numbered right to decide is
granted to one holder at a time, only the holder publishes, and a verdict is
final. `LaneSpec` is the refinement, with `holders` the live attempts, `results`
the succeeded ones and `verdict` the decided runs. One holder at a time
(`SingleAuthority`) is part of it.

## 4. `PreflightWorkers`

Adds to `Preflight` two overlapping ticks, each with a program counter and the
envelope it was given, the auto-reconciler, the reaper, the providers' answers
and the clock. Only commands with a caller in `src/src` occur. A tick dies at
the control points of `CrashPoints`: `executing` (after dispatch), `failing`
(before its failure report), `recorded` (after `record_output`, before
`finalize`; a `finalize` that throws has the same outcome, since the catch block
reports a failure that is refused).

*Fairness.* Weak fairness of dispatch, of the reaper (the cron route calls the
runner for ever, and each call reaps before it does anything that depends on
the run, as long as the regeneration queue in front of it does not throw), of
each tick's own work (a function runs to its end or is killed), and of the
clock. Nothing is assumed of providers or of the auto-reconciler. `RunSettles`
is the liveness the control plane exists for; external waits count as settled,
since who answers them is `WorldWait`'s and `Narration`'s concern.

## 5. `MediaDispatch`

`row[k]`, `receipt[k]`, `cost[k]` are the ledger row of a dispatch key;
`asset[k]` the frame or clip that is bought under it; `accepted[n]`,
`outcome[n]`, `billed` the provider's side: which key its n-th request is for,
what became of it, whether the billing evidence has been fetched. A worker is a
tick inside `dispatchMvpFalMedia` or a poll. The provider's HTTP exchange is an
action separate from the commands around it, so an answer can be lost, a
callback can overtake the answer it belongs to, and a failure can be reported
after the receipt was committed. Prices are one unit per key. *Fairness* is only
the provider's: it finishes what it accepted and repeats a callback until it is
answered with a 2xx (its documented behaviour, on which
`20260722115341_mvp_media_callback_slot_binding.sql` relies). `ReceiptRecovered`
holds without any assumption about the workers.

## 6. `Production` and `MasterReview`

`job`, `attempt`, `media[j][n][s]` (frame and clip of a shot in an attempt),
`sound` (cues), `master`, `request`, `plan`, `chosen` (the selected clip, by the
attempt that made it) are tables; `tick[w]` is the memory of an overlapping
tick: the job it claimed, the state it saw, the cue or repair request it took.
Writes to the job are fenced by the claim token and writes to everything else
are not, as in the code. `MasterReview` extends it with the cultural decision on
each master, the source decision it was recorded under, approval, rejection,
retry and the clarification loop; the owner may act between any two steps of a
tick. *Fairness*: the cron calls for ever (`SF` of claiming a job or a cue, since
another tick may hold it time and again), a tick ends or dies (`WF`), leases run
out (`WF`).

## 7. `WorldWait`

One run that waits for its anchor jobs: `job`, `request`, `candidate`, `asset`,
`polls`, `attempts`, and for each invocation of the cron `place` and `target`.
Submission is the tick of `submitProviderDirectly`, all jobs at once, which may
die between any two; the signed webhook and the authenticated poll race to bring
the output; ingest goes through quarantine, attestation, promotion, completion;
`RecoverPromotion` is the other cron's route. It models ordinary builds. A run
of a recast has the same wait with one job, and its effect on the card is in
`WorldReview`.

## 8. `WorldReview`

`card`, `candidate`, `chosen` are the anchor's selection row; `request`,
`anchor`, `prior`, `bound` the regeneration requests; `intake` the uploads;
`run`, `tries`, `owner`, `scope`, `todo` the runs of the lane that build and
recast; `pack`, `plan`, `locked` the way to the World Lock. Worker and wait of a
run are one step each here. Source review, plan, quote and confirmation are one
step.

## 9. `EditPackage` and `FilmRelease`

`package[f]` is the row (state, claim number, lapsed lease, digest), `object[f]`
what the path holds (storage never overwrites), `packager[p]` a tick's memory.
The number of a claim stands for its token and version, the release of the
worker for the bytes it builds. `FilmRelease` composes it with `MasterReview`:
an approval enqueues, a tick builds only when it found no job, and the packager
reads the ledger of the film from the job the approval has released. That ledger
(frames, clips, selections, cues, the master) is not fenced, and ticks that
outlived their lease still write to it: `LedgerIsWhole` says that the packager
finds it whole all the same, so that the build's "ledger is incomplete" error is
never the fault of production.
*Fairness*: ticks that find production idle recur and are not killed each time
before they claim (`SF`), a claimed tick ends or dies, leases run out.

## 10. `RepairPlan`

A director's proposal over a continuity graph is normalised, closed under the
graph by the queue loop, compiled, grounded in the feedback and published. The
proposal and the graph are chosen freely in `Init` (the graph with forward edges
only, as the code's validation demands). The loop is one action per visited
shot, in any order. Of the fields a shot may revise only the storyboard
composition mode is kept.

## 11. `Narration`

| variable | code |
|---|---|
| `run`, `attempt`, `tick` | the `narration_clock` run, its newest attempt, the step of the tick that holds it |
| `job`, `owner`, `evidence` | `narration_generation_jobs`: `state`, `stage_attempt_id`, promoted version with scan evidence |
| `holder`, `lapsed` | its `ingest_lease_token` and `ingest_lease_expires_at` |
| `speech`, `calls` | the `gen_speech` request; the requests sent to each of the three providers |
| `audio`, `asset`, `attested`, `object`, `content` | the recording, its quarantine row, the attested encodings, the bytes at the path, the digest in `asset_versions` |
| `qc`, `clock` | `narration_qc_runs.state`, the master clock of the run |
| `place[w]`, `enc[w]`, `check[w]` | an invocation of `processNextNarrationIngest`: its step, the encoding its scan made, the check it is at |

The purchase (`Dispatch` to `RecordOutput`) is one tick at a time; overlap of
ticks is `PreflightWorkers`' subject. The ingest is modelled command by command
and storage call by storage call. An error of the ledger is final unless its
code is 40001 or P0002 (`rpc`), and so is an answer that was lost; an error of
storage or of the network is retried: `"retry"` and `"final"` are the two
reports. Re-encoding is not assumed to be deterministic.

`punctual` is chosen once: whether an invocation ends before the lease it took.
It does in the deployment: the route declares `maxDuration = 300` and a lease is
ten minutes; the model also has the behaviours in which it does not, and
`StoredAsPromoted` is stated for the punctual ones only, because the promotion,
the removal and the upload compare no lease. `Calms` ends the errors and deaths,
for liveness. *Fairness*: the cron runs for ever and claims what it finds, an
invocation goes on to its end, a lease runs out. `IngestSettles` says that then
every recording is promoted or given up, whatever the errors before had left:
an attested encoding, a stored object, a promoted asset without its record, a
check that was submitted and not answered, a clock without completion. It
excepts an authority that runs out: the claim of a check then raises 40001,
which the ingest retries without a budget.

## 12. Runs

| run | what it shows | bounds | distinct states |
|---|---|---|---|
| `preflight_safety` | invariants, finality and refinement over all interleavings of all commands | 2 runs, 3 attempts, 2 executions | 253,818 |
| `preflight_workers` | stale ticks change nothing, every run settles | 2 runs, 2 attempts, 2 ticks | 4,437 |
| `preflight_stranded` | **violation**: a death between record and finalize strands the run | as above | |
| `media_paid` | one paid request per key, ceiling, billing, receipts recovered | 3 keys, ceiling 2, 2 ticks, 3 requests | 519,348 |
| `production_review` | inputs of a render, sounds bought once, repairs keep the rest, review before release | 1 film, 2 shots (one silent), 2 ticks, 2 attempts, 1 clarification, 2 source decisions | 2,230,362 |
| `world_safety` | job, request and asset settle as one; what arrived is not given up | 2 jobs, 2 invocations, 3 attempts, 3 polls | 647,667 |
| `world_review` | cards, recasts, uploads and the lock | 2 anchors, 2 uploads, 2 requests, 2 runs, 2 tries | 1,875,212 |
| `film_release` | packages are what is stored and are made from a whole ledger; packages and sound settle | 1 film, 1 shot, 1 production tick, 2 packagers, 2 releases, 3 claims, 2 failures | 83,680 |
| `film_repaired` | **violation**: the package of a repaired film cannot be built | as above | |
| `repair_plan` | the closure is closed, minimal, and names its sources | 4 shots, every forward graph and proposal | 1,440,323 |
| `repair_ungrounded` | **violation**: a shot two steps down the graph has no lineage | 3 shots | |
| `narration_ingest` | no provider paid twice, job and run decided together, stored bytes, staleness, settling | 2 ingests, 2 encodings, 2 attempts | 963,140 |

*Why these bounds.* The races are between two actors: a tick and its successor,
a tick and the owner, a callback and a poll; two of each suffice, and a third
shared key, run or request is there where the property counts (three keys under
a ceiling of two; two runs of a lane, of which only one may be active). Retry
budgets are the smallest in which a first failure can be retried, a second
retried with a history, and the last exhausts it. Four shots hold every shape of
continuity in which a shot has two sources, or a source that itself has one.
Two encodings tell a repeated scan from a different one. Symmetry is used only
in safety runs.

`film_release` has one production tick, which may die and be followed by another
but overlaps with none: it meets what the packagers do. The theorem of
`LedgerIsWhole` has any number of overlapping ticks, as `production_review` has
two.

`CHECK_DEADLOCK FALSE` everywhere: a system whose work is all decided stops.

Properties that a theorem establishes for all constants are not all checked
again: the type invariants of the modules with proofs (but for `WorldReview`),
and `VanishedWorkerIsFound`, `DeadLetterIsLast`, `DecidedForCause`, `ClaimsInBound`
and `SettledStays`, are left to TLAPS.

### Findings

1. *Stranded run* (`preflight_stranded`). `record_output` consumes the lease, so
   the reaper no longer sees the run; `finalize` only accepts the dispatching
   execution, which died. No command the application calls moves the run again,
   and the unique index keeps a successor from being created, although the
   contract promises that a deploy has "No effect on server-owned run".
2. *Repaired films get no package* (`film_repaired`). The approval clears
   `active_repair_request_id`, and the packager looks the decisions and the
   selections of a repaired film up through that pointer. Every claim fails and
   the third ends the package, although MVP-EDIT-006 says "Approval triggers an
   editable-media package".
3. *Closure without lineage* (`repair_ungrounded`). The director is told to leave
   continuity to the server; a shot that the closure adds because of a shot that
   the closure added has no grounded source, and the whole plan is thrown away.

### Observations no run checks

Met while reading; they are steps of the models where noted, or lie outside them.

- Preflight: the reaper queues a paused run (pause has no caller);
  `command_requeue_claimed_preflight_control`, an operator's command, makes a
  slow worker's run undispatchable; a run failed by the reaper's exhausted
  branch or by `reconcile_failed_narration_run`
  (`20260721050500_narration_terminal_run_reconciliation.sql:26`) closes its
  attempt as `failed_retryable` first and so opens no work item.
- A submission that throws after the wait has begun leaves the run waiting
  (`mvp-preflight-runner.ts:200`); `reconciliation_due_at` is written and never
  read. `WorldWait` and `Narration` contain these behaviours.
- Production: the failure of a fleet-wide cue or repair request is written to
  the job the tick holds (`mvp-production.ts:993`).
- Repair: the director must migrate a split-screen board to another composition
  mode (`mvp-repair-director.ts:47`, `:1858`), and the keys
  `command_publish_mvp_repair_plan` lets change do not hold
  `storyboardCompositionMode`
  (`20260721173000_mvp_durable_selective_repair.sql:1257`): such a plan is
  always refused. `RepairPlan`'s `Publish` has this step.
- Packages: after a deployment the object of an earlier release at the path
  makes the build fail, since storage does not overwrite.
- World: the failure of a recast breaks a CHECK of its table
  (`20260720214318_world_regeneration_dispatch_recovery.sql:394`); the
  reconciliation after a recast retires other anchors
  (`20260724033000_current_world_selection_reconciliation.sql:78`); an upload
  that died blocks the ticks behind it.
- Narration: a retry that re-encodes to the attested bytes meets
  `unique (quarantine_asset_version_id, output_sha256)` and is final, although
  the comment at `narration-ingest.ts:409` expects the next retry to reconcile;
  a run whose first tick died after the preparation fails on every later
  attempt, since the job is bound to the attempt (`Prepare`); a tick that dies
  after the wait began leaves it without end; an ingest that outlives its lease
  can replace the object of a promoted asset, or record the clock so that the
  holder's own insert fails the run.
- Narration, tolerance of the transcript: `narration-audio-qc.ts:143` allows
  max(24, 6%) edits, `20260721045500` a flat 60.
- Uploaded narration: `command_attest_episode_narration_upload`
  (`20260722125603_owner_uploaded_narration_source.sql:857`) wants the clipping
  flags at the top level, `narration-upload-processor.ts:642` nests them under
  `technicalInspection`: the attestation raises 22023, and each retry transcribes
  the recording again.

## 13. Proofs

The theorems hold for every value of the constants under the named assumptions
of each module: positive bounds, distinct null values, finite `Keys` in
`MediaDispatch`, and in `Production` at least one shot (a plan has 1 to 240,
`20260719051000_phase2_narration_plan_reference_qc.sql:611`). The eight modules
below hold all of them.

| module | theorems | inductive invariant |
|---|---|---|
| `PreflightProofs` | control plane: type, seven invariants, `TerminalIsFinal`, `Spec => LaneSpec` | `IInv`: `RunInv` for each run, runs in order, the work queue |
| | workers: type, `StaleTickHasNoEffect`, `WorkersSpec => Spec` | `WorkerInv`: `IInv`, the type of the ticks, `Dispatched` |
| `MasterReviewProofs` | type, `RenderInputsComplete`, `CuePaidOnce`, `RepairKeepsTheRest`, `RejectedIsRetryable`, `ReleasedIsReviewed`, `DecidedIsFinal` | `IInv`: `TickInv`, `LeaseInv`, `AskInv`, `SelectInv`, `CueInv`, `MasterInv` with the invariants themselves |
| `WorldReviewProofs` | type, `GeneratingIsQueued`, `AcceptedIsKept`, `ChoiceIsKept` | `IInv`: `RequestInv`, `UploadInv`, `RunInv`, `CardInv` |
| `MediaDispatchProofs` | type, `SubmittedOnce`, `SpendWithinCeiling`, `CompleteAssetIsPaid`, `PaidWorkIsKept` | `LedgerInv`: `RowInv`, `MemoryInv`, `OneHolder`, `QueueInv` |
| `WorldWaitProofs` | type, five invariants, `DecidedIsQuiet` | `SubmissionInv`, `OutputInv`, `JobInv` for each job, `HoldInv` for each invocation |
| `EditPackageProofs` | type, `ReadyIsStored`, `ClaimsInBound`, `SettledStays`, `ReleaseSpec => PackageSpec`; of the composition also `ReleaseSpec => Spec` of `MasterReview` and `LedgerIsWhole` | `PackageInv`, `ReleasedInv` |
| `RepairPlanProofs` | type, `CascadeCloses`, `CascadeIsMinimal`, `SourcesAreExact` | `LoopInv`, `PlanInv`, `FreshInv` |
| `NarrationProofs` | type, `SpentOnce`, `DecidedTogether`, `StoredAsPromoted`, `StaleIngestDecidesNothing` | `FrontInv`, `EvidenceInv`, `SpendInv`, `ScanInv`, `AloneInv`, `ApartInv`, `StoreInv` |

*Preflight.* None of the invariants is inductive. `AttemptBudget` needs to know
that a stage which can be dispatched has an attempt left (`BudgetKept`), since
dispatch does not look; authority within a run needs the newest attempt to be
the only live one and the stage to mirror it (`LiveIsNewest`,
`StageHasAttempt`); across runs it needs decided runs to have closed stages
(`DecidedRun`) and runs to be created in order (`RunsInOrder`). A step touches
one row: the proof shows, action by action, that the row it touches keeps
`RunInv` and takes one of a few *effects* on the rest, from which the invariants
that relate rows follow. The refinement reuses the effects. A by-product is that
the reaper's repair loop never meets an exhausted budget: that branch is dead.

*Workers.* Every step of a tick is a command of `Preflight` or a stutter, so all
of the control plane's theorems hold of the running system.

*Media ledger.* At most one submission per key follows from who remembers what:
a worker between its claim and its submission is the only one there (`OneHolder`)
and the provider has nothing under its key yet (`MemoryInv`). Every request the
provider accepted belongs to a row that counts against the ceiling (`QueueInv`),
so the ceiling follows by an injection of accepted requests into exposed rows,
with the library's facts on finite sets.

*World wait.* Four commands and two crons write to job, request and asset; the
per-job invariants say which combinations occur, and `HoldInv` ties an
invocation's step to the row it holds.

*Production and review.* Nothing the runs check here is inductive, because most
of the writes are not fenced: what stops a late tick is never its lease but the
state of the row it writes to, and that has to be known in every state.

- `TickInv` bounds what a tick remembers: the job and the attempt it saw exist.
- `LeaseInv`: only a job at work is leased, and a tick that renders under a lease
  it *still holds* finds the job where it saw it. `DecidedIsFinal` and
  `ReleasedIsReviewed` rest on it, since a tick with a stored master must either
  have lost the job or be at its newest attempt.
- `AskInv`: a job plans a repair only while its request is open, and a request is
  analyzed only for a job that plans it or has failed. `RejectedIsRetryable`
  needs it against a planner that was overtaken.
- `SelectInv`: once the cues of an attempt are declared its clips are selected
  and complete, and no step takes them back; an attempt that is not planned yet
  has none. `RepairKeepsTheRest` gives the induction over attempts, since a repair
  selects a clip that an *earlier* attempt made.
- `CueInv`: an unclaimed cue was not paid; a claimed one that may still be paid
  is in the hands of one tick; a job with an outstanding cue does not advance.
  `CuePaidOnce` needs the first two, `RenderInputsComplete` the third.
- `MasterInv`: the masters of earlier attempts are superseded, later ones do not
  exist, and the newest is what the job's state says, so that the owner's
  approval can only be of the newest.

The proof shows, action by action, that the step keeps the rows' types and the
parts it can disturb; the two action properties follow from the few steps that
may change a job's state.

*World review.* `GeneratingIsQueued` and the two action properties relate a card
to requests that may be about any anchor; `RequestInv` fixes what a request is
about once it is opened, `UploadInv` and `RunInv` tie uploaders and runs to an
opened request and to its anchor alone, so that an answer to one request cannot
reach another card. `CardInv` says that no choice outlives its card.

*Edit packages.* A worker with an upload behind it knows what the path holds,
since storage never overwrites. The composed system implements the package's
specification and `MasterReview`'s, so that what is proved of either holds in
`FilmRelease`. `LedgerIsWhole` takes both: an enqueued package means a released
job (`ReleasedInv`, kept because a released job is final), and the invariant of
`MasterReview` says what a released job has.

*Repair.* `LoopInv` says that what is found lies in every closed set that holds
the direct repairs, and that the dependents of what was visited are found; at
the end of the loop both bounds meet.

*Narration.* `SpentOnce` rests on the check still being unsubmitted exactly
while no ingest is at its call, and on one ingest at most being there
(`SpendInv`): the transition to "submitted" is the permission to call, and no
command goes back. `StoredAsPromoted` needs that, without ingests that outlive
their lease, whoever is at work holds the job (`AloneInv`) and that an ingest
that stores has an asset that is not yet promoted (`ApartInv`).

*Only model-checked.* Liveness (`RunSettles`, `ReceiptRecovered`,
`SoundSettles`, `PackageSettles`, `IngestSettles`), which needs fairness and
`ENABLED` and is beyond the prover. Every safety property of a passing run is
also a theorem. The three violations are refuted by TLC's counterexamples.

## 14. Not modelled

- *Uploaded narration, delivery prompts, alignment, transcript comparison.* The
  upload's attestation cannot succeed as the code stands (above), so there is
  nothing beyond it to model; the rest is computation on text.
- *The Trigger.dev task* takes the steps of the inline runner over HTTP;
  *stage dependencies* have no creator.
- *The reservation of the micro budget*, quotes and prices, apart from the
  ceiling of the media ledger.
- *Command receipts, authored versions, work-item claims*: single transactions
  under a row lock; next on the plan.
- *Planning agents, evaluators, the director's prompts*: what a language model
  computes is a free choice in the models.
- *Script algorithms*: pure functions on text, next on the plan.
- *User interface, read models, row-level security, diagnostics, release
  evidence scripts, static looks, documentation code, the test-only live broker*:
  no state of their own, or who may call rather than what happens.

Most of the repository's TypeScript is of the last two kinds. Most of the
control that is modelled lives in SQL.

## 15. Mutants

Each property of a passing run has a mutant in `PROJECT.json`: a definition of
the model replaced by a version with a plausible bug (the operators marked
`Fault:`, which nothing else uses), under which TLC finds the property violated:
a guard dropped from a claim, a receipt that is overwritten, a lease that is not
compared, a settlement that forgets one table, an answer that is asked for
again.
