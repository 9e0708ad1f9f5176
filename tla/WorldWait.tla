------------------------------ MODULE WorldWait ------------------------------
(***************************************************************************)
(* The external wait of one world-building run: the anchor jobs it asked    *)
(* the image provider for, their requests, and the outputs on their way     *)
(* through secure ingest.  It begins where Preflight's MarkWaiting ends:    *)
(* the run waits, each job has a reserved request and a one-use grant, and  *)
(* the tick that prepared them is about to submit them, all at once.        *)
(*                                                                         *)
(* A worker is an invocation of the minute cron provider-output-ingest; it  *)
(* may be killed anywhere, and overlap with the next.                       *)
(*                                                                         *)
(* Abstractions.                                                           *)
(*  - each job has one request: a second one needs an attempt that is       *)
(*    claimed again, and then the jobs belong to another attempt.           *)
(*  - a request's version is not state: the submitting tick compares the    *)
(*    one it got from 'submitted', and every later step leaves that state.  *)
(*  - a callback and a poll bring what the provider made; the second to     *)
(*    come breaks the uniqueness of the output or is a duplicate, and       *)
(*    after a terminal state it only adds evidence: both change nothing.    *)
(*  - an asset is what the candidate's current quarantine version is.       *)
(***************************************************************************)
EXTENDS Integers

CONSTANTS
  Jobs,        \* the anchor jobs of the run
  NoJob,       \* no job
  Workers,     \* overlapping invocations of the cron
  MaxAttempts, \* claims of one output (5 in the code)
  MaxPolls     \* authenticated polls of one request (100 in the code)

ASSUME WaitAssumption ==
  NoJob \notin Jobs /\ MaxAttempts \in Nat \ {0} /\ MaxPolls \in Nat \ {0}

Undecided == {"accepted", "polling"}
Failed == {"failed_retryable", "failed_terminal"}
RequestStates == {"reserved", "queued", "submitted", "succeeded"} \cup Undecided \cup Failed

VARIABLES
  run,       \* preflight_runs.state, and its stage and attempt with it
  job,       \* world_anchor_jobs.state
  request,   \* provider_requests.state
  polls,     \* fal_authenticated_poll_count
  candidate, \* provider_output_candidates.state
  attempts,  \* its attempt_count
  lapsed,    \* its lease_expires_at has passed
  asset,     \* quarantine_assets.state; 'stored': scanning, and its sanitized
             \* object is in workspace-media
  submitter, \* how far the submitting tick is with each request
  provider,  \* what the provider has made of it
  place, target, seen \* each worker's memory: step, job, poll count it was given

settlement == <<run, job, request>>
ingest     == <<candidate, attempts, lapsed, asset>>
memory     == <<place, target, seen>>
vars == <<run, job, request, polls, candidate, attempts, lapsed, asset,
          submitter, provider, place, target, seen>>

TypeOK ==
  /\ run \in {"waiting_external", "succeeded", "failed"}
  /\ job \in [Jobs -> {"waiting_output", "promoted", "failed"}]
  /\ request \in [Jobs -> RequestStates]
  /\ polls \in [Jobs -> 0..MaxPolls]
  /\ candidate \in [Jobs -> {"none", "pending", "claimed", "quarantined", "rejected"}]
  /\ attempts \in [Jobs -> 0..MaxAttempts]
  /\ lapsed \in [Jobs -> BOOLEAN]
  /\ asset \in [Jobs -> {"none", "quarantined", "scanning", "stored", "promoted", "rejected"}]
  /\ submitter \in [Jobs -> {"ready", "queued", "calling", "answered", "gone"}]
  /\ provider \in [Jobs -> {"none", "working", "completed", "failed"}]
  /\ place \in [Workers -> {"idle", "fetching", "scanning", "attested", "stored",
                            "promoted", "refused", "polling"}]
  /\ target \in [Workers -> Jobs \cup {NoJob}]
  /\ seen \in [Workers -> 0..MaxPolls]

Init ==
  /\ run = "waiting_external"
  /\ job = [j \in Jobs |-> "waiting_output"]
  /\ request = [j \in Jobs |-> "reserved"]
  /\ polls = [j \in Jobs |-> 0]
  /\ candidate = [j \in Jobs |-> "none"]
  /\ attempts = [j \in Jobs |-> 0]
  /\ lapsed = [j \in Jobs |-> FALSE]
  /\ asset = [j \in Jobs |-> "none"]
  /\ submitter = [j \in Jobs |-> "ready"]
  /\ provider = [j \in Jobs |-> "none"]
  /\ place = [w \in Workers |-> "idle"]
  /\ target = [w \in Workers |-> NoJob]
  /\ seen = [w \in Workers |-> 0]

-----------------------------------------------------------------------------
Waiting == run = "waiting_external"
Goto(w, p) == place' = [place EXCEPT ![w] = p] /\ UNCHANGED <<target, seen>>
Leaves(w) ==
  /\ place' = [place EXCEPT ![w] = "idle"]
  /\ target' = [target EXCEPT ![w] = NoJob]
  /\ seen' = [seen EXCEPT ![w] = 0]

Requested(j, s) == request' = [request EXCEPT ![j] = s]
Submits(j, s) == submitter' = [submitter EXCEPT ![j] = s]
Offered(j, s) == candidate' = [candidate EXCEPT ![j] = s]

\* The job fails, and the run that waits for it.
JobFails(j) ==
  /\ job' = [job EXCEPT ![j] = "failed"]
  /\ run' = "failed"

-----------------------------------------------------------------------------
(* submitProviderDirectly, of every request side by side                    *)

\* command_consume_mvp_provider_authority: the grant is used up.
Consume(j) ==
  /\ submitter[j] = "ready" /\ Waiting
  /\ Requested(j, "queued") /\ Submits(j, "queued")
  /\ UNCHANGED <<run, job, polls, ingest, provider, memory>>

Submit(j) ==
  /\ submitter[j] = "queued"
  /\ Requested(j, "submitted") /\ Submits(j, "calling")
  /\ UNCHANGED <<run, job, polls, ingest, provider, memory>>

\* The provider accepts; its answer arrives, or is lost (disposition unknown).
ProviderAccepts(j) ==
  /\ submitter[j] = "calling"
  /\ provider' = [provider EXCEPT ![j] = "working"]
  /\ \E s \in {"answered", "gone"} : Submits(j, s)
  /\ UNCHANGED <<settlement, polls, ingest, memory>>

\* It refuses, for now or for good.
ProviderRefuses(j) ==
  /\ submitter[j] = "calling"
  /\ \E s \in Failed : Requested(j, s)
  /\ Submits(j, "gone")
  /\ UNCHANGED <<run, job, polls, ingest, provider, memory>>

\* 'accept', unless a callback was faster.
Accept(j) ==
  /\ submitter[j] = "answered"
  /\ IF request[j] = "submitted" THEN Requested(j, "accepted") ELSE UNCHANGED request
  /\ Submits(j, "gone")
  /\ UNCHANGED <<run, job, polls, ingest, provider, memory>>

\* The tick dies, its grant expires, or a command of it raises.
SubmitterGone(j) ==
  /\ submitter[j] # "gone" /\ Submits(j, "gone")
  /\ UNCHANGED <<settlement, polls, ingest, provider, memory>>

ProviderFinishes(j) ==
  /\ provider[j] = "working"
  /\ \E o \in {"completed", "failed"} : provider' = [provider EXCEPT ![j] = o]
  /\ UNCHANGED <<settlement, polls, ingest, submitter, memory>>

-----------------------------------------------------------------------------
(* command_record_fal_signed_webhook: a finished request is announced, by a  *)
(* signed callback or by a poll.                                            *)

Announceable(j) == request[j] \in Undecided \cup {"submitted"} /\ candidate[j] = "none"

RecordOutput(j) ==
  /\ Announceable(j) /\ provider[j] = "completed"
  /\ Requested(j, "polling") /\ Offered(j, "pending")

Webhook(j) ==
  /\ \/ RecordOutput(j)
     \/ /\ Announceable(j) /\ provider[j] = "failed"
        /\ Requested(j, "failed_retryable") /\ UNCHANGED candidate
  /\ UNCHANGED <<run, job, polls, attempts, lapsed, asset, submitter, provider, memory>>

-----------------------------------------------------------------------------
(* recoverNextCompletedFalResult                                            *)

Takes(w, j) ==
  /\ place[w] = "idle" /\ request[j] \in Undecided /\ candidate[j] = "none"
  /\ polls' = [polls EXCEPT ![j] = @ + 1]
  /\ place' = [place EXCEPT ![w] = "polling"]
  /\ target' = [target EXCEPT ![w] = j]
  /\ seen' = [seen EXCEPT ![w] = polls[j] + 1]
  /\ UNCHANGED <<settlement, ingest, submitter, provider>>
\* get_next_fal_authenticated_poll_candidate
ClaimPoll(w, j) == polls[j] < MaxPolls /\ Takes(w, j)

Polls(w, j) == place[w] = "polling" /\ target[w] = j

PollRecovers(w, j) ==
  /\ Polls(w, j) /\ RecordOutput(j) /\ Leaves(w)
  /\ UNCHANGED <<run, job, polls, attempts, lapsed, asset, submitter, provider>>

\* Pending, in transit, or not readable, with budget left; or overtaken.
PollInVain(w, j) ==
  /\ Polls(w, j) /\ Leaves(w)
  /\ UNCHANGED <<settlement, polls, ingest, submitter, provider>>

\* The credential is rejected: this claim, if it is the last, costs nothing.
ReleasePoll(w, j) ==
  /\ Polls(w, j) /\ Leaves(w)
  /\ request[j] \in Undecided /\ candidate[j] = "none" /\ polls[j] = seen[w]
  /\ polls' = [polls EXCEPT ![j] = @ - 1]
  /\ UNCHANGED <<settlement, ingest, submitter, provider>>

\* Fault: the answer that arrived while the worker asked is not looked at.
GiveUpUnseen(w, j) ==
  /\ Polls(w, j) /\ (seen[w] = MaxPolls \/ provider[j] = "failed")
  /\ Waiting /\ request[j] \in Undecided /\ job[j] = "waiting_output"
  /\ Requested(j, "failed_terminal") /\ JobFails(j) /\ Leaves(w)
  /\ UNCHANGED <<polls, ingest, submitter, provider>>
\* command_fail_fal_authenticated_poll_candidate: a terminal answer, or the
\* budget is used up.
GiveUp(w, j) ==
  /\ Polls(w, j) /\ (seen[w] = MaxPolls \/ provider[j] = "failed")
  /\ candidate[j] = "none"
  /\ Waiting /\ request[j] \in Undecided /\ job[j] = "waiting_output"
  /\ Requested(j, "failed_terminal") /\ JobFails(j) /\ Leaves(w)
  /\ UNCHANGED <<polls, ingest, submitter, provider>>

-----------------------------------------------------------------------------
(* ingestClaim                                                              *)

Reopens(w, j) ==
  /\ place[w] = "idle" /\ Waiting /\ request[j] = "polling" /\ attempts[j] < MaxAttempts
  /\ attempts' = [attempts EXCEPT ![j] = @ + 1]
  /\ Offered(j, "claimed")
  /\ lapsed' = [lapsed EXCEPT ![j] = FALSE]
  /\ place' = [place EXCEPT ![w] = "fetching"]
  /\ target' = [target EXCEPT ![w] = j]
  /\ UNCHANGED <<seen, settlement, polls, asset, submitter, provider>>
\* Fault: a claim is taken over before its lease has run out.
ClaimLeased(w, j) == candidate[j] \in {"pending", "claimed"} /\ Reopens(w, j)
\* command_claim_next_provider_output_candidate
ClaimCandidate(w, j) ==
  /\ candidate[j] = "pending" \/ (candidate[j] = "claimed" /\ lapsed[j])
  /\ Reopens(w, j)

Ingests(w, j, p) == place[w] = p /\ target[w] = j

\* The output is fetched, registered in quarantine, and the candidate
\* completed; the answer of that last command may be lost.
CompleteCandidate(w, j) ==
  /\ Ingests(w, j, "fetching") /\ candidate[j] = "claimed" /\ ~lapsed[j]
  /\ Offered(j, "quarantined")
  /\ asset' = [asset EXCEPT ![j] = "quarantined"]
  /\ \E p \in {"scanning", "refused"} : Goto(w, p)
  /\ UNCHANGED <<settlement, polls, attempts, lapsed, submitter, provider>>

\* The scan is clean: command_record_ingest_attestation.
Attest(w, j) ==
  /\ Ingests(w, j, "scanning") /\ asset[j] = "quarantined"
  /\ asset' = [asset EXCEPT ![j] = "scanning"]
  /\ Goto(w, "attested")
  /\ UNCHANGED <<settlement, polls, candidate, attempts, lapsed, submitter, provider>>

StoreObject(w, j) ==
  /\ Ingests(w, j, "attested") /\ asset[j] = "scanning"
  /\ asset' = [asset EXCEPT ![j] = "stored"]
  /\ Goto(w, "stored")
  /\ UNCHANGED <<settlement, polls, candidate, attempts, lapsed, submitter, provider>>

\* command_promote_world_anchor_quarantine and, inside it,
\* command_complete_world_anchor_job: the last job of the run decides it.
Promotable(j) ==
  /\ Waiting /\ job[j] = "waiting_output"
  /\ asset[j] = "stored" /\ request[j] \in Undecided \cup {"submitted"}

\* Fault: a run that has failed meanwhile is not noticed.
PromotesAnyway(j) ==
  /\ job[j] = "waiting_output" /\ asset[j] = "stored"
  /\ asset' = [asset EXCEPT ![j] = "promoted"]
  /\ job' = [job EXCEPT ![j] = "promoted"]
  /\ Requested(j, "succeeded")
  /\ run' = IF \A i \in Jobs : job'[i] = "promoted" THEN "succeeded" ELSE run
Promotes(j) ==
  /\ Promotable(j)
  /\ asset' = [asset EXCEPT ![j] = "promoted"]
  /\ job' = [job EXCEPT ![j] = "promoted"]
  /\ Requested(j, "succeeded")
  /\ run' = IF \A i \in Jobs : job'[i] = "promoted" THEN "succeeded" ELSE run

\* settleWorldPromotion: a refusal counts as success when the same object has
\* been promoted, by a lost answer or by the recovery.
Promote(w, j) ==
  /\ Ingests(w, j, "stored")
  /\ \/ Promotes(j) /\ Goto(w, "promoted")
     \/ /\ ~Promotable(j) /\ UNCHANGED <<settlement, asset>>
        /\ Goto(w, IF asset[j] = "promoted" THEN "promoted" ELSE "refused")
  /\ UNCHANGED <<polls, candidate, attempts, lapsed, submitter, provider>>

\* recoverNextQuarantinedWorldPromotion, at the start of every invocation.
RecoverPromotion(j) ==
  /\ candidate[j] = "quarantined" /\ request[j] = "polling" /\ Promotes(j)
  /\ UNCHANGED <<polls, candidate, attempts, lapsed, submitter, provider, memory>>

\* command_fail_provider_output_candidate for an error anywhere in the ingest,
\* also after the promotion; a refused report ends the invocation.
Reportable(w, j) ==
  /\ place[w] \in {"fetching", "scanning", "attested", "stored", "promoted", "refused"}
  /\ target[w] = j /\ candidate[j] \in {"claimed", "quarantined"}

Discard(j) ==
  asset' = [asset EXCEPT ![j] =
    IF @ \in {"quarantined", "scanning", "stored"} THEN "rejected" ELSE @]

\* private.fail_world_anchor_run_for_candidate
FailRunFor(j) ==
  IF Waiting /\ job[j] = "waiting_output" THEN JobFails(j) ELSE UNCHANGED <<run, job>>

\* Fault: the failure of an attempt that will be repeated fails the run.
FailAtOnce(w, j) ==
  /\ Reportable(w, j)
  /\ Discard(j) /\ FailRunFor(j) /\ Leaves(w)
  /\ Offered(j, IF attempts[j] < MaxAttempts THEN "pending" ELSE "rejected")
  /\ UNCHANGED <<request, polls, attempts, lapsed, submitter, provider>>
\* Fault: the output is rejected and the run goes on waiting for it.
RejectSilently(w, j) ==
  /\ Reportable(w, j)
  /\ Discard(j) /\ Leaves(w)
  /\ \/ attempts[j] < MaxAttempts /\ Offered(j, "pending")
     \/ Offered(j, "rejected")
  /\ UNCHANGED <<settlement, polls, attempts, lapsed, submitter, provider>>
\* Fault: the asset is rejected whatever has become of it.
DiscardPromoted(w, j) ==
  /\ Reportable(w, j) /\ Leaves(w)
  /\ asset' = [asset EXCEPT ![j] = "rejected"]
  /\ Offered(j, "rejected") /\ FailRunFor(j)
  /\ UNCHANGED <<request, polls, attempts, lapsed, submitter, provider>>
IngestFails(w, j) ==
  /\ Reportable(w, j)
  /\ Discard(j) /\ Leaves(w)
  /\ \/ attempts[j] < MaxAttempts /\ Offered(j, "pending") /\ UNCHANGED <<run, job>>
     \/ Offered(j, "rejected") /\ FailRunFor(j)
  /\ UNCHANGED <<request, polls, attempts, lapsed, submitter, provider>>

IngestEnds(w, j) ==
  /\ Ingests(w, j, "promoted") /\ Leaves(w)
  /\ UNCHANGED <<settlement, polls, ingest, submitter, provider>>

\* The platform kills an invocation after 300 s, the length of a lease: who
\* holds a claim past its lease is gone.
WorkerDies(w) ==
  /\ place[w] # "idle" /\ Leaves(w)
  /\ UNCHANGED <<settlement, polls, ingest, submitter, provider>>

ClaimLapses(j) ==
  /\ candidate[j] = "claimed" /\ ~lapsed[j]
  /\ \A w \in Workers : ~Ingests(w, j, "fetching")
  /\ lapsed' = [lapsed EXCEPT ![j] = TRUE]
  /\ UNCHANGED <<settlement, polls, candidate, attempts, asset, submitter, provider, memory>>

-----------------------------------------------------------------------------
Submission(j) == Consume(j) \/ Submit(j) \/ Accept(j)
Ingest(w, j) == \/ ClaimCandidate(w, j) \/ CompleteCandidate(w, j) \/ Attest(w, j)
                \/ StoreObject(w, j) \/ Promote(w, j) \/ IngestEnds(w, j)
Poll(w, j) == \/ PollRecovers(w, j) \/ PollInVain(w, j) \/ ReleasePoll(w, j) \/ GiveUp(w, j)

Next ==
  \/ \E j \in Jobs : \/ Submission(j) \/ ProviderAccepts(j) \/ ProviderRefuses(j)
                     \/ SubmitterGone(j) \/ ProviderFinishes(j) \/ Webhook(j)
                     \/ RecoverPromotion(j) \/ ClaimLapses(j)
  \/ \E w \in Workers, j \in Jobs : Ingest(w, j) \/ IngestFails(w, j) \/ ClaimPoll(w, j) \/ Poll(w, j)
  \/ \E w \in Workers : WorkerDies(w)

Spec == Init /\ [][Next]_vars

-----------------------------------------------------------------------------
(* Properties.                                                              *)

\* A job, its request and its asset are settled as one, though four commands
\* and two crons write to them; a failure reported after the promotion takes
\* nothing back.
PromotionIsWhole ==
  \A j \in Jobs :
    /\ job[j] = "promoted" <=> request[j] = "succeeded"
    /\ job[j] = "promoted" <=> asset[j] = "promoted"

\* A request whose output has arrived is never failed: the poll that gives up
\* looks again when it has the row (migration 20260723101000).
ArrivedIsNotGivenUp ==
  \A j \in Jobs : request[j] \in Failed => candidate[j] = "none"

\* A run fails for a job whose output is beyond hope, and not for an ingest
\* attempt that will be repeated; it succeeds with every job promoted.
DecidedForCause ==
  /\ run = "failed" => \E j \in Jobs :
       job[j] = "failed" /\ (candidate[j] = "rejected" \/ request[j] = "failed_terminal")
  /\ run = "succeeded" => \A j \in Jobs : job[j] = "promoted"

\* No run waits for an output that has been rejected for good, the defect of
\* docs/GENIE_IMPLEMENTATION_HANDOFF_2026-07-19.md, section 31.
RejectedEndsWait ==
  Waiting => \A j \in Jobs : job[j] = "waiting_output" => candidate[j] # "rejected"

\* Two overlapping invocations never ingest the same output.
OneIngest ==
  \A v, w \in Workers : target[v] = target[w] /\ place[v] \notin {"idle", "polling"}
                        /\ place[w] \notin {"idle", "polling"} => v = w

\* A run that one of its jobs has failed, or all have completed, is decided:
\* outputs of the others that are still in ingest promote nothing any more.
DecidedIsQuiet ==
  [][~Waiting => UNCHANGED <<run, job>>]_vars
=============================================================================
