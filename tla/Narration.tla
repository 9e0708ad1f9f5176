------------------------------ MODULE Narration ------------------------------
(***************************************************************************)
(* The narration of a World: the tick that buys the speech, the ingests     *)
(* that scan, store, promote and judge it, and the run that waits for them. *)
(*                                                                         *)
(* Abstractions.                                                           *)
(*  - one run, and one tick at a time: Preflight and PreflightWorkers have   *)
(*    the lane, its other runs and ticks that overlap.                      *)
(*  - the bytes of an encoding are a value of Encodings; of the recording    *)
(*    only whether a scan accepts it and whether it holds a long silence.   *)
(*  - the receipt of an upload is read in the step of the upload, the script *)
(*    and the alignment match the audio.                                    *)
(*  - the expiry of a capability of the judges is that of the authority.    *)
(***************************************************************************)
EXTENDS Naturals

CONSTANTS
  Ingests,    \* invocations of the cron that ingest
  NoIngest,
  Encodings,  \* what re-encoding the recording can produce
  NoBytes,    \* no object
  MaxAttempts \* attempts of a run

ASSUME NarrationAssumption ==
  /\ NoIngest \notin Ingests /\ NoBytes \notin Encodings
  /\ MaxAttempts \in Nat \ {0}

VARIABLES
  run, attempt, \* preflight_runs of kind narration_clock; its newest attempt
  tick,      \* the step of the tick that holds the attempt
  job,       \* narration_generation_jobs.state
  owner,     \* its stage_attempt_id
  speech,    \* provider_requests of gen_speech: state
  audio,     \* the bytes in quarantine
  asset,     \* quarantine_assets.state
  attested,  \* media_ingest_attestations: output_sha256
  object,    \* workspace-media, the bytes at the path of the narration
  content,   \* asset_versions: content_sha256
  evidence,  \* the job carries promoted_asset_version_id and scan_evidence
  qc,        \* narration_qc_runs.state
  clock,     \* narration_master_clock_versions has the clock of the run
  holder, lapsed, \* ingest_lease_token, and whether it ran out
  expired,   \* the micro authorization or a capability ran out
  place, enc, check, \* of each ingest: its step, its encoding, its QC step
  calls,     \* requests sent to each provider
  punctual,  \* an invocation ends before the lease it took does
  calm       \* and none meets an error or dies any more

money   == <<speech, calls>>
ledger  == <<asset, attested, content>>
verdict == <<job, run, qc, evidence>>
lease   == <<holder, lapsed>>
front   == <<attempt, tick, owner>>
fixed   == <<expired, punctual, calm>>
vars == <<run, attempt, tick, job, owner, speech, audio, asset, attested, object, content,
          evidence, qc, clock, holder, lapsed, expired, place, enc, check, calls, punctual, calm>>

Checks == {"asr", "judge"}
Reserved(c) == IF c = "asr" THEN "asr_reserved" ELSE "judge_reserved"
Submitted(c) == IF c = "asr" THEN "asr_submitted" ELSE "judge_submitted"

TypeOK ==
  /\ run \in {"queued", "running", "waiting_external", "succeeded", "failed"}
  /\ attempt \in 0..MaxAttempts /\ owner \in 0..MaxAttempts
  /\ tick \in {"idle", "dispatched", "prepared", "claimed", "marked", "consumed",
               "submitted", "answered", "accepted", "registered"}
  /\ job \in {"none", "reserved", "dispatching", "quarantined", "scanning", "promoted", "failed"}
  /\ speech \in {"none", "reserved", "queued", "submitted", "accepted", "succeeded", "failed"}
  /\ audio \in {"none", "clean", "silent", "bad"}
  /\ asset \in {"none", "quarantined", "scanning", "promoted"}
  /\ attested \in SUBSET Encodings
  /\ object \in Encodings \cup {NoBytes} /\ content \in Encodings \cup {NoBytes}
  /\ evidence \in BOOLEAN /\ clock \in BOOLEAN
  /\ qc \in {"none", "asr_verified", "verified", "failed"}
            \cup {Reserved(c) : c \in Checks} \cup {Submitted(c) : c \in Checks}
  /\ holder \in Ingests \cup {NoIngest}
  /\ lapsed \in BOOLEAN /\ expired \in BOOLEAN
  /\ punctual \in BOOLEAN /\ calm \in BOOLEAN
  /\ place \in [Ingests -> {"idle", "claimed", "scan", "rescan", "scanned", "attested",
                            "removed", "stored", "promoted", "recorded", "qc", "reserved",
                            "submitted", "answered", "rejected", "verified", "clocked",
                            "retry", "final"}]
  /\ enc \in [Ingests -> Encodings \cup {NoBytes}]
  /\ check \in [Ingests -> Checks]
  /\ calls \in [Checks \cup {"speech"} -> Nat]

Init ==
  /\ run = "queued" /\ attempt = 0 /\ tick = "idle"
  /\ job = "none" /\ owner = 0 /\ speech = "none"
  /\ audio = "none" /\ asset = "none" /\ attested = {}
  /\ object = NoBytes /\ content = NoBytes
  /\ evidence = FALSE /\ qc = "none" /\ clock = FALSE
  /\ holder = NoIngest /\ lapsed = FALSE /\ expired = FALSE
  /\ place = [w \in Ingests |-> "idle"]
  /\ enc = [w \in Ingests |-> NoBytes]
  /\ check = [w \in Ingests |-> "asr"]
  /\ calls = [c \in Checks \cup {"speech"} |-> 0]
  /\ punctual \in BOOLEAN /\ calm = FALSE

-----------------------------------------------------------------------------
(* The tick: prepareNarrationProviderDispatches, submitProviderDirectly.    *)

ingests == <<place, enc, check>>
behind  == <<ledger, object, evidence, qc, clock, lease, fixed, ingests>>

\* dispatchPreflightControl
Dispatch ==
  /\ run = "queued" /\ tick = "idle" /\ attempt < MaxAttempts
  /\ run' = "running" /\ attempt' = attempt + 1 /\ tick' = "dispatched"
  /\ UNCHANGED <<job, owner, money, audio, behind>>

\* command_prepare_narration_job: a job made for another attempt is refused.
Prepare ==
  /\ tick = "dispatched" /\ job = "none" /\ ~expired
  /\ job' = "reserved" /\ owner' = attempt /\ tick' = "prepared"
  /\ UNCHANGED <<run, attempt, money, audio, behind>>

\* command_claim_narration_provider_job
ClaimSpeech ==
  /\ tick = "prepared" /\ job = "reserved"
  /\ job' = "dispatching" /\ speech' = "reserved" /\ tick' = "claimed"
  /\ UNCHANGED <<run, attempt, owner, calls, audio, behind>>

\* The tick fails or dies before the wait; the report or the reaper settles.
TickFails ==
  /\ tick \in {"dispatched", "prepared", "claimed"}
  /\ run' \in {"failed"} \cup IF attempt < MaxAttempts THEN {"queued"} ELSE {}
  /\ tick' = "idle"
  /\ UNCHANGED <<attempt, job, owner, money, audio, behind>>

\* command_mark_world_anchor_waiting_external
Mark ==
  /\ tick = "claimed" /\ job = "dispatching" /\ owner = attempt
  /\ run' = "waiting_external" /\ tick' = "marked"
  /\ UNCHANGED <<attempt, job, owner, money, audio, behind>>

\* The request goes to its next state, and the tick with it.
Advances(p, s, q, t) ==
  /\ tick = p /\ speech = s /\ speech' = t /\ tick' = q
  /\ UNCHANGED <<run, attempt, job, owner, audio, behind>>

Consume == Advances("marked", "reserved", "consumed", "queued") /\ UNCHANGED calls
Submit  == Advances("consumed", "queued", "submitted", "submitted") /\ UNCHANGED calls
Accept  == Advances("answered", "submitted", "accepted", "accepted") /\ UNCHANGED calls

\* submitProviderAdapter: an answer, a definite refusal, or neither.
Speak ==
  /\ tick = "submitted" /\ speech = "submitted"
  /\ \/ tick' = "answered" /\ UNCHANGED speech
     \/ tick' = "idle" /\ speech' \in {"submitted", "failed"}
  /\ calls' = [calls EXCEPT !["speech"] = @ + 1]
  /\ UNCHANGED <<run, attempt, job, owner, audio, behind>>

\* quarantineImmediateProviderBytes: the upload and command_register_quarantine_asset
Register ==
  /\ tick = "accepted" /\ asset = "none"
  /\ asset' = "quarantined" /\ audio' \in {"clean", "silent", "bad"}
  /\ tick' = "registered"
  /\ UNCHANGED <<run, attempt, job, owner, money, attested, content, object,
                 evidence, qc, clock, lease, fixed, ingests>>

\* command_record_narration_provider_output
RecordOutput ==
  /\ tick = "registered" /\ job = "dispatching"
  /\ speech = "accepted" /\ asset = "quarantined"
  /\ job' = "quarantined" /\ tick' = "idle"
  /\ UNCHANGED <<run, attempt, owner, money, audio, behind>>

\* It throws or dies after the wait: nothing is left to report it to.
TickDies ==
  /\ tick \in {"marked", "consumed", "submitted", "answered", "accepted", "registered"}
  /\ tick' = "idle"
  /\ UNCHANGED <<run, attempt, job, owner, money, audio, behind>>

Tick == \/ Dispatch \/ Prepare \/ ClaimSpeech \/ TickFails \/ Mark \/ Consume
        \/ Submit \/ Speak \/ Accept \/ Register \/ RecordOutput \/ TickDies

-----------------------------------------------------------------------------
(* processNextNarrationIngest. An error of the ledger is final unless it    *)
(* is 40001 or P0002, and so is an answer that is lost; one of storage or   *)
(* of the network is retried.                                               *)

rear == <<run, attempt, tick, owner, speech, audio, fixed>>

\* Fault: the token of the lease is not compared.
HoldsUnfenced(w) == job = "scanning" /\ ~lapsed
Holds(w) == job = "scanning" /\ holder = w /\ ~lapsed

\* From p to one of Q, nothing but the ingest itself moves.
Moves(w, Q) ==
  /\ \E q \in Q : place' = [place EXCEPT ![w] = q]
  /\ UNCHANGED <<rear, job, ledger, object, evidence, qc, clock, lease, calls>>

\* command_claim_narration_ingest
\* Fault: a job is claimed whatever its lease.
ClaimLeased(w) ==
  /\ place[w] = "idle" /\ job \in {"quarantined", "scanning"}
  /\ job' = "scanning" /\ holder' = w /\ lapsed' = FALSE
  /\ place' = [place EXCEPT ![w] = IF evidence THEN "recorded" ELSE "claimed"]
  /\ enc' = [enc EXCEPT ![w] = NoBytes] /\ check' = [check EXCEPT ![w] = "asr"]
  /\ UNCHANGED <<rear, ledger, object, evidence, qc, clock, calls>>
ClaimIngest(w) ==
  /\ place[w] = "idle" /\ \/ job = "quarantined"
                          \/ job = "scanning" /\ lapsed
  /\ job' = "scanning" /\ holder' = w /\ lapsed' = FALSE
  /\ place' = [place EXCEPT ![w] = IF evidence THEN "recorded" ELSE "claimed"]
  /\ enc' = [enc EXCEPT ![w] = NoBytes] /\ check' = [check EXCEPT ![w] = "asr"]
  /\ UNCHANGED <<rear, ledger, object, evidence, qc, clock, calls>>

\* recoverPromotedAsset
Look(w) ==
  /\ place[w] = "claimed"
  /\ Moves(w, {IF asset = "promoted" THEN "rescan" ELSE "scan"})
  /\ UNCHANGED <<enc, check>>

\* scanAndReencodeNarrationAudio
Scan(w) ==
  /\ place[w] \in {"scan", "rescan"}
  /\ Moves(w, {IF audio = "bad" THEN "final"
               ELSE IF place[w] = "scan" THEN "scanned" ELSE "promoted"})
  /\ \E e \in Encodings : enc' = [enc EXCEPT ![w] = e]
  /\ UNCHANGED check

\* command_record_ingest_attestation: one for each encoding of the recording.
\* Fault: an encoding that was attested before is tried again.
AttestInVain(w) ==
  /\ place[w] = "scanned"
  /\ IF asset \in {"quarantined", "scanning"} /\ enc[w] \notin attested
     THEN /\ attested' = attested \cup {enc[w]} /\ asset' = "scanning"
          /\ place' = [place EXCEPT ![w] = "attested"]
          /\ UNCHANGED <<rear, job, content, object, evidence, qc, clock, lease, calls>>
     ELSE Moves(w, {"retry"})
  /\ UNCHANGED <<enc, check>>
Attest(w) ==
  /\ place[w] = "scanned"
  /\ IF asset \in {"quarantined", "scanning"} /\ enc[w] \notin attested
     THEN /\ attested' = attested \cup {enc[w]} /\ asset' = "scanning"
          /\ \E q \in {"attested", "final"} : place' = [place EXCEPT ![w] = q]
          /\ UNCHANGED <<rear, job, content, object, evidence, qc, clock, lease, calls>>
     ELSE Moves(w, {IF enc[w] \in attested /\ asset # "promoted" THEN "final" ELSE "retry"})
  /\ UNCHANGED <<enc, check>>

\* The object and the ingest change, and nothing else.
Stores(w, o, q) ==
  /\ object' = o /\ place' = [place EXCEPT ![w] = q]
  /\ UNCHANGED <<rear, job, ledger, evidence, qc, clock, lease, calls, enc, check>>

\* The object that is in the way is removed; a failure is not noticed.
Remove(w) ==
  /\ place[w] = "attested"
  /\ \E o \in {NoBytes, object} : Stores(w, o, "removed")

\* The upload does not replace; a receipt that does not fit removes the object.
Upload(w) ==
  /\ place[w] = "removed"
  /\ IF object # NoBytes THEN Stores(w, object, "retry")
     ELSE \/ Stores(w, enc[w], "stored")
          \/ \E o \in {enc[w], NoBytes} : Stores(w, o, "retry")

\* command_promote_quarantine_asset: no lease is compared. What it refuses is
\* looked up: an asset that was promoted before is taken.
Promotable ==
  /\ asset = "scanning" /\ object # NoBytes
  /\ speech = "accepted" /\ run \in {"running", "waiting_external"}
Promote(w) ==
  /\ place[w] = "stored"
  /\ IF Promotable
     THEN /\ asset' = "promoted" /\ content' = enc[w] /\ speech' = "succeeded"
          /\ \E q \in {"promoted", "final"} : place' = [place EXCEPT ![w] = q]
          /\ UNCHANGED <<run, attempt, tick, owner, audio, fixed, job, attested, object,
                         evidence, qc, clock, lease, calls>>
     ELSE Moves(w, {IF asset = "promoted" THEN "promoted"
                    ELSE IF object = NoBytes THEN "final" ELSE "retry"})
  /\ UNCHANGED <<enc, check>>

\* command_record_narration_asset_promotion, after a check for long silences.
RecordPromotion(w) ==
  /\ place[w] = "promoted"
  /\ IF audio = "silent" THEN Moves(w, {"final"})
     ELSE IF evidence THEN Moves(w, {"recorded", "retry"})
     ELSE IF ~Holds(w) THEN Moves(w, {"retry"})
     ELSE /\ evidence' = TRUE
          /\ \E q \in {"recorded", "final"} : place' = [place EXCEPT ![w] = q]
          /\ UNCHANGED <<rear, job, ledger, object, qc, clock, lease, calls>>
  /\ UNCHANGED <<enc, check>>

\* assembleMasterClock: the clock that exists, or the bytes the judges hear.
Assemble(w) ==
  /\ place[w] = "recorded"
  /\ Moves(w, {IF clock THEN "clocked" ELSE IF object = NoBytes THEN "retry"
               ELSE IF object # content THEN "final" ELSE "qc"})
  /\ UNCHANGED <<enc, check>>

-----------------------------------------------------------------------------
(* runIndependentNarrationAudioQc: the transcript, then the judgement.      *)

\* The run of the checks and the ingest change, and nothing else.
Rules(w, state, q) ==
  /\ qc' = state /\ place' = [place EXCEPT ![w] = q]
  /\ UNCHANGED <<rear, job, ledger, object, evidence, clock, lease, calls, enc>>

\* A step may be submitted while it is reserved.
\* Fault: or when it was submitted, and its answer was lost.
SubmittableAgain(c) == qc \in {Reserved(c), Submitted(c)}
Submittable(c) == qc = Reserved(c)

\* command_claim_narration_qc_step, and what the ingest makes of its answer:
\* a step that was submitted, and has no result, is not submitted again.
ClaimQc(w) ==
  /\ place[w] = "qc"
  /\ LET c == check[w] IN
     IF ~Holds(w) \/ ~evidence \/ run # "waiting_external"
     THEN Rules(w, qc, "retry") /\ UNCHANGED check
     ELSE IF qc = (IF c = "asr" THEN "none" ELSE "asr_verified")
     THEN /\ UNCHANGED check
          /\ IF expired THEN Rules(w, qc, "retry")
             ELSE \E q \in {"reserved", "final"} : Rules(w, Reserved(c), q)
     ELSE IF Submittable(c)
     THEN Rules(w, qc, "reserved") /\ UNCHANGED check
     ELSE IF qc = "verified"
     THEN Rules(w, qc, "verified") /\ UNCHANGED check
     ELSE IF qc \in {Submitted(c), "failed"}
     THEN Rules(w, qc, "final") /\ UNCHANGED check
     ELSE Rules(w, qc, "qc") /\ check' = [check EXCEPT ![w] = "judge"]

\* command_submit_narration_qc_step
SubmitQc(w) ==
  /\ place[w] = "reserved"
  /\ IF Holds(w) /\ Submittable(check[w])
     THEN \E q \in {"submitted", "final"} : Rules(w, Submitted(check[w]), q)
     ELSE Rules(w, qc, "retry")
  /\ UNCHANGED check

\* transcribeHindi, judgeNarrationAudio: an answer, a definite rejection, an
\* answer that is too large, or none.
Call(w) ==
  /\ place[w] = "submitted"
  /\ calls' = [calls EXCEPT ![check[w]] = @ + 1]
  /\ \E q \in {"answered", "rejected", "final", "retry"} : place' = [place EXCEPT ![w] = q]
  /\ UNCHANGED <<rear, job, ledger, object, evidence, qc, clock, lease, enc, check>>

\* command_record_narration_asr_result, command_record_narration_judge_result
RecordAnswer(w) ==
  /\ place[w] = "answered"
  /\ LET c == check[w] IN
     IF ~Holds(w) \/ qc # Submitted(c) THEN Rules(w, qc, "retry") /\ UNCHANGED check
     ELSE \/ Rules(w, "failed", "final") /\ UNCHANGED check
          \/ c = "asr" /\ Rules(w, "asr_verified", "qc")
                       /\ check' = [check EXCEPT ![w] = "judge"]
          \/ c = "judge" /\ Rules(w, "verified", "verified") /\ UNCHANGED check
          \/ Rules(w, IF c = "asr" THEN "asr_verified" ELSE "verified", "final")
             /\ UNCHANGED check

\* command_fail_narration_qc_step
RecordRejection(w) ==
  /\ place[w] = "rejected"
  /\ IF Holds(w) /\ qc = Submitted(check[w]) THEN Rules(w, "failed", "final")
     ELSE Rules(w, qc, "retry")
  /\ UNCHANGED check

\* command_record_narration_master_clock: no lease is compared; a clock is
\* verified by the checks, and a run has one.
RecordClock(w) ==
  /\ place[w] = "verified"
  /\ IF clock THEN Moves(w, {"final"})
     ELSE IF qc # "verified" \/ run \notin {"running", "waiting_external", "succeeded"}
     THEN Moves(w, {"retry"})
     ELSE /\ clock' = TRUE
          /\ \E q \in {"clocked", "final"} : place' = [place EXCEPT ![w] = q]
          /\ UNCHANGED <<rear, job, ledger, object, evidence, qc, lease, calls>>
  /\ UNCHANGED <<enc, check>>

-----------------------------------------------------------------------------
(* The end of an ingest.                                                    *)

ends == <<attempt, tick, owner, money, audio, fixed, ledger, object, evidence, qc, clock,
          enc, check>>

\* command_complete_narration_ingest
Complete(w) ==
  /\ place[w] = "clocked"
  /\ IF Holds(w) /\ run = "waiting_external" /\ clock
     THEN /\ job' = "promoted" /\ run' = "succeeded"
          /\ holder' = NoIngest /\ UNCHANGED lapsed
          /\ place' = [place EXCEPT ![w] = "idle"]
          /\ UNCHANGED ends
     ELSE /\ Moves(w, {IF job = "promoted" THEN "idle" ELSE "retry"})
          /\ UNCHANGED <<enc, check>>

\* command_fail_narration_ingest: the token is compared, its expiry is not.
\* A failure for good fails the run, by reconcile_failed_narration_run.
\* Fault: it fails the job only.
FailJobOnly(w) ==
  /\ place[w] \in {"retry", "final"}
  /\ place' = [place EXCEPT ![w] = "idle"]
  /\ IF job # "scanning" \/ holder # w THEN UNCHANGED <<job, run, lease>>
     ELSE /\ job' = IF place[w] = "retry" THEN "quarantined" ELSE "failed"
          /\ holder' = NoIngest /\ UNCHANGED <<run, lapsed>>
  /\ UNCHANGED ends
Fail(w) ==
  /\ place[w] \in {"retry", "final"}
  /\ place' = [place EXCEPT ![w] = "idle"]
  /\ IF job # "scanning" \/ holder # w THEN UNCHANGED <<job, run, lease>>
     ELSE /\ job' = IF place[w] = "retry" THEN "quarantined" ELSE "failed"
          /\ run' = IF place[w] = "final" /\ run \in {"running", "waiting_external"}
                    THEN "failed" ELSE run
          /\ holder' = NoIngest /\ UNCHANGED lapsed
  /\ UNCHANGED ends

\* An error that changes nothing, or the invocation dies.
Falters(w) ==
  /\ ~calm /\ place[w] \notin {"idle", "retry", "final"}
  /\ Moves(w, {"retry", "final"})
  /\ UNCHANGED <<enc, check>>
Dies(w) == ~calm /\ place[w] # "idle" /\ Moves(w, {"idle"}) /\ UNCHANGED <<enc, check>>

\* The ten minutes of the lease are over. An invocation is killed after five.
Lapse ==
  /\ job = "scanning" /\ ~lapsed
  /\ punctual => place[holder] = "idle"
  /\ lapsed' = TRUE
  /\ UNCHANGED <<rear, job, holder, ledger, object, evidence, qc, clock, calls, ingests>>

AuthorityExpires ==
  /\ ~expired /\ expired' = TRUE
  /\ UNCHANGED <<front, verdict, money, audio, ledger, object, clock, lease, punctual,
                 calm, ingests>>

\* From here on no step of an ingest fails by itself.
Calms ==
  /\ punctual /\ ~calm /\ calm' = TRUE
  /\ UNCHANGED <<front, verdict, money, audio, ledger, object, clock, lease, expired,
                 punctual, ingests>>

Ingest(w) ==
  \/ ClaimIngest(w) \/ Look(w) \/ Scan(w) \/ Attest(w) \/ Remove(w) \/ Upload(w)
  \/ Promote(w) \/ RecordPromotion(w) \/ Assemble(w) \/ ClaimQc(w) \/ SubmitQc(w)
  \/ Call(w) \/ RecordAnswer(w) \/ RecordRejection(w) \/ RecordClock(w)
  \/ Complete(w) \/ Fail(w) \/ Falters(w) \/ Dies(w)

Next == Tick \/ (\E w \in Ingests : Ingest(w)) \/ Lapse \/ AuthorityExpires \/ Calms

\* The cron runs for ever, its invocations and their leases end.
Progress ==
  /\ \A w \in Ingests : WF_vars(place[w] # "idle" /\ Ingest(w))
  /\ WF_vars(\E w \in Ingests : ClaimIngest(w))
  /\ WF_vars(Lapse)

Spec == Init /\ [][Next]_vars /\ Progress

-----------------------------------------------------------------------------
(* Properties.                                                              *)

\* Each of the three providers is asked at most once for a narration, whatever
\* is retried: command_submit_narration_qc_step, command_prepare_narration_job.
SpentOnce == \A c \in DOMAIN calls : calls[c] <= 1

\* The job, the run and the evidence are decided together: the commands that
\* complete and that fail an ingest, and reconcile_failed_narration_run.
DecidedTogether ==
  /\ job = "promoted" <=> run = "succeeded"
  /\ job = "promoted" => clock /\ qc = "verified" /\ evidence /\ asset = "promoted"
  /\ job = "failed" => run = "failed"
  /\ run = "failed" => job \in {"none", "reserved", "dispatching", "failed"}

\* When no ingest outlives its lease, the path of a promoted narration holds
\* the bytes that were attested: promoteNarration.
StoredAsPromoted == punctual /\ content # NoBytes => object = content

\* An ingest whose job another has claimed decides nothing: the commands that
\* compare the token of the lease.
StaleIngestDecidesNothing ==
  [][\A w \in Ingests : place[w] # "idle" /\ holder # w /\ place'[w] # place[w]
                        => UNCHANGED verdict]_vars

\* Once the errors are over, a recording in quarantine is promoted or given up,
\* whatever the errors left behind, unless the authority for its checks runs out:
\* processNextNarrationIngest.
IngestSettles ==
  (calm /\ job \in {"quarantined", "scanning"}) ~> (job \in {"promoted", "failed"} \/ expired)
=============================================================================
