----------------------------- MODULE WorldReview -----------------------------
(***************************************************************************)
(* The review of a World: the cards of its anchors, which the owner         *)
(* accepts, recasts or replaces by an upload, the world_anchor runs that    *)
(* build and recast them one at a time, the reconciliation that retires     *)
(* cards before the reference pack is built, and the World Lock.            *)
(*                                                                         *)
(* Abstractions.                                                           *)
(*  - the worker of a run and the wait of its jobs are one step each:       *)
(*    Preflight and WorldWait have them in full.                            *)
(*  - a command compares the version of the card its caller saw: one with   *)
(*    an old version changes nothing, and is no step here.                  *)
(*  - the source review, the plan, its quote and its confirmation are one   *)
(*    step that follows a reference pack.                                   *)
(***************************************************************************)
EXTENDS Naturals

CONSTANTS
  Anchors,     \* the characters, locations and props of the World
  NoAnchor,    \* no anchor
  Uploaders,   \* requests of world-upload being processed
  MaxRequests, \* bound on the replacements asked for
  MaxRuns,     \* bound on the runs of the lane
  MaxTries     \* attempts of a run

ASSUME ReviewAssumption ==
  /\ NoAnchor \notin Anchors
  /\ MaxRequests \in Nat /\ MaxRuns \in Nat \ {0} /\ MaxTries \in Nat \ {0}

Requests == 1..MaxRequests
Runs == 1..MaxRuns
None == 0  \* no request, no run, no version
Nothing == [a \in Anchors |-> None]  \* nothing chosen

VARIABLES
  card,      \* character_selections and location_selections: state
  candidate, \* the newest version of the anchor, candidate_version_id
  chosen,    \* selected_version_id
  request, anchor, prior, \* world_regeneration_requests: state, entity, version
  bound,     \* its preflight_run_id
  intake,    \* world_upload_intakes.state; "none" for a recast
  run, tries, \* preflight_runs of kind world_anchor, by run_number
  owner,     \* the recast a run was created for (its idempotency key)
  scope,     \* the anchors whose progress rows carry the run
  todo,      \* the anchors it has still to deliver
  place, target, \* each uploader's step and request
  passed,    \* a tick is past the regeneration queue, its dispatch to come
  pack,      \* the choice that the latest reference pack was made of
  plan,      \* the choice of the pack of the latest plan with a confirmed quote
  locked     \* the configuration is locked

cards    == <<card, candidate, chosen>>
requests == <<request, anchor, prior, bound, intake>>
lane     == <<run, tries, owner, scope, todo>>
uploads  == <<place, target>>
release  == <<pack, plan, locked>>
vars == <<cards, requests, lane, uploads, passed, release>>

TypeOK ==
  /\ card \in [Anchors -> {"none", "review_required", "generating", "accepted", "blocked"}]
  /\ candidate \in [Anchors -> Nat] /\ chosen \in [Anchors -> Nat]
  /\ request \in [Requests -> {"unused", "queued", "completed", "superseded"}]
  /\ anchor \in [Requests -> Anchors \cup {NoAnchor}]
  /\ prior \in [Requests -> Nat]
  /\ bound \in [Requests -> 0..MaxRuns]
  /\ intake \in [Requests -> {"none", "registered", "scanning", "promoted", "rejected"}]
  /\ run \in [Runs -> {"none", "created", "queued", "running", "waiting_external",
                       "succeeded", "failed"}]
  /\ tries \in [Runs -> 0..MaxTries]
  /\ owner \in [Runs -> 0..MaxRequests]
  /\ scope \in [Runs -> SUBSET Anchors] /\ todo \in [Runs -> SUBSET Anchors]
  /\ place \in [Uploaders -> {"idle", "prepared", "scanning"}]
  /\ target \in [Uploaders -> 0..MaxRequests]
  /\ pack \in [Anchors -> Nat] /\ plan \in [Anchors -> Nat]
  /\ passed \in BOOLEAN /\ locked \in BOOLEAN

Init ==
  /\ card = [a \in Anchors |-> "none"]
  /\ candidate = [a \in Anchors |-> None] /\ chosen = [a \in Anchors |-> None]
  /\ request = [q \in Requests |-> "unused"]
  /\ anchor = [q \in Requests |-> NoAnchor]
  /\ prior = [q \in Requests |-> None]
  /\ bound = [q \in Requests |-> None]
  /\ intake = [q \in Requests |-> "none"]
  /\ run = [r \in Runs |-> "none"]
  /\ tries = [r \in Runs |-> 0]
  /\ owner = [r \in Runs |-> None]
  /\ scope = [r \in Runs |-> {}] /\ todo = [r \in Runs |-> {}]
  /\ place = [u \in Uploaders |-> "idle"]
  /\ target = [u \in Uploaders |-> None]
  /\ pack = Nothing /\ plan = Nothing
  /\ passed = FALSE /\ locked = FALSE

-----------------------------------------------------------------------------
(* command_record_character_candidate, command_record_location_candidate:   *)
(* a new version of anchor a, for request q or for none.                    *)

Queued(q, a) == q \in Requests /\ request[q] = "queued" /\ anchor[q] = a

\* Fault: the output of a build replaces any candidate.
ReplaceableByBuild(a, q) == card[a] = "none" \/ q = None \/ Queued(q, a)
\* Fault: the output of a build replaces any candidate under review.
ReplaceableInReview(a, q) ==
  card[a] = "none" \/ (q = None /\ card[a] = "review_required") \/ Queued(q, a)
Replaceable(a, q) ==
  \/ card[a] = "none"
  \/ q = None /\ card[a] = "review_required" /\ chosen[a] = None
  \/ Queued(q, a)

Records(a, q) ==
  /\ ~locked /\ Replaceable(a, q)
  /\ chosen' = [chosen EXCEPT ![a] = IF card[a] = "none" \/ q = None THEN None ELSE @]
  /\ card' = [card EXCEPT ![a] = "review_required"]
  /\ candidate' = [candidate EXCEPT ![a] = @ + 1]
  /\ request' = IF q = None THEN request ELSE [request EXCEPT ![q] = "completed"]

-----------------------------------------------------------------------------
(* The owner's commands.                                                    *)

\* command_decide_world_candidate: accept
Accept(a) ==
  /\ ~locked /\ card[a] = "review_required"
  /\ card' = [card EXCEPT ![a] = "accepted"]
  /\ chosen' = [chosen EXCEPT ![a] = candidate[a]]
  /\ UNCHANGED <<candidate, requests, lane, uploads, passed, release>>

\* A recast or an upload is asked for; the version chosen before stays chosen.
Opens(a, q, i) ==
  /\ ~locked /\ card[a] \in {"review_required", "accepted"}
  /\ request[q] = "unused" /\ \A p \in Requests : p < q => request[p] # "unused"
  /\ card' = [card EXCEPT ![a] = "generating"]
  /\ request' = [request EXCEPT ![q] = "queued"]
  /\ anchor' = [anchor EXCEPT ![q] = a]
  /\ prior' = [prior EXCEPT ![q] = candidate[a]]
  /\ intake' = [intake EXCEPT ![q] = i]
  /\ UNCHANGED <<candidate, chosen, bound>>

\* command_decide_world_candidate: regenerate
Recast(a, q) ==
  /\ Opens(a, q, "none")
  /\ UNCHANGED <<lane, uploads, passed, release>>

-----------------------------------------------------------------------------
(* world-upload: one HTTP request prepares the intake and processes it.     *)

Starts(u, q) ==
  /\ place[u] = "idle"
  /\ place' = [place EXCEPT ![u] = "prepared"]
  /\ target' = [target EXCEPT ![u] = q]

Ends(u) ==
  /\ place' = [place EXCEPT ![u] = "idle"]
  /\ target' = [target EXCEPT ![u] = None]

Open(q) == intake[q] \in {"registered", "scanning"}

\* command_prepare_world_upload
UploadPrepares(u, a, q) ==
  /\ Starts(u, q) /\ Opens(a, q, "registered")
  /\ UNCHANGED <<lane, passed, release>>

\* The same POST once more: the intake is returned, and processed beside the
\* first.
UploadReplays(u, q) ==
  /\ Starts(u, q) /\ Open(q) /\ ~locked
  /\ UNCHANGED <<cards, requests, lane, passed, release>>

\* command_mark_world_upload_scanning
UploadScans(u) ==
  /\ place[u] = "prepared" /\ Open(target[u])
  /\ intake' = [intake EXCEPT ![target[u]] = "scanning"]
  /\ place' = [place EXCEPT ![u] = "scanning"]
  /\ UNCHANGED <<target, cards, request, anchor, prior, bound, lane, passed, release>>

\* command_complete_world_upload
UploadCompletes(u) ==
  LET q == target[u] IN
  /\ place[u] = "scanning" /\ intake[q] = "scanning"
  /\ Records(anchor[q], q)
  /\ intake' = [intake EXCEPT ![q] = "promoted"]
  /\ Ends(u)
  /\ UNCHANGED <<anchor, prior, bound, lane, passed, release>>

\* command_fail_world_upload, after an error of any step.
Rejects(q) ==
  LET a == anchor[q] IN
  /\ intake' = [intake EXCEPT ![q] = "rejected"]
  /\ request' = [request EXCEPT ![q] = IF @ = "queued" THEN "superseded" ELSE @]
  /\ card' = IF card[a] = "generating" /\ candidate[a] = prior[q]
             THEN [card EXCEPT ![a] = IF chosen[a] = None THEN "blocked" ELSE "accepted"]
             ELSE card

\* Fault: the card is left as it is.
UploadFailsSilently(u) ==
  LET q == target[u] IN
  /\ place[u] # "idle" /\ Ends(u)
  /\ IF Open(q)
     THEN /\ intake' = [intake EXCEPT ![q] = "rejected"]
          /\ request' = [request EXCEPT ![q] = IF @ = "queued" THEN "superseded" ELSE @]
     ELSE UNCHANGED <<intake, request>>
  /\ UNCHANGED <<cards, anchor, prior, bound, lane, passed, release>>
UploadFails(u) ==
  /\ place[u] # "idle" /\ Ends(u)
  /\ IF Open(target[u]) THEN Rejects(target[u]) ELSE UNCHANGED <<intake, request, card>>
  /\ UNCHANGED <<candidate, chosen, anchor, prior, bound, lane, passed, release>>

\* It is killed, or finds its intake promoted by the other.
UploaderLeaves(u) ==
  /\ place[u] # "idle" /\ Ends(u)
  /\ UNCHANGED <<cards, requests, lane, passed, release>>

-----------------------------------------------------------------------------
(* The runs.  command_create_preflight_run: one active run per lane.        *)

Ended == {"succeeded", "failed"}
LaneFree == \A r \in Runs : run[r] \in Ended \cup {"none"}
FirstUnused(r) == run[r] = "none" /\ \A s \in Runs : s < r => run[s] # "none"

Creates(r, q) ==
  /\ ~locked /\ LaneFree /\ FirstUnused(r)
  /\ run' = [run EXCEPT ![r] = "created"]
  /\ owner' = [owner EXCEPT ![r] = q]
  /\ UNCHANGED <<cards, requests, tries, scope, todo, uploads, passed, release>>

\* The world-build route.
Build(r) == Creates(r, None)

\* ensureWorldRegenerationRun, by the decision's route or by a tick, step by
\* step: a request that an upload opened has no decision, and is refused.
Ensurable(q) == ~locked /\ request[q] = "queued" /\ intake[q] = "none"

CreateRecast(r, q) ==
  /\ Ensurable(q) /\ bound[q] = None /\ \A s \in Runs : owner[s] # q
  /\ Creates(r, q)

BindRecast(r, q) ==
  /\ request[q] = "queued" /\ bound[q] = None /\ owner[r] = q
  /\ bound' = [bound EXCEPT ![q] = r]
  /\ UNCHANGED <<cards, request, anchor, prior, intake, lane, uploads, passed, release>>

Enqueue(r) ==
  /\ run[r] = "created" /\ (owner[r] # None => bound[owner[r]] = r)
  /\ run' = [run EXCEPT ![r] = "queued"]
  /\ UNCHANGED <<cards, requests, tries, owner, scope, todo, uploads, passed, release>>

\* ensureNextWorldRegenerationRun, before anything else of a tick: it throws,
\* and ends the tick, unless the oldest request is a recast whose run is well.
Head(q) == request[q] = "queued" /\ \A p \in Requests : p < q => request[p] # "queued"
TickPasses ==
  /\ ~passed /\ passed' = TRUE
  /\ \A q \in Requests : Head(q) =>
       Ensurable(q) /\ bound[q] # None /\ run[bound[q]] \notin {"created", "failed"}
  /\ UNCHANGED <<cards, requests, lane, uploads, release>>

\* The oldest queued run is dispatched, after the lapsed ones are requeued.
Dispatch(r) ==
  /\ passed /\ run[r] = "queued"
  /\ passed' = FALSE
  /\ run' = [run EXCEPT ![r] = "running"]
  /\ tries' = [tries EXCEPT ![r] = @ + 1]
  /\ UNCHANGED <<cards, requests, owner, scope, todo, uploads, release>>

\* Fault: it is repeated whatever is left of the budget.
AttemptRepeated(r) ==
  /\ run[r] = "running" /\ run' = [run EXCEPT ![r] = "queued"]
  /\ UNCHANGED <<cards, requests, tries, owner, scope, todo, uploads, passed, release>>
\* The attempt fails, by its own report or by the reaper's.  The failure of
\* the recast is not recorded: command_fail_world_regeneration breaks a check
\* of its table (completed_at of a request that is not completed), and raises.
AttemptFails(r) ==
  /\ run[r] = "running"
  /\ \/ tries[r] < MaxTries /\ run' = [run EXCEPT ![r] = "queued"]
     \/ run' = [run EXCEPT ![r] = "failed"]
  /\ UNCHANGED <<cards, requests, tries, owner, scope, todo, uploads, passed, release>>

\* The jobs are prepared and the run waits for them.  A build extracts a set
\* of anchors and takes over the progress rows of their keys; a recast's one
\* job gets a row under a key of its own.
Prepares(r, S) ==
  /\ run[r] = "running"
  /\ run' = [run EXCEPT ![r] = "waiting_external"]
  /\ todo' = [todo EXCEPT ![r] = S]
  /\ scope' = [s \in Runs |->
       CASE s = r -> S
         [] s # r /\ owner[s] = None /\ owner[r] = None -> scope[s] \ S
         [] OTHER -> scope[s]]
  /\ UNCHANGED <<cards, requests, tries, owner, uploads, passed, release>>

PrepareBuild(r) ==
  owner[r] = None /\ \E S \in SUBSET Anchors \ {{}} : Prepares(r, S)

PrepareRecast(r) ==
  owner[r] # None /\ Queued(owner[r], anchor[owner[r]]) /\ Prepares(r, {anchor[owner[r]]})

\* command_promote_world_anchor_quarantine: an output becomes the candidate,
\* and the run succeeds with its last.
Promote(r, a) ==
  /\ run[r] = "waiting_external" /\ a \in todo[r]
  /\ Records(a, owner[r])
  /\ todo' = [todo EXCEPT ![r] = @ \ {a}]
  /\ run' = IF todo[r] = {a} THEN [run EXCEPT ![r] = "succeeded"] ELSE run
  /\ UNCHANGED <<anchor, prior, bound, intake, tries, owner, scope, uploads, passed, release>>

\* An output is rejected for good, or its poll gives up.  For a recast the
\* failure raises as above and is undone: its run goes on waiting.
RejectOutput(r) ==
  /\ run[r] = "waiting_external" /\ owner[r] = None
  /\ run' = [run EXCEPT ![r] = "failed"]
  /\ UNCHANGED <<cards, requests, tries, owner, scope, todo, uploads, passed, release>>

-----------------------------------------------------------------------------
(* ensureWorldReferencePack: after an acceptance, on demand, by the cron.   *)

Shown == {a \in Anchors : card[a] # "none"}
Authoritative(r) == run[r] = "succeeded" /\ \A s \in Runs : s > r => run[s] # "succeeded"
Newest(r) == \A s \in Runs : s > r => run[s] = "none"

\* command_reconcile_current_world_selections: cards without a progress row of
\* the latest run that succeeded go, if no run came after it.
Reconcile(r) ==
  /\ Authoritative(r) /\ Newest(r) /\ scope[r] # {} /\ ~(Shown \subseteq scope[r])
  /\ card' = [a \in Anchors |-> IF a \in scope[r] THEN card[a] ELSE "none"]
  /\ chosen' = [a \in Anchors |-> IF a \in scope[r] THEN chosen[a] ELSE None]
  /\ UNCHANGED <<candidate, requests, lane, uploads, passed, release>>

AllAccepted == Shown # {} /\ \A a \in Shown : card[a] = "accepted"

\* command_record_world_reference_pack
RecordPack ==
  /\ AllAccepted /\ pack # chosen
  /\ \A r \in Runs : Authoritative(r) => scope[r] # {} /\ Shown \subseteq scope[r]
  /\ pack' = chosen
  /\ UNCHANGED <<cards, requests, lane, uploads, passed, plan, locked>>

\* command_record_preflight_plan_bundle, command_confirm_production_quote
PlanPasses ==
  /\ ~locked /\ pack # Nothing /\ plan # pack
  /\ plan' = pack
  /\ UNCHANGED <<cards, requests, lane, uploads, passed, pack, locked>>

\* command_lock_first_episode_world: the latest plan is pinned, and what is
\* accepted; the two are not compared.
Lock ==
  /\ ~locked /\ plan # Nothing /\ AllAccepted
  /\ locked' = TRUE
  /\ UNCHANGED <<cards, requests, lane, uploads, passed, pack, plan>>

-----------------------------------------------------------------------------
Review(a) == Accept(a) \/ \E q \in Requests : Recast(a, q)
Upload(u) ==
  \/ UploadScans(u) \/ UploadCompletes(u) \/ UploadFails(u) \/ UploaderLeaves(u)
  \/ \E q \in Requests : UploadReplays(u, q) \/ \E a \in Anchors : UploadPrepares(u, a, q)
Run(r) ==
  \/ Build(r) \/ Enqueue(r) \/ Dispatch(r) \/ AttemptFails(r) \/ PrepareBuild(r)
  \/ PrepareRecast(r) \/ RejectOutput(r) \/ Reconcile(r)
  \/ \E q \in Requests : CreateRecast(r, q) \/ BindRecast(r, q)
  \/ \E a \in Anchors : Promote(r, a)

Next ==
  \/ \E a \in Anchors : Review(a)
  \/ \E u \in Uploaders : Upload(u)
  \/ \E r \in Runs : Run(r)
  \/ TickPasses \/ RecordPack \/ PlanPasses \/ Lock

Spec == Init /\ [][Next]_vars

-----------------------------------------------------------------------------
(* Properties.                                                              *)

\* A card that waits for a replacement has a queued request of its candidate:
\* two uploads of one intake, a recast and a retirement of the card between
\* its request and the answer leave none waiting for nothing.
GeneratingIsQueued ==
  \A a \in Anchors : card[a] = "generating" =>
    \E q \in Requests : Queued(q, a) /\ prior[q] = candidate[a]

\* Only an answer the owner has asked for reopens an accepted card: the output
\* of a build that another build, an upload or a recast has overtaken does
\* not, and after the lock nothing does.
AcceptedIsKept ==
  [][\A a \in Anchors : card[a] = "accepted" /\ card'[a] \notin {"accepted", "none"} =>
       /\ ~locked
       /\ \E q \in Requests : Queued(q, a) \/ Queued(q, a)']_vars

\* "an accepted anchor remains the active fallback while its owner asks for a
\* replacement candidate" (migration 20260719045118): the choice of an anchor
\* lasts as long as its card.
ChoiceIsKept ==
  [][\A a \in Anchors : chosen[a] # None /\ chosen'[a] = None => card'[a] = "none"]_vars
=============================================================================
