---------------------------- MODULE MediaDispatch ----------------------------
(***************************************************************************)
(* The paid half of one production run: its media dispatch ledger          *)
(* (mvp_media_dispatches), the provider's queue behind it, the callbacks    *)
(* and the storyboard frames and clips that are bought through it.  A KEY   *)
(* is one thing to buy, `storyboard:<shot>:<role>` or `clip:<shot>:motion`. *)
(*                                                                         *)
(* A worker is a production tick somewhere inside dispatchMvpFalMedia or a  *)
(* poll.  Any worker may be at any key at any time, which covers ticks that *)
(* outlived their job lease.  Each database command is one action, each     *)
(* network exchange with the provider another; a worker may die between     *)
(* any two.                                                                *)
(*                                                                         *)
(* Abstractions.                                                           *)
(*  - a row is claimed at most once, since nothing returns it to 'reserved' *)
(*    and binding leaves its version alone: the claim token, fence and      *)
(*    version a worker compares agree exactly as long as the row is still   *)
(*    'dispatching', so they are not state.                                 *)
(*  - the media itself, its scan and its storage are whatever the provider  *)
(*    made: only the request they belong to is kept.                        *)
(***************************************************************************)
EXTENDS Integers, FiniteSets

CONSTANTS
  Keys,          \* dispatch keys of the run
  NoKey,         \* no key
  Clips,         \* those that are clips; the others are storyboard frames
  Reconcilable,  \* those with an endpoint under fal-ai/
  Workers,       \* overlapping ticks
  MaxRequests,   \* bound: requests the provider accepts
  Ceiling        \* the run's hard ceiling, in units of one key's maximum cost

ASSUME DispatchAssumption ==
  /\ IsFiniteSet(Keys) /\ NoKey \notin Keys
  /\ Clips \subseteq Keys /\ Reconcilable \subseteq Keys
  /\ MaxRequests \in Nat /\ Ceiling \in Nat

Requests == 1..MaxRequests
NoRequest == 0

RowStates == {"none", "reserved", "dispatching", "submitted", "succeeded",
              "failed", "outcome_unknown"}
Receipted == {"submitted", "succeeded"}
\* The states whose maximum cost counts against the ceiling.
Exposed == {"reserved", "dispatching", "submitted", "succeeded", "outcome_unknown"}

\* Where a worker is: idle, holding a reserved row, a claim, a bound callback
\* token, a receipt, the knowledge that there is none, a receipt that the
\* ledger has refused once, the row's receipt, or a settled output.
Places == {"idle", "reserved", "claimed", "bound", "receipt", "refused",
           "lost", "unrecorded", "answered", "settled"}

VARIABLES
  row,      \* mvp_media_dispatches.state, by key
  lapsed,   \* its lease_expires_at has passed
  bound,    \* callback_token_sha256 is set
  receipt,  \* external_request_id
  cost,     \* cost_evidence_state: pending, unreconciled, recorded
  asset,    \* mvp_storyboard_frames.state or mvp_production_clips.state
  place, key, request,    \* each worker's own memory
  accepted, \* the provider's queue: the key each request was accepted for
  outcome,  \* what the provider made of it
  billed    \* the requests whose billing event the provider has published

ledger   == <<row, lapsed, bound, receipt, cost>>
memory   == <<place, key, request>>
provider == <<accepted, outcome, billed>>
vars == <<row, lapsed, bound, receipt, cost, asset, place, key, request,
          accepted, outcome, billed>>

TypeOK ==
  /\ row \in [Keys -> RowStates]
  /\ lapsed \in [Keys -> BOOLEAN] /\ bound \in [Keys -> BOOLEAN]
  /\ receipt \in [Keys -> Requests \cup {NoRequest}]
  /\ cost \in [Keys -> {"pending", "unreconciled", "recorded"}]
  /\ asset \in [Keys -> {"none", "submitted", "complete", "failed"}]
  /\ place \in [Workers -> Places]
  /\ key \in [Workers -> Keys \cup {NoKey}]
  /\ request \in [Workers -> Requests \cup {NoRequest}]
  /\ accepted \in [Requests -> Keys \cup {NoKey}]
  /\ outcome \in [Requests -> {"pending", "completed", "failed"}]
  /\ billed \subseteq Requests

Init ==
  /\ row = [k \in Keys |-> "none"]
  /\ lapsed = [k \in Keys |-> FALSE] /\ bound = [k \in Keys |-> FALSE]
  /\ receipt = [k \in Keys |-> NoRequest]
  /\ cost = [k \in Keys |-> "pending"]
  /\ asset = [k \in Keys |-> "none"]
  /\ place = [w \in Workers |-> "idle"]
  /\ key = [w \in Workers |-> NoKey]
  /\ request = [w \in Workers |-> NoRequest]
  /\ accepted = [n \in Requests |-> NoKey]
  /\ outcome = [n \in Requests |-> "pending"]
  /\ billed = {}

-----------------------------------------------------------------------------
(* A worker's memory, and rows at the mercy of the lease.                   *)

Goto(w, p, k, n) ==
  /\ place' = [place EXCEPT ![w] = p]
  /\ key' = [key EXCEPT ![w] = k]
  /\ request' = [request EXCEPT ![w] = n]

\* The worker throws, returns or dies.
Leaves(w) == Goto(w, "idle", NoKey, NoRequest)
Proceeds(w, p) == Goto(w, p, key[w], request[w])

At(w, p) == place[w] = p
Held(k) == row[k] = "dispatching"
LeaseLive(k) == Held(k) /\ ~lapsed[k]
\* Fault: what is on its way is not counted.
SettledExposure == Cardinality({k \in Keys : row[k] \in Receipted})
Exposure == Cardinality({k \in Keys : row[k] \in Exposed})
Affordable(k) == Exposure + 1 <= Ceiling

MoveRow(k, s) ==
  /\ row' = [row EXCEPT ![k] = s]
  /\ lapsed' = [lapsed EXCEPT ![k] = FALSE]

\* The receipt of request n is committed to row k.
Commit(k, n) ==
  /\ MoveRow(k, "submitted")
  /\ receipt' = [receipt EXCEPT ![k] = n]
  /\ UNCHANGED <<bound, cost>>

-----------------------------------------------------------------------------
(* dispatchMvpFalMedia                                                      *)

\* command_reserve_mvp_media_dispatch on a key seen for the first time.
ReserveNew(w, k) ==
  /\ At(w, "idle") /\ row[k] = "none" /\ Affordable(k)
  /\ MoveRow(k, "reserved") /\ Goto(w, "reserved", k, NoRequest)
  /\ UNCHANGED <<bound, receipt, cost, asset, provider>>

\* ... on a row another tick left 'reserved', or one that has its receipt.
ReserveReplay(w, k) ==
  /\ At(w, "idle")
  /\ \/ row[k] = "reserved" /\ Goto(w, "reserved", k, NoRequest)
     \/ row[k] \in Receipted /\ Goto(w, "answered", k, receipt[k])
  /\ UNCHANGED <<ledger, asset, provider>>

\* Fault: an expired claim is offered again.
ReopenExpired(w, k) ==
  /\ At(w, "idle") /\ Held(k) /\ lapsed[k]
  /\ MoveRow(k, "reserved")
  /\ UNCHANGED <<bound, receipt, cost, asset, memory, provider>>
\* ... on a claim past its lease: the outcome is unknown, the worker throws.
ReserveExpired(w, k) ==
  /\ At(w, "idle") /\ Held(k) /\ lapsed[k]
  /\ MoveRow(k, "outcome_unknown")
  /\ UNCHANGED <<bound, receipt, cost, asset, memory, provider>>

\* command_claim_mvp_media_dispatch; the loser of a race throws.
Claim(w) ==
  /\ At(w, "reserved")
  /\ IF row[key[w]] = "reserved"
     THEN MoveRow(key[w], "dispatching") /\ Proceeds(w, "claimed")
     ELSE Leaves(w) /\ UNCHANGED <<row, lapsed>>
  /\ UNCHANGED <<bound, receipt, cost, asset, provider>>

\* bindMediaCallback: up to three attempts with one token, so that an answer
\* lost on the way is replayed; without a live lease it throws.
BindCallback(w) ==
  /\ At(w, "claimed")
  /\ IF LeaseLive(key[w])
     THEN bound' = [bound EXCEPT ![key[w]] = TRUE] /\ Proceeds(w, "bound")
     ELSE Leaves(w) /\ UNCHANGED bound
  /\ UNCHANGED <<row, lapsed, receipt, cost, asset, provider>>

\* submitMvpFalProvider, accepted: the receipt arrives, or its answer is lost
\* (a time-out, a 5xx, an unreadable body).
ProviderAccepts(w) ==
  /\ At(w, "bound")
  /\ \E n \in Requests :
       /\ accepted[n] = NoKey /\ \A m \in 1..(n - 1) : accepted[m] # NoKey
       /\ accepted' = [accepted EXCEPT ![n] = key[w]]
       /\ \/ Goto(w, "receipt", key[w], n)
          \/ Proceeds(w, "lost")
  /\ UNCHANGED <<ledger, asset, outcome, billed>>

\* ... refused for certain (4xx, not configured), or never arrived.
ProviderRefuses(w) ==
  /\ At(w, "bound")
  /\ Proceeds(w, "refused") \/ Proceeds(w, "lost")
  /\ UNCHANGED <<ledger, asset, provider>>

\* Fault: the report does not look at the row it overwrites.
ReportFailureBlindly(w) ==
  /\ place[w] \in {"refused", "lost"}
  /\ MoveRow(key[w], IF At(w, "lost") THEN "outcome_unknown" ELSE "failed")
  /\ Leaves(w)
  /\ UNCHANGED <<bound, receipt, cost, asset, provider>>
\* command_fail_mvp_media_dispatch; a refused report is swallowed.
ReportFailure(w) ==
  /\ place[w] \in {"refused", "lost"}
  /\ IF LeaseLive(key[w])
     THEN MoveRow(key[w], IF At(w, "lost") THEN "outcome_unknown" ELSE "failed")
     ELSE UNCHANGED <<row, lapsed>>
  /\ Leaves(w)
  /\ UNCHANGED <<bound, receipt, cost, asset, provider>>

\* The row already has a receipt: the same one is replayed, unless the control
\* URLs that a callback made up differ from the provider's.
ReceiptReplayed(w, otherwise) ==
  /\ row[key[w]] \in Receipted /\ UNCHANGED ledger
  /\ \/ receipt[key[w]] = request[w] /\ Proceeds(w, "answered")
     \/ otherwise

\* command_record_mvp_media_dispatch_submission
RecordSubmission(w) ==
  /\ At(w, "receipt")
  /\ \/ ReceiptReplayed(w, Proceeds(w, "unrecorded"))
     \/ LeaseLive(key[w]) /\ Commit(key[w], request[w]) /\ Proceeds(w, "answered")
     \/ /\ row[key[w]] \notin Receipted /\ ~LeaseLive(key[w])
        /\ Proceeds(w, "unrecorded") /\ UNCHANGED ledger
  /\ UNCHANGED <<asset, provider>>

\* reconcileKnownSubmission: the same without the lease, for endpoints whose
\* name the command accepts; otherwise the worker throws, retryably.
ReconcileSubmission(w) ==
  /\ At(w, "unrecorded")
  /\ \/ ReceiptReplayed(w, Leaves(w))
     \/ /\ Held(key[w]) /\ key[w] \in Reconcilable
        /\ Commit(key[w], request[w]) /\ Proceeds(w, "answered")
     \/ /\ row[key[w]] \notin Receipted /\ ~(Held(key[w]) /\ key[w] \in Reconcilable)
        /\ Leaves(w) /\ UNCHANGED ledger
  /\ UNCHANGED <<asset, provider>>

\* The frame or clip row is inserted with the receipt; a second insert fails.
InsertAsset(w) ==
  /\ At(w, "answered")
  /\ asset' = IF asset[key[w]] = "none"
              THEN [asset EXCEPT ![key[w]] = "submitted"] ELSE asset
  /\ Leaves(w)
  /\ UNCHANGED <<ledger, provider>>

-----------------------------------------------------------------------------
(* pollStoryboardFrame and completeClip                                     *)

Polls(w, k) == At(w, "idle") /\ asset[k] = "submitted"

\* The provider reports a failure: a frame is failed, a clip stays submitted.
PollFailed(w, k) ==
  /\ Polls(w, k) /\ outcome[receipt[k]] = "failed"
  /\ k \notin Clips
  /\ asset' = [asset EXCEPT ![k] = "failed"]
  /\ UNCHANGED <<ledger, memory, provider>>

\* A clip below its editorial window is failed before its output is settled.
ClipTooShort(w, k) ==
  /\ Polls(w, k) /\ k \in Clips
  /\ outcome[receipt[k]] = "completed" /\ receipt[k] \in billed
  /\ asset' = [asset EXCEPT ![k] = "failed"]
  /\ UNCHANGED <<ledger, memory, provider>>

\* fetchMvpFalBilledResultForDispatch without a billing event.
BillingPending(w, k) ==
  /\ Polls(w, k) /\ outcome[receipt[k]] = "completed"
  /\ receipt[k] \notin billed
  /\ row[k] = "submitted" /\ cost[k] = "pending"
  /\ cost' = [cost EXCEPT ![k] = "unreconciled"]
  /\ UNCHANGED <<row, lapsed, bound, receipt, asset, memory, provider>>

\* Fault: the frame is completed while its billing event is awaited.
SettleUnbilled(w, k) ==
  /\ Polls(w, k) /\ outcome[receipt[k]] = "completed"
  /\ Goto(w, "settled", k, receipt[k])
  /\ UNCHANGED <<ledger, asset, provider>>
\* command_complete_mvp_media_dispatch_output, with the same evidence again
\* when another poll has completed it.
SettleOutput(w, k) ==
  /\ Polls(w, k) /\ outcome[receipt[k]] = "completed"
  /\ receipt[k] \in billed
  /\ MoveRow(k, "succeeded")
  /\ cost' = [cost EXCEPT ![k] = "recorded"]
  /\ Goto(w, "settled", k, receipt[k])
  /\ UNCHANGED <<bound, receipt, asset, provider>>

\* The asset row is completed where it is still submitted.
FinishAsset(w) ==
  /\ At(w, "settled")
  /\ asset' = IF asset[key[w]] = "submitted"
              THEN [asset EXCEPT ![key[w]] = "complete"] ELSE asset
  /\ Leaves(w)
  /\ UNCHANGED <<ledger, provider>>

-----------------------------------------------------------------------------
(* The clock, the provider and its callbacks.                               *)

Dies(w) ==
  /\ ~At(w, "idle") /\ Leaves(w)
  /\ UNCHANGED <<ledger, asset, provider>>

LeaseLapses(k) ==
  /\ LeaseLive(k)
  /\ lapsed' = [lapsed EXCEPT ![k] = TRUE]
  /\ UNCHANGED <<row, bound, receipt, cost, asset, memory, provider>>

ProviderFinishes(n) ==
  /\ accepted[n] # NoKey /\ outcome[n] = "pending"
  /\ \E o \in {"completed", "failed"} : outcome' = [outcome EXCEPT ![n] = o]
  /\ UNCHANGED <<ledger, asset, memory, accepted, billed>>

ProviderBills(n) ==
  /\ outcome[n] = "completed" /\ billed' = billed \cup {n}
  /\ UNCHANGED <<ledger, asset, memory, accepted, outcome>>

\* Fault: only a live dispatch can be recovered.
CallbackWhileHeld(n) ==
  /\ outcome[n] # "pending"
  /\ LET k == accepted[n] IN
       /\ bound[k] /\ Held(k)
       /\ Commit(k, n)
  /\ UNCHANGED <<asset, memory, provider>>
\* The signed callback of a finished request, however late and however often:
\* POST .../fal-mvp/[providerDispatchId].  It ignores the lease, and recovers
\* an outcome that was given up as unknown.
Callback(n) ==
  /\ outcome[n] # "pending"
  /\ LET k == accepted[n] IN
       /\ bound[k] /\ row[k] \in {"dispatching", "outcome_unknown"}
       /\ Commit(k, n)
  /\ UNCHANGED <<asset, memory, provider>>

-----------------------------------------------------------------------------
Dispatches(w) ==
  \/ \E k \in Keys : ReserveNew(w, k) \/ ReserveReplay(w, k) \/ ReserveExpired(w, k)
  \/ Claim(w) \/ BindCallback(w)
  \/ ProviderAccepts(w) \/ ProviderRefuses(w) \/ ReportFailure(w)
  \/ RecordSubmission(w) \/ ReconcileSubmission(w) \/ InsertAsset(w)

PollsOne(w) ==
  \/ \E k \in Keys : \/ PollFailed(w, k) \/ ClipTooShort(w, k)
                     \/ BillingPending(w, k) \/ SettleOutput(w, k)
  \/ FinishAsset(w)

Provider(n) == ProviderFinishes(n) \/ ProviderBills(n) \/ Callback(n)

Next ==
  \/ \E w \in Workers : Dispatches(w) \/ PollsOne(w) \/ Dies(w)
  \/ \E k \in Keys : LeaseLapses(k)
  \/ \E n \in Requests : Provider(n)

\* The provider finishes what it accepted and repeats a callback until it is
\* answered with a 2xx.  Nothing is assumed of the workers.
Fairness == \A n \in Requests : WF_vars(ProviderFinishes(n)) /\ WF_vars(Callback(n))

Spec == Init /\ [][Next]_vars /\ Fairness

-----------------------------------------------------------------------------
(* Properties.                                                              *)

\* dispatchMvpFalMedia "cannot be issued again automatically": whatever is
\* lost, late or killed, the provider accepts at most one request for a key.
SubmittedOnce ==
  \A m, n \in Requests : accepted[m] # NoKey /\ accepted[m] = accepted[n] => m = n

\* The requests the provider has accepted never cost more than the ceiling
\* authorised, those included whose answer was lost.
SpendWithinCeiling ==
  Cardinality({n \in Requests : accepted[n] # NoKey}) <= Ceiling

\* A frame or clip is complete only with the finished, billed output of the
\* very request that its ledger row has a receipt for.
CompleteAssetIsPaid ==
  \A k \in Keys : asset[k] = "complete" =>
    /\ row[k] = "succeeded" /\ cost[k] = "recorded"
    /\ accepted[receipt[k]] = k /\ outcome[receipt[k]] = "completed"
    /\ receipt[k] \in billed

\* A committed receipt is never lost or exchanged: a late failure report, a
\* lapsed lease or a second callback leaves paid work where it is.
PaidWorkIsKept ==
  [][\A k \in Keys : row[k] \in Receipted =>
       row'[k] \in Receipted /\ receipt'[k] = receipt[k]]_vars

\* Every request the provider accepted ends up in the ledger, though the
\* worker that sent it died, its answer was lost or its lease ran out.
ReceiptRecovered ==
  \A n \in Requests : accepted[n] # NoKey ~>
    \E k \in Keys : accepted[n] = k /\ receipt[k] = n
=============================================================================
