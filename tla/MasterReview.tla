---------------------------- MODULE MasterReview ----------------------------
(***************************************************************************)
(* The owner's half of a production run: the review of each master and the  *)
(* repair loop, composed with the worker of Production.  A reviewer may act *)
(* between any two steps of a tick.                                         *)
(***************************************************************************)
EXTENDS Production

CONSTANT MaxSources  \* bound on the source decisions of the review packet

ASSUME MasterReviewAssumption == MaxSources \in Nat \ {0}

Undecided == 0
Blocked == -1

VARIABLES
  source,   \* the packet's selected_decision_id while its status is approved
  culture   \* by attempt: the cultural decision on its master, and for an
            \* approval the source decision it was recorded under

review == <<source, culture>>
all == <<vars, review>>

TypeOK ==
  /\ ProductionTypeOK
  /\ source \in 1..MaxSources
  /\ culture \in [Jobs -> [Attempts -> Blocked..MaxSources]]

Init ==
  /\ ProductionInit
  /\ source = 1
  /\ culture = [j \in Jobs |-> [n \in Attempts |-> Undecided]]

Pending(j) == job[j] = "review_ready" /\ master[j][attempt[j]] = "pending_review"

\* command_record_mvp_master_cultural_decision; a different second decision on
\* the same master is refused, the same one replayed.
DecideCulture(j) ==
  /\ Pending(j) /\ culture[j][attempt[j]] = Undecided
  /\ \E d \in {Blocked, source} : culture' = [culture EXCEPT ![j][attempt[j]] = d]
  /\ UNCHANGED <<vars, source>>

\* A new source review selects another decision; it matters once a cultural
\* decision has been recorded under the one before.
ReviewSource ==
  /\ \E j \in Jobs, n \in Attempts : culture[j][n] # Undecided
  /\ source < MaxSources /\ source' = source + 1
  /\ UNCHANGED <<vars, culture>>

RepairDone(j) == attempt[j] > 1 => request[j] = "complete"

\* Fault: any cultural approval that is still current will do.
ApproveByAnyCulture(j) ==
  /\ Pending(j) /\ RepairDone(j)
  /\ \E n \in Attempts : culture[j][n] = source
  /\ master' = [master EXCEPT ![j][attempt[j]] = "approved"]
  /\ Becomes(j, "export_ready")
  /\ request' = [request EXCEPT ![j] = "none"]
  /\ run' = [run EXCEPT ![j] = "succeeded"]
  /\ UNCHANGED <<attempt, media, sound, plan, chosen, planner, rounds, opened,
                 tick, review>>
\* command_review_mvp_master, approve, with the release authority and export
\* it creates.
Approve(j) ==
  /\ Pending(j) /\ RepairDone(j)
  /\ culture[j][attempt[j]] = source
  /\ master' = [master EXCEPT ![j][attempt[j]] = "approved"]
  /\ Becomes(j, "export_ready")
  /\ request' = [request EXCEPT ![j] = "none"]
  /\ run' = [run EXCEPT ![j] = "succeeded"]
  /\ UNCHANGED <<attempt, media, sound, plan, chosen, planner, rounds, opened,
                 tick, review>>

\* command_review_mvp_master, reject, with the repair request it opens.
Reject(j) ==
  /\ Pending(j) /\ RepairDone(j) /\ attempt[j] < MaxAttempts
  /\ master' = [master EXCEPT ![j][attempt[j]] = "rejected"]
  /\ Becomes(j, "needs_repair")
  /\ request' = [request EXCEPT ![j] = "awaiting_retry"]
  /\ rounds' = [rounds EXCEPT ![j] = 0] /\ opened' = [opened EXCEPT ![j] = TRUE]
  /\ UNCHANGED <<attempt, run, media, sound, plan, chosen, planner, tick, review>>

Retryable(j) == request[j] = "awaiting_retry" /\ opened[j] /\ attempt[j] < MaxAttempts

\* command_retry_mvp_production
Retry(j) ==
  /\ job[j] = "needs_repair" /\ Retryable(j)
  /\ request' = [request EXCEPT ![j] = "analyzing"]
  /\ master' = [master EXCEPT ![j] = [n \in Attempts |->
                  IF master[j][n] = "rejected" THEN "superseded" ELSE master[j][n]]]
  /\ Becomes(j, "repair_planning")
  /\ attempt' = [attempt EXCEPT ![j] = @ + 1]
  /\ opened' = [opened EXCEPT ![j] = FALSE]
  /\ UNCHANGED <<run, media, sound, plan, chosen, planner, rounds, tick, review>>

\* command_answer_mvp_repair_clarification
Answer(j) ==
  /\ job[j] = "repair_planning" /\ request[j] = "awaiting_clarification"
  /\ request' = [request EXCEPT ![j] = "analyzing"]
  /\ UNCHANGED <<lane, attempt, run, media, sound, plan, chosen, planner,
                 rounds, opened, master, tick, review>>

Next ==
  \/ ProductionNext /\ UNCHANGED review
  \/ ReviewSource
  \/ \E j \in Jobs : \/ DecideCulture(j) \/ Approve(j) \/ Reject(j)
                     \/ Retry(j) \/ Answer(j)

Spec == Init /\ [][Next]_all /\ ProductionFairness

-----------------------------------------------------------------------------
(* Properties.                                                              *)

\* "a separate current qualified cultural decision is required": a film is
\* released by the approval of the newest master, under a cultural approval of
\* that very master and of the sources as they stand.
ReleasedIsReviewed ==
  [][\A j \in Jobs : job'[j] = "export_ready" /\ job[j] # "export_ready" =>
       /\ master'[j][attempt[j]] = "approved"
       /\ culture[j][attempt[j]] = source
       /\ \A n \in Attempts \ {attempt[j]} : master[j][n] \in {"none", "superseded"}]_all

\* A rejected film can be repaired: nothing a tick still does to the job makes
\* its request stale ("repair request is stale").
RejectedIsRetryable ==
  \A j \in Jobs : job[j] = "needs_repair" => Retryable(j)

\* No late tick, lapsed lease or replay reopens a failed or a released job.
DecidedIsFinal ==
  [][\A j \in Jobs : job[j] \in {"failed", "export_ready"} => job'[j] = job[j]]_all
=============================================================================
