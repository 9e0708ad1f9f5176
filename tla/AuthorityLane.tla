---------------------------- MODULE AuthorityLane ----------------------------
(***************************************************************************)
(* What the preflight control plane promises of one lane, without stages,  *)
(* leases, queues or clocks: the right to decide a run is granted to one   *)
(* numbered holder at a time, only the current holder can publish a        *)
(* result, a run has at most one result, and once a run is decided nothing *)
(* about it changes and only then may a later run be granted.              *)
(* Preflight is shown to implement it.                                     *)
(***************************************************************************)
EXTENDS Integers

CONSTANTS Runs, Slots

VARIABLES
  verdict,   \* each run is open, succeeded or failed
  granted,   \* the number of grants made for each run
  holders,   \* the grants of each run that are in force, by number
  results    \* the grants of each run that published

laneVars == <<verdict, granted, holders, results>>

Init ==
  /\ verdict = [r \in Runs |-> "open"]
  /\ granted = [r \in Runs |-> 0]
  /\ holders = [r \in Runs |-> {}]
  /\ results = [r \in Runs |-> {}]

\* Grant the next number: nobody holds one, and earlier runs are decided.
Grant(r) ==
  /\ \A q \in Runs : holders[q] = {}
  /\ verdict[r] = "open"
  /\ results[r] = {}
  /\ \A q \in Runs : q < r => verdict[q] # "open"
  /\ granted[r] + 1 \in Slots
  /\ granted' = [granted EXCEPT ![r] = @ + 1]
  /\ holders' = [holders EXCEPT ![r] = {granted[r] + 1}]
  /\ UNCHANGED <<verdict, results>>

\* The holder gives up, or is timed out.
Release(r) ==
  /\ granted[r] \in holders[r]
  /\ holders' = [holders EXCEPT ![r] = {}]
  /\ UNCHANGED <<verdict, granted, results>>

\* The holder publishes and gives up its grant.
Publish(r) ==
  /\ granted[r] \in holders[r]
  /\ holders' = [holders EXCEPT ![r] = {}]
  /\ results' = [results EXCEPT ![r] = @ \cup {granted[r]}]
  /\ UNCHANGED <<verdict, granted>>

\* A published run is declared successful.
Succeed(r) ==
  /\ verdict[r] = "open"
  /\ results[r] # {}
  /\ verdict' = [verdict EXCEPT ![r] = "succeeded"]
  /\ UNCHANGED <<granted, holders, results>>

\* The two at once.
PublishAndSucceed(r) ==
  /\ verdict[r] = "open"
  /\ granted[r] \in holders[r]
  /\ verdict' = [verdict EXCEPT ![r] = "succeeded"]
  /\ holders' = [holders EXCEPT ![r] = {}]
  /\ results' = [results EXCEPT ![r] = @ \cup {granted[r]}]
  /\ UNCHANGED granted

\* The run fails, and nobody holds a grant of it any more.
Fail(r) ==
  /\ verdict[r] = "open"
  /\ verdict' = [verdict EXCEPT ![r] = "failed"]
  /\ holders' = [holders EXCEPT ![r] = {}]
  /\ UNCHANGED <<granted, results>>

Next ==
  \E r \in Runs :
    \/ Grant(r)
    \/ Release(r)
    \/ Publish(r)
    \/ Succeed(r)
    \/ PublishAndSucceed(r)
    \/ Fail(r)

Spec == Init /\ [][Next]_laneVars

=============================================================================
