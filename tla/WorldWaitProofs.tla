-------------------------- MODULE WorldWaitProofs --------------------------
(* Proofs about WorldWait, for every number of jobs, workers and attempts.  *)
EXTENDS WorldWait, TLAPS

-----------------------------------------------------------------------------
(* The inductive invariant.                                                 *)

\* The request of a submission under way is where the submitting tick left
\* it, and unknown to the provider.
SubmissionInv(j) ==
  /\ submitter[j] = "ready" => request[j] = "reserved"
  /\ submitter[j] = "queued" => request[j] = "queued"
  /\ submitter[j] = "calling" => request[j] = "submitted"
  /\ submitter[j] \in {"ready", "queued", "calling"} => provider[j] = "none"
  /\ candidate[j] # "none" => provider[j] = "completed"

\* What is in quarantine belongs to a quarantined candidate, and nothing is
\* promoted under a claim.
OutputInv(j) ==
  /\ candidate[j] # "quarantined" => asset[j] \notin {"quarantined", "scanning", "stored"}
  /\ candidate[j] = "claimed" => asset[j] # "promoted"
  /\ request[j] \in Failed => candidate[j] = "none"

\* A job is settled together with its request, its asset and its run.
JobInv(j) ==
  /\ job[j] = "promoted" <=> request[j] = "succeeded"
  /\ job[j] = "promoted" <=> asset[j] = "promoted"
  /\ job[j] = "failed" =>
       run = "failed" /\ (candidate[j] = "rejected" \/ request[j] = "failed_terminal")
  /\ Waiting /\ job[j] = "waiting_output" => candidate[j] # "rejected"

\* A worker in the middle of an ingest holds the candidate.
HoldInv(w) ==
  /\ place[w] = "fetching" => candidate[target[w]] = "claimed" /\ ~lapsed[target[w]]
  /\ place[w] \in {"scanning", "attested", "stored", "promoted", "refused"} =>
       candidate[target[w]] = "quarantined"
  /\ place[w] = "polling" => seen[w] # 0
  /\ place[w] # "idle" => target[w] \in Jobs

IInv ==
  /\ TypeOK
  /\ \A j \in Jobs : SubmissionInv(j) /\ OutputInv(j) /\ JobInv(j)
  /\ \A w \in Workers : HoldInv(w)
  /\ OneIngest
  /\ DecidedForCause

-----------------------------------------------------------------------------
(* Each command preserves each part.                                        *)

\* A poll that is given back was counted.
LEMMA OneLess ==
  ASSUME NEW n \in 0..MaxPolls, n # 0
  PROVE  n - 1 \in 0..MaxPolls
BY WaitAssumption

\* Every command keeps the types.
LEMMA TypeStep ==
  ASSUME IInv, Next
  PROVE  TypeOK'
<1> USE WaitAssumption DEF IInv, TypeOK, HoldInv, RequestStates, Undecided,
       Failed, memory, settlement, ingest, Requested, Submits, Offered
<1>1. CASE \E j \in Jobs : Consume(j)
  BY <1>1 DEF Consume
<1>2. CASE \E j \in Jobs : Submit(j)
  BY <1>2 DEF Submit
<1>3. CASE \E j \in Jobs : ProviderAccepts(j)
  BY <1>3 DEF ProviderAccepts
<1>4. CASE \E j \in Jobs : ProviderRefuses(j)
  BY <1>4 DEF ProviderRefuses
<1>5. CASE \E j \in Jobs : Accept(j)
  BY <1>5 DEF Accept
<1>6. CASE \E j \in Jobs : SubmitterGone(j)
  BY <1>6 DEF SubmitterGone
<1>7. CASE \E j \in Jobs : ProviderFinishes(j)
  BY <1>7 DEF ProviderFinishes
<1>8. CASE \E j \in Jobs : Webhook(j)
  BY <1>8 DEF Webhook, RecordOutput, Announceable
<1>9. CASE \E j \in Jobs : RecoverPromotion(j)
  BY <1>9 DEF RecoverPromotion, Promotes, Promotable, Waiting
<1>10. CASE \E j \in Jobs : ClaimLapses(j)
  BY <1>10 DEF ClaimLapses, Ingests
<1>11. CASE \E w \in Workers, j \in Jobs : PollRecovers(w, j)
  BY <1>11 DEF PollRecovers, Polls, RecordOutput, Announceable, Leaves
<1>12. CASE \E w \in Workers, j \in Jobs : PollInVain(w, j)
  BY <1>12 DEF PollInVain, Polls, Leaves
<1>13. CASE \E w \in Workers, j \in Jobs : ReleasePoll(w, j)
  <2>1. PICK w \in Workers, j \in Jobs : ReleasePoll(w, j)
    BY <1>13
  <2>2. seen[w] \in 0..MaxPolls /\ seen[w] # 0 /\ polls[j] = seen[w]
    BY <2>1 DEF ReleasePoll, Polls
  <2>3. polls[j] - 1 \in 0..MaxPolls
    BY <2>2, OneLess
  <2>4. polls' = [polls EXCEPT ![j] = polls[j] - 1]
    BY <2>1 DEF ReleasePoll
  <2>5. polls' \in [Jobs -> 0..MaxPolls]
    BY <2>3, <2>4
  <2>6. QED
    BY <2>1, <2>5 DEF ReleasePoll, Polls, Leaves
<1>14. CASE \E w \in Workers, j \in Jobs : GiveUp(w, j)
  BY <1>14 DEF GiveUp, Polls, Leaves, JobFails, Waiting
<1>15. CASE \E w \in Workers, j \in Jobs : ClaimPoll(w, j)
  BY <1>15 DEF ClaimPoll, Takes
<1>16. CASE \E w \in Workers, j \in Jobs : ClaimCandidate(w, j)
  BY <1>16 DEF ClaimCandidate, Reopens, Waiting
<1>17. CASE \E w \in Workers, j \in Jobs : CompleteCandidate(w, j)
  BY <1>17 DEF CompleteCandidate, Ingests, Goto
<1>18. CASE \E w \in Workers, j \in Jobs : Attest(w, j)
  BY <1>18 DEF Attest, Ingests, Goto
<1>19. CASE \E w \in Workers, j \in Jobs : StoreObject(w, j)
  BY <1>19 DEF StoreObject, Ingests, Goto
<1>20. CASE \E w \in Workers, j \in Jobs : Promote(w, j)
  BY <1>20 DEF Promote, Ingests, Goto, Promotes, Promotable, Waiting
<1>21. CASE \E w \in Workers, j \in Jobs : IngestEnds(w, j)
  BY <1>21 DEF IngestEnds, Ingests, Leaves
<1>22. CASE \E w \in Workers, j \in Jobs : IngestFails(w, j)
  BY <1>22 DEF IngestFails, Reportable, Discard, FailRunFor, JobFails,
         Waiting, Leaves
<1>23. CASE \E w \in Workers : WorkerDies(w)
  BY <1>23 DEF WorkerDies, Leaves
<1>24. QED
  BY <1>1, <1>2, <1>3, <1>4, <1>5, <1>6, <1>7, <1>8, <1>9, <1>10, <1>11,
         <1>12, <1>13, <1>14, <1>15, <1>16, <1>17, <1>18, <1>19, <1>20, <1>21,
         <1>22, <1>23 DEF Next, Submission, Ingest, Poll

\* Only the submitting tick moves a request that it has not handed over.
LEMMA SubmissionStep ==
  ASSUME IInv, Next
  PROVE  \A i \in Jobs : SubmissionInv(i)'
<1> USE DEF IInv, TypeOK, SubmissionInv, OutputInv, memory, settlement,
       ingest, Requested, Submits, Offered
<1>1. CASE \E j \in Jobs : Consume(j)
  BY <1>1 DEF Consume
<1>2. CASE \E j \in Jobs : Submit(j)
  BY <1>2 DEF Submit
<1>3. CASE \E j \in Jobs : ProviderAccepts(j)
  BY <1>3 DEF ProviderAccepts
<1>4. CASE \E j \in Jobs : ProviderRefuses(j)
  BY <1>4 DEF ProviderRefuses, Failed
<1>5. CASE \E j \in Jobs : Accept(j)
  BY <1>5 DEF Accept
<1>6. CASE \E j \in Jobs : SubmitterGone(j)
  BY <1>6 DEF SubmitterGone
<1>7. CASE \E j \in Jobs : ProviderFinishes(j)
  BY <1>7 DEF ProviderFinishes
<1>8. CASE \E j \in Jobs : Webhook(j)
  BY <1>8 DEF Webhook, RecordOutput, Announceable, Undecided
<1>9. CASE \E j \in Jobs : RecoverPromotion(j)
  BY <1>9 DEF RecoverPromotion, Promotes, Promotable, Waiting, Undecided
<1>10. CASE \E j \in Jobs : ClaimLapses(j)
  BY <1>10 DEF ClaimLapses, Ingests
<1>11. CASE \E w \in Workers, j \in Jobs : PollRecovers(w, j)
  BY <1>11 DEF PollRecovers, Polls, RecordOutput, Announceable, Undecided,
         Leaves
<1>12. CASE \E w \in Workers, j \in Jobs : PollInVain(w, j)
  BY <1>12 DEF PollInVain, Polls, Leaves
<1>13. CASE \E w \in Workers, j \in Jobs : ReleasePoll(w, j)
  BY <1>13 DEF ReleasePoll, Polls, Leaves, Undecided
<1>14. CASE \E w \in Workers, j \in Jobs : GiveUp(w, j)
  BY <1>14 DEF GiveUp, Polls, Leaves, Undecided, JobFails, Waiting
<1>15. CASE \E w \in Workers, j \in Jobs : ClaimPoll(w, j)
  BY <1>15 DEF ClaimPoll, Takes, Undecided
<1>16. CASE \E w \in Workers, j \in Jobs : ClaimCandidate(w, j)
  BY <1>16 DEF ClaimCandidate, Reopens, Waiting
<1>17. CASE \E w \in Workers, j \in Jobs : CompleteCandidate(w, j)
  BY <1>17 DEF CompleteCandidate, Ingests, Goto
<1>18. CASE \E w \in Workers, j \in Jobs : Attest(w, j)
  BY <1>18 DEF Attest, Ingests, Goto
<1>19. CASE \E w \in Workers, j \in Jobs : StoreObject(w, j)
  BY <1>19 DEF StoreObject, Ingests, Goto
<1>20. CASE \E w \in Workers, j \in Jobs : Promote(w, j)
  BY <1>20 DEF Promote, Ingests, Goto, Promotes, Promotable, Waiting,
         Undecided
<1>21. CASE \E w \in Workers, j \in Jobs : IngestEnds(w, j)
  BY <1>21 DEF IngestEnds, Ingests, Leaves
<1>22. CASE \E w \in Workers, j \in Jobs : IngestFails(w, j)
  BY <1>22 DEF IngestFails, Reportable, Discard, FailRunFor, JobFails,
         Waiting, Leaves
<1>23. CASE \E w \in Workers : WorkerDies(w)
  BY <1>23 DEF WorkerDies, Leaves
<1>24. QED
  BY <1>1, <1>2, <1>3, <1>4, <1>5, <1>6, <1>7, <1>8, <1>9, <1>10, <1>11,
         <1>12, <1>13, <1>14, <1>15, <1>16, <1>17, <1>18, <1>19, <1>20, <1>21,
         <1>22, <1>23 DEF Next, Submission, Ingest, Poll

\* Candidate, asset and request agree.
LEMMA OutputStep ==
  ASSUME IInv, Next
  PROVE  \A i \in Jobs : OutputInv(i)'
<1> USE DEF IInv, TypeOK, SubmissionInv, OutputInv, JobInv, HoldInv, Waiting,
       RequestStates, Undecided, Failed, memory, settlement, ingest,
       Requested, Submits, Offered
<1>1. CASE \E j \in Jobs : Consume(j)
  BY <1>1 DEF Consume
<1>2. CASE \E j \in Jobs : Submit(j)
  BY <1>2 DEF Submit
<1>3. CASE \E j \in Jobs : ProviderAccepts(j)
  BY <1>3 DEF ProviderAccepts
<1>4. CASE \E j \in Jobs : ProviderRefuses(j)
  BY <1>4 DEF ProviderRefuses
<1>5. CASE \E j \in Jobs : Accept(j)
  BY <1>5 DEF Accept
<1>6. CASE \E j \in Jobs : SubmitterGone(j)
  BY <1>6 DEF SubmitterGone
<1>7. CASE \E j \in Jobs : ProviderFinishes(j)
  BY <1>7 DEF ProviderFinishes
<1>8. CASE \E j \in Jobs : Webhook(j)
  BY <1>8 DEF Webhook, RecordOutput, Announceable
<1>9. CASE \E j \in Jobs : RecoverPromotion(j)
  BY <1>9 DEF RecoverPromotion, Promotes, Promotable
<1>10. CASE \E j \in Jobs : ClaimLapses(j)
  BY <1>10 DEF ClaimLapses, Ingests
<1>11. CASE \E w \in Workers, j \in Jobs : PollRecovers(w, j)
  BY <1>11 DEF PollRecovers, Polls, RecordOutput, Announceable, Leaves
<1>12. CASE \E w \in Workers, j \in Jobs : PollInVain(w, j)
  BY <1>12 DEF PollInVain, Polls, Leaves
<1>13. CASE \E w \in Workers, j \in Jobs : ReleasePoll(w, j)
  BY <1>13 DEF ReleasePoll, Polls, Leaves
<1>14. CASE \E w \in Workers, j \in Jobs : GiveUp(w, j)
  BY <1>14 DEF GiveUp, Polls, Leaves, JobFails
<1>15. CASE \E w \in Workers, j \in Jobs : ClaimPoll(w, j)
  BY <1>15 DEF ClaimPoll, Takes
<1>16. CASE \E w \in Workers, j \in Jobs : ClaimCandidate(w, j)
  BY <1>16 DEF ClaimCandidate, Reopens
<1>17. CASE \E w \in Workers, j \in Jobs : CompleteCandidate(w, j)
  BY <1>17 DEF CompleteCandidate, Ingests, Goto
<1>18. CASE \E w \in Workers, j \in Jobs : Attest(w, j)
  BY <1>18 DEF Attest, Ingests, Goto
<1>19. CASE \E w \in Workers, j \in Jobs : StoreObject(w, j)
  BY <1>19 DEF StoreObject, Ingests, Goto
<1>20. CASE \E w \in Workers, j \in Jobs : Promote(w, j)
  BY <1>20 DEF Promote, Ingests, Goto, Promotes, Promotable
<1>21. CASE \E w \in Workers, j \in Jobs : IngestEnds(w, j)
  BY <1>21 DEF IngestEnds, Ingests, Leaves
<1>22. CASE \E w \in Workers, j \in Jobs : IngestFails(w, j)
  BY <1>22 DEF IngestFails, Reportable, Discard, FailRunFor, JobFails, Leaves
<1>23. CASE \E w \in Workers : WorkerDies(w)
  BY <1>23 DEF WorkerDies, Leaves
<1>24. QED
  BY <1>1, <1>2, <1>3, <1>4, <1>5, <1>6, <1>7, <1>8, <1>9, <1>10, <1>11,
         <1>12, <1>13, <1>14, <1>15, <1>16, <1>17, <1>18, <1>19, <1>20, <1>21,
         <1>22, <1>23 DEF Next, Submission, Ingest, Poll

\* A job is settled in one step.
LEMMA JobStep ==
  ASSUME IInv, Next
  PROVE  \A i \in Jobs : JobInv(i)'
<1> USE DEF IInv, TypeOK, SubmissionInv, OutputInv, JobInv, HoldInv, Waiting,
       RequestStates, Undecided, Failed, memory, settlement, ingest,
       Requested, Submits, Offered
<1>1. CASE \E j \in Jobs : Consume(j)
  BY <1>1 DEF Consume
<1>2. CASE \E j \in Jobs : Submit(j)
  BY <1>2 DEF Submit
<1>3. CASE \E j \in Jobs : ProviderAccepts(j)
  BY <1>3 DEF ProviderAccepts
<1>4. CASE \E j \in Jobs : ProviderRefuses(j)
  BY <1>4 DEF ProviderRefuses
<1>5. CASE \E j \in Jobs : Accept(j)
  BY <1>5 DEF Accept
<1>6. CASE \E j \in Jobs : SubmitterGone(j)
  BY <1>6 DEF SubmitterGone
<1>7. CASE \E j \in Jobs : ProviderFinishes(j)
  BY <1>7 DEF ProviderFinishes
<1>8. CASE \E j \in Jobs : Webhook(j)
  BY <1>8 DEF Webhook, RecordOutput, Announceable
<1>9. CASE \E j \in Jobs : RecoverPromotion(j)
  BY <1>9 DEF RecoverPromotion, Promotes, Promotable
<1>10. CASE \E j \in Jobs : ClaimLapses(j)
  BY <1>10 DEF ClaimLapses, Ingests
<1>11. CASE \E w \in Workers, j \in Jobs : PollRecovers(w, j)
  BY <1>11 DEF PollRecovers, Polls, RecordOutput, Announceable, Leaves
<1>12. CASE \E w \in Workers, j \in Jobs : PollInVain(w, j)
  BY <1>12 DEF PollInVain, Polls, Leaves
<1>13. CASE \E w \in Workers, j \in Jobs : ReleasePoll(w, j)
  BY <1>13 DEF ReleasePoll, Polls, Leaves
<1>14. CASE \E w \in Workers, j \in Jobs : GiveUp(w, j)
  BY <1>14 DEF GiveUp, Polls, Leaves, JobFails
<1>15. CASE \E w \in Workers, j \in Jobs : ClaimPoll(w, j)
  BY <1>15 DEF ClaimPoll, Takes
<1>16. CASE \E w \in Workers, j \in Jobs : ClaimCandidate(w, j)
  BY <1>16 DEF ClaimCandidate, Reopens
<1>17. CASE \E w \in Workers, j \in Jobs : CompleteCandidate(w, j)
  BY <1>17 DEF CompleteCandidate, Ingests, Goto
<1>18. CASE \E w \in Workers, j \in Jobs : Attest(w, j)
  BY <1>18 DEF Attest, Ingests, Goto
<1>19. CASE \E w \in Workers, j \in Jobs : StoreObject(w, j)
  BY <1>19 DEF StoreObject, Ingests, Goto
<1>20. CASE \E w \in Workers, j \in Jobs : Promote(w, j)
  BY <1>20 DEF Promote, Ingests, Goto, Promotes, Promotable
<1>21. CASE \E w \in Workers, j \in Jobs : IngestEnds(w, j)
  BY <1>21 DEF IngestEnds, Ingests, Leaves
<1>22. CASE \E w \in Workers, j \in Jobs : IngestFails(w, j)
  BY <1>22 DEF IngestFails, Reportable, Discard, FailRunFor, JobFails, Leaves
<1>23. CASE \E w \in Workers : WorkerDies(w)
  BY <1>23 DEF WorkerDies, Leaves
<1>24. QED
  BY <1>1, <1>2, <1>3, <1>4, <1>5, <1>6, <1>7, <1>8, <1>9, <1>10, <1>11,
         <1>12, <1>13, <1>14, <1>15, <1>16, <1>17, <1>18, <1>19, <1>20, <1>21,
         <1>22, <1>23 DEF Next, Submission, Ingest, Poll

\* A worker loses its candidate by its own steps only.
LEMMA HoldStep ==
  ASSUME IInv, Next
  PROVE  \A v \in Workers : HoldInv(v)'
<1> USE DEF IInv, TypeOK, HoldInv, OneIngest, memory, settlement, ingest,
       Requested, Submits, Offered
<1>1. CASE \E j \in Jobs : Consume(j)
  BY <1>1 DEF Consume
<1>2. CASE \E j \in Jobs : Submit(j)
  BY <1>2 DEF Submit
<1>3. CASE \E j \in Jobs : ProviderAccepts(j)
  BY <1>3 DEF ProviderAccepts
<1>4. CASE \E j \in Jobs : ProviderRefuses(j)
  BY <1>4 DEF ProviderRefuses, Failed
<1>5. CASE \E j \in Jobs : Accept(j)
  BY <1>5 DEF Accept
<1>6. CASE \E j \in Jobs : SubmitterGone(j)
  BY <1>6 DEF SubmitterGone
<1>7. CASE \E j \in Jobs : ProviderFinishes(j)
  BY <1>7 DEF ProviderFinishes
<1>8. CASE \E j \in Jobs : Webhook(j)
  BY <1>8 DEF Webhook, RecordOutput, Announceable, Undecided
<1>9. CASE \E j \in Jobs : RecoverPromotion(j)
  BY <1>9 DEF RecoverPromotion, Promotes, Promotable, Waiting, Undecided
<1>10. CASE \E j \in Jobs : ClaimLapses(j)
  BY <1>10 DEF ClaimLapses, Ingests
<1>11. CASE \E w \in Workers, j \in Jobs : PollRecovers(w, j)
  BY <1>11 DEF PollRecovers, Polls, RecordOutput, Announceable, Undecided,
         Leaves
<1>12. CASE \E w \in Workers, j \in Jobs : PollInVain(w, j)
  BY <1>12 DEF PollInVain, Polls, Leaves
<1>13. CASE \E w \in Workers, j \in Jobs : ReleasePoll(w, j)
  BY <1>13 DEF ReleasePoll, Polls, Leaves, Undecided
<1>14. CASE \E w \in Workers, j \in Jobs : GiveUp(w, j)
  BY <1>14 DEF GiveUp, Polls, Leaves, Undecided, JobFails, Waiting
<1>15. CASE \E w \in Workers, j \in Jobs : ClaimPoll(w, j)
  BY <1>15 DEF ClaimPoll, Takes, Undecided
<1>16. CASE \E w \in Workers, j \in Jobs : ClaimCandidate(w, j)
  BY <1>16 DEF ClaimCandidate, Reopens, Waiting
<1>17. CASE \E w \in Workers, j \in Jobs : CompleteCandidate(w, j)
  BY <1>17 DEF CompleteCandidate, Ingests, Goto
<1>18. CASE \E w \in Workers, j \in Jobs : Attest(w, j)
  BY <1>18 DEF Attest, Ingests, Goto
<1>19. CASE \E w \in Workers, j \in Jobs : StoreObject(w, j)
  BY <1>19 DEF StoreObject, Ingests, Goto
<1>20. CASE \E w \in Workers, j \in Jobs : Promote(w, j)
  BY <1>20 DEF Promote, Ingests, Goto, Promotes, Promotable, Waiting,
         Undecided
<1>21. CASE \E w \in Workers, j \in Jobs : IngestEnds(w, j)
  BY <1>21 DEF IngestEnds, Ingests, Leaves
<1>22. CASE \E w \in Workers, j \in Jobs : IngestFails(w, j)
  BY <1>22 DEF IngestFails, Reportable, Discard, FailRunFor, JobFails,
         Waiting, Leaves
<1>23. CASE \E w \in Workers : WorkerDies(w)
  BY <1>23 DEF WorkerDies, Leaves
<1>24. QED
  BY <1>1, <1>2, <1>3, <1>4, <1>5, <1>6, <1>7, <1>8, <1>9, <1>10, <1>11,
         <1>12, <1>13, <1>14, <1>15, <1>16, <1>17, <1>18, <1>19, <1>20, <1>21,
         <1>22, <1>23 DEF Next, Submission, Ingest, Poll

\* A candidate is claimed when nobody ingests it.
LEMMA OneIngestStep ==
  ASSUME IInv, Next
  PROVE  OneIngest'
<1> USE DEF IInv, TypeOK, HoldInv, OneIngest, memory, settlement, ingest,
       Requested, Submits, Offered
<1>1. CASE \E j \in Jobs : Consume(j)
  BY <1>1 DEF Consume
<1>2. CASE \E j \in Jobs : Submit(j)
  BY <1>2 DEF Submit
<1>3. CASE \E j \in Jobs : ProviderAccepts(j)
  BY <1>3 DEF ProviderAccepts
<1>4. CASE \E j \in Jobs : ProviderRefuses(j)
  BY <1>4 DEF ProviderRefuses, Failed
<1>5. CASE \E j \in Jobs : Accept(j)
  BY <1>5 DEF Accept
<1>6. CASE \E j \in Jobs : SubmitterGone(j)
  BY <1>6 DEF SubmitterGone
<1>7. CASE \E j \in Jobs : ProviderFinishes(j)
  BY <1>7 DEF ProviderFinishes
<1>8. CASE \E j \in Jobs : Webhook(j)
  BY <1>8 DEF Webhook, RecordOutput, Announceable, Undecided
<1>9. CASE \E j \in Jobs : RecoverPromotion(j)
  BY <1>9 DEF RecoverPromotion, Promotes, Promotable, Waiting, Undecided
<1>10. CASE \E j \in Jobs : ClaimLapses(j)
  BY <1>10 DEF ClaimLapses, Ingests
<1>11. CASE \E w \in Workers, j \in Jobs : PollRecovers(w, j)
  BY <1>11 DEF PollRecovers, Polls, RecordOutput, Announceable, Undecided,
         Leaves
<1>12. CASE \E w \in Workers, j \in Jobs : PollInVain(w, j)
  BY <1>12 DEF PollInVain, Polls, Leaves
<1>13. CASE \E w \in Workers, j \in Jobs : ReleasePoll(w, j)
  BY <1>13 DEF ReleasePoll, Polls, Leaves, Undecided
<1>14. CASE \E w \in Workers, j \in Jobs : GiveUp(w, j)
  BY <1>14 DEF GiveUp, Polls, Leaves, Undecided, JobFails, Waiting
<1>15. CASE \E w \in Workers, j \in Jobs : ClaimPoll(w, j)
  BY <1>15 DEF ClaimPoll, Takes, Undecided
<1>16. CASE \E w \in Workers, j \in Jobs : ClaimCandidate(w, j)
  BY <1>16 DEF ClaimCandidate, Reopens, Waiting
<1>17. CASE \E w \in Workers, j \in Jobs : CompleteCandidate(w, j)
  BY <1>17 DEF CompleteCandidate, Ingests, Goto
<1>18. CASE \E w \in Workers, j \in Jobs : Attest(w, j)
  BY <1>18 DEF Attest, Ingests, Goto
<1>19. CASE \E w \in Workers, j \in Jobs : StoreObject(w, j)
  BY <1>19 DEF StoreObject, Ingests, Goto
<1>20. CASE \E w \in Workers, j \in Jobs : Promote(w, j)
  BY <1>20 DEF Promote, Ingests, Goto, Promotes, Promotable, Waiting,
         Undecided
<1>21. CASE \E w \in Workers, j \in Jobs : IngestEnds(w, j)
  BY <1>21 DEF IngestEnds, Ingests, Leaves
<1>22. CASE \E w \in Workers, j \in Jobs : IngestFails(w, j)
  BY <1>22 DEF IngestFails, Reportable, Discard, FailRunFor, JobFails,
         Waiting, Leaves
<1>23. CASE \E w \in Workers : WorkerDies(w)
  BY <1>23 DEF WorkerDies, Leaves
<1>24. QED
  BY <1>1, <1>2, <1>3, <1>4, <1>5, <1>6, <1>7, <1>8, <1>9, <1>10, <1>11,
         <1>12, <1>13, <1>14, <1>15, <1>16, <1>17, <1>18, <1>19, <1>20, <1>21,
         <1>22, <1>23 DEF Next, Submission, Ingest, Poll

\* A run is decided together with the job that decides it.
LEMMA CauseStep ==
  ASSUME IInv, Next
  PROVE  DecidedForCause'
<1> USE DEF IInv, TypeOK, SubmissionInv, JobInv, DecidedForCause, memory,
       settlement, ingest, Requested, Submits, Offered
<1>1. CASE \E j \in Jobs : Consume(j)
  BY <1>1 DEF Consume
<1>2. CASE \E j \in Jobs : Submit(j)
  BY <1>2 DEF Submit
<1>3. CASE \E j \in Jobs : ProviderAccepts(j)
  BY <1>3 DEF ProviderAccepts
<1>4. CASE \E j \in Jobs : ProviderRefuses(j)
  BY <1>4 DEF ProviderRefuses, Failed
<1>5. CASE \E j \in Jobs : Accept(j)
  BY <1>5 DEF Accept
<1>6. CASE \E j \in Jobs : SubmitterGone(j)
  BY <1>6 DEF SubmitterGone
<1>7. CASE \E j \in Jobs : ProviderFinishes(j)
  BY <1>7 DEF ProviderFinishes
<1>8. CASE \E j \in Jobs : Webhook(j)
  BY <1>8 DEF Webhook, RecordOutput, Announceable, Undecided
<1>9. CASE \E j \in Jobs : RecoverPromotion(j)
  BY <1>9 DEF RecoverPromotion, Promotes, Promotable, Waiting, Undecided
<1>10. CASE \E j \in Jobs : ClaimLapses(j)
  BY <1>10 DEF ClaimLapses, Ingests
<1>11. CASE \E w \in Workers, j \in Jobs : PollRecovers(w, j)
  BY <1>11 DEF PollRecovers, Polls, RecordOutput, Announceable, Undecided,
         Leaves
<1>12. CASE \E w \in Workers, j \in Jobs : PollInVain(w, j)
  BY <1>12 DEF PollInVain, Polls, Leaves
<1>13. CASE \E w \in Workers, j \in Jobs : ReleasePoll(w, j)
  BY <1>13 DEF ReleasePoll, Polls, Leaves, Undecided
<1>14. CASE \E w \in Workers, j \in Jobs : GiveUp(w, j)
  BY <1>14 DEF GiveUp, Polls, Leaves, Undecided, JobFails, Waiting
<1>15. CASE \E w \in Workers, j \in Jobs : ClaimPoll(w, j)
  BY <1>15 DEF ClaimPoll, Takes, Undecided
<1>16. CASE \E w \in Workers, j \in Jobs : ClaimCandidate(w, j)
  BY <1>16 DEF ClaimCandidate, Reopens, Waiting
<1>17. CASE \E w \in Workers, j \in Jobs : CompleteCandidate(w, j)
  BY <1>17 DEF CompleteCandidate, Ingests, Goto
<1>18. CASE \E w \in Workers, j \in Jobs : Attest(w, j)
  BY <1>18 DEF Attest, Ingests, Goto
<1>19. CASE \E w \in Workers, j \in Jobs : StoreObject(w, j)
  BY <1>19 DEF StoreObject, Ingests, Goto
<1>20. CASE \E w \in Workers, j \in Jobs : Promote(w, j)
  BY <1>20 DEF Promote, Ingests, Goto, Promotes, Promotable, Waiting,
         Undecided
<1>21. CASE \E w \in Workers, j \in Jobs : IngestEnds(w, j)
  BY <1>21 DEF IngestEnds, Ingests, Leaves
<1>22. CASE \E w \in Workers, j \in Jobs : IngestFails(w, j)
  BY <1>22 DEF IngestFails, Reportable, Discard, FailRunFor, JobFails,
         Waiting, Leaves
<1>23. CASE \E w \in Workers : WorkerDies(w)
  BY <1>23 DEF WorkerDies, Leaves
<1>24. QED
  BY <1>1, <1>2, <1>3, <1>4, <1>5, <1>6, <1>7, <1>8, <1>9, <1>10, <1>11,
         <1>12, <1>13, <1>14, <1>15, <1>16, <1>17, <1>18, <1>19, <1>20, <1>21,
         <1>22, <1>23 DEF Next, Submission, Ingest, Poll

\* After the decision nothing moves a job or the run.
LEMMA QuietStep ==
  ASSUME IInv, Next
  PROVE  ~Waiting => UNCHANGED <<run, job>>
<1> USE DEF Waiting, memory, settlement, ingest, Requested, Submits, Offered
<1>1. CASE \E j \in Jobs : Consume(j)
  BY <1>1 DEF Consume
<1>2. CASE \E j \in Jobs : Submit(j)
  BY <1>2 DEF Submit
<1>3. CASE \E j \in Jobs : ProviderAccepts(j)
  BY <1>3 DEF ProviderAccepts
<1>4. CASE \E j \in Jobs : ProviderRefuses(j)
  BY <1>4 DEF ProviderRefuses, Failed
<1>5. CASE \E j \in Jobs : Accept(j)
  BY <1>5 DEF Accept
<1>6. CASE \E j \in Jobs : SubmitterGone(j)
  BY <1>6 DEF SubmitterGone
<1>7. CASE \E j \in Jobs : ProviderFinishes(j)
  BY <1>7 DEF ProviderFinishes
<1>8. CASE \E j \in Jobs : Webhook(j)
  BY <1>8 DEF Webhook, RecordOutput, Announceable, Undecided
<1>9. CASE \E j \in Jobs : RecoverPromotion(j)
  BY <1>9 DEF RecoverPromotion, Promotes, Promotable, Undecided
<1>10. CASE \E j \in Jobs : ClaimLapses(j)
  BY <1>10 DEF ClaimLapses, Ingests
<1>11. CASE \E w \in Workers, j \in Jobs : PollRecovers(w, j)
  BY <1>11 DEF PollRecovers, Polls, RecordOutput, Announceable, Undecided,
         Leaves
<1>12. CASE \E w \in Workers, j \in Jobs : PollInVain(w, j)
  BY <1>12 DEF PollInVain, Polls, Leaves
<1>13. CASE \E w \in Workers, j \in Jobs : ReleasePoll(w, j)
  BY <1>13 DEF ReleasePoll, Polls, Leaves, Undecided
<1>14. CASE \E w \in Workers, j \in Jobs : GiveUp(w, j)
  BY <1>14 DEF GiveUp, Polls, Leaves, Undecided, JobFails
<1>15. CASE \E w \in Workers, j \in Jobs : ClaimPoll(w, j)
  BY <1>15 DEF ClaimPoll, Takes, Undecided
<1>16. CASE \E w \in Workers, j \in Jobs : ClaimCandidate(w, j)
  BY <1>16 DEF ClaimCandidate, Reopens
<1>17. CASE \E w \in Workers, j \in Jobs : CompleteCandidate(w, j)
  BY <1>17 DEF CompleteCandidate, Ingests, Goto
<1>18. CASE \E w \in Workers, j \in Jobs : Attest(w, j)
  BY <1>18 DEF Attest, Ingests, Goto
<1>19. CASE \E w \in Workers, j \in Jobs : StoreObject(w, j)
  BY <1>19 DEF StoreObject, Ingests, Goto
<1>20. CASE \E w \in Workers, j \in Jobs : Promote(w, j)
  BY <1>20 DEF Promote, Ingests, Goto, Promotes, Promotable, Undecided
<1>21. CASE \E w \in Workers, j \in Jobs : IngestEnds(w, j)
  BY <1>21 DEF IngestEnds, Ingests, Leaves
<1>22. CASE \E w \in Workers, j \in Jobs : IngestFails(w, j)
  BY <1>22 DEF IngestFails, Reportable, Discard, FailRunFor, JobFails, Leaves
<1>23. CASE \E w \in Workers : WorkerDies(w)
  BY <1>23 DEF WorkerDies, Leaves
<1>24. QED
  BY <1>1, <1>2, <1>3, <1>4, <1>5, <1>6, <1>7, <1>8, <1>9, <1>10, <1>11,
         <1>12, <1>13, <1>14, <1>15, <1>16, <1>17, <1>18, <1>19, <1>20, <1>21,
         <1>22, <1>23 DEF Next, Submission, Ingest, Poll

-----------------------------------------------------------------------------
(* The invariant and what follows from it.                                  *)

\* The run that has just begun to wait satisfies it.
LEMMA Initially ==
  ASSUME Init
  PROVE  IInv
<1>1. TypeOK
  BY WaitAssumption DEF Init, TypeOK, RequestStates
<1>2. \A j \in Jobs : SubmissionInv(j) /\ OutputInv(j) /\ JobInv(j)
  BY DEF Init, SubmissionInv, OutputInv, JobInv, Failed
<1>3. (\A w \in Workers : HoldInv(w)) /\ OneIngest
  BY DEF Init, HoldInv, OneIngest
<1>4. DecidedForCause
  BY DEF Init, DecidedForCause
<1>5. QED
  BY <1>1, <1>2, <1>3, <1>4 DEF IInv

\* A stuttering step keeps it.
LEMMA Stutters ==
  ASSUME IInv, UNCHANGED vars
  PROVE  IInv'
<1>1. TypeOK'
  BY DEF IInv, TypeOK, vars
<1>2. \A j \in Jobs : SubmissionInv(j)' /\ OutputInv(j)' /\ JobInv(j)'
  BY DEF IInv, vars, SubmissionInv, OutputInv, JobInv, Waiting
<1>3. (\A w \in Workers : HoldInv(w)') /\ OneIngest'
  BY DEF IInv, vars, HoldInv, OneIngest
<1>4. DecidedForCause'
  BY DEF IInv, vars, DecidedForCause
<1>5. QED
  BY <1>1, <1>2, <1>3, <1>4 DEF IInv

\* The inductive invariant holds of every behaviour.
THEOREM WaitInvariance == Spec => []IInv
<1>1. Init => IInv
  BY Initially
<1>2. ASSUME IInv, [Next]_vars
      PROVE  IInv'
  <2>1. CASE Next
    BY <1>2, <2>1, TypeStep, SubmissionStep, OutputStep, JobStep, HoldStep,
       OneIngestStep, CauseStep DEF IInv
  <2>2. CASE UNCHANGED vars
    BY <1>2, <2>2, Stutters
  <2>3. QED
    BY <1>2, <2>1, <2>2
<1>3. QED
  BY <1>1, <1>2, PTL DEF Spec

\* Every variable keeps its type.
THEOREM WaitTypeCorrect == Spec => []TypeOK
<1>1. IInv => TypeOK
  BY DEF IInv
<1>2. QED
  BY <1>1, WaitInvariance, PTL

\* A job, its request and its asset are settled together.
THEOREM PromotionIsWholeHolds == Spec => []PromotionIsWhole
<1>1. IInv => PromotionIsWhole
  BY DEF IInv, JobInv, PromotionIsWhole
<1>2. QED
  BY <1>1, WaitInvariance, PTL

\* No request whose output has arrived is failed.
THEOREM ArrivedIsNotGivenUpHolds == Spec => []ArrivedIsNotGivenUp
<1>1. IInv => ArrivedIsNotGivenUp
  BY DEF IInv, OutputInv, ArrivedIsNotGivenUp
<1>2. QED
  BY <1>1, WaitInvariance, PTL

\* A run fails for a job beyond hope and succeeds with all of them.
THEOREM DecidedForCauseHolds == Spec => []DecidedForCause
<1>1. IInv => DecidedForCause
  BY DEF IInv
<1>2. QED
  BY <1>1, WaitInvariance, PTL

\* No run waits for an output rejected for good.
THEOREM RejectedEndsWaitHolds == Spec => []RejectedEndsWait
<1>1. IInv => RejectedEndsWait
  BY DEF IInv, JobInv, RejectedEndsWait
<1>2. QED
  BY <1>1, WaitInvariance, PTL

\* No output is ingested by two invocations at once.
THEOREM OneIngestHolds == Spec => []OneIngest
<1>1. IInv => OneIngest
  BY DEF IInv
<1>2. QED
  BY <1>1, WaitInvariance, PTL

\* What arrives after the decision changes neither run nor job.
THEOREM DecidedIsQuietHolds == Spec => DecidedIsQuiet
<1>1. ASSUME IInv, [Next]_vars
      PROVE  [~Waiting => UNCHANGED <<run, job>>]_vars
  BY <1>1, QuietStep
<1>2. QED
  BY <1>1, WaitInvariance, PTL DEF Spec, DecidedIsQuiet
=============================================================================
