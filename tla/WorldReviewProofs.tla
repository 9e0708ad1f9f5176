--------------------------- MODULE WorldReviewProofs ---------------------------
(***************************************************************************)
(* Proofs about WorldReview, for every number of anchors, uploads, requests *)
(* and runs.                                                               *)
(***************************************************************************)
EXTENDS WorldReview, TLAPS

-----------------------------------------------------------------------------
(* The inductive invariant.                                                 *)

\* A card has a version to accept, and no choice outlives its card.
CardInv == \A a \in Anchors :
  /\ card[a] = "none" => chosen[a] = None
  /\ card[a] # "none" => candidate[a] # None

\* A request that was opened is about an anchor, for good.
RequestInv == \A q \in Requests :
  IF request[q] = "unused" THEN intake[q] = "none" ELSE anchor[q] \in Anchors

\* An uploader at work is at an intake that was opened.
UploadInv == \A u \in Uploaders : place[u] # "idle" =>
  target[u] \in Requests /\ request[target[u]] # "unused"

\* A run that was created for a request delivers the anchor of that request,
\* and one that can be dispatched has an attempt left.
RunInv == \A r \in Runs :
  /\ run[r] \in {"none", "created", "queued"} => tries[r] < MaxTries
  /\ run[r] = "none" => owner[r] = None /\ todo[r] = {}
  /\ owner[r] # None =>
       request[owner[r]] # "unused" /\ todo[r] \subseteq {anchor[owner[r]]}

LinkInv == RequestInv /\ UploadInv /\ RunInv

IInv == TypeOK /\ LinkInv /\ CardInv /\ GeneratingIsQueued

-----------------------------------------------------------------------------
(* The types, but for the two flags.                                        *)

Rows ==
  /\ card \in [Anchors -> {"none", "review_required", "generating", "accepted", "blocked"}]
  /\ candidate \in [Anchors -> Nat] /\ chosen \in [Anchors -> Nat]
  /\ request \in [Requests -> {"unused", "queued", "completed", "superseded"}]
  /\ anchor \in [Requests -> Anchors \cup {NoAnchor}]
  /\ prior \in [Requests -> Nat]
  /\ bound \in [Requests -> 0..MaxRuns]
  /\ intake \in [Requests -> {"none", "registered", "scanning", "promoted", "rejected"}]
  /\ run \in [Runs -> {"none", "created", "queued", "running", "waiting_external",
                       "succeeded", "failed"}]
  /\ tries \in [Runs -> 0..MaxTries]
  /\ owner \in [Runs -> 0..MaxRequests]
  /\ scope \in [Runs -> SUBSET Anchors] /\ todo \in [Runs -> SUBSET Anchors]
  /\ place \in [Uploaders -> {"idle", "prepared", "scanning"}]
  /\ target \in [Uploaders -> 0..MaxRequests]
  /\ pack \in [Anchors -> Nat] /\ plan \in [Anchors -> Nat]

Flags == passed \in BOOLEAN /\ locked \in BOOLEAN

LEMMA TypeParts == /\ TypeOK <=> Rows /\ Flags
                   /\ TypeOK' <=> Rows' /\ Flags'
BY DEF TypeOK, Rows, Flags

LEMMA Initially == Init => IInv
<1> SUFFICES ASSUME Init PROVE IInv
  OBVIOUS
<1>1. Rows
  BY ReviewAssumption DEF Init, Rows, Requests, Runs, None, Nothing
<1>2. Flags
  BY Zenon DEF Init, Flags
<1>3. CardInv /\ UploadInv /\ GeneratingIsQueued
  BY DEF Init, CardInv, UploadInv, GeneratingIsQueued
<1>4. RequestInv /\ RunInv
  BY ReviewAssumption DEF Init, RequestInv, RunInv, None
<1> QED BY <1>1, <1>2, <1>3, <1>4, TypeParts DEF IInv, LinkInv

LEMMA Stutters == IInv /\ UNCHANGED vars => IInv'
<1> USE DEF vars, cards, requests, lane, uploads, release
<1>1. TypeOK /\ UNCHANGED vars => TypeOK'
  BY DEF TypeOK
<1>2. IInv /\ UNCHANGED vars => LinkInv' /\ CardInv'
  BY DEF IInv, LinkInv, CardInv, RequestInv, UploadInv, RunInv
<1>3. GeneratingIsQueued /\ UNCHANGED vars => GeneratingIsQueued'
  BY DEF GeneratingIsQueued, Queued
<1> QED BY <1>1, <1>2, <1>3 DEF IInv

LEMMA Ranges ==
  /\ None \in 0..MaxRequests /\ None \in 0..MaxRuns /\ None \in Nat /\ None \notin Requests
  /\ Requests \subseteq 0..MaxRequests /\ Runs \subseteq 0..MaxRuns
  /\ \A q \in 0..MaxRequests : q # None => q \in Requests
  /\ \A k \in 0..MaxTries : k < MaxTries => k + 1 \in 0..MaxTries
  /\ \A k \in Nat : k + 1 \in Nat /\ k + 1 # None
BY ReviewAssumption DEF None, Requests, Runs

LEMMA FlagsStep == ASSUME Flags, Next PROVE Flags'
<1>1. locked' = TRUE \/ locked' = locked
  BY DEF Next, Review, Upload, Run, Accept, Recast, UploadScans, UploadCompletes, UploadFails,
         UploaderLeaves, UploadReplays, UploadPrepares, Build, Creates, Enqueue, Dispatch,
         AttemptFails, PrepareBuild, PrepareRecast, Prepares, RejectOutput, Reconcile,
         CreateRecast, BindRecast, Promote, TickPasses, RecordPack, PlanPasses, Lock, release
<1>2. passed' = TRUE \/ passed' = FALSE \/ passed' = passed
  BY DEF Next, Review, Upload, Run, Accept, Recast, UploadScans, UploadCompletes, UploadFails,
         UploaderLeaves, UploadReplays, UploadPrepares, Build, Creates, Enqueue, Dispatch,
         AttemptFails, PrepareBuild, PrepareRecast, Prepares, RejectOutput, Reconcile,
         CreateRecast, BindRecast, Promote, TickPasses, RecordPack, PlanPasses, Lock
<1> QED BY <1>1, <1>2, Zenon DEF Flags

LEMMA RowsStep == ASSUME Rows, LinkInv, Next PROVE Rows'
<1> USE Ranges
    DEF Rows, LinkInv, RequestInv, UploadInv, RunInv, Nothing,
        cards, requests, lane, uploads, release, Opens, Records, Open, Starts, Ends
<1>1. ASSUME NEW a \in Anchors, Accept(a) PROVE Rows'
  BY <1>1 DEF Accept
<1>2. ASSUME NEW a \in Anchors, NEW q \in Requests, Recast(a, q) PROVE Rows'
  BY <1>2 DEF Recast
<1>3. ASSUME NEW u \in Uploaders, UploadScans(u) PROVE Rows'
  BY <1>3 DEF UploadScans
<1>4. ASSUME NEW u \in Uploaders, UploadCompletes(u) PROVE Rows'
  BY <1>4 DEF UploadCompletes
<1>5. ASSUME NEW u \in Uploaders, UploadFails(u) PROVE Rows'
  <2>1. Rows
    OBVIOUS
  <2>2. card' \in [Anchors -> {"none", "review_required", "generating", "accepted", "blocked"}]
    BY <1>5, <2>1 DEF UploadFails, Rejects
  <2>3. /\ request' \in [Requests -> {"unused", "queued", "completed", "superseded"}]
        /\ intake' \in [Requests -> {"none", "registered", "scanning", "promoted", "rejected"}]
    <3>1. CASE Open(target[u])
      BY <1>5, <2>1, <3>1 DEF UploadFails, Rejects
    <3>2. CASE ~Open(target[u])
      BY <1>5, <2>1, <3>2 DEF UploadFails
    <3> QED BY <3>1, <3>2
  <2>4. /\ place' \in [Uploaders -> {"idle", "prepared", "scanning"}]
        /\ target' \in [Uploaders -> 0..MaxRequests]
        /\ UNCHANGED <<candidate, chosen, anchor, prior, bound, lane, passed, release>>
    BY <1>5, <2>1 DEF UploadFails
  <2> QED BY <2>1, <2>2, <2>3, <2>4
<1>6. ASSUME NEW u \in Uploaders, UploaderLeaves(u) PROVE Rows'
  BY <1>6 DEF UploaderLeaves
<1>7. ASSUME NEW u \in Uploaders, NEW q \in Requests, UploadReplays(u, q) PROVE Rows'
  BY <1>7 DEF UploadReplays
<1>8. ASSUME NEW u \in Uploaders, NEW a \in Anchors, NEW q \in Requests,
             UploadPrepares(u, a, q)
      PROVE  Rows'
  BY <1>8 DEF UploadPrepares
<1>9. ASSUME NEW r \in Runs, Build(r) PROVE Rows'
  BY <1>9 DEF Build, Creates
<1>10. ASSUME NEW r \in Runs, Enqueue(r) PROVE Rows'
  BY <1>10 DEF Enqueue
<1>11. ASSUME NEW r \in Runs, Dispatch(r) PROVE Rows'
  BY <1>11 DEF Dispatch
<1>12. ASSUME NEW r \in Runs, AttemptFails(r) PROVE Rows'
  BY <1>12 DEF AttemptFails
<1>13. ASSUME NEW r \in Runs, PrepareBuild(r) PROVE Rows'
  BY <1>13 DEF PrepareBuild, Prepares
<1>14. ASSUME NEW r \in Runs, PrepareRecast(r) PROVE Rows'
  BY <1>14 DEF PrepareRecast, Prepares
<1>15. ASSUME NEW r \in Runs, RejectOutput(r) PROVE Rows'
  BY <1>15 DEF RejectOutput
<1>16. ASSUME NEW r \in Runs, Reconcile(r) PROVE Rows'
  BY <1>16 DEF Reconcile
<1>17. ASSUME NEW r \in Runs, NEW q \in Requests, CreateRecast(r, q) PROVE Rows'
  BY <1>17 DEF CreateRecast, Creates
<1>18. ASSUME NEW r \in Runs, NEW q \in Requests, BindRecast(r, q) PROVE Rows'
  BY <1>18 DEF BindRecast
<1>19. ASSUME NEW r \in Runs, NEW a \in Anchors, Promote(r, a) PROVE Rows'
  BY <1>19 DEF Promote
<1>20. CASE TickPasses BY <1>20 DEF TickPasses
<1>21. CASE RecordPack BY <1>21 DEF RecordPack
<1>22. CASE PlanPasses BY <1>22 DEF PlanPasses
<1>23. CASE Lock BY <1>23 DEF Lock
<1> QED BY <1>1, <1>2, <1>3, <1>4, <1>5, <1>6, <1>7, <1>8, <1>9, <1>10, <1>11, <1>12,
           <1>13, <1>14, <1>15, <1>16, <1>17, <1>18, <1>19, <1>20, <1>21, <1>22, <1>23
        DEF Next, Review, Upload, Run

LEMMA LinkStep == ASSUME Rows, LinkInv, Next PROVE LinkInv'
<1> USE Ranges
    DEF Rows, LinkInv, RequestInv, UploadInv, RunInv, Nothing,
        cards, requests, lane, uploads, release, Opens, Records, Open, Starts, Ends
<1>1. ASSUME NEW a \in Anchors, Accept(a) PROVE LinkInv'
  BY <1>1 DEF Accept
<1>2. ASSUME NEW a \in Anchors, NEW q \in Requests, Recast(a, q) PROVE LinkInv'
  BY <1>2 DEF Recast
<1>3. ASSUME NEW u \in Uploaders, UploadScans(u) PROVE LinkInv'
  BY <1>3 DEF UploadScans
<1>4. ASSUME NEW u \in Uploaders, UploadCompletes(u) PROVE LinkInv'
  BY <1>4 DEF UploadCompletes
<1>5. ASSUME NEW u \in Uploaders, UploadFails(u) PROVE LinkInv'
  BY <1>5 DEF UploadFails, Rejects
<1>6. ASSUME NEW u \in Uploaders, UploaderLeaves(u) PROVE LinkInv'
  BY <1>6 DEF UploaderLeaves
<1>7. ASSUME NEW u \in Uploaders, NEW q \in Requests, UploadReplays(u, q) PROVE LinkInv'
  BY <1>7 DEF UploadReplays
<1>8. ASSUME NEW u \in Uploaders, NEW a \in Anchors, NEW q \in Requests,
             UploadPrepares(u, a, q)
      PROVE  LinkInv'
  BY <1>8 DEF UploadPrepares
<1>9. ASSUME NEW r \in Runs, Build(r) PROVE LinkInv'
  BY <1>9 DEF Build, Creates, FirstUnused
<1>10. ASSUME NEW r \in Runs, Enqueue(r) PROVE LinkInv'
  BY <1>10 DEF Enqueue
<1>11. ASSUME NEW r \in Runs, Dispatch(r) PROVE LinkInv'
  BY <1>11 DEF Dispatch
<1>12. ASSUME NEW r \in Runs, AttemptFails(r) PROVE LinkInv'
  BY <1>12 DEF AttemptFails
<1>13. ASSUME NEW r \in Runs, PrepareBuild(r) PROVE LinkInv'
  BY <1>13 DEF PrepareBuild, Prepares
<1>14. ASSUME NEW r \in Runs, PrepareRecast(r) PROVE LinkInv'
  BY <1>14 DEF PrepareRecast, Prepares
<1>15. ASSUME NEW r \in Runs, RejectOutput(r) PROVE LinkInv'
  BY <1>15 DEF RejectOutput
<1>16. ASSUME NEW r \in Runs, Reconcile(r) PROVE LinkInv'
  BY <1>16 DEF Reconcile
<1>17. ASSUME NEW r \in Runs, NEW q \in Requests, CreateRecast(r, q) PROVE LinkInv'
  BY <1>17 DEF CreateRecast, Creates, FirstUnused, Ensurable
<1>18. ASSUME NEW r \in Runs, NEW q \in Requests, BindRecast(r, q) PROVE LinkInv'
  BY <1>18 DEF BindRecast
<1>19. ASSUME NEW r \in Runs, NEW a \in Anchors, Promote(r, a) PROVE LinkInv'
  BY <1>19 DEF Promote
<1>20. CASE TickPasses BY <1>20 DEF TickPasses
<1>21. CASE RecordPack BY <1>21 DEF RecordPack
<1>22. CASE PlanPasses BY <1>22 DEF PlanPasses
<1>23. CASE Lock BY <1>23 DEF Lock
<1> QED BY <1>1, <1>2, <1>3, <1>4, <1>5, <1>6, <1>7, <1>8, <1>9, <1>10, <1>11, <1>12,
           <1>13, <1>14, <1>15, <1>16, <1>17, <1>18, <1>19, <1>20, <1>21, <1>22, <1>23
        DEF Next, Review, Upload, Run

-----------------------------------------------------------------------------
(* What a step does to the cards and to the requests behind them.           *)

Answers(a, q) ==
  /\ Records(a, q) /\ UNCHANGED <<anchor, prior>>
  /\ q # None => q \in Requests /\ anchor[q] = a

Withdraws(q) ==
  /\ Rejects(q) /\ anchor[q] \in Anchors /\ UNCHANGED <<candidate, chosen, anchor, prior>>

Retires ==
  /\ \A a \in Anchors : \/ card'[a] = "none" /\ chosen'[a] = None
                        \/ card'[a] = card[a] /\ chosen'[a] = chosen[a]
  /\ UNCHANGED <<candidate, request, anchor, prior>>

LEMMA CardSteps ==
  ASSUME Rows, LinkInv, Next
  PROVE  \/ UNCHANGED <<cards, request, anchor, prior>>
         \/ \E a \in Anchors : Accept(a)
         \/ \E a \in Anchors, q \in Requests, i \in {"none", "registered"} : Opens(a, q, i)
         \/ \E a \in Anchors, q \in 0..MaxRequests : Answers(a, q)
         \/ \E q \in Requests : Withdraws(q)
         \/ Retires
<1> USE DEF cards, requests
<1>1. CASE \E a \in Anchors : Review(a)
  BY <1>1 DEF Review, Recast
<1>2. ASSUME NEW u \in Uploaders, Upload(u), ~UNCHANGED <<cards, request, anchor, prior>>
      PROVE  \/ \E a \in Anchors, q \in Requests : Opens(a, q, "registered")
             \/ \E a \in Anchors, q \in 0..MaxRequests : Answers(a, q)
             \/ \E q \in Requests : Withdraws(q)
  <2>1. CASE UploadCompletes(u)
    <3>1. target[u] \in Requests /\ anchor[target[u]] \in Anchors
      BY <2>1 DEF UploadCompletes, LinkInv, UploadInv, RequestInv
    <3> QED BY <2>1, <3>1, Ranges DEF UploadCompletes, Answers
  <2>2. CASE UploadFails(u)
    <3>1. Open(target[u])
      BY <1>2, <2>2 DEF UploadFails
    <3>2. target[u] \in Requests /\ anchor[target[u]] \in Anchors
      BY <2>2 DEF UploadFails, LinkInv, UploadInv, RequestInv
    <3> QED BY <2>2, <3>1, <3>2 DEF UploadFails, Withdraws
  <2>3. CASE \E q \in Requests, a \in Anchors : UploadPrepares(u, a, q)
    BY <2>3 DEF UploadPrepares
  <2>4. ~UploadScans(u) /\ ~UploaderLeaves(u) /\ \A q \in Requests : ~UploadReplays(u, q)
    BY <1>2 DEF UploadScans, UploaderLeaves, UploadReplays
  <2> QED BY <1>2, <2>1, <2>2, <2>3, <2>4 DEF Upload
<1>3. ASSUME NEW r \in Runs, Run(r), ~UNCHANGED <<cards, request, anchor, prior>>
      PROVE  \/ \E a \in Anchors, q \in 0..MaxRequests : Answers(a, q)
             \/ Retires
  <2>1. CASE \E a \in Anchors : Promote(r, a)
    <3>1. PICK a \in Anchors : Promote(r, a)
      BY <2>1
    <3>2. owner[r] \in 0..MaxRequests /\ (owner[r] # None => anchor[owner[r]] = a)
      BY <3>1 DEF Promote, LinkInv, RunInv, Rows
    <3> QED BY <3>1, <3>2, Ranges DEF Promote, Answers
  <2>2. CASE Reconcile(r)
    BY <2>2 DEF Reconcile, Retires, Rows
  <2>3. /\ ~Build(r) /\ ~Enqueue(r) /\ ~Dispatch(r) /\ ~AttemptFails(r) /\ ~PrepareBuild(r)
        /\ ~PrepareRecast(r) /\ ~RejectOutput(r)
        /\ \A q \in Requests : ~CreateRecast(r, q) /\ ~BindRecast(r, q)
    BY <1>3 DEF Build, Creates, Enqueue, Dispatch, AttemptFails, PrepareBuild, PrepareRecast,
                Prepares, RejectOutput, CreateRecast, BindRecast
  <2> QED BY <1>3, <2>1, <2>2, <2>3 DEF Run
<1>4. CASE TickPasses \/ RecordPack \/ PlanPasses \/ Lock
  BY <1>4 DEF TickPasses, RecordPack, PlanPasses, Lock
<1> QED BY <1>1, <1>2, <1>3, <1>4 DEF Next

LEMMA CardStep == ASSUME IInv, Next PROVE CardInv'
<1> USE Ranges DEF CardInv, Rows, cards
<1>1. Rows /\ LinkInv /\ CardInv
  BY TypeParts DEF IInv
<1>2. CASE UNCHANGED <<cards, request, anchor, prior>>
  BY <1>1, <1>2
<1>3. ASSUME NEW a \in Anchors, Accept(a) PROVE CardInv'
  BY <1>1, <1>3 DEF Accept
<1>4. ASSUME NEW a \in Anchors, NEW q \in Requests, NEW i, Opens(a, q, i) PROVE CardInv'
  BY <1>1, <1>4 DEF Opens
<1>5. ASSUME NEW a \in Anchors, NEW q, Answers(a, q) PROVE CardInv'
  BY <1>1, <1>5 DEF Answers, Records
<1>6. ASSUME NEW q \in Requests, Withdraws(q) PROVE CardInv'
  BY <1>1, <1>6 DEF Withdraws, Rejects
<1>7. CASE Retires
  BY <1>1, <1>7 DEF Retires
<1> QED BY <1>1, <1>2, <1>3, <1>4, <1>5, <1>6, <1>7, CardSteps

LEMMA GeneratingStep == ASSUME IInv, Next PROVE GeneratingIsQueued'
<1> USE Ranges DEF GeneratingIsQueued, Queued, Rows, cards
<1>1. Rows /\ LinkInv /\ GeneratingIsQueued
  BY TypeParts DEF IInv
<1>2. CASE UNCHANGED <<cards, request, anchor, prior>>
  BY <1>1, <1>2
<1>3. ASSUME NEW a \in Anchors, Accept(a) PROVE GeneratingIsQueued'
  BY <1>1, <1>3 DEF Accept, requests
<1>4. ASSUME NEW a \in Anchors, NEW q \in Requests, NEW i, Opens(a, q, i)
      PROVE  GeneratingIsQueued'
  BY <1>1, <1>4 DEF Opens
<1>5. ASSUME NEW a \in Anchors, NEW q, Answers(a, q) PROVE GeneratingIsQueued'
  BY <1>1, <1>5 DEF Answers, Records
<1>6. ASSUME NEW q \in Requests, Withdraws(q) PROVE GeneratingIsQueued'
  BY <1>1, <1>6 DEF Withdraws, Rejects
<1>7. CASE Retires
  BY <1>1, <1>7 DEF Retires
<1> QED BY <1>1, <1>2, <1>3, <1>4, <1>5, <1>6, <1>7, CardSteps

LEMMA Steps == IInv /\ [Next]_vars => IInv'
<1>1. ASSUME IInv, Next PROVE IInv'
  <2>1. Rows /\ Flags /\ LinkInv
    BY <1>1, TypeParts DEF IInv
  <2> QED BY <1>1, <2>1, TypeParts, RowsStep, FlagsStep, LinkStep, CardStep, GeneratingStep
          DEF IInv
<1> QED BY <1>1, Stutters

-----------------------------------------------------------------------------
(* The theorems.                                                            *)

\* The inductive invariant of the review of a World: its cards, its requests
\* for replacements and its uploads agree after every step.
THEOREM ReviewInvariance == Spec => []IInv
BY Initially, Steps, PTL DEF Spec

\* Every row of the review keeps its type.
THEOREM ReviewTypeCorrect == Spec => []TypeOK
<1>1. IInv => TypeOK
  BY DEF IInv
<1> QED BY <1>1, ReviewInvariance, PTL

\* No card waits for a replacement that nobody has been asked for.
THEOREM GeneratingIsQueuedHolds == Spec => []GeneratingIsQueued
<1>1. IInv => GeneratingIsQueued
  BY DEF IInv
<1> QED BY <1>1, ReviewInvariance, PTL

\* Only an answer the owner asked for reopens an accepted card.
THEOREM AcceptedIsKeptHolds == Spec => AcceptedIsKept
<1> DEFINE Kept == \A a \in Anchors : card[a] = "accepted" /\ card'[a] \notin {"accepted", "none"} =>
       /\ ~locked
       /\ \E q \in Requests : Queued(q, a) \/ Queued(q, a)'
<1>1. ASSUME IInv, Next PROVE Kept
  <2> USE Ranges DEF Queued, Rows, cards
  <2>1. Rows /\ LinkInv
    BY <1>1, TypeParts DEF IInv
  <2>2. CASE UNCHANGED <<cards, request, anchor, prior>>
    BY <2>2
  <2>3. ASSUME NEW a \in Anchors, Accept(a) PROVE Kept
    BY <2>1, <2>3 DEF Accept
  <2>4. ASSUME NEW a \in Anchors, NEW q \in Requests, NEW i, Opens(a, q, i) PROVE Kept
    BY <2>1, <2>4 DEF Opens
  <2>5. ASSUME NEW a \in Anchors, NEW q, Answers(a, q) PROVE Kept
    BY <2>1, <2>5 DEF Answers, Records, Replaceable
  <2>6. ASSUME NEW q \in Requests, Withdraws(q) PROVE Kept
    BY <2>1, <2>6 DEF Withdraws, Rejects
  <2>7. CASE Retires
    BY <2>7 DEF Retires
  <2> QED BY <1>1, <2>1, <2>2, <2>3, <2>4, <2>5, <2>6, <2>7, CardSteps
<1>2. IInv /\ [Next]_vars => [Kept]_vars
  BY <1>1
<1> QED BY <1>2, ReviewInvariance, PTL DEF Spec, AcceptedIsKept

\* The choice of an anchor lasts as long as its card.
THEOREM ChoiceIsKeptHolds == Spec => ChoiceIsKept
<1> DEFINE Kept == \A a \in Anchors : chosen[a] # None /\ chosen'[a] = None => card'[a] = "none"
<1>1. ASSUME IInv, Next PROVE Kept
  <2> USE Ranges DEF CardInv, Rows, cards
  <2>1. Rows /\ LinkInv /\ CardInv
    BY <1>1, TypeParts DEF IInv
  <2>2. CASE UNCHANGED <<cards, request, anchor, prior>>
    BY <2>2
  <2>3. ASSUME NEW a \in Anchors, Accept(a) PROVE Kept
    BY <2>1, <2>3 DEF Accept
  <2>4. ASSUME NEW a \in Anchors, NEW q \in Requests, NEW i, Opens(a, q, i) PROVE Kept
    BY <2>1, <2>4 DEF Opens
  <2>5. ASSUME NEW a \in Anchors, NEW q, Answers(a, q) PROVE Kept
    BY <2>1, <2>5 DEF Answers, Records, Replaceable, Queued
  <2>6. ASSUME NEW q \in Requests, Withdraws(q) PROVE Kept
    BY <2>6 DEF Withdraws
  <2>7. CASE Retires
    BY <2>7 DEF Retires
  <2> QED BY <1>1, <2>1, <2>2, <2>3, <2>4, <2>5, <2>6, <2>7, CardSteps
<1>2. IInv /\ [Next]_vars => [Kept]_vars
  BY <1>1
<1> QED BY <1>2, ReviewInvariance, PTL DEF Spec, ChoiceIsKept
=============================================================================
